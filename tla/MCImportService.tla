-------------------------- MODULE MCImportService --------------------------
(***************************************************************************)
(* Instances of the import for TLC.                                        *)
(***************************************************************************)
EXTENDS ImportProperties, TLC

KeySymmetry == Permutations(Keys)

\* A row without a sum, say, whose reading has neither a value nor a delta.
OneRejected == {CHOOSE k \in Keys : TRUE} \X {1}

=============================================================================
