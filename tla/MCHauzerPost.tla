---------------------------- MODULE MCHauzerPost ----------------------------
(***************************************************************************)
(* The attempt loop with the delays of the code and Retry-After headers at *)
(* both ends of the accepted range and one beyond it.                      *)
(***************************************************************************)
EXTENDS HauzerPost

MCRetryDelays == <<1, 5, 15>>
MCHeaders == {0, 300, 301}

=============================================================================
