--------------------------- MODULE MCExporterMain ---------------------------
(***************************************************************************)
(* An instance of the process for TLC: options that are accepted, and for  *)
(* each field those that are refused for it alone.                         *)
(***************************************************************************)
EXTENDS ExporterMain

Hours(type, value) == [type |-> type, value |-> value]

Defaults ==
  [hauzer_url |-> "http", hauzer_token |-> "valid", hauzer_host_ip |-> "private",
   verify_tls |-> "bool", initial_backfill_hours |-> Hours("int", 168),
   registry_sync |-> "true", supervisor_token |-> "set", overrides |-> "blank",
   run_once |-> FALSE]

MCOptionSets ==
  {Defaults} \cup
  {[Defaults EXCEPT !.hauzer_url = url] : url \in {"no hostname", "other scheme"}} \cup
  {[Defaults EXCEPT !.hauzer_token = "malformed"]} \cup
  {[Defaults EXCEPT !.hauzer_host_ip = ip] : ip \in {"blank", "public"}} \cup
  {[Defaults EXCEPT !.initial_backfill_hours = hours] :
     hours \in {Hours("int", 0), Hours("int", 720), Hours("int", 721), Hours("bool", 1)}} \cup
  {[Defaults EXCEPT !.registry_sync = "false"]} \cup
  {[Defaults EXCEPT !.run_once = TRUE]} \cup
  {[Defaults EXCEPT !.overrides = "unsafe id"]}

MCHostFiles ==
  {[lines |-> <<"localhost">>, ended |-> TRUE], [lines |-> <<"localhost">>, ended |-> FALSE],
   [lines |-> <<>>, ended |-> FALSE]}

=============================================================================
