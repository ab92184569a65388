------------------------------ MODULE Delivery ------------------------------
(***************************************************************************)
(* What one delivery to Hauzer promises its caller, whoever the caller is: *)
(* the import loop (HauzerClient.post_batch) or the registry's delivery    *)
(* thread (HauzerClient.post_registry).  The caller hands over one payload *)
(* and gets back one answer.                                               *)
(*                                                                         *)
(*   - "acknowledged" is returned only for a payload Hauzer has taken;     *)
(*   - "failed" says nothing: Hauzer may have taken the payload already,   *)
(*     and may still take it after the caller has moved on;                *)
(*   - Hauzer takes the payload at most MaxCopies times;                   *)
(*   - the call always returns.                                            *)
(*                                                                         *)
(* HauzerPost implements this module; ImportService and RegistrySync use   *)
(* nothing else about a delivery.                                          *)
(***************************************************************************)
EXTENDS Naturals

CONSTANT MaxCopies

VARIABLES
  phase,    \* where the call stands
  copies    \* how often Hauzer has taken the payload

vars == <<phase, copies>>

Phases == {"idle", "pending", "acknowledged", "failed"}

Init == phase = "idle" /\ copies = 0

Start ==
  /\ phase = "idle"
  /\ phase' = "pending"
  /\ UNCHANGED copies

Take ==
  /\ phase # "idle"
  /\ copies < MaxCopies
  /\ copies' = copies + 1
  /\ UNCHANGED phase

Acknowledge ==
  /\ phase = "pending"
  /\ copies > 0
  /\ phase' = "acknowledged"
  /\ UNCHANGED copies

Fail ==
  /\ phase = "pending"
  /\ phase' = "failed"
  /\ UNCHANGED copies

Next == Start \/ Take \/ Acknowledge \/ Fail

SafeSpec == Init /\ [][Next]_vars

Spec == SafeSpec /\ WF_vars(Acknowledge \/ Fail)

=============================================================================
