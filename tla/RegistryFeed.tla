---------------------------- MODULE RegistryFeed ----------------------------
(***************************************************************************)
(* What registry sync promises Hauzer about the snapshots it is sent:      *)
(*                                                                         *)
(*   - one snapshot is in flight at a time;                                *)
(*   - each registry in it is as Home Assistant had it at the stamp of the *)
(*     snapshot (generated_at) or at a later moment of the same read,      *)
(*     never as it was before the stamp.                                   *)
(*                                                                         *)
(* So of two snapshots the one with the later stamp is nowhere older, and  *)
(* Hauzer may order by the stamps what reaches it late.  The registries of *)
(* one snapshot need not be of one moment.  RegistrySync implements this   *)
(* module.                                                                 *)
(***************************************************************************)
EXTENDS Integers

CONSTANTS
  Indices,    \* the registries
  None        \* no snapshot

VARIABLES
  source,     \* source[i]: the version of registry i at Home Assistant
  reading,    \* a read is under way
  stamp,      \* stamp[i]: the version at the stamp of the read under way
  sending     \* the snapshot in flight

vars == <<source, reading, stamp, sending>>

Content == [Indices -> Nat]
Unstamped == [i \in Indices |-> 0]

\* Every registry of a is at least as new as in b.
AtLeast(a, b) == \A i \in Indices : b[i] <= a[i]

Init ==
  /\ source \in Content
  /\ reading = FALSE
  /\ stamp = Unstamped
  /\ sending = None

Change ==
  /\ source' \in Content
  /\ AtLeast(source', source)
  /\ UNCHANGED <<reading, stamp, sending>>

Begin ==
  /\ ~reading
  /\ sending = None
  /\ reading' = TRUE
  /\ stamp' = source
  /\ UNCHANGED <<source, sending>>

EndRead ==
  /\ reading
  /\ reading' = FALSE
  /\ stamp' = Unstamped
  /\ UNCHANGED source

GiveUp == EndRead /\ UNCHANGED sending

Send ==
  /\ EndRead
  /\ sending = None
  /\ sending' \in Content
  /\ AtLeast(sending', stamp)
  /\ AtLeast(source, sending')

Finish ==
  /\ sending # None
  /\ sending' = None
  /\ UNCHANGED <<source, reading, stamp>>

Next == Change \/ Begin \/ GiveUp \/ Send \/ Finish

Spec == Init /\ [][Next]_vars

=============================================================================
