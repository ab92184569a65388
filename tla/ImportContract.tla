--------------------------- MODULE ImportContract ---------------------------
(***************************************************************************)
(* What the import promises whoever relies on its state file, whatever     *)
(* cycles, batches, replays, crashes and restarts it takes:                *)
(*                                                                         *)
(*   - Hauzer takes only readings of slots the recorder had been read      *)
(*     past, and keeps them;                                               *)
(*   - the file is changed only to promise slots that are settled: Hauzer  *)
(*     has taken them, they were recorded too late, or there was nothing   *)
(*     to send;                                                            *)
(*   - a loss of power brings back the promise that was flushed last, or   *)
(*     leaves the one in the file, and nothing between or besides.         *)
(*                                                                         *)
(* Delivery is at least once: a slot may be taken again at any time, by a  *)
(* replay or a resent batch.  ImportService implements this module.        *)
(***************************************************************************)
EXTENDS Integers

CONSTANTS
  Keys,       \* the mappings
  Slots       \* five-minute slots

VARIABLES
  recorded,   \* recorded[k]: the slots the recorder has a row for
  received,   \* received[k]: the slots Hauzer has taken
  late,       \* late[k]: slots recorded after they had been read past
  horizon,    \* the slot up to which the recorder has been read
  promised,   \* what the file says need not be sent, as <<key, slot>>
  fallback    \* what it would say after a loss of power

vars == <<recorded, received, late, horizon, promised, fallback>>

Nothing == [k \in Keys |-> {}]

Settled(k, s) ==
  /\ s < horizon
  /\ s \in recorded[k] => s \in received[k] \cup late[k]

Init ==
  /\ recorded \in [Keys -> SUBSET Slots]
  /\ received = Nothing
  /\ late = Nothing
  /\ horizon \in Int
  /\ \A s \in Slots : horizon <= s
  /\ promised = {}
  /\ fallback = {}

Record(k, s) ==
  /\ s \notin recorded[k]
  /\ recorded' = [recorded EXCEPT ![k] = @ \cup {s}]
  /\ late' = IF s < horizon THEN [late EXCEPT ![k] = @ \cup {s}] ELSE late
  /\ UNCHANGED <<received, horizon, promised, fallback>>

Read ==
  /\ horizon' \in Int
  /\ horizon' > horizon
  /\ UNCHANGED <<recorded, received, late, promised, fallback>>

\* Hauzer has taken some more of what was read, or nothing.
SomeTaken ==
  \A k \in Keys :
    /\ received[k] \subseteq received'[k]
    /\ \A s \in received'[k] \ received[k] : s \in recorded[k] /\ s < horizon

Deliver ==
  /\ SomeTaken
  /\ UNCHANGED <<recorded, late, horizon, promised, fallback>>

Save ==
  /\ promised' \subseteq {p \in Keys \X Slots : Settled(p[1], p[2])}
  /\ UNCHANGED <<recorded, received, late, horizon, fallback>>

Flush ==
  /\ fallback' = promised
  /\ UNCHANGED <<recorded, received, late, horizon, promised>>

\* A batch may be under way when the power goes.
Lose ==
  /\ promised' = fallback
  /\ SomeTaken
  /\ UNCHANGED <<recorded, late, horizon, fallback>>

Next ==
  \/ \E k \in Keys, s \in Slots : Record(k, s)
  \/ Read \/ Deliver \/ Save \/ Flush \/ Lose

Spec == Init /\ [][Next]_vars

-----------------------------------------------------------------------------
(***************************************************************************)
(* What every spec of this form keeps: a promise, also one a loss of power *)
(* would bring back, is about slots that are settled (run_cycle saves      *)
(* window_end only when all batches were taken).                           *)
(***************************************************************************)
PromisesKept == \A p \in promised \cup fallback : Settled(p[1], p[2])

=============================================================================
