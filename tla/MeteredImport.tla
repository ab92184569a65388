--------------------------- MODULE MeteredImport ---------------------------
(***************************************************************************)
(* The import with what its readings count.  ImportService says which      *)
(* slots are sent; here every reading also carries the slot its delta      *)
(* counts from: the delta of slot t that counts from p is the growth of    *)
(* the sum from the row of p to the row of t, what slots p + 1 to t used.  *)
(* Hauzer keeps the last copy it took of a reading.                        *)
(***************************************************************************)
EXTENDS ImportProperties

VARIABLES
  from,     \* from[r]: the slot the delta of reading r of todo counts from
  held      \* held[k][t]: the slot Hauzer's reading of slot t counts from

meters == <<from, held>>
meteredVars == <<vars, meters>>

\* Mutant: the recorder is asked for the window only.
WindowRows(k) == rows[k] \cap Window

\* The rows run_cycle asks for: one period more than the window it will send.
FetchedRows(k) == rows[k] \cap (WindowStart - 1 .. wend - 1)

\* Mutant: previous_sum stays the sum of the first row.
CountsFromFirst(k, t, p) ==
  LET earlier == {s \in FetchedRows(k) : s < t} IN
  IF earlier = {} THEN p = t ELSE p \in earlier /\ \A s \in earlier : p <= s

\* previous_sum is the sum of the row before; without one the delta is zero.
CountsFrom(k, t, p) ==
  LET earlier == {s \in FetchedRows(k) : s < t} IN
  IF earlier = {} THEN p = t ELSE p \in earlier /\ \A s \in earlier : s <= p

Measure ==
  from' \in {f \in [todo' -> SlotRange] : \A r \in todo' : CountsFrom(r[1], r[2], f[r])}

KeepMeasures == from' = [r \in todo' |-> from[r]]

Overwrite ==
  held' = [k \in Keys |->
             [t \in received'[k] |-> IF <<k, t>> \in batch THEN from[<<k, t>>] ELSE held[k][t]]]

-----------------------------------------------------------------------------
MeteredInit ==
  /\ Init
  /\ from = [r \in {} |-> 0]
  /\ held = [k \in Keys |-> [t \in {} |-> 0]]

MeasuredFetch == Fetch /\ Measure /\ held' = held

BatchHeld == BatchAcknowledged /\ KeepMeasures /\ Overwrite

\* A delivery that ends in an error or a crash: taken as a whole or not at all.
BatchInDoubt ==
  /\ BatchFails \/ Crash
  /\ KeepMeasures
  /\ \/ Take(batch) /\ Overwrite
     \/ received' = received /\ held' = held

\* Every other step: readings are neither built nor delivered.
Unmetered ==
  /\ \/ BeginCycle \/ Discover \/ DiscoverNothing \/ NothingCompleted \/ HoldBack \/ NoReadings
     \/ PostBatch \/ PostStopped \/ BatchRejected
     \/ WriteTemporary \/ FlushTemporary \/ ReplaceFile
     \/ HomeAssistantFails \/ SaveFails \/ RequestStop \/ Exit \/ Restart \/ Surroundings
  /\ KeepMeasures
  /\ held' = held

MeteredNext == MeasuredFetch \/ BatchHeld \/ BatchInDoubt \/ Unmetered

MeteredSpec == MeteredInit /\ [][MeteredNext]_meteredVars

-----------------------------------------------------------------------------
MeteredTypeOK ==
  /\ from \in [todo -> SlotRange]
  /\ \A k \in Keys : held[k] \in [received[k] -> SlotRange]

(***************************************************************************)
(* No consumption is counted twice: what a slot used that was recorded in  *)
(* time is not part of the delta of any later reading Hauzer holds,        *)
(* however windows, replays, resent batches and crashes overlap            *)
(* (build_readings, run_cycle).                                            *)
(***************************************************************************)
CountedOnce ==
  \A k \in Keys : \A t \in received[k] : \A s \in rows[k] \ late[k] :
    s < t => s <= held[k][t]

(***************************************************************************)
(* None is lost between neighbours either: the delta of a slot begins      *)
(* where the slot before it ends, also across two windows, because a       *)
(* window is read with the slot before it.                                 *)
(***************************************************************************)
NeighboursMeet ==
  \A k \in Keys : \A t \in received[k] :
    t - 1 \in rows[k] \ late[k] => held[k][t] = t - 1

-----------------------------------------------------------------------------
(***************************************************************************)
(* The inductive invariant: a reading that counts from p was read after    *)
(* every row below it that was recorded in time.                           *)
(***************************************************************************)
WellCounted(k, t, p) ==
  /\ t < fetchedTo
  /\ \A s \in rows[k] \ late[k] : s < t => s <= p /\ (s = t - 1 => p = s)

MeteredInvariant ==
  /\ \A r \in todo : WellCounted(r[1], r[2], from[r])
  /\ \A k \in Keys : \A t \in received[k] : WellCounted(k, t, held[k][t])

=============================================================================
