--------------------------- MODULE ImportService ---------------------------
(***************************************************************************)
(* The five-minute utility import: ImportService.run_cycle (service.py),   *)
(* the durable cursor it runs on (state.py), the loop around it            *)
(* (__main__.py), crashes and restarts of the app, and the Home Assistant  *)
(* recorder and Hauzer it works between.                                   *)
(*                                                                         *)
(* Time is counted in five-minute slots.  Slot s is the interval from s to *)
(* s + 1; it is completed when s < now, where now is                       *)
(* floor_to_five_minutes of the wall clock.  A key stands for one          *)
(* "metric:statistic_id" mapping, a reading for one completed slot of one  *)
(* key; its value plays no part here.                                      *)
(***************************************************************************)
EXTENDS Integers, FiniteSets

CONSTANTS
  Keys,             \* every mapping discovery may return
  Backfills,        \* the values initial_backfill_hours may be set to, in slots
  BatchSize,        \* BATCH_SIZE
  Rejected,         \* readings for which Hauzer refuses a whole batch
  StartSlot,        \* now, when the app first starts
  MaxNow,           \* bound: the wall clock stays at or below it
  MaxFaults,        \* bound: failed calls, failed writes and crashes
  MaxChanges,       \* bound: changes of what discovery returns
  MaxJumps,         \* bound: adjustments of the wall clock
  Absent,           \* no file
  Torn              \* a file whose content is incomplete

ASSUME ImportServiceAssumption ==
  /\ IsFiniteSet(Keys)
  /\ Backfills \subseteq Nat \ {0}
  /\ BatchSize \in Nat \ {0}
  /\ Rejected \subseteq Keys \X Int
  /\ StartSlot \in Nat
  /\ MaxNow \in Nat
  /\ StartSlot <= MaxNow
  /\ MaxFaults \in Nat
  /\ MaxChanges \in Nat
  /\ MaxJumps \in Nat

VARIABLES
  \* the surroundings
  now,          \* floor_to_five_minutes of the wall clock
  offered,      \* the mappings discovery would return
  rows,         \* rows[k]: the slots the recorder has a row for
  received,     \* received[k]: the slots Hauzer has taken
  \* the files
  disk,         \* /data/state.json, as a running process sees it
  durable,      \* /data/state.json, as it is after a loss of power
  tmp,          \* /data/state.json.tmp
  \* the process
  pc,           \* where the main thread is
  cfg,          \* config.initial_backfill_hours
  stop,         \* stop_event.is_set()
  wend,         \* window_end
  loaded,       \* state, as ImportState.load returned it
  maps,         \* discovery.mappings
  todo,         \* the readings not yet handed to Hauzer
  batch,        \* the readings of the post_batch call under way
  \* history, read by no action of the code
  fetchedTo,    \* the end of the furthest window read from the recorder
  late,         \* late[k]: slots recorded after a window past them was read
  \* budgets
  faults, changes, jumps

surroundings == <<now, offered, rows, received>>
files == <<disk, durable, tmp>>
process == <<pc, cfg, stop, wend, loaded, maps, todo, batch>>
budgets == <<faults, changes, jumps>>
vars == <<surroundings, files, process, fetchedTo, late, budgets>>

-----------------------------------------------------------------------------
(***************************************************************************)
(* ImportState.  "since" is not a field of the file: since[k] is the first *)
(* slot from which key k has been imported without a break up to           *)
(* window_end, a history the invariants are stated with.                   *)
(***************************************************************************)
ImportState ==
  [window_end: Int, backfill_hours: Nat \ {0}, mapping_keys: SUBSET Keys,
   since: [Keys -> Int]]

ASSUME FileMarkersAssumption ==
  Absent # Torn /\ Absent \notin ImportState /\ Torn \notin ImportState

MinOf(a, b) == IF a <= b THEN a ELSE b
MaxOf(a, b) == IF a >= b THEN a ELSE b

\* A state with no mapping yet: nothing has been imported.
FreshState(window_end, backfill_hours) ==
  [window_end |-> window_end, backfill_hours |-> backfill_hours, mapping_keys |-> {},
   since |-> [k \in Keys |-> 0]]

NoState == FreshState(0, 1)    \* no cycle is under way

(***************************************************************************)
(* ImportState.load: a missing file starts at the backfill boundary, and a *)
(* backfill larger than any applied before rewinds the cursor.             *)
(***************************************************************************)
LoadState ==
  IF disk = Absent
  THEN FreshState(now - cfg, cfg)
  ELSE [disk EXCEPT
         !.window_end = IF cfg > disk.backfill_hours
                        THEN MinOf(disk.window_end, now - cfg)
                        ELSE disk.window_end,
         !.backfill_hours = MaxOf(disk.backfill_hours, cfg)]

MappingChanged == maps # loaded.mapping_keys

WindowStart ==
  IF MappingChanged
  THEN MinOf(loaded.window_end, wend - cfg)
  ELSE loaded.window_end

\* Mutant: the slot at the end of the window, which is not completed, is sent.
WindowWithEnd == WindowStart .. wend

Window == WindowStart .. (wend - 1)

\* build_readings, for one mapping: one reading per row inside the window.
ReadingsOf(k) == {k} \X (rows[k] \cap Window)

\* Mutant: the readings are not sorted before they are cut into batches.
IsSomeBatch(b) ==
  /\ b # {}
  /\ Cardinality(b) <= BatchSize
  /\ b = todo \/ Cardinality(b) = BatchSize

\* Everything fetched, sorted by interval_start and cut after BATCH_SIZE.
IsFirstBatch(b) ==
  /\ b # {}
  /\ Cardinality(b) <= BatchSize
  /\ b = todo \/ Cardinality(b) = BatchSize
  /\ \A r \in b, q \in todo \ b : r[2] <= q[2]

\* Mutant: the cursor the cycle started from is saved as the new one.
SavedStartCursor ==
  [window_end |-> loaded.window_end,
   backfill_hours |-> loaded.backfill_hours,
   mapping_keys |-> maps,
   since |-> [k \in Keys |-> WindowStart]]

\* Mutant: the time of saving, not the end of the window, becomes the cursor.
SavedAtNow ==
  [window_end |-> now,
   backfill_hours |-> loaded.backfill_hours,
   mapping_keys |-> maps,
   since |-> [k \in Keys |-> WindowStart]]

CompletedState ==
  [window_end |-> wend,
   backfill_hours |-> loaded.backfill_hours,
   mapping_keys |-> maps,
   since |-> [k \in Keys |->
                IF k \in loaded.mapping_keys
                THEN MinOf(loaded.since[k], WindowStart)
                ELSE WindowStart]]

-----------------------------------------------------------------------------
Init ==
  /\ now = StartSlot
  /\ offered \in SUBSET Keys
  /\ rows \in [Keys -> SUBSET (0 .. StartSlot - 1)]
  /\ received = [k \in Keys |-> {}]
  /\ disk = Absent
  /\ durable = Absent
  /\ tmp = Absent
  /\ pc = "idle"
  /\ cfg \in Backfills
  /\ stop = FALSE
  /\ wend = 0
  /\ loaded = NoState
  /\ maps = {}
  /\ todo = {}
  /\ batch = {}
  /\ fetchedTo = -1
  /\ late = [k \in Keys |-> {}]
  /\ faults = 0
  /\ changes = 0
  /\ jumps = 0

\* Mutant: the batch under way outlives its cycle.
EndCycleKeepsBatch ==
  /\ pc' = "idle"
  /\ wend' = 0
  /\ loaded' = NoState
  /\ maps' = {}
  /\ todo' = {}
  /\ UNCHANGED <<cfg, stop, batch>>

\* The cycle is over, with or without success: its locals are gone.
EndCycle ==
  /\ pc' = "idle"
  /\ wend' = 0
  /\ loaded' = NoState
  /\ maps' = {}
  /\ todo' = {}
  /\ batch' = {}
  /\ UNCHANGED <<cfg, stop>>

Fault ==
  /\ faults < MaxFaults
  /\ faults' = faults + 1
  /\ UNCHANGED <<changes, jumps>>

-----------------------------------------------------------------------------
(***************************************************************************)
(* run_cycle.  A torn file is refused by ImportState.load on every cycle,  *)
(* so no cycle begins on one.                                              *)
(***************************************************************************)
BeginCycle ==
  /\ pc = "idle"
  /\ ~stop
  /\ disk # Torn
  /\ wend' = now
  /\ loaded' = LoadState
  /\ pc' = "discover"
  /\ UNCHANGED <<surroundings, files, cfg, stop, maps, todo, batch, fetchedTo, late, budgets>>

\* The three reads and discover_utilities.
Discover ==
  /\ pc = "discover"
  /\ offered # {}
  /\ maps' = offered
  /\ pc' = "window"
  /\ UNCHANGED <<surroundings, files, cfg, stop, wend, loaded, todo, batch, fetchedTo, late, budgets>>

DiscoverNothing ==
  /\ pc = "discover"
  /\ offered = {}
  /\ EndCycle
  /\ UNCHANGED <<surroundings, files, fetchedTo, late, budgets>>

NothingCompleted ==
  /\ pc = "window"
  /\ wend <= WindowStart
  /\ EndCycle
  /\ UNCHANGED <<surroundings, files, fetchedTo, late, budgets>>

ReadRecorder == fetchedTo' = MaxOf(fetchedTo, wend)

\* Mutant: also without a changed mapping set, a silent mapping holds back all.
HoldBackAlways ==
  /\ pc = "window"
  /\ wend > WindowStart
  /\ \E k \in maps : ReadingsOf(k) = {}
  /\ ReadRecorder
  /\ EndCycle
  /\ UNCHANGED <<surroundings, files, late, budgets>>

\* A replay is held back when one of the mappings has no reading at all.
HoldBack ==
  /\ pc = "window"
  /\ wend > WindowStart
  /\ MappingChanged
  /\ \E k \in maps : ReadingsOf(k) = {}
  /\ ReadRecorder
  /\ EndCycle
  /\ UNCHANGED <<surroundings, files, late, budgets>>

NoReadings ==
  /\ pc = "window"
  /\ wend > WindowStart
  /\ \A k \in maps : ReadingsOf(k) = {}
  /\ ReadRecorder
  /\ EndCycle
  /\ UNCHANGED <<surroundings, files, late, budgets>>

\* Mutant: a replay goes ahead although one of its mappings has no readings.
FetchPartialReplay ==
  /\ pc = "window"
  /\ wend > WindowStart
  /\ \E k \in maps : ReadingsOf(k) # {}
  /\ ReadRecorder
  /\ todo' = UNION {ReadingsOf(k) : k \in maps}
  /\ pc' = "post"
  /\ UNCHANGED <<surroundings, files, cfg, stop, wend, loaded, maps, batch, late, budgets>>

Fetch ==
  /\ pc = "window"
  /\ wend > WindowStart
  /\ \E k \in maps : ReadingsOf(k) # {}
  /\ MappingChanged => \A k \in maps : ReadingsOf(k) # {}
  /\ ReadRecorder
  /\ todo' = UNION {ReadingsOf(k) : k \in maps}
  /\ pc' = "post"
  /\ UNCHANGED <<surroundings, files, cfg, stop, wend, loaded, maps, batch, late, budgets>>

\* One of the Home Assistant calls raised HomeAssistantError.
HomeAssistantFails ==
  /\ pc \in {"discover", "window"}
  /\ Fault
  /\ EndCycle
  /\ UNCHANGED <<surroundings, files, fetchedTo, late>>

PostBatch ==
  /\ pc = "post"
  /\ ~stop
  /\ batch' \in {b \in SUBSET todo : IsFirstBatch(b)}
  /\ pc' = "posting"
  /\ UNCHANGED <<surroundings, files, cfg, stop, wend, loaded, maps, todo, fetchedTo, late, budgets>>

\* _post finds the stop event set before its first attempt.
PostStopped ==
  /\ pc = "post"
  /\ stop
  /\ EndCycle
  /\ UNCHANGED <<surroundings, files, fetchedTo, late, budgets>>

\* Hauzer takes the readings of a batch.
Take(readings) ==
  received' = [k \in Keys |-> received[k] \cup {r[2] : r \in {q \in readings : q[1] = k}}]

BatchAcknowledged ==
  /\ pc = "posting"
  /\ batch \cap Rejected = {}
  /\ Take(batch)
  /\ todo' = todo \ batch
  /\ batch' = {}
  /\ pc' = IF todo = batch THEN "save" ELSE "post"
  /\ UNCHANGED <<now, offered, rows, files, cfg, stop, wend, loaded, maps, fetchedTo, late, budgets>>

\* Mutant: a failed batch is skipped and the cycle goes on.
BatchFailureIgnored ==
  /\ pc = "posting"
  /\ Fault
  /\ todo' = todo \ batch
  /\ batch' = {}
  /\ pc' = IF todo = batch THEN "save" ELSE "post"
  /\ UNCHANGED <<surroundings, files, cfg, stop, wend, loaded, maps, fetchedTo, late>>

\* Hauzer answers 422 to a batch with a reading it does not accept.
BatchRejected ==
  /\ pc = "posting"
  /\ batch \cap Rejected # {}
  /\ EndCycle
  /\ UNCHANGED <<surroundings, files, fetchedTo, late, budgets>>

\* Hauzer has taken the batch by the time the delivery ends, or it has not.
TakeOrNot == (batch \cap Rejected = {} /\ Take(batch)) \/ Take({})

\* A failed delivery says nothing about whether Hauzer took the batch.
BatchFails ==
  /\ pc = "posting"
  /\ Fault
  /\ TakeOrNot
  /\ EndCycle
  /\ UNCHANGED <<now, offered, rows, files, fetchedTo, late>>

(***************************************************************************)
(* save_atomic: the temporary file is written, flushed to the disk and     *)
(* moved over the state file; the directory entry is not flushed.          *)
(***************************************************************************)
WriteTemporary ==
  /\ pc = "save"
  /\ tmp' = Torn
  /\ pc' = "flush"
  /\ UNCHANGED <<surroundings, disk, durable, cfg, stop, wend, loaded, maps, todo, batch,
                 fetchedTo, late, budgets>>

\* Mutant: the temporary file is moved before its content is on the disk.
FlushSkipped ==
  /\ pc = "flush"
  /\ pc' = "replace"
  /\ UNCHANGED <<surroundings, files, cfg, stop, wend, loaded, maps, todo, batch,
                 fetchedTo, late, budgets>>

FlushTemporary ==
  /\ pc = "flush"
  /\ tmp' = CompletedState
  /\ pc' = "replace"
  /\ UNCHANGED <<surroundings, disk, durable, cfg, stop, wend, loaded, maps, todo, batch,
                 fetchedTo, late, budgets>>

ReplaceFile ==
  /\ pc = "replace"
  /\ disk' = tmp
  /\ tmp' = Absent
  /\ EndCycle
  /\ UNCHANGED <<surroundings, durable, fetchedTo, late, budgets>>

\* OSError from any of the three steps.
SaveFails ==
  /\ pc \in {"save", "flush", "replace"}
  /\ Fault
  /\ EndCycle
  /\ UNCHANGED <<surroundings, files, fetchedTo, late>>

-----------------------------------------------------------------------------
(***************************************************************************)
(* The process: the stop event ends the loop between two cycles; a crash   *)
(* ends it anywhere.  The death of the process alone leaves the files as   *)
(* they are; with a loss of power a state file whose directory entry was   *)
(* not yet flushed is the previous one again.  Restarting reads the        *)
(* options anew.                                                           *)
(***************************************************************************)
RequestStop ==
  /\ pc # "down"
  /\ ~stop
  /\ Fault
  /\ stop' = TRUE
  /\ UNCHANGED <<surroundings, files, pc, cfg, wend, loaded, maps, todo, batch, fetchedTo, late>>

Exit ==
  /\ pc = "idle"
  /\ stop
  /\ pc' = "down"
  /\ UNCHANGED <<surroundings, files, cfg, stop, wend, loaded, maps, todo, batch,
                 fetchedTo, late, budgets>>

Crash ==
  /\ pc # "down"
  /\ Fault
  /\ pc' = "down"
  /\ disk' \in {disk, durable}
  /\ TakeOrNot
  /\ wend' = 0
  /\ loaded' = NoState
  /\ maps' = {}
  /\ todo' = {}
  /\ batch' = {}
  /\ UNCHANGED <<now, offered, rows, durable, tmp, cfg, stop, fetchedTo, late>>

Restart ==
  /\ pc = "down"
  /\ pc' = "idle"
  /\ cfg' \in Backfills
  /\ stop' = FALSE
  /\ UNCHANGED <<surroundings, files, wend, loaded, maps, todo, batch, fetchedTo, late, budgets>>

\* The file system flushes the directory entry on its own.
FlushDirectory ==
  /\ durable # disk
  /\ durable' = disk
  /\ UNCHANGED <<surroundings, disk, tmp, process, fetchedTo, late, budgets>>

-----------------------------------------------------------------------------
(***************************************************************************)
(* The surroundings: the clock, the recorder, and discovery's sources.     *)
(***************************************************************************)
Tick ==
  /\ now < MaxNow
  /\ now' = now + 1
  /\ UNCHANGED <<offered, rows, received, files, process, fetchedTo, late, budgets>>

AdjustClock ==
  /\ jumps < MaxJumps
  /\ now' \in 0..MaxNow
  /\ jumps' = jumps + 1
  /\ UNCHANGED <<offered, rows, received, files, process, fetchedTo, late, faults, changes>>

\* The recorder compiles a completed slot some time after it has ended.
Record(k, s) ==
  /\ s < now
  /\ s \notin rows[k]
  /\ rows' = [rows EXCEPT ![k] = @ \cup {s}]
  /\ late' = IF s < fetchedTo THEN [late EXCEPT ![k] = @ \cup {s}] ELSE late
  /\ UNCHANGED <<now, offered, received, files, process, fetchedTo, budgets>>

\* Energy preferences, statistics or states change what discovery returns.
Rediscover ==
  /\ changes < MaxChanges
  /\ offered' \in SUBSET Keys
  /\ offered' # offered
  /\ changes' = changes + 1
  /\ UNCHANGED <<now, rows, received, files, process, fetchedTo, late, faults, jumps>>

-----------------------------------------------------------------------------
CycleStep ==
  \/ BeginCycle \/ Discover \/ DiscoverNothing \/ NothingCompleted
  \/ HoldBack \/ NoReadings \/ Fetch
  \/ PostBatch \/ PostStopped \/ BatchAcknowledged \/ BatchRejected
  \/ WriteTemporary \/ FlushTemporary \/ ReplaceFile

Failure ==
  HomeAssistantFails \/ BatchFails \/ SaveFails \/ RequestStop \/ Crash

Surroundings ==
  \/ Tick \/ AdjustClock \/ Rediscover \/ FlushDirectory
  \/ \E k \in Keys, s \in 0 .. MaxNow - 1 : Record(k, s)

Next == CycleStep \/ Exit \/ Restart \/ Failure \/ Surroundings

Spec == Init /\ [][Next]_vars

(***************************************************************************)
(* The main thread keeps running, every call it makes returns (each has a  *)
(* timeout) and the service supervisor starts the app again.  Nothing is   *)
(* assumed of the clock, the recorder or discovery.                        *)
(***************************************************************************)
FairSpec == Spec /\ WF_vars(CycleStep) /\ WF_vars(Exit) /\ WF_vars(Restart)

=============================================================================
