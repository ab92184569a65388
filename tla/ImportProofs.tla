---------------------------- MODULE ImportProofs ----------------------------
(***************************************************************************)
(* Proofs about the five-minute import, for every set of mappings, every   *)
(* backfill and every bound: type correctness, the invariants that tie the *)
(* durable cursor to what Hauzer has received, and what the deltas it has  *)
(* received count.                                                         *)
(***************************************************************************)
EXTENDS MeteredImport, TLAPS

(***************************************************************************)
(* Types.                                                                  *)
(***************************************************************************)
LEMMA MinMaxTypes ==
  ASSUME NEW a \in Int, NEW b \in Int
  PROVE  /\ MinOf(a, b) \in Int /\ MinOf(a, b) <= a /\ MinOf(a, b) <= b
         /\ MaxOf(a, b) \in Int /\ a <= MaxOf(a, b) /\ b <= MaxOf(a, b)
BY DEF MinOf, MaxOf

LEMMA NoStateType == NoState \in ImportState
BY DEF NoState, FreshState, ImportState

LEMMA LoadStateType ==
  ASSUME TypeOK, disk # Torn
  PROVE  LoadState \in ImportState
<1>1. now \in Int /\ cfg \in Nat \ {0} /\ now - cfg \in Int
  BY ImportServiceAssumption DEF TypeOK
<1>2. CASE disk = Absent
  BY <1>1, <1>2 DEF LoadState, FreshState, ImportState
<1>3. CASE disk # Absent
  <2>1. disk \in ImportState
    BY <1>3 DEF TypeOK, FileContent
  <2>2. MinOf(disk.window_end, now - cfg) \in Int
    BY <1>1, <2>1, MinMaxTypes DEF ImportState
  <2>3. MaxOf(disk.backfill_hours, cfg) \in Nat \ {0}
    BY <1>1, <2>1 DEF ImportState, MaxOf
  <2> QED
    BY <1>3, <2>1, <2>2, <2>3 DEF LoadState, ImportState
<1> QED
  BY <1>2, <1>3

LEMMA WindowStartType ==
  ASSUME TypeOK
  PROVE  /\ WindowStart \in Int
         /\ WindowStart <= loaded.window_end
<1>1. loaded.window_end \in Int /\ wend - cfg \in Int
  BY ImportServiceAssumption DEF TypeOK, ImportState
<1>2. /\ MinOf(loaded.window_end, wend - cfg) \in Int
      /\ MinOf(loaded.window_end, wend - cfg) <= loaded.window_end
  BY <1>1, MinMaxTypes
<1> QED
  BY <1>1, <1>2 DEF WindowStart

LEMMA CompletedStateType ==
  ASSUME TypeOK
  PROVE  CompletedState \in ImportState
<1>1. WindowStart \in Int
  BY WindowStartType
<1>2. \A k \in Keys : MinOf(loaded.since[k], WindowStart) \in Int
  BY <1>1, MinMaxTypes DEF TypeOK, ImportState
<1>3. wend \in Int /\ loaded.backfill_hours \in Nat \ {0} /\ maps \in SUBSET Keys
  BY ImportServiceAssumption DEF TypeOK, ImportState
<1> QED
  BY <1>1, <1>2, <1>3 DEF CompletedState, ImportState

LEMMA TakeType ==
  ASSUME TypeOK, NEW readings \in SUBSET todo, Take(readings)
  PROVE  received' \in [Keys -> SUBSET SlotRange]
BY DEF TypeOK, Take

LEMMA EndCycleTypes ==
  ASSUME TypeOK, EndCycle
  PROVE  /\ pc' = "idle" /\ cfg' = cfg /\ stop' = stop
         /\ wend' \in 0..MaxNow /\ loaded' \in ImportState /\ maps' \in SUBSET Keys
         /\ todo' \in SUBSET (Keys \X SlotRange) /\ batch' = {}
BY NoStateType, ImportServiceAssumption DEF EndCycle

LEMMA TypeInit == Init => TypeOK
<1> SUFFICES ASSUME Init PROVE TypeOK
  OBVIOUS
<1>1. rows \in [Keys -> SUBSET SlotRange] /\ now \in 0..MaxNow
  BY ImportServiceAssumption DEF Init, SlotRange
<1>2. /\ received \in [Keys -> SUBSET SlotRange] /\ late \in [Keys -> SUBSET SlotRange]
      /\ disk \in FileContent /\ durable \in FileContent /\ tmp \in FileContent
  BY DEF Init, FileContent
<1>3. /\ fetchedTo \in -1..MaxNow /\ wend \in 0..MaxNow
      /\ faults \in 0..MaxFaults /\ changes \in 0..MaxChanges /\ jumps \in 0..MaxJumps
  BY ImportServiceAssumption DEF Init
<1> QED
  BY <1>1, <1>2, <1>3, NoStateType DEF Init, TypeOK

LEMMA TypeStep == TypeOK /\ [Next]_vars => TypeOK'
<1> SUFFICES ASSUME TypeOK, [Next]_vars PROVE TypeOK'
  OBVIOUS
<1> USE DEF TypeOK
<1>1. CASE BeginCycle
  BY <1>1, LoadStateType DEF BeginCycle, surroundings, files, budgets
<1>2. CASE Discover
  BY <1>2 DEF Discover, surroundings, files, budgets
<1>3. CASE DiscoverNothing
  BY <1>3, EndCycleTypes DEF DiscoverNothing, surroundings, files, budgets
<1>4. CASE NothingCompleted
  BY <1>4, EndCycleTypes DEF NothingCompleted, surroundings, files, budgets
<1>5. ReadRecorder => fetchedTo' \in -1..MaxNow
  BY DEF ReadRecorder, MaxOf
<1>6. CASE HoldBack
  BY <1>5, <1>6, EndCycleTypes DEF HoldBack, surroundings, files, budgets
<1>7. CASE NoReadings
  BY <1>5, <1>7, EndCycleTypes DEF NoReadings, surroundings, files, budgets
<1>8. CASE Fetch
  <2>1. \A k \in maps : ReadingsOf(k) \subseteq Keys \X SlotRange
    BY DEF ReadingsOf
  <2>2. todo' \in SUBSET (Keys \X SlotRange)
    BY <1>8, <2>1 DEF Fetch
  <2> QED
    BY <1>5, <1>8, <2>2 DEF Fetch, surroundings, files, budgets
<1>9. Fault => /\ faults' \in 0..MaxFaults
               /\ changes' = changes /\ jumps' = jumps
  BY ImportServiceAssumption DEF Fault
<1>10. CASE HomeAssistantFails
  BY <1>9, <1>10, EndCycleTypes DEF HomeAssistantFails, surroundings, files
<1>11. CASE PostBatch
  BY <1>11 DEF PostBatch, surroundings, files, budgets
<1>12. CASE PostStopped
  BY <1>12, EndCycleTypes DEF PostStopped, surroundings, files, budgets
<1>13. CASE BatchAcknowledged
  <2>1. received' \in [Keys -> SUBSET SlotRange]
    BY <1>13, TakeType DEF BatchAcknowledged
  <2> QED
    BY <1>13, <2>1 DEF BatchAcknowledged, files, budgets
<1>14. CASE BatchFails
  <2>1. received' \in [Keys -> SUBSET SlotRange]
    BY <1>14, TakeType DEF BatchFails, TakeOrNot
  <2> QED
    BY <1>9, <1>14, <2>1, EndCycleTypes DEF BatchFails, files
<1>15. CASE WriteTemporary
  BY <1>15 DEF WriteTemporary, surroundings, budgets, FileContent
<1>16. CASE FlushTemporary
  BY <1>16, CompletedStateType DEF FlushTemporary, surroundings, budgets, FileContent
<1>17. CASE ReplaceFile
  BY <1>17, EndCycleTypes DEF ReplaceFile, surroundings, budgets, FileContent
<1>18. CASE SaveFails
  BY <1>9, <1>18, EndCycleTypes DEF SaveFails, surroundings, files
<1>19. CASE RequestStop
  BY <1>9, <1>19 DEF RequestStop, surroundings, files
<1>20. CASE Exit
  BY <1>20 DEF Exit, surroundings, files, budgets
<1>21. CASE Crash
  <2>1. received' \in [Keys -> SUBSET SlotRange]
    BY <1>21, TakeType DEF Crash, TakeOrNot
  <2> QED
    BY <1>9, <1>21, <2>1, NoStateType, ImportServiceAssumption DEF Crash
<1>22. CASE Restart
  BY <1>22 DEF Restart, surroundings, files, budgets
<1>23. CASE FlushDirectory
  BY <1>23 DEF FlushDirectory, surroundings, process, budgets
<1>24. CASE Tick
  BY <1>24, ImportServiceAssumption DEF Tick, files, process, budgets
<1>25. CASE AdjustClock
  BY <1>25, ImportServiceAssumption DEF AdjustClock, files, process
<1>26. ASSUME NEW k \in Keys, NEW s \in SlotRange, Record(k, s)
       PROVE  TypeOK'
  BY <1>26 DEF Record, files, process, budgets
<1>27. CASE Rediscover
  BY <1>27, ImportServiceAssumption DEF Rediscover, files, process
<1>28. CASE BatchRejected
  BY <1>28, EndCycleTypes DEF BatchRejected, surroundings, files, budgets
<1>29. CASE UNCHANGED vars
  BY <1>29 DEF vars, surroundings, files, process, budgets
<1> QED
  BY <1>1, <1>2, <1>3, <1>4, <1>6, <1>7, <1>8, <1>10, <1>11, <1>12, <1>13, <1>14, <1>15,
     <1>16, <1>17, <1>18, <1>19, <1>20, <1>21, <1>22, <1>23, <1>24, <1>25, <1>26, <1>27, <1>28,
     <1>29 DEF Next, CycleStep, Failure, Surroundings, SlotRange

(***************************************************************************)
(* Every variable keeps its type (ImportService.Spec).                     *)
(***************************************************************************)
THEOREM TypeCorrect == Spec => []TypeOK
BY TypeInit, TypeStep, PTL DEF Spec

-----------------------------------------------------------------------------
(***************************************************************************)
(* Whatever happens, Hauzer keeps what it has, and a row that appears      *)
(* below the furthest slot read so far is marked as late.  This is all     *)
(* the coverage of a cursor depends on.                                    *)
(***************************************************************************)
Grows ==
  /\ fetchedTo <= fetchedTo'
  /\ \A k \in Keys :
       /\ received[k] \subseteq received'[k]
       /\ late[k] \subseteq late'[k]
       /\ \A s \in rows'[k] : s \in rows[k] \cup late'[k] \/ fetchedTo <= s

LEMMA TakeGrows ==
  ASSUME TypeOK, NEW readings \in SUBSET todo, Take(readings)
  PROVE  \A k \in Keys : received[k] \subseteq received'[k]
BY DEF TypeOK, Take

LEMMA EveryStepGrows ==
  ASSUME TypeOK, [Next]_vars
  PROVE  Grows
<1> USE DEF TypeOK
<1>1. /\ fetchedTo <= fetchedTo
      /\ ReadRecorder => fetchedTo <= fetchedTo'
  BY DEF ReadRecorder, MaxOf
<1>2. ASSUME UNCHANGED <<rows, late>>, fetchedTo <= fetchedTo',
             \A k \in Keys : received[k] \subseteq received'[k]
      PROVE  Grows
  BY <1>2 DEF Grows
<1>3. CASE UNCHANGED <<rows, late, received, fetchedTo>>
  BY <1>1, <1>2, <1>3
<1>4. CASE ReadRecorder /\ UNCHANGED <<rows, late, received>>
  BY <1>1, <1>2, <1>4
<1>5. ASSUME UNCHANGED <<rows, late, fetchedTo>>, NEW readings \in SUBSET todo, Take(readings)
      PROVE  Grows
  BY <1>1, <1>2, <1>5, TakeGrows
<1>6. CASE BatchAcknowledged
  BY <1>5, <1>6 DEF BatchAcknowledged
<1>7. CASE BatchFails
  BY <1>5, <1>7 DEF BatchFails, TakeOrNot
<1>8. CASE Crash
  BY <1>5, <1>8 DEF Crash, TakeOrNot
<1>9. ASSUME NEW k \in Keys, NEW s \in SlotRange, Record(k, s)
      PROVE  Grows
  <2>1. rows' = [rows EXCEPT ![k] = @ \cup {s}] /\ UNCHANGED <<received, fetchedTo>>
    BY <1>9 DEF Record
  <2>2. CASE s < fetchedTo
    <3>1. late' = [late EXCEPT ![k] = @ \cup {s}]
      BY <1>9, <2>2 DEF Record
    <3> QED
      BY <1>1, <2>1, <3>1 DEF Grows
  <2>3. CASE ~(s < fetchedTo)
    <3>1. late' = late /\ fetchedTo <= s
      BY <1>9, <2>3 DEF Record, SlotRange
    <3> QED
      BY <1>1, <2>1, <3>1 DEF Grows
  <2> QED
    BY <2>2, <2>3
<1>10. CASE HoldBack \/ NoReadings \/ Fetch
  BY <1>4, <1>10 DEF HoldBack, NoReadings, Fetch, surroundings
<1>11. CASE \/ BeginCycle \/ Discover \/ DiscoverNothing \/ NothingCompleted
            \/ PostBatch \/ PostStopped \/ BatchRejected
            \/ WriteTemporary \/ FlushTemporary \/ ReplaceFile
  BY <1>3, <1>11 DEF BeginCycle, Discover, DiscoverNothing, NothingCompleted, PostBatch,
     PostStopped, BatchRejected, WriteTemporary, FlushTemporary, ReplaceFile, surroundings
<1>12. CASE HomeAssistantFails \/ SaveFails \/ RequestStop \/ Exit \/ Restart \/ FlushDirectory
  BY <1>3, <1>12 DEF HomeAssistantFails, SaveFails, RequestStop, Exit, Restart, FlushDirectory,
     surroundings
<1>13. CASE Tick \/ AdjustClock \/ Rediscover
  BY <1>3, <1>13 DEF Tick, AdjustClock, Rediscover
<1>14. CASE UNCHANGED vars
  BY <1>3, <1>14 DEF vars, surroundings
<1> QED
  BY <1>6, <1>7, <1>8, <1>9, <1>10, <1>11, <1>12, <1>13, <1>14
     DEF Next, CycleStep, Failure, Surroundings, SlotRange

-----------------------------------------------------------------------------
(***************************************************************************)
(* The state a cycle starts from covers what the file covers: load moves   *)
(* window_end back, never forward.                                         *)
(***************************************************************************)
LEMMA LoadStateCovers ==
  ASSUME TypeOK, CycleInvariant, disk # Torn
  PROVE  /\ Covered(LoadState)
         /\ \A k \in LoadState.mapping_keys : received[k] # {}
<1>1. CASE disk = Absent
  <2>1. LoadState.mapping_keys = {}
    BY <1>1 DEF LoadState, FreshState
  <2> QED
    BY <2>1 DEF Covered
<1>2. CASE disk # Absent
  <2>1. disk \in ImportState
    BY <1>2 DEF TypeOK, FileContent
  <2>2. now \in Int /\ cfg \in Int /\ now - cfg \in Int
    BY ImportServiceAssumption DEF TypeOK
  <2>3. /\ LoadState.mapping_keys = disk.mapping_keys
        /\ LoadState.since = disk.since
        /\ LoadState.window_end \in Int
        /\ LoadState.window_end <= disk.window_end
    BY <1>2, <2>1, <2>2 DEF LoadState, MinOf, ImportState
  <2>4. Covered(disk) /\ \A k \in disk.mapping_keys : received[k] # {}
    BY <2>1 DEF CycleInvariant, CursorCovers, KnownMappingsWereSent
  <2>5. fetchedTo \in Int /\ disk.window_end \in Int /\ rows \in [Keys -> SUBSET Int]
    BY <2>1 DEF TypeOK, ImportState, SlotRange
  <2>6. disk.mapping_keys \subseteq Keys
    BY <2>1 DEF ImportState
  <2> QED
    BY <2>3, <2>4, <2>5, <2>6 DEF Covered
<1> QED
  BY <1>1, <1>2

(***************************************************************************)
(* The state a cycle saves covers its window and, for a mapping that was   *)
(* known before, all that was covered already: the window begins no later  *)
(* than the cursor the cycle started from.                                 *)
(***************************************************************************)
LEMMA CompletedStateCovers ==
  ASSUME TypeOK, CycleInvariant, Fetched, todo = {}
  PROVE  /\ Covered(CompletedState)
         /\ \A k \in CompletedState.mapping_keys : received[k] # {}
<1> DEFINE C == CompletedState
<1>1. /\ C.mapping_keys = maps
      /\ C.window_end = wend
      /\ \A k \in Keys : C.since[k] = IF k \in loaded.mapping_keys
                                      THEN MinOf(loaded.since[k], WindowStart)
                                      ELSE WindowStart
  BY DEF CompletedState
<1>2. /\ wend <= fetchedTo
      /\ \A k \in maps : \A s \in rows[k] :
           WindowStart <= s /\ s < wend => s \in received[k] \cup late[k]
      /\ \A k \in maps : received[k] # {}
  BY DEF CycleInvariant, WindowAccountedFor
<1>3. /\ WindowStart \in Int
      /\ WindowStart <= loaded.window_end
      /\ wend \in Int /\ loaded.window_end \in Int
      /\ \A k \in Keys : rows[k] \subseteq Int /\ loaded.since[k] \in Int
      /\ maps \subseteq Keys
  BY WindowStartType DEF TypeOK, ImportState, SlotRange
<1>4. ASSUME NEW k \in maps, NEW s \in rows[k], C.since[k] <= s, s < wend
      PROVE  s \in received[k] \cup late[k]
  <2>1. s \in Int
    BY <1>3
  <2>2. CASE WindowStart <= s
    BY <1>2, <1>4, <2>2
  <2>3. CASE ~(WindowStart <= s)
    <3>1. k \in loaded.mapping_keys /\ loaded.since[k] <= s
      BY <1>1, <1>3, <1>4, <2>1, <2>3 DEF MinOf
    <3>2. s < loaded.window_end
      BY <1>3, <2>1, <2>3
    <3> QED
      BY <3>1, <3>2 DEF CycleInvariant, LoadedCovers, Covered
  <2> QED
    BY <2>2, <2>3
<1> QED
  BY <1>1, <1>2, <1>4 DEF Covered

-----------------------------------------------------------------------------
(***************************************************************************)
(* What a step that saves nothing leaves of the invariant.                 *)
(***************************************************************************)
FilesKept == disk' \in {disk, durable} /\ durable' \in {disk, durable}

LEMMA FilesStayCovered ==
  ASSUME TypeOK, TypeOK', Grows, StateFileIsWhole, CursorCovers, KnownMappingsWereSent, FilesKept
  PROVE  /\ StateFileIsWhole'
         /\ CursorCovers'
         /\ KnownMappingsWereSent'
<1>1. fetchedTo \in Int /\ fetchedTo' \in Int /\ rows \in [Keys -> SUBSET Int]
      /\ rows' \in [Keys -> SUBSET Int]
  BY DEF TypeOK, SlotRange
<1>2. ASSUME NEW file \in {disk, durable}, file \in ImportState
      PROVE  /\ file.window_end \in Int
             /\ file.mapping_keys \subseteq Keys
             /\ \A k \in file.mapping_keys :
                  /\ received'[k] # {}
                  /\ file.window_end <= fetchedTo'
                  /\ \A s \in rows'[k] :
                       file.since[k] <= s /\ s < file.window_end
                         => s \in received'[k] \cup late'[k]
  <2>1. file.window_end \in Int /\ file.mapping_keys \subseteq Keys
    BY <1>2 DEF ImportState
  <2>2. Covered(file) /\ \A k \in file.mapping_keys : received[k] # {}
    BY <1>2 DEF CursorCovers, KnownMappingsWereSent
  <2>3. ASSUME NEW k \in file.mapping_keys
        PROVE  file.window_end <= fetchedTo' /\ received'[k] # {}
    BY <1>1, <2>1, <2>2, <2>3 DEF Grows, Covered
  <2>4. ASSUME NEW k \in file.mapping_keys, NEW s \in rows'[k],
               file.since[k] <= s, s < file.window_end
        PROVE  s \in received'[k] \cup late'[k]
    <3>1. k \in Keys /\ s \in Int /\ file.window_end <= fetchedTo
      BY <1>1, <2>1, <2>2 DEF Covered
    <3>2. s \in rows[k] \cup late'[k]
      BY <1>1, <2>1, <2>4, <3>1 DEF Grows
    <3> QED
      BY <2>2, <2>4, <3>1, <3>2 DEF Grows, Covered
  <2> QED
    BY <2>1, <2>3, <2>4
<1> QED
  BY <1>2 DEF FilesKept, StateFileIsWhole, CursorCovers, KnownMappingsWereSent, Covered

LEMMA LoadedStaysCovered ==
  ASSUME TypeOK, TypeOK', Grows, LoadedCovers, loaded' \in {loaded, NoState}
  PROVE  LoadedCovers'
<1>1. CASE loaded' = NoState
  <2>1. loaded'.mapping_keys = {}
    BY <1>1 DEF NoState, FreshState
  <2> QED
    BY <2>1 DEF LoadedCovers, Covered
<1>2. CASE loaded' = loaded
  <2>1. /\ fetchedTo \in Int /\ fetchedTo' \in Int
        /\ rows \in [Keys -> SUBSET Int] /\ rows' \in [Keys -> SUBSET Int]
        /\ loaded.window_end \in Int /\ loaded.mapping_keys \subseteq Keys
    BY DEF TypeOK, SlotRange, ImportState
  <2>2. ASSUME NEW k \in loaded.mapping_keys
        PROVE  loaded.window_end <= fetchedTo' /\ received'[k] # {}
    BY <2>1, <2>2 DEF Grows, LoadedCovers, Covered
  <2>3. ASSUME NEW k \in loaded.mapping_keys, NEW s \in rows'[k],
               loaded.since[k] <= s, s < loaded.window_end
        PROVE  s \in received'[k] \cup late'[k]
    <3>1. k \in Keys /\ s \in Int /\ loaded.window_end <= fetchedTo
      BY <2>1 DEF LoadedCovers, Covered
    <3>2. s \in rows[k] \cup late'[k]
      BY <2>1, <2>3, <3>1 DEF Grows
    <3> QED
      BY <2>3, <3>1, <3>2 DEF Grows, LoadedCovers, Covered
  <2> QED
    BY <1>2, <2>2, <2>3 DEF LoadedCovers, Covered
<1> QED
  BY <1>1, <1>2

LEMMA WindowStaysAccountedFor ==
  ASSUME TypeOK, TypeOK', Grows, WindowAccountedFor, Fetched,
         UNCHANGED <<wend, loaded, maps, cfg>>,
         \A k \in Keys, s \in SlotRange : <<k, s>> \in todo =>
           <<k, s>> \in todo' \/ s \in received'[k]
  PROVE  WindowAccountedFor'
<1>1. /\ wend <= fetchedTo
      /\ \A k \in maps : \A s \in rows[k] :
           WindowStart <= s /\ s < wend => <<k, s>> \in todo \/ s \in received[k] \cup late[k]
      /\ \A k \in maps : received[k] # {} \/ \E s \in SlotRange : <<k, s>> \in todo
  BY DEF WindowAccountedFor
<1>2. /\ fetchedTo \in Int /\ fetchedTo' \in Int /\ wend \in Int /\ maps \subseteq Keys
      /\ rows \in [Keys -> SUBSET SlotRange] /\ rows' \in [Keys -> SUBSET SlotRange]
      /\ SlotRange \subseteq Int
  BY DEF TypeOK, SlotRange
<1>3. WindowStart' = WindowStart
  BY DEF WindowStart, MappingChanged
<1>4. wend <= fetchedTo'
  BY <1>1, <1>2 DEF Grows
<1>5. ASSUME NEW k \in maps, NEW s \in rows'[k], WindowStart <= s, s < wend
      PROVE  <<k, s>> \in todo' \/ s \in received'[k] \cup late'[k]
  <2>1. k \in Keys /\ s \in SlotRange /\ s < fetchedTo
    BY <1>1, <1>2, <1>5
  <2>2. s \in rows[k] \cup late'[k]
    BY <1>2, <2>1 DEF Grows
  <2> QED
    BY <1>1, <1>5, <2>1, <2>2 DEF Grows
<1>6. ASSUME NEW k \in maps
      PROVE  received'[k] # {} \/ \E s \in SlotRange : <<k, s>> \in todo'
  BY <1>1, <1>2, <1>6 DEF Grows
<1> QED
  BY <1>3, <1>4, <1>5, <1>6 DEF WindowAccountedFor

(***************************************************************************)
(* Reading the recorder accounts for the window: what is not to be sent    *)
(* is not there.  A mapping new to the state has a reading, or the replay  *)
(* would have been held back.                                              *)
(***************************************************************************)
LEMMA FetchAccountsForWindow ==
  ASSUME TypeOK, TypeOK', LoadedCovers, Fetch
  PROVE  WindowAccountedFor'
<1>1. /\ UNCHANGED <<wend, loaded, maps, cfg, rows, received, late>>
      /\ todo' = UNION {ReadingsOf(k) : k \in maps}
      /\ fetchedTo' = MaxOf(fetchedTo, wend)
      /\ MappingChanged => \A k \in maps : ReadingsOf(k) # {}
  BY DEF Fetch, surroundings, ReadRecorder
<1>2. /\ fetchedTo \in Int /\ wend \in Int /\ WindowStart \in Int /\ maps \subseteq Keys
      /\ rows \in [Keys -> SUBSET SlotRange] /\ SlotRange \subseteq Int
  BY WindowStartType DEF TypeOK, SlotRange
<1>3. WindowStart' = WindowStart
  BY <1>1 DEF WindowStart, MappingChanged
<1>4. wend <= fetchedTo'
  BY <1>1, <1>2 DEF MaxOf
<1>5. ASSUME NEW k \in maps, NEW s \in rows[k], WindowStart <= s, s < wend
      PROVE  <<k, s>> \in todo'
  <2>1. s \in Window
    BY <1>2, <1>5 DEF Window
  <2>2. <<k, s>> \in ReadingsOf(k)
    BY <2>1 DEF ReadingsOf
  <2> QED
    BY <1>1, <2>2
<1>6. ASSUME NEW k \in maps
      PROVE  received'[k] # {} \/ \E s \in SlotRange : <<k, s>> \in todo'
  <2>1. CASE MappingChanged
    <3>1. PICK s \in rows[k] : <<k, s>> \in ReadingsOf(k)
      BY <1>1, <2>1 DEF ReadingsOf
    <3>2. s \in SlotRange /\ <<k, s>> \in todo'
      BY <1>1, <1>2, <3>1
    <3> QED
      BY <3>2
  <2>2. CASE ~MappingChanged
    BY <1>1, <2>2 DEF MappingChanged, LoadedCovers
  <2> QED
    BY <2>1, <2>2
<1> QED
  BY <1>1, <1>3, <1>4, <1>5, <1>6 DEF WindowAccountedFor

-----------------------------------------------------------------------------
(***************************************************************************)
(* CycleInvariant is inductive relative to TypeOK.                         *)
(***************************************************************************)
LEMMA CycleInit == Init => CycleInvariant
<1> SUFFICES ASSUME Init PROVE CycleInvariant
  OBVIOUS
<1>1. Absent \notin ImportState /\ Absent # Torn
  BY FileMarkersAssumption DEF Init
<1> QED
  BY <1>1 DEF Init, CycleInvariant, StateFileIsWhole, CursorCovers, KnownMappingsWereSent,
     LoadedCovers, Covered, NoState, FreshState, WindowAccountedFor, Fetched, AllPosted,
     ReadyToReplace

LEMMA CycleStepKeeps ==
  ASSUME TypeOK, TypeOK', CycleInvariant, [Next]_vars
  PROVE  CycleInvariant'
<1> DEFINE Progress == WindowAccountedFor' /\ AllPosted' /\ ReadyToReplace'
<1>1. Grows
  BY EveryStepGrows
<1>2. ASSUME FilesKept
      PROVE  StateFileIsWhole' /\ CursorCovers' /\ KnownMappingsWereSent'
  BY <1>1, <1>2, FilesStayCovered DEF CycleInvariant
<1>3. ASSUME loaded' \in {loaded, NoState}
      PROVE  LoadedCovers'
  BY <1>1, <1>3, LoadedStaysCovered DEF CycleInvariant
<1>4. ASSUME pc' \notin {"post", "posting", "save", "flush", "replace"}
      PROVE  Progress
  BY <1>4 DEF WindowAccountedFor, Fetched, AllPosted, ReadyToReplace
<1>5. ASSUME FilesKept, loaded' \in {loaded, NoState}, Progress
      PROVE  CycleInvariant'
  BY <1>2, <1>3, <1>5 DEF CycleInvariant
<1>6. ASSUME UNCHANGED <<wend, loaded, maps, cfg>>
      PROVE  CompletedState' = CompletedState
  BY <1>6 DEF CompletedState, WindowStart, MappingChanged
\* Steps that end the cycle, or do not begin one.
<1>7. CASE \/ DiscoverNothing \/ NothingCompleted \/ HoldBack \/ NoReadings
           \/ HomeAssistantFails \/ PostStopped \/ BatchFails \/ BatchRejected
           \/ SaveFails
  BY <1>4, <1>5, <1>7 DEF DiscoverNothing, NothingCompleted, HoldBack, NoReadings,
     HomeAssistantFails, PostStopped, BatchFails, BatchRejected, SaveFails, EndCycle, FilesKept, files
<1>8. CASE Crash
  BY <1>4, <1>5, <1>8 DEF Crash, FilesKept
<1>9. CASE Exit \/ Restart \/ Discover
  BY <1>4, <1>5, <1>9 DEF Exit, Restart, Discover, FilesKept, files
\* Steps of the cycle.
<1>10. CASE BeginCycle
  <2>1. FilesKept /\ loaded' = LoadState /\ disk # Torn
        /\ UNCHANGED <<rows, received, late, fetchedTo>>
    BY <1>10 DEF BeginCycle, FilesKept, files, surroundings
  <2>2. Covered(LoadState) /\ \A k \in LoadState.mapping_keys : received[k] # {}
    BY <2>1, LoadStateCovers
  <2>3. LoadedCovers'
    BY <2>1, <2>2 DEF LoadedCovers, Covered
  <2> QED
    BY <1>2, <1>4, <1>10, <2>1, <2>3 DEF BeginCycle, CycleInvariant
<1>11. CASE Fetch
  <2>1. WindowAccountedFor'
    BY <1>11, FetchAccountsForWindow DEF CycleInvariant
  <2>2. AllPosted' /\ ReadyToReplace'
    BY <1>11 DEF Fetch, AllPosted, ReadyToReplace
  <2> QED
    BY <1>5, <1>11, <2>1, <2>2 DEF Fetch, FilesKept, files
<1>12. CASE PostBatch
  <2>1. WindowAccountedFor'
    BY <1>1, <1>12, WindowStaysAccountedFor DEF PostBatch, CycleInvariant, Fetched
  <2>2. AllPosted' /\ ReadyToReplace'
    BY <1>12 DEF PostBatch, AllPosted, ReadyToReplace
  <2> QED
    BY <1>5, <1>12, <2>1, <2>2 DEF PostBatch, FilesKept, files
<1>13. CASE BatchAcknowledged
  <2>1. \A k \in Keys, s \in SlotRange : <<k, s>> \in todo =>
          <<k, s>> \in todo' \/ s \in received'[k]
    <3>1. todo' = todo \ batch /\ Take(batch)
      BY <1>13 DEF BatchAcknowledged
    <3>2. ASSUME NEW k \in Keys, NEW s \in SlotRange, <<k, s>> \in batch
          PROVE  s \in received'[k]
      <4>1. <<k, s>>[1] = k /\ <<k, s>>[2] = s
        OBVIOUS
      <4>2. s \in {r[2] : r \in {q \in batch : q[1] = k}}
        BY <3>2, <4>1
      <4> QED
        BY <3>1, <4>2 DEF Take
    <3> QED
      BY <3>1, <3>2
  <2>2. WindowAccountedFor'
    BY <1>1, <1>13, <2>1, WindowStaysAccountedFor DEF BatchAcknowledged, CycleInvariant, Fetched
  <2>3. AllPosted' /\ ReadyToReplace'
    BY <1>13 DEF BatchAcknowledged, AllPosted, ReadyToReplace
  <2> QED
    BY <1>5, <1>13, <2>2, <2>3 DEF BatchAcknowledged, FilesKept, files
<1>14. CASE WriteTemporary
  <2>1. WindowAccountedFor'
    BY <1>1, <1>14, WindowStaysAccountedFor DEF WriteTemporary, CycleInvariant, Fetched
  <2>2. AllPosted' /\ ReadyToReplace'
    BY <1>14 DEF WriteTemporary, AllPosted, ReadyToReplace, CycleInvariant
  <2> QED
    BY <1>5, <1>14, <2>1, <2>2 DEF WriteTemporary, FilesKept
<1>15. CASE FlushTemporary
  <2>1. WindowAccountedFor'
    BY <1>1, <1>15, WindowStaysAccountedFor DEF FlushTemporary, CycleInvariant, Fetched
  <2>2. AllPosted' /\ ReadyToReplace'
    BY <1>6, <1>15 DEF FlushTemporary, AllPosted, ReadyToReplace, CycleInvariant
  <2> QED
    BY <1>5, <1>15, <2>1, <2>2 DEF FlushTemporary, FilesKept
\* The step that matters: the saved state takes the file's place.
<1>16. CASE ReplaceFile
  <2>1. /\ disk' = CompletedState /\ durable' = durable
        /\ UNCHANGED <<rows, received, late, fetchedTo>>
    BY <1>16 DEF ReplaceFile, surroundings, CycleInvariant, ReadyToReplace
  <2>2. Fetched /\ todo = {}
    BY <1>16 DEF ReplaceFile, Fetched, CycleInvariant, AllPosted
  <2>3. /\ Covered(CompletedState)
        /\ \A k \in CompletedState.mapping_keys : received[k] # {}
    BY <2>2, CompletedStateCovers
  <2>4. CompletedState \in ImportState /\ CompletedState # Torn
    BY CompletedStateType, FileMarkersAssumption
  <2>5. StateFileIsWhole'
    BY <2>1, <2>4 DEF StateFileIsWhole, CycleInvariant
  <2>6. CursorCovers'
    BY <2>1, <2>3 DEF CursorCovers, Covered, CycleInvariant
  <2>7. KnownMappingsWereSent'
    BY <2>1, <2>3 DEF KnownMappingsWereSent, CycleInvariant
  <2>8. Progress
    BY <1>4, <1>16 DEF ReplaceFile, EndCycle
  <2>9. LoadedCovers'
    BY <1>3, <1>16 DEF ReplaceFile, EndCycle
  <2> QED
    BY <2>5, <2>6, <2>7, <2>8, <2>9 DEF CycleInvariant
\* Steps of the surroundings.
<1>17. ASSUME UNCHANGED <<pc, cfg, wend, loaded, maps, todo, tmp>>, FilesKept
       PROVE  CycleInvariant'
  <2>1. WindowAccountedFor'
    <3>1. CASE Fetched
      BY <1>1, <1>17, <3>1, WindowStaysAccountedFor DEF CycleInvariant
    <3>2. CASE ~Fetched
      BY <1>17, <3>2 DEF Fetched, WindowAccountedFor
    <3> QED
      BY <3>1, <3>2
  <2>2. AllPosted' /\ ReadyToReplace'
    BY <1>6, <1>17 DEF AllPosted, ReadyToReplace, CycleInvariant
  <2> QED
    BY <1>5, <1>17, <2>1, <2>2
<1>18. CASE RequestStop \/ Tick \/ AdjustClock \/ Rediscover \/ FlushDirectory
  BY <1>17, <1>18 DEF RequestStop, Tick, AdjustClock, Rediscover, FlushDirectory, FilesKept,
     files, process
<1>19. ASSUME NEW k \in Keys, NEW s \in SlotRange, Record(k, s)
       PROVE  CycleInvariant'
  BY <1>17, <1>19 DEF Record, FilesKept, files, process
<1>20. CASE UNCHANGED vars
  BY <1>17, <1>20 DEF vars, FilesKept, files, process
<1> QED
  BY <1>7, <1>8, <1>9, <1>10, <1>11, <1>12, <1>13, <1>14, <1>15, <1>16, <1>18, <1>19, <1>20
     DEF Next, CycleStep, Failure, Surroundings, SlotRange

THEOREM CycleInvariantHolds == Spec => []CycleInvariant
<1>1. Init => TypeOK /\ CycleInvariant
  BY TypeInit, CycleInit
<1>2. (TypeOK /\ CycleInvariant) /\ [Next]_vars => (TypeOK /\ CycleInvariant)'
  BY TypeStep, CycleStepKeeps
<1> QED
  BY <1>1, <1>2, PTL DEF Spec

(***************************************************************************)
(* The durable cursor never runs ahead of Hauzer: every slot run_cycle has *)
(* moved window_end past was taken by Hauzer or recorded too late.         *)
(***************************************************************************)
THEOREM CursorNeverAhead == Spec => []CursorCovers
<1>1. CycleInvariant => CursorCovers
  BY DEF CycleInvariant
<1> QED
  BY <1>1, CycleInvariantHolds, PTL

(***************************************************************************)
(* save_atomic leaves a whole file behind at every moment.                 *)
(***************************************************************************)
THEOREM FileAlwaysWhole == Spec => []StateFileIsWhole
<1>1. CycleInvariant => StateFileIsWhole
  BY DEF CycleInvariant
<1> QED
  BY <1>1, CycleInvariantHolds, PTL

(***************************************************************************)
(* A mapping key enters the state file only with readings at Hauzer.       *)
(***************************************************************************)
THEOREM KnownMappingsSent == Spec => []KnownMappingsWereSent
<1>1. CycleInvariant => KnownMappingsWereSent
  BY DEF CycleInvariant
<1> QED
  BY <1>1, CycleInvariantHolds, PTL

-----------------------------------------------------------------------------
(***************************************************************************)
(* The import implements ImportContract.  Besides CycleInvariant, which    *)
(* says that what a cycle saves is settled, it takes that a reading still  *)
(* to be sent was read: it has a row, and the recorder was read past it.   *)
(***************************************************************************)
TodoWasRead == \A r \in todo : r[2] \in rows[r[1]] /\ r[2] < fetchedTo

LEMMA RowsStay ==
  ASSUME TypeOK, [Next]_vars, NEW k \in Keys
  PROVE  rows[k] \subseteq rows'[k]
<1>1. CASE \E l \in Keys, s \in SlotRange : Record(l, s)
  BY <1>1 DEF Record, TypeOK
<1>2. CASE UNCHANGED rows
  BY <1>2
<1> QED
  BY <1>1, <1>2 DEF Next, CycleStep, Failure, Surroundings, SlotRange, surroundings, vars,
     BeginCycle, Discover, DiscoverNothing, NothingCompleted, HoldBack, NoReadings, Fetch,
     PostBatch, PostStopped, BatchAcknowledged, BatchRejected, WriteTemporary, FlushTemporary,
     ReplaceFile, HomeAssistantFails, BatchFails, SaveFails, RequestStop, Crash, Exit, Restart,
     Tick, AdjustClock, Rediscover, FlushDirectory

\* Readings only leave todo, except when a window is fetched.
LEMMA OnlyFetchFillsTodo ==
  ASSUME [Next]_vars, ~Fetch
  PROVE  todo' \subseteq todo
BY DEF Next, CycleStep, Failure, Surroundings, vars, process, EndCycle,
   BeginCycle, Discover, DiscoverNothing, NothingCompleted, HoldBack, NoReadings,
   PostBatch, PostStopped, BatchAcknowledged, BatchRejected, WriteTemporary, FlushTemporary,
   ReplaceFile, HomeAssistantFails, BatchFails, SaveFails, RequestStop, Crash, Exit, Restart,
   Tick, AdjustClock, Record, Rediscover, FlushDirectory

LEMMA TodoWasReadInit == Init => TodoWasRead
BY DEF Init, TodoWasRead

LEMMA TodoWasReadStep ==
  TypeOK /\ TodoWasRead /\ [Next]_vars => TodoWasRead'
<1> SUFFICES ASSUME TypeOK, TodoWasRead, [Next]_vars, NEW r \in todo'
             PROVE  r[2] \in rows'[r[1]] /\ r[2] < fetchedTo'
  BY DEF TodoWasRead
<1>1. CASE Fetch
  <2>1. PICK k \in maps : r \in ReadingsOf(k)
    BY <1>1 DEF Fetch
  <2>2. r[1] = k /\ r[2] \in rows[k] \cap Window
    BY <2>1 DEF ReadingsOf
  <2>3. /\ wend \in Int /\ fetchedTo \in Int /\ WindowStart \in Int
        /\ rows' = rows /\ fetchedTo' = MaxOf(fetchedTo, wend)
    BY <1>1, WindowStartType DEF TypeOK, Fetch, surroundings, ReadRecorder
  <2>4. r[2] \in Int /\ r[2] < wend
    BY <2>2, <2>3 DEF Window
  <2>5. wend <= fetchedTo' /\ fetchedTo' \in Int
    BY <2>3 DEF MaxOf
  <2> QED
    BY <2>2, <2>3, <2>4, <2>5
<1>2. CASE ~Fetch
  <2>1. r \in todo
    BY <1>2, OnlyFetchFillsTodo
  <2>2. /\ r[1] \in Keys /\ r[2] \in rows[r[1]] /\ r[2] < fetchedTo
        /\ r[2] \in Int /\ fetchedTo \in Int
    BY <2>1 DEF TodoWasRead, TypeOK, SlotRange
  <2>3. fetchedTo <= fetchedTo' /\ fetchedTo' \in Int
    BY TypeStep, EveryStepGrows DEF Grows, TypeOK
  <2> QED
    BY <2>2, <2>3, RowsStay
<1> QED
  BY <1>1, <1>2

\* What Hauzer takes of the readings to be sent was read.
LEMMA TakenWasRead ==
  ASSUME TypeOK, TodoWasRead, NEW readings \in SUBSET todo, Take(readings)
  PROVE  Contract!SomeTaken
<1>1. \A k \in Keys :
        received'[k] = received[k] \cup {r[2] : r \in {q \in readings : q[1] = k}}
  BY DEF Take
<1>2. ASSUME NEW k \in Keys, NEW s \in received'[k] \ received[k]
      PROVE  s \in rows[k] /\ s < fetchedTo
  <2>1. PICK r \in readings : r[1] = k /\ r[2] = s
    BY <1>1, <1>2
  <2> QED
    BY <2>1 DEF TodoWasRead
<1> QED
  BY <1>1, <1>2 DEF Contract!SomeTaken

\* What a file that covers its window claims is settled.
LEMMA ClaimIsSettled ==
  ASSUME TypeOK, NEW file \in ImportState, Covered(file)
  PROVE  Claim(file) \subseteq {p \in Keys \X SlotRange : Contract!Settled(p[1], p[2])}
<1> SUFFICES ASSUME NEW p \in Claim(file)
             PROVE  p \in Keys \X SlotRange /\ Contract!Settled(p[1], p[2])
  OBVIOUS
<1>1. /\ p \in Keys \X SlotRange /\ p[1] \in file.mapping_keys
      /\ file.since[p[1]] <= p[2] /\ p[2] < file.window_end
  BY DEF Claim
<1>2. p[2] \in Int /\ file.window_end \in Int /\ fetchedTo \in Int
  BY <1>1 DEF SlotRange, ImportState, TypeOK
<1> QED
  BY <1>1, <1>2 DEF Covered, Contract!Settled

LEMMA InitImplementsContract == Init => Contract!Init
<1> SUFFICES ASSUME Init PROVE Contract!Init
  OBVIOUS
<1>1. rows \in [Keys -> SUBSET SlotRange]
  BY TypeInit DEF TypeOK
<1>2. Claim(disk) = {} /\ Claim(durable) = {}
  BY FileMarkersAssumption DEF Init, Claim
<1> QED
  BY <1>1, <1>2 DEF Init, Contract!Init, Contract!Nothing, SlotRange

LEMMA StepImplementsContract ==
  TypeOK /\ CycleInvariant /\ TodoWasRead /\ [Next]_vars => [Contract!Next]_(Contract!vars)
<1> SUFFICES ASSUME TypeOK, CycleInvariant, TodoWasRead, [Next]_vars
             PROVE  [Contract!Next]_(Contract!vars)
  OBVIOUS
<1>1. ASSUME UNCHANGED <<rows, received, late, fetchedTo, disk, durable>>
      PROVE  UNCHANGED Contract!vars
  BY <1>1 DEF Contract!vars, Claim
<1>2. CASE HoldBack \/ NoReadings \/ Fetch
  <2>1. UNCHANGED <<rows, received, late, disk, durable>> /\ ReadRecorder
    BY <1>2 DEF HoldBack, NoReadings, Fetch, surroundings, files
  <2>2. CASE fetchedTo' = fetchedTo
    BY <1>1, <2>1, <2>2
  <2>3. CASE fetchedTo' # fetchedTo
    <3>1. fetchedTo' \in Int /\ fetchedTo' > fetchedTo
      BY <2>1, <2>3 DEF ReadRecorder, MaxOf, TypeOK
    <3>2. Contract!Read
      BY <2>1, <3>1 DEF Contract!Read, Claim
    <3> QED
      BY <3>2 DEF Contract!Next
  <2> QED
    BY <2>2, <2>3
<1>3. CASE BatchAcknowledged \/ BatchFails
  <2>1. Take(batch) \/ Take({})
    BY <1>3 DEF BatchAcknowledged, BatchFails, TakeOrNot
  <2>2. Contract!SomeTaken
    BY <2>1, TakenWasRead DEF TypeOK
  <2>3. UNCHANGED <<rows, late, fetchedTo, disk, durable>>
    BY <1>3 DEF BatchAcknowledged, BatchFails, files
  <2>4. Contract!Deliver
    BY <2>2, <2>3 DEF Contract!Deliver, Claim
  <2> QED
    BY <2>4 DEF Contract!Next
<1>4. CASE ReplaceFile
  <2>1. /\ disk' = CompletedState
        /\ UNCHANGED <<rows, received, late, fetchedTo, durable>>
    BY <1>4 DEF ReplaceFile, surroundings, CycleInvariant, ReadyToReplace
  <2>2. Covered(CompletedState) /\ CompletedState \in ImportState
    BY <1>4, CompletedStateCovers, CompletedStateType
       DEF ReplaceFile, Fetched, CycleInvariant, AllPosted
  <2>3. Claim(disk)' = Claim(CompletedState)
    BY <2>1 DEF Claim
  <2>4. Contract!Save
    BY <2>1, <2>2, <2>3, ClaimIsSettled DEF Contract!Save, Claim
  <2> QED
    BY <2>4 DEF Contract!Next
<1>5. CASE Crash
  <2>1. /\ disk' \in {disk, durable}
        /\ UNCHANGED <<rows, late, fetchedTo, durable>>
        /\ Take(batch) \/ Take({})
    BY <1>5 DEF Crash, TakeOrNot
  <2>2. Contract!SomeTaken
    BY <2>1, TakenWasRead DEF TypeOK
  <2>3. CASE disk' = disk
    <3>1. Contract!Deliver
      BY <2>1, <2>2, <2>3 DEF Contract!Deliver, Claim
    <3> QED
      BY <3>1 DEF Contract!Next
  <2>4. CASE disk' = durable
    <3>1. Contract!Lose
      BY <2>1, <2>2, <2>4 DEF Contract!Lose, Claim
    <3> QED
      BY <3>1 DEF Contract!Next
  <2> QED
    BY <2>1, <2>3, <2>4
<1>6. CASE FlushDirectory
  <2>1. Contract!Flush
    BY <1>6 DEF FlushDirectory, surroundings, Contract!Flush, Claim
  <2> QED
    BY <2>1 DEF Contract!Next
<1>7. ASSUME NEW k \in Keys, NEW s \in SlotRange, Record(k, s)
      PROVE  Contract!Next
  <2>1. Contract!Record(k, s)
    BY <1>7 DEF Record, files, Contract!Record, Claim
  <2> QED
    BY <2>1 DEF Contract!Next
<1>8. CASE \/ BeginCycle \/ Discover \/ DiscoverNothing \/ NothingCompleted
           \/ PostBatch \/ PostStopped \/ BatchRejected \/ WriteTemporary \/ FlushTemporary
  BY <1>1, <1>8 DEF BeginCycle, Discover, DiscoverNothing, NothingCompleted, PostBatch,
     PostStopped, BatchRejected, WriteTemporary, FlushTemporary, surroundings, files
<1>9. CASE \/ HomeAssistantFails \/ SaveFails \/ RequestStop \/ Exit \/ Restart
           \/ Tick \/ AdjustClock \/ Rediscover \/ UNCHANGED vars
  BY <1>1, <1>9 DEF HomeAssistantFails, SaveFails, RequestStop, Exit, Restart, Tick,
     AdjustClock, Rediscover, surroundings, files, vars
<1> QED
  BY <1>2, <1>3, <1>4, <1>5, <1>6, <1>7, <1>8, <1>9
     DEF Next, CycleStep, Failure, Surroundings, SlotRange

(***************************************************************************)
(* The import, with every failure of a call, a write or the power, does    *)
(* nothing the contract does not allow (run_cycle, save_atomic, load).     *)
(***************************************************************************)
THEOREM ImportImplementsContract == Spec => ImplementsContract
<1>1. Spec => [](TypeOK /\ CycleInvariant)
  BY TypeCorrect, CycleInvariantHolds, PTL
<1>2. Spec => []TodoWasRead
  BY TypeCorrect, TodoWasReadInit, TodoWasReadStep, PTL DEF Spec
<1> QED
  BY <1>1, <1>2, InitImplementsContract, StepImplementsContract, PTL
     DEF Spec, ImplementsContract, Contract!Spec

(***************************************************************************)
(* What the contract is for, from its steps alone: a promise is settled    *)
(* when it is made and stays so, since a slot recorded below the horizon   *)
(* is late and Hauzer keeps what it has; a loss of power only brings back  *)
(* an earlier promise.                                                     *)
(***************************************************************************)
ContractTypes ==
  /\ rows \in [Keys -> SUBSET SlotRange]
  /\ late \in [Keys -> SUBSET SlotRange]
  /\ fetchedTo \in Int
  /\ Claim(disk) \cup Claim(durable) \subseteq Keys \X SlotRange

LEMMA ClaimType ==
  ASSUME NEW file
  PROVE  Claim(file) \subseteq Keys \X SlotRange
BY DEF Claim

LEMMA ContractTypeStep ==
  ContractTypes /\ [Contract!Next]_(Contract!vars) => ContractTypes'
<1> SUFFICES ASSUME ContractTypes, [Contract!Next]_(Contract!vars) PROVE ContractTypes'
  OBVIOUS
<1>1. (Claim(disk) \cup Claim(durable) \subseteq Keys \X SlotRange)'
  BY ClaimType
<1>2. CASE \E k \in Keys, s \in SlotRange : Contract!Record(k, s)
  BY <1>1, <1>2 DEF Contract!Record, ContractTypes
<1>3. CASE Contract!Read
  BY <1>1, <1>3 DEF Contract!Read, ContractTypes
<1>4. CASE Contract!Deliver \/ Contract!Save \/ Contract!Flush \/ Contract!Lose
  BY <1>1, <1>4 DEF Contract!Deliver, Contract!Save, Contract!Flush, Contract!Lose, ContractTypes
<1>5. CASE UNCHANGED Contract!vars
  BY <1>1, <1>5 DEF Contract!vars, ContractTypes
<1> QED
  BY <1>2, <1>3, <1>4, <1>5 DEF Contract!Next

LEMMA SettledStays ==
  ASSUME ContractTypes, [Contract!Next]_(Contract!vars), NEW k \in Keys, NEW s \in SlotRange,
         Contract!Settled(k, s)
  PROVE  Contract!Settled(k, s)'
<1>1. s \in Int /\ fetchedTo \in Int /\ s < fetchedTo
  BY DEF ContractTypes, SlotRange, Contract!Settled
<1>2. CASE \E l \in Keys, t \in SlotRange : Contract!Record(l, t)
  BY <1>1, <1>2 DEF Contract!Record, Contract!Settled, ContractTypes
<1>3. CASE Contract!Read
  BY <1>1, <1>3 DEF Contract!Read, Contract!Settled
<1>4. CASE Contract!Deliver \/ Contract!Lose
  BY <1>1, <1>4 DEF Contract!Deliver, Contract!Lose, Contract!SomeTaken, Contract!Settled
<1>5. CASE Contract!Save \/ Contract!Flush \/ UNCHANGED Contract!vars
  BY <1>1, <1>5 DEF Contract!Save, Contract!Flush, Contract!vars, Contract!Settled
<1> QED
  BY <1>2, <1>3, <1>4, <1>5 DEF Contract!Next

LEMMA PromisesStayKept ==
  ContractTypes /\ Contract!PromisesKept /\ [Contract!Next]_(Contract!vars)
    => Contract!PromisesKept'
<1> SUFFICES ASSUME ContractTypes, Contract!PromisesKept, [Contract!Next]_(Contract!vars),
                    NEW p \in Claim(disk)' \cup Claim(durable)'
             PROVE  Contract!Settled(p[1], p[2])'
  BY DEF Contract!PromisesKept
<1>1. p \in Keys \X SlotRange
  BY ClaimType
<1>2. CASE p \in Claim(disk) \cup Claim(durable)
  BY <1>1, <1>2, SettledStays DEF Contract!PromisesKept
<1>3. CASE p \notin Claim(disk) \cup Claim(durable)
  <2>1. Contract!Save
    BY <1>3 DEF Contract!Next, Contract!Record, Contract!Read, Contract!Deliver, Contract!Flush,
       Contract!Lose, Contract!vars
  <2>2. Contract!Settled(p[1], p[2])
    BY <1>3, <2>1 DEF Contract!Save
  <2> QED
    BY <1>1, <2>2, SettledStays
<1> QED
  BY <1>2, <1>3

(***************************************************************************)
(* Whoever keeps the contract never promises a slot that is not settled,   *)
(* neither in the file nor in what a loss of power would leave (state.py). *)
(***************************************************************************)
THEOREM ContractKeepsPromises == Contract!Spec => []Contract!PromisesKept
<1>1. Contract!Init => ContractTypes /\ Contract!PromisesKept
  BY DEF Contract!Init, Contract!Nothing, ContractTypes, Contract!PromisesKept
<1> QED
  BY <1>1, ContractTypeStep, PromisesStayKept, PTL DEF Contract!Spec

-----------------------------------------------------------------------------
(***************************************************************************)
(* Saves move the cursor forward: without an adjustment of the clock, no   *)
(* file is ahead of it, and during a cycle none is ahead of the window's   *)
(* end, which is what the cycle saves.                                     *)
(***************************************************************************)
BehindClock(file) == file \in ImportState => file.window_end <= now

CursorBehindClock ==
  jumps = 0 =>
    /\ wend <= now
    /\ BehindClock(disk)
    /\ BehindClock(durable)
    /\ pc \notin {"idle", "down"} => (disk \in ImportState => disk.window_end <= wend)

LEMMA BehindClockInit == Init => CursorBehindClock
<1> SUFFICES ASSUME Init PROVE CursorBehindClock
  OBVIOUS
<1>1. Absent \notin ImportState
  BY FileMarkersAssumption
<1>2. 0 <= now
  BY ImportServiceAssumption DEF Init
<1> QED
  BY <1>1, <1>2 DEF Init, CursorBehindClock, BehindClock

LEMMA BehindClockStep ==
  TypeOK /\ CycleInvariant /\ CursorBehindClock /\ [Next]_vars => CursorBehindClock'
<1> SUFFICES ASSUME TypeOK, CycleInvariant, CursorBehindClock, [Next]_vars, jumps' = 0
             PROVE  (/\ wend <= now
                     /\ BehindClock(disk)
                     /\ BehindClock(durable)
                     /\ pc \notin {"idle", "down"} =>
                          (disk \in ImportState => disk.window_end <= wend))'
  BY DEF CursorBehindClock
<1>1. /\ now \in Nat /\ wend \in Nat /\ jumps \in Nat
      /\ \A file \in ImportState : file.window_end \in Int
  BY ImportServiceAssumption DEF TypeOK, ImportState
\* The cycle goes on, or ends without a save.
<1>2. ASSUME jumps' = jumps, now' = now, wend' = wend \/ wend' = 0, disk' = disk,
             durable' \in {disk, durable},
             pc' \in {"idle", "down"} \/ (wend' = wend /\ pc \notin {"idle", "down"})
      PROVE  (/\ wend <= now
              /\ BehindClock(disk)
              /\ BehindClock(durable)
              /\ pc \notin {"idle", "down"} =>
                   (disk \in ImportState => disk.window_end <= wend))'
  BY <1>1, <1>2 DEF CursorBehindClock, BehindClock
<1>3. EndCycle => pc' = "idle" /\ wend' = 0
  BY DEF EndCycle
<1>4. Fault => jumps' = jumps
  BY DEF Fault
<1>5. CASE BeginCycle
  BY <1>1, <1>5 DEF BeginCycle, surroundings, files, budgets, CursorBehindClock, BehindClock
<1>6. CASE Discover
  BY <1>2, <1>6 DEF Discover, surroundings, files, budgets
<1>7. CASE \/ DiscoverNothing \/ NothingCompleted \/ HoldBack \/ NoReadings \/ PostStopped
           \/ BatchRejected
  BY <1>2, <1>3, <1>7 DEF DiscoverNothing, NothingCompleted, HoldBack, NoReadings, PostStopped,
     BatchRejected, surroundings, files, budgets
<1>8. CASE Fetch \/ PostBatch
  BY <1>2, <1>8 DEF Fetch, PostBatch, surroundings, files, budgets
<1>9. CASE HomeAssistantFails \/ BatchFails \/ SaveFails
  BY <1>2, <1>3, <1>4, <1>9 DEF HomeAssistantFails, BatchFails, SaveFails, surroundings, files
<1>10. CASE BatchAcknowledged
  BY <1>2, <1>10 DEF BatchAcknowledged, files, budgets
<1>11. CASE WriteTemporary \/ FlushTemporary
  BY <1>2, <1>11 DEF WriteTemporary, FlushTemporary, surroundings, budgets
<1>12. CASE ReplaceFile
  <2>1. disk'.window_end = wend
    BY <1>12 DEF ReplaceFile, CycleInvariant, ReadyToReplace, CompletedState
  <2>2. jumps = 0 /\ now' = now /\ durable' = durable /\ pc' = "idle" /\ wend' = 0
    BY <1>3, <1>12 DEF ReplaceFile, surroundings, budgets
  <2> QED
    BY <1>1, <2>1, <2>2 DEF CursorBehindClock, BehindClock
<1>13. CASE RequestStop
  <2>1. UNCHANGED <<jumps, now, wend, disk, durable, pc>>
    BY <1>4, <1>13 DEF RequestStop, surroundings, files
  <2> QED
    BY <1>1, <2>1 DEF CursorBehindClock, BehindClock
<1>14. CASE Exit \/ Restart
  <2>1. UNCHANGED <<jumps, now, wend, disk, durable>>
    BY <1>14 DEF Exit, Restart, surroundings, files, budgets
  <2>2. pc' \in {"idle", "down"}
    BY <1>14 DEF Exit, Restart
  <2> QED
    BY <1>1, <2>1, <2>2 DEF CursorBehindClock, BehindClock
<1>15. CASE Crash
  BY <1>1, <1>4, <1>15 DEF Crash, CursorBehindClock, BehindClock
<1>16. CASE FlushDirectory
  BY <1>1, <1>16 DEF FlushDirectory, surroundings, process, budgets, CursorBehindClock, BehindClock
<1>17. CASE Tick
  BY <1>1, <1>17 DEF Tick, files, process, budgets, CursorBehindClock, BehindClock
<1>18. CASE AdjustClock
  BY <1>1, <1>18 DEF AdjustClock
<1>19. CASE Rediscover \/ (\E k \in Keys, s \in SlotRange : Record(k, s)) \/ UNCHANGED vars
  <2>1. UNCHANGED <<jumps, now, wend, disk, durable, pc>>
    BY <1>19 DEF Rediscover, Record, files, process, budgets, surroundings, vars
  <2> QED
    BY <1>1, <2>1 DEF CursorBehindClock, BehindClock
<1> QED
  BY <1>5, <1>6, <1>7, <1>8, <1>9, <1>10, <1>11, <1>12, <1>13, <1>14, <1>15, <1>16, <1>17,
     <1>18, <1>19
     DEF Next, CycleStep, Failure, Surroundings, SlotRange

(***************************************************************************)
(* save_atomic never replaces a cursor by an older one, for every backfill *)
(* and every replay, unless the wall clock was adjusted.                   *)
(***************************************************************************)
THEOREM SavesMoveForward == Spec => SavesNeverRewind
<1>1. TypeOK /\ CycleInvariant /\ CursorBehindClock /\ [Next]_vars
        => [ReplaceFile /\ disk # Absent /\ jumps = 0
              => disk'.window_end >= disk.window_end]_vars
  <2> SUFFICES ASSUME TypeOK, CycleInvariant, CursorBehindClock,
                      ReplaceFile, disk # Absent, jumps = 0
               PROVE  disk'.window_end >= disk.window_end
    OBVIOUS
  <2>1. disk \in ImportState
    BY DEF TypeOK, FileContent, CycleInvariant, StateFileIsWhole
  <2>2. disk'.window_end = wend
    BY DEF ReplaceFile, CycleInvariant, ReadyToReplace, CompletedState
  <2>3. disk.window_end <= wend
    BY <2>1 DEF ReplaceFile, CursorBehindClock
  <2> QED
    BY <2>2, <2>3
<1>2. Spec => [](TypeOK /\ CycleInvariant)
  BY TypeCorrect, CycleInvariantHolds, PTL
<1> QED
  BY <1>1, <1>2, BehindClockInit, BehindClockStep, PTL DEF Spec, SavesNeverRewind

-----------------------------------------------------------------------------
(***************************************************************************)
(* The metered import is the import with two more variables.               *)
(***************************************************************************)
LEMMA MeteredInitImports == MeteredInit => Init
BY DEF MeteredInit

LEMMA MeteredStepImports == [MeteredNext]_meteredVars => [Next]_vars
<1> SUFFICES ASSUME [MeteredNext]_meteredVars PROVE Next \/ UNCHANGED vars
  OBVIOUS
<1>1. CASE MeasuredFetch \/ BatchHeld
  BY <1>1 DEF MeasuredFetch, BatchHeld, Next, CycleStep
<1>2. CASE BatchInDoubt
  BY <1>2 DEF BatchInDoubt, Next, Failure
<1>3. CASE Unmetered
  BY <1>3 DEF Unmetered, Next, CycleStep, Failure
<1>4. CASE UNCHANGED meteredVars
  BY <1>4 DEF meteredVars
<1> QED
  BY <1>1, <1>2, <1>3, <1>4 DEF MeteredNext

LEMMA MeteredIsImport == MeteredSpec => Spec
BY MeteredInitImports, MeteredStepImports, PTL DEF MeteredSpec, Spec

(***************************************************************************)
(* What is shown of the import holds of the metered one, the contract too. *)
(***************************************************************************)
THEOREM MeteredImplementsContract == MeteredSpec => ImplementsContract
BY MeteredIsImport, ImportImplementsContract, PTL

-----------------------------------------------------------------------------
(***************************************************************************)
(* Types.                                                                  *)
(***************************************************************************)
LEMMA MeteredTypeInit == MeteredInit => MeteredTypeOK
BY DEF MeteredInit, Init, MeteredTypeOK

\* Readings only leave todo, except when a window is fetched.
LEMMA TodoShrinks ==
  ASSUME BatchHeld \/ BatchInDoubt \/ Unmetered
  PROVE  todo' \subseteq todo
<1>1. CASE BatchHeld \/ BatchInDoubt
  BY <1>1 DEF BatchHeld, BatchAcknowledged, BatchInDoubt, BatchFails, Crash, EndCycle
<1>2. CASE Unmetered
  BY <1>2 DEF Unmetered, Surroundings, process, EndCycle, BeginCycle, Discover,
     DiscoverNothing, NothingCompleted, HoldBack, NoReadings, PostBatch, PostStopped,
     BatchRejected, WriteTemporary, FlushTemporary, ReplaceFile, HomeAssistantFails,
     SaveFails, RequestStop, Exit, Restart, FlushDirectory, Tick, AdjustClock, Record, Rediscover
<1> QED
  BY <1>1, <1>2

\* Outside a delivery nothing reaches Hauzer.
LEMMA UnmeteredReceivesNothing ==
  ASSUME Unmetered
  PROVE  received' = received
BY DEF Unmetered, Surroundings, surroundings, BeginCycle, Discover,
   DiscoverNothing, NothingCompleted, HoldBack, NoReadings, PostBatch, PostStopped,
   BatchRejected, WriteTemporary, FlushTemporary, ReplaceFile,
   HomeAssistantFails, SaveFails, RequestStop, Exit, Restart, FlushDirectory,
   Tick, AdjustClock, Record, Rediscover

\* What Hauzer takes with a batch is in the batch.
LEMMA TakenFromBatch ==
  ASSUME TypeOK, Take(batch), NEW k \in Keys, NEW t \in received'[k], <<k, t>> \notin batch
  PROVE  t \in received[k]
<1>1. received'[k] = received[k] \cup {r[2] : r \in {q \in batch : q[1] = k}}
  BY DEF Take
<1>2. \A r \in batch : r[1] = k => r[2] # t
  BY DEF TypeOK
<1> QED
  BY <1>1, <1>2

LEMMA OverwriteType ==
  ASSUME TypeOK, MeteredTypeOK, Take(batch), Overwrite
  PROVE  \A k \in Keys : held'[k] \in [received'[k] -> SlotRange]
<1> SUFFICES ASSUME NEW k \in Keys PROVE held'[k] \in [received'[k] -> SlotRange]
  OBVIOUS
<1>1. held'[k] = [t \in received'[k] |->
                    IF <<k, t>> \in batch THEN from[<<k, t>>] ELSE held[k][t]]
  BY DEF Overwrite
<1>2. ASSUME NEW t \in received'[k], <<k, t>> \in batch
      PROVE  from[<<k, t>>] \in SlotRange
  BY <1>2 DEF TypeOK, MeteredTypeOK
<1>3. ASSUME NEW t \in received'[k], <<k, t>> \notin batch
      PROVE  t \in received[k]
  BY <1>3, TakenFromBatch
<1>4. \A t \in received'[k] : <<k, t>> \notin batch => held[k][t] \in SlotRange
  BY <1>3 DEF MeteredTypeOK
<1> QED
  BY <1>1, <1>2, <1>4

LEMMA MeteredTypeStep ==
  TypeOK /\ MeteredTypeOK /\ [MeteredNext]_meteredVars => MeteredTypeOK'
<1> SUFFICES ASSUME TypeOK, MeteredTypeOK, [MeteredNext]_meteredVars PROVE MeteredTypeOK'
  OBVIOUS
<1>2. ASSUME KeepMeasures, todo' \subseteq todo
      PROVE  from' \in [todo' -> SlotRange]
  BY <1>2 DEF KeepMeasures, MeteredTypeOK
<1>3. CASE MeasuredFetch
  BY <1>3 DEF MeasuredFetch, Measure, MeteredTypeOK, Fetch, surroundings
<1>4. CASE BatchHeld
  <2>1. from' \in [todo' -> SlotRange]
    BY <1>2, <1>4, TodoShrinks DEF BatchHeld
  <2> QED
    BY <1>4, <2>1, OverwriteType DEF BatchHeld, BatchAcknowledged, MeteredTypeOK
<1>5. CASE BatchInDoubt
  <2>1. from' \in [todo' -> SlotRange]
    BY <1>2, <1>5, TodoShrinks DEF BatchInDoubt
  <2> QED
    BY <1>5, <2>1, OverwriteType DEF BatchInDoubt, MeteredTypeOK
<1>6. CASE Unmetered
  <2>1. from' \in [todo' -> SlotRange]
    BY <1>2, <1>6, TodoShrinks DEF Unmetered
  <2> QED
    BY <1>6, <2>1, UnmeteredReceivesNothing DEF Unmetered, MeteredTypeOK
<1>7. CASE UNCHANGED meteredVars
  BY <1>7 DEF meteredVars, meters, vars, surroundings, process, MeteredTypeOK
<1> QED
  BY <1>3, <1>4, <1>5, <1>6, <1>7 DEF MeteredNext

-----------------------------------------------------------------------------
(***************************************************************************)
(* A reading stays well counted: a row that appears below it later is late.*)
(***************************************************************************)
LEMMA StaysCounted ==
  ASSUME TypeOK, TypeOK', Grows, NEW k \in Keys, NEW t \in SlotRange, NEW p \in SlotRange,
         WellCounted(k, t, p)
  PROVE  WellCounted(k, t, p)'
<1>1. fetchedTo \in Int /\ fetchedTo' \in Int /\ t \in Int /\ fetchedTo <= fetchedTo'
  BY DEF TypeOK, Grows, SlotRange
<1>2. t < fetchedTo'
  BY <1>1 DEF WellCounted
<1>3. ASSUME NEW s \in rows'[k] \ late'[k], s < t
      PROVE  s \in rows[k] \ late[k]
  <2>1. s \in Int
    BY DEF TypeOK, SlotRange
  <2>2. s \in rows[k] \/ fetchedTo <= s
    BY DEF Grows
  <2> QED
    BY <1>1, <1>3, <2>1, <2>2 DEF WellCounted, Grows
<1> QED
  BY <1>2, <1>3 DEF WellCounted

(***************************************************************************)
(* A window read with the slot before it counts its readings well.         *)
(***************************************************************************)
LEMMA FetchCountsWell ==
  ASSUME TypeOK, Fetch, NEW r \in todo', NEW p \in SlotRange, CountsFrom(r[1], r[2], p)
  PROVE  WellCounted(r[1], r[2], p)'
<1> DEFINE k == r[1]
           t == r[2]
<1>1. k \in maps /\ t \in rows[k] \cap Window
  BY DEF Fetch, ReadingsOf
<1>2. /\ k \in Keys /\ t \in Int /\ p \in Int /\ wend \in Int /\ WindowStart \in Int
      /\ fetchedTo \in Int /\ rows[k] \subseteq Int
  BY <1>1, WindowStartType DEF TypeOK, SlotRange
<1>3. WindowStart <= t /\ t < wend
  BY <1>1, <1>2 DEF Window
<1>4. UNCHANGED <<rows, late>> /\ wend <= fetchedTo'  /\ fetchedTo' \in Int
  BY <1>2 DEF Fetch, ReadRecorder, MaxOf, surroundings
<1>5. ASSUME NEW s \in rows[k], s < t
      PROVE  s <= p /\ (s = t - 1 => p = s)
  <2>1. CASE WindowStart - 1 <= s
    <3>1. s \in {q \in FetchedRows(k) : q < t}
      BY <1>2, <1>3, <1>5, <2>1 DEF FetchedRows
    <3>2. p \in FetchedRows(k) /\ p < t /\ s <= p
      BY <3>1 DEF CountsFrom
    <3> QED
      BY <1>2, <3>2
  <2>2. CASE ~(WindowStart - 1 <= s)
    <3>1. p = t \/ p \in FetchedRows(k)
      BY DEF CountsFrom
    <3>2. WindowStart - 1 <= p
      BY <1>2, <1>3, <3>1 DEF FetchedRows
    <3> QED
      BY <1>2, <1>3, <2>2, <3>2
  <2> QED
    BY <2>1, <2>2
<1> QED
  BY <1>2, <1>3, <1>4, <1>5 DEF WellCounted

LEMMA MeteredInvariantInit == MeteredInit => MeteredInvariant
BY DEF MeteredInit, Init, MeteredInvariant

LEMMA OverwriteCountsWell ==
  ASSUME TypeOK, TypeOK', MeteredTypeOK, Grows, MeteredInvariant, Take(batch), Overwrite,
         NEW k \in Keys, NEW t \in received'[k]
  PROVE  WellCounted(k, t, held[k][t])'
<1>1. held'[k][t] = IF <<k, t>> \in batch THEN from[<<k, t>>] ELSE held[k][t]
  BY DEF Overwrite
<1>2. t \in SlotRange
  BY DEF TypeOK
<1>3. CASE <<k, t>> \in batch
  <2>1. <<k, t>> \in todo
    BY <1>3 DEF TypeOK
  <2>2. WellCounted(k, t, from[<<k, t>>]) /\ from[<<k, t>>] \in SlotRange
    BY <2>1 DEF MeteredInvariant, MeteredTypeOK
  <2> QED
    BY <1>1, <1>2, <1>3, <2>2, StaysCounted
<1>4. CASE <<k, t>> \notin batch
  <2>1. t \in received[k]
    BY <1>4, TakenFromBatch
  <2>2. WellCounted(k, t, held[k][t]) /\ held[k][t] \in SlotRange
    BY <2>1 DEF MeteredInvariant, MeteredTypeOK
  <2> QED
    BY <1>1, <1>2, <1>4, <2>2, StaysCounted
<1> QED
  BY <1>3, <1>4

LEMMA MeteredInvariantStep ==
  TypeOK /\ TypeOK' /\ MeteredTypeOK /\ MeteredTypeOK' /\ MeteredInvariant
    /\ [MeteredNext]_meteredVars => MeteredInvariant'
<1> SUFFICES ASSUME TypeOK, TypeOK', MeteredTypeOK, MeteredTypeOK', MeteredInvariant,
                    [MeteredNext]_meteredVars
             PROVE  MeteredInvariant'
  OBVIOUS
<1>1. Grows
  BY MeteredStepImports, EveryStepGrows
<1>2. ASSUME received' = received, held' = held,
             NEW k \in Keys, NEW t \in received'[k]
      PROVE  WellCounted(k, t, held[k][t])'
  <2>1. WellCounted(k, t, held[k][t]) /\ held[k][t] \in SlotRange /\ t \in SlotRange
    BY <1>2 DEF MeteredInvariant, MeteredTypeOK, TypeOK
  <2> QED
    BY <1>1, <1>2, <2>1, StaysCounted
<1>3. ASSUME KeepMeasures, todo' \subseteq todo, NEW r \in todo'
      PROVE  WellCounted(r[1], r[2], from[r])'
  <2>1. /\ WellCounted(r[1], r[2], from[r]) /\ from[r] \in SlotRange
        /\ r[1] \in Keys /\ r[2] \in SlotRange
    BY <1>3 DEF MeteredInvariant, MeteredTypeOK, TypeOK
  <2>2. from'[r] = from[r]
    BY <1>3 DEF KeepMeasures
  <2> QED
    BY <1>1, <2>1, <2>2, StaysCounted
<1>4. CASE MeasuredFetch
  <2>1. ASSUME NEW r \in todo' PROVE WellCounted(r[1], r[2], from[r])'
    <3>1. from'[r] \in SlotRange /\ CountsFrom(r[1], r[2], from'[r])
      BY <1>4 DEF MeasuredFetch, Measure
    <3> QED
      BY <1>4, <3>1, FetchCountsWell DEF MeasuredFetch
  <2> QED
    BY <1>2, <1>4, <2>1 DEF MeasuredFetch, Fetch, surroundings, MeteredInvariant
<1>5. CASE BatchHeld
  <2>1. Take(batch) /\ Overwrite /\ KeepMeasures
    BY <1>5 DEF BatchHeld, BatchAcknowledged
  <2> QED
    BY <1>1, <1>3, <1>5, <2>1, TodoShrinks, OverwriteCountsWell DEF MeteredInvariant
<1>6. CASE BatchInDoubt
  <2>1. KeepMeasures /\ todo' \subseteq todo
    BY <1>6, TodoShrinks DEF BatchInDoubt
  <2>2. CASE Take(batch) /\ Overwrite
    BY <1>1, <1>3, <2>1, <2>2, OverwriteCountsWell DEF MeteredInvariant
  <2>3. CASE received' = received /\ held' = held
    BY <1>2, <1>3, <2>1, <2>3 DEF MeteredInvariant
  <2> QED
    BY <1>6, <2>2, <2>3 DEF BatchInDoubt
<1>7. CASE Unmetered
  BY <1>2, <1>3, <1>7, TodoShrinks, UnmeteredReceivesNothing DEF Unmetered, MeteredInvariant
<1>8. CASE UNCHANGED meteredVars
  <2>1. UNCHANGED <<from, held, todo, received>>
    BY <1>8 DEF meteredVars, meters, vars, surroundings, process
  <2>2. ASSUME NEW r \in todo' PROVE WellCounted(r[1], r[2], from[r])'
    <3>1. /\ WellCounted(r[1], r[2], from[r]) /\ from[r] \in SlotRange
          /\ r[1] \in Keys /\ r[2] \in SlotRange
      BY <2>1 DEF MeteredInvariant, MeteredTypeOK, TypeOK
    <3> QED
      BY <1>1, <2>1, <3>1, StaysCounted
  <2> QED
    BY <1>2, <2>1, <2>2 DEF MeteredInvariant
<1> QED
  BY <1>4, <1>5, <1>6, <1>7, <1>8 DEF MeteredNext

-----------------------------------------------------------------------------
(***************************************************************************)
(* Every variable keeps its type, and every reading built or delivered     *)
(* counts from a row below which nothing timely was left out.              *)
(***************************************************************************)
THEOREM MeteredCorrect == MeteredSpec => [](MeteredTypeOK /\ MeteredInvariant)
<1>1. MeteredInit => TypeOK /\ MeteredTypeOK /\ MeteredInvariant
  BY MeteredInitImports, TypeInit, MeteredTypeInit, MeteredInvariantInit
<1>2. TypeOK /\ MeteredTypeOK /\ MeteredInvariant /\ [MeteredNext]_meteredVars
        => (TypeOK /\ MeteredTypeOK /\ MeteredInvariant)'
  BY MeteredStepImports, TypeStep, MeteredTypeStep, MeteredInvariantStep
<1> QED
  BY <1>1, <1>2, PTL DEF MeteredSpec

(***************************************************************************)
(* No timely slot is part of the delta of a later reading Hauzer holds.    *)
(***************************************************************************)
THEOREM ConsumptionCountedOnce == MeteredSpec => []CountedOnce
<1>1. MeteredInvariant => CountedOnce
  BY DEF MeteredInvariant, WellCounted, CountedOnce
<1> QED
  BY <1>1, MeteredCorrect, PTL

(***************************************************************************)
(* The delta of a slot begins where its timely neighbour ends.             *)
(***************************************************************************)
THEOREM NoConsumptionLostBetweenNeighbours == MeteredSpec => []NeighboursMeet
<1>1. MeteredTypeOK /\ TypeOK /\ MeteredInvariant => NeighboursMeet
  <2> SUFFICES ASSUME TypeOK, MeteredInvariant, NEW k \in Keys, NEW t \in received[k],
                      t - 1 \in rows[k] \ late[k]
               PROVE  held[k][t] = t - 1
    BY DEF NeighboursMeet
  <2>1. t \in Int
    BY DEF TypeOK, SlotRange
  <2> QED
    BY <2>1 DEF MeteredInvariant, WellCounted
<1>2. MeteredSpec => []TypeOK
  BY MeteredIsImport, TypeCorrect, PTL
<1> QED
  BY <1>1, <1>2, MeteredCorrect, PTL

=============================================================================
