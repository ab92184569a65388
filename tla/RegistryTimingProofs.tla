------------------------ MODULE RegistryTimingProofs ------------------------
(***************************************************************************)
(* Proofs about RegistryTiming: the timing of registry snapshots for every *)
(* debounce, cooldown and refresh interval, zero included, and every       *)
(* sequence of events, reconnects, reads and failures.                     *)
(***************************************************************************)
EXTENDS RegistryTiming, TLAPS

\* A deadline is never nearer than the age of what set it allows.
DebounceCounted ==
  /\ changeIn # Unset => changeIn >= Debounce - sinceEvent
  /\ reconnectIn # Unset =>
       /\ reconnectIn >= Debounce - sinceReconnect
       /\ reconnectIn >= Cooldown - sinceCover
  /\ allowedIn >= Cooldown - sinceCover

TimingInvariant ==
  /\ TypeOK
  /\ DailyRefreshOnTime
  /\ DebounceCounted

LEMMA InitTiming == Init => TimingInvariant
BY RegistryScheduleAssumption
   DEF Init, ScheduleInit, TimingInvariant, TypeOK, DailyRefreshOnTime, DebounceCounted, Timers,
       LongestReconnect

LEMMA NextTiming == TimingInvariant /\ [Next]_vars => TimingInvariant'
<1> SUFFICES ASSUME TimingInvariant, [Next]_vars
             PROVE  TimingInvariant'
  OBVIOUS
<1> USE RegistryScheduleAssumption
    DEF TimingInvariant, TypeOK, DailyRefreshOnTime, DebounceCounted, Timers, LongestReconnect
<1>1. CASE Event
  BY <1>1 DEF Event, Changed
<1>2. CASE Reconnect
  BY <1>2 DEF Reconnect, Reconnected
<1>3. CASE Attempt
  <2>1. /\ refreshIn' = Refresh /\ sinceAttempt' = 0
        /\ changeIn' = Unset /\ sinceEvent' = sinceEvent
        /\ reconnectIn' = Unset /\ sinceReconnect' = sinceReconnect
        /\ retrying' = FALSE
    BY <1>3 DEF Attempt, Started
  <2>2. \/ allowedIn' = Cooldown /\ sinceCover' = 0
        \/ allowedIn' = allowedIn /\ sinceCover' = sinceCover
    BY <1>3 DEF Attempt, Started
  <2>3. TypeOK'
    <3>1. refreshIn' \in 0..Refresh /\ sinceAttempt' \in 0..Refresh
      BY <2>1
    <3>2. allowedIn' \in 0..Cooldown /\ sinceCover' \in 0..Cooldown
      BY <2>2
    <3>3. sinceEvent' \in 0..Debounce /\ sinceReconnect' \in 0..Debounce
      BY <2>1
    <3>4. changeIn' = Unset /\ reconnectIn' = Unset /\ retrying' \in BOOLEAN
      BY <2>1
    <3> QED
      BY <3>1, <3>2, <3>3, <3>4
  <2>4. DailyRefreshOnTime'
    <3>1. refreshIn' = Refresh - sinceAttempt'
      BY <2>1
    <3> QED
      BY <2>1, <3>1
  <2>5. DebounceCounted'
    BY <2>1, <2>2
  <2> QED
    BY <2>3, <2>4, <2>5
<1>4. CASE Failure
  BY <1>4 DEF Failure, ReadFailed
<1>5. CASE Tick
  <2>1. /\ refreshIn' = IF refreshIn > 0 THEN refreshIn - 1 ELSE 0
        /\ sinceAttempt' = IF sinceAttempt < Refresh THEN sinceAttempt + 1 ELSE sinceAttempt
        /\ retrying' = retrying
    BY <1>5 DEF Tick, Elapse, Left, Later
  <2>2. /\ changeIn' = IF changeIn = Unset THEN Unset
                        ELSE IF changeIn > 0 THEN changeIn - 1 ELSE 0
        /\ sinceEvent' = IF sinceEvent < Debounce THEN sinceEvent + 1 ELSE sinceEvent
    BY <1>5 DEF Tick, Elapse, Left, Later
  <2>3. /\ reconnectIn' = IF reconnectIn = Unset THEN Unset
                           ELSE IF reconnectIn > 0 THEN reconnectIn - 1 ELSE 0
        /\ sinceReconnect' = IF sinceReconnect < Debounce THEN sinceReconnect + 1
                              ELSE sinceReconnect
    BY <1>5 DEF Tick, Elapse, Left, Later
  <2>4. /\ allowedIn' = IF allowedIn > 0 THEN allowedIn - 1 ELSE 0
        /\ sinceCover' = IF sinceCover < Cooldown THEN sinceCover + 1 ELSE sinceCover
    BY <1>5 DEF Tick, Elapse, Left, Later
  <2>5. TypeOK'
    BY <2>1, <2>2, <2>3, <2>4
  <2>6. DailyRefreshOnTime'
    BY <2>1
  <2>7. DebounceCounted'
    BY <2>2, <2>3, <2>4
  <2> QED
    BY <2>5, <2>6, <2>7
<1>6. CASE UNCHANGED vars
  BY <1>6 DEF vars, schedule, history
<1> QED
  BY <1>1, <1>2, <1>3, <1>4, <1>5, <1>6 DEF Next

\* The invariant of the schedule.
THEOREM TimingInvariantHolds == Spec => []TimingInvariant
BY InitTiming, NextTiming, PTL DEF Spec

\* No deadline leaves its range.
THEOREM TimingTypeCorrect == Spec => []TypeOK
<1>1. TimingInvariant => TypeOK
  BY DEF TimingInvariant
<1> QED
  BY <1>1, TimingInvariantHolds, PTL

\* Nothing puts the daily refresh off, and only a failed read brings it forward.
THEOREM DailyRefresh == Spec => []DailyRefreshOnTime
<1>1. TimingInvariant => DailyRefreshOnTime
  BY DEF TimingInvariant
<1> QED
  BY <1>1, TimingInvariantHolds, PTL

\* A read is a retry, a daily refresh, or follows a quiet debounce and cooldown.
THEOREM Debounced == Spec => ReadsAreDebounced
<1> DEFINE Quiet == \/ retrying
                    \/ sinceAttempt = Refresh
                    \/ changeIn # Unset /\ sinceEvent = Debounce
                    \/ reconnectIn # Unset /\ sinceReconnect = Debounce /\ sinceCover = Cooldown
<1>1. TimingInvariant /\ [Next]_vars => [Attempt => Quiet]_vars
  <2> SUFFICES ASSUME TimingInvariant, Attempt
               PROVE  Quiet
    OBVIOUS
  <2>1. Due
    BY DEF Attempt, Started
  <2> QED
    BY <2>1, RegistryScheduleAssumption
       DEF Due, TimingInvariant, TypeOK, DailyRefreshOnTime, DebounceCounted, Timers,
           LongestReconnect
<1> QED
  BY <1>1, TimingInvariantHolds, PTL DEF Spec, ReadsAreDebounced

=============================================================================
