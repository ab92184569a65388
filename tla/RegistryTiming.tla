--------------------------- MODULE RegistryTiming ---------------------------
(***************************************************************************)
(* RegistrySchedule with a history of how long ago things happened, and    *)
(* the timing the documentation promises stated in terms of that history:  *)
(* DOCS.md, "Registry sync".  RegistrySync drives the same four timers     *)
(* through the same operations (its property FollowsSchedule), so what     *)
(* holds here holds there.                                                 *)
(***************************************************************************)
EXTENDS RegistrySchedule

VARIABLES
  sinceAttempt,    \* time since the last read began, up to Refresh
  sinceEvent,      \* time since the last registry event, up to Debounce
  sinceReconnect,  \* time since the last reconnect, up to Debounce
  sinceCover,      \* time since a read last covered a reconnect, up to Cooldown
  retrying         \* the last read failed, or none has begun yet

history == <<sinceAttempt, sinceEvent, sinceReconnect, sinceCover, retrying>>
vars == <<schedule, history>>

Timers(bound) == 0..bound

LongestReconnect == IF Cooldown > Debounce THEN Cooldown ELSE Debounce

TypeOK ==
  /\ refreshIn \in Timers(Refresh)
  /\ changeIn \in Timers(Debounce) \cup {Unset}
  /\ reconnectIn \in Timers(LongestReconnect) \cup {Unset}
  /\ allowedIn \in Timers(Cooldown)
  /\ sinceAttempt \in Timers(Refresh)
  /\ sinceEvent \in Timers(Debounce)
  /\ sinceReconnect \in Timers(Debounce)
  /\ sinceCover \in Timers(Cooldown)
  /\ retrying \in BOOLEAN

Init ==
  /\ ScheduleInit
  /\ sinceAttempt = Refresh
  /\ sinceEvent = Debounce
  /\ sinceReconnect = Debounce
  /\ sinceCover = Cooldown
  /\ retrying = TRUE

Event ==
  /\ Changed
  /\ sinceEvent' = 0
  /\ UNCHANGED <<sinceAttempt, sinceReconnect, sinceCover, retrying>>

Reconnect ==
  /\ Reconnected
  /\ sinceReconnect' = 0
  /\ UNCHANGED <<sinceAttempt, sinceEvent, sinceCover, retrying>>

Attempt ==
  /\ Started
  /\ sinceAttempt' = 0
  /\ sinceCover' = IF reconnectIn # Unset THEN 0 ELSE sinceCover
  /\ retrying' = FALSE
  /\ UNCHANGED <<sinceEvent, sinceReconnect>>

Failure ==
  /\ ReadFailed
  /\ retrying' = TRUE
  /\ UNCHANGED <<sinceAttempt, sinceEvent, sinceReconnect, sinceCover>>

Later(age, bound) == IF age < bound THEN age + 1 ELSE age

Tick ==
  /\ Elapse
  /\ sinceAttempt' = Later(sinceAttempt, Refresh)
  /\ sinceEvent' = Later(sinceEvent, Debounce)
  /\ sinceReconnect' = Later(sinceReconnect, Debounce)
  /\ sinceCover' = Later(sinceCover, Cooldown)
  /\ UNCHANGED retrying

Next == Event \/ Reconnect \/ Attempt \/ Failure \/ Tick

Spec == Init /\ [][Next]_vars

-----------------------------------------------------------------------------
(***************************************************************************)
(* "24 hours after the previous snapshot attempt started": no event, no    *)
(* reconnect and no other deadline puts the daily refresh off, and except  *)
(* after a failed read nothing brings it forward either.                   *)
(***************************************************************************)
DailyRefreshOnTime ==
  /\ refreshIn <= Refresh - sinceAttempt
  /\ ~retrying => refreshIn = Refresh - sinceAttempt

(***************************************************************************)
(* A read that no refresh and no retry asks for begins only after the      *)
(* burst of events has been quiet for the debounce, or for a reconnect     *)
(* that is as old and at least five minutes after the last attempt that    *)
(* covered one: flapping connections cannot make the exporter read the     *)
(* registries more often than that.                                        *)
(***************************************************************************)
ReadsAreDebounced ==
  [][Attempt =>
       \/ retrying
       \/ sinceAttempt = Refresh
       \/ changeIn # Unset /\ sinceEvent = Debounce
       \/ reconnectIn # Unset /\ sinceReconnect = Debounce /\ sinceCover = Cooldown]_vars

=============================================================================
