-------------------------- MODULE RegistrySchedule --------------------------
(***************************************************************************)
(* RegistrySchedule (registry.py): the three deadlines that start a        *)
(* registry snapshot and the cooldown between reconnect refreshes.         *)
(*                                                                         *)
(* The class keeps monotonic-clock deadlines and only ever compares one    *)
(* with the present or sets one relative to it, so a deadline is kept here *)
(* as the time left until it: 0 once it has passed.  The clock itself      *)
(* drops out, and so does any bound on it.                                 *)
(***************************************************************************)
EXTENDS Naturals

CONSTANTS
  Debounce,      \* DEBOUNCE_SECONDS
  Refresh,       \* REFRESH_SECONDS
  Cooldown,      \* RECONNECT_REFRESH_SECONDS
  Unset          \* a deadline that is None

ASSUME RegistryScheduleAssumption ==
  /\ Debounce \in Nat
  /\ Refresh \in Nat
  /\ Cooldown \in Nat
  /\ Unset \notin Nat

VARIABLES
  refreshIn,     \* time left to refresh_at
  changeIn,      \* time left to change_at, or Unset
  reconnectIn,   \* time left to reconnect_at, or Unset
  allowedIn      \* time left to _reconnect_allowed_at

schedule == <<refreshIn, changeIn, reconnectIn, allowedIn>>

\* Mutant: the first snapshot waits for the daily refresh.
ScheduleInitLater ==
  /\ refreshIn = Refresh
  /\ changeIn = Unset
  /\ reconnectIn = Unset
  /\ allowedIn = 0

ScheduleInit ==
  /\ refreshIn = 0
  /\ changeIn = Unset
  /\ reconnectIn = Unset
  /\ allowedIn = 0

\* changed: the debounce starts again with every event.
Changed ==
  /\ changeIn' = Debounce
  /\ UNCHANGED <<refreshIn, reconnectIn, allowedIn>>

\* Mutant: a reconnect schedules nothing.
ReconnectedIgnored == UNCHANGED schedule

\* Mutant: a reconnect puts the daily refresh off.
ReconnectedPostpones ==
  /\ reconnectIn' = IF allowedIn > Debounce THEN allowedIn ELSE Debounce
  /\ refreshIn' = Refresh
  /\ UNCHANGED <<changeIn, allowedIn>>

\* Mutant: the cooldown is left out.
ReconnectedNoCooldown ==
  /\ reconnectIn' = Debounce
  /\ UNCHANGED <<refreshIn, changeIn, allowedIn>>

\* reconnected: max(now + DEBOUNCE_SECONDS, _reconnect_allowed_at).
Reconnected ==
  /\ reconnectIn' = IF allowedIn > Debounce THEN allowedIn ELSE Debounce
  /\ UNCHANGED <<refreshIn, changeIn, allowedIn>>

Due == refreshIn = 0 \/ changeIn = 0 \/ reconnectIn = 0

\* started: a read that begins now covers whatever was pending.
Started ==
  /\ Due
  /\ allowedIn' = IF reconnectIn # Unset THEN Cooldown ELSE allowedIn
  /\ reconnectIn' = Unset
  /\ refreshIn' = Refresh
  /\ changeIn' = Unset

\* sync_if_due puts refresh_at back to the start of a read that failed.
ReadFailed ==
  /\ refreshIn' = 0
  /\ UNCHANGED <<changeIn, reconnectIn, allowedIn>>

\* Mutant: a deadline that has passed keeps moving away.
LeftUnbounded(timer) == IF timer \in Nat THEN timer - 1 ELSE timer

Left(timer) == IF timer \in Nat \ {0} THEN timer - 1 ELSE timer

\* One unit of monotonic time passes.
Elapse ==
  /\ refreshIn' = Left(refreshIn)
  /\ changeIn' = Left(changeIn)
  /\ reconnectIn' = Left(reconnectIn)
  /\ allowedIn' = Left(allowedIn)

ScheduleNext == Changed \/ Reconnected \/ Started \/ ReadFailed \/ Elapse

ScheduleSpec == ScheduleInit /\ [][ScheduleNext]_schedule

=============================================================================
