------------------------- MODULE RegistryProperties -------------------------
(***************************************************************************)
(* What registry sync promises, stated over RegistrySync.                  *)
(***************************************************************************)
EXTENDS RegistrySync

Snapshots == [Indices -> Versions]

Longest == IF Cooldown > Debounce THEN Cooldown ELSE Debounce

TypeOK ==
  /\ refreshIn \in 0..Refresh
  /\ changeIn \in 0..Debounce \cup {Unset}
  /\ reconnectIn \in 0..Longest \cup {Unset}
  /\ allowedIn \in 0..Cooldown
  /\ ha \in Snapshots
  /\ link \in {"closed", "open", "broken"}
  /\ subscribed \in 0..Count
  /\ asked \in BOOLEAN
  /\ inbox \in Seq(Messages)
  /\ pc \in {"connect", "subscribe", "loop", "read", "poll", "backoff", "exited"}
  /\ connected \in BOOLEAN
  /\ failures \in 0..LastDelay
  /\ waitIn \in Nat
  /\ confirmed \in 0..Count
  /\ snapshot \in Seq(Versions) /\ Len(snapshot) <= Count
  /\ stop \in BOOLEAN
  /\ sending \in Snapshots \cup {None}
  /\ taken \in BOOLEAN
  /\ mirror \in Snapshots
  /\ seen \in Snapshots
  /\ begun \in Snapshots
  /\ changes \in 0..MaxChanges
  /\ faults \in 0..MaxFaults

-----------------------------------------------------------------------------
\* The read under way has still to ask Home Assistant for registry i.
StillToRead(i) ==
  /\ pc = "read"
  /\ \/ i > Len(snapshot) + 1
     \/ i = Len(snapshot) + 1 /\ asked

EventOnItsWay(i) == \E n \in 1..Len(inbox) : inbox[n] = Event(i)

\* An answer with the present version, or a refusal, after which the read fails.
AnswerOnItsWay(i) ==
  /\ pc = "read"
  /\ i = Len(snapshot) + 1
  /\ \E n \in 1..Len(inbox) :
       /\ inbox[n].type = "result"
       /\ inbox[n].version = ha[i] \/ inbox[n].status = "error"

\* The worker has still to find out that it must read, or has set a deadline.
ReadScheduled == refreshIn = 0 \/ changeIn # Unset \/ reconnectIn # Unset

SessionUnderWay == link = "open" /\ confirmed = Count

(***************************************************************************)
(* No registry change is forgotten.  As long as the worker's last look at  *)
(* a registry is out of date, its change event or a fresh answer is on the *)
(* way, a read is scheduled or has still to reach it, or there is no       *)
(* subscribed session, and subscribing the next one schedules a read.      *)
(* Events that arrive during the read, after it, while the previous        *)
(* snapshot is being delivered or while the connection is down are all     *)
(* covered, and so is a read that fails half-way.                          *)
(***************************************************************************)
NoChangeForgotten ==
  \A i \in Indices : seen[i] # ha[i] =>
    \/ pc = "exited"
    \/ ~SessionUnderWay
    \/ ReadScheduled
    \/ EventOnItsWay(i)
    \/ StillToRead(i)
    \/ AnswerOnItsWay(i)

(***************************************************************************)
(* A session that is not yet subscribed either is the first one, whose     *)
(* refresh is due at once, or will end in Reconnected: the case above that *)
(* relies on the next session is never the last word.                      *)
(***************************************************************************)
FirstReadPending == ~connected => refreshIn = 0

Feed == INSTANCE RegistryFeed
  WITH source <- ha, reading <- pc = "read", stamp <- begun

(***************************************************************************)
(* Only one full snapshot is in flight, and what it says of each registry  *)
(* was true when its generated_at was taken or later in the same read:     *)
(* neither a message of an earlier session, an answer to another command,  *)
(* a read that was given up half-way nor a delivery that is still under    *)
(* way lets anything older out (sync_if_due, read_snapshot, session).      *)
(***************************************************************************)
ImplementsFeed == Feed!Spec

(***************************************************************************)
(* Reads, events, reconnects and failures move the timers of the schedule  *)
(* only through its operations, one at a time: what RegistryTiming shows   *)
(* of them holds of the worker.                                            *)
(***************************************************************************)
FollowsSchedule == ScheduleSpec

(***************************************************************************)
(* Once the registries and the faults settle, Hauzer has the registries as *)
(* they are, unless the app is stopped: after a failed delivery there is   *)
(* no retry but the next change, reconnect or daily refresh, and neither   *)
(* debounces nor reconnects can starve that refresh.                       *)
(***************************************************************************)
MirrorConverges == <>stop \/ <>[](mirror = ha)

\* The stop event ends the worker, from a backoff or a read as well.
WorkerStops == stop ~> pc = "exited"

=============================================================================
