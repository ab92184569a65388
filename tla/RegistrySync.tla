---------------------------- MODULE RegistrySync ----------------------------
(***************************************************************************)
(* The registry worker (RegistrySync in registry.py), the WebSocket        *)
(* session it owns (RegistrySession in home_assistant.py), the thread that *)
(* delivers a snapshot, Home Assistant's registries and Hauzer's mirror.   *)
(*                                                                         *)
(* A registry's content is a version number that every change increases.   *)
(* Home Assistant answers a command and reports a change on the same       *)
(* connection, in the order in which they happened; the worker reads both  *)
(* from there, inside a command or in a poll.                              *)
(***************************************************************************)
EXTENDS RegistrySchedule, Sequences

CONSTANTS
  Registries,        \* REGISTRY_EVENTS, and the order of the list commands
  Floors,            \* the registry that may be unsupported
  FloorsSupported,   \* whether this Home Assistant has it
  ReconnectDelays,   \* RECONNECT_DELAYS
  MaxChanges,        \* bound: changes of the registries
  MaxFaults,         \* bound: lost connections, refused commands, failures
  None               \* no snapshot

ASSUME RegistrySyncAssumption ==
  /\ Registries \in Seq(STRING)
  /\ Len(Registries) > 0
  /\ FloorsSupported \in BOOLEAN
  /\ ReconnectDelays \in Seq(Nat)
  /\ Len(ReconnectDelays) > 0
  /\ MaxChanges \in Nat
  /\ MaxFaults \in Nat

VARIABLES
  \* Home Assistant and the connection
  ha,            \* ha[i]: the version of registry i
  link,          \* the session's socket
  subscribed,    \* Home Assistant reports changes of the first so many
  asked,         \* a command that Home Assistant has not answered yet
  inbox,         \* what it has sent and the worker has not received yet
  \* the worker
  pc,            \* where it is
  connected,     \* a session has been subscribed before
  failures,      \* consecutive failures, as far as RECONNECT_DELAYS tells them apart
  waitIn,        \* time left of the backoff
  confirmed,     \* subscriptions confirmed in this session
  snapshot,      \* the versions read so far
  stop,          \* stop_event.is_set()
  \* the delivery thread and Hauzer
  sending,       \* the snapshot being delivered; None: the thread is not alive
  taken,         \* Hauzer has taken it
  mirror,        \* mirror[i]: the version of registry i that Hauzer has
  \* history, read by no action of the code
  seen,          \* seen[i]: the version of registry i the worker read last
  begun,         \* begun[i]: its version at generated_at of the read under way
  \* budgets
  changes, faults

homeAssistant == <<ha, link, subscribed, asked, inbox>>
worker == <<pc, connected, failures, waitIn, confirmed, snapshot, begun>>
delivery == <<sending, taken, mirror>>
budgets == <<changes, faults>>
vars == <<schedule, homeAssistant, worker, stop, delivery, seen, budgets>>

-----------------------------------------------------------------------------
Count == Len(Registries)
Indices == 1..Count
Versions == 0..(MaxChanges + 1)    \* 0: never read, never received
Never == [i \in Indices |-> 0]

Event(i) == [type |-> "event", registry |-> i]
Result(status, version) == [type |-> "result", status |-> status, version |-> version]

Messages ==
  [type: {"event"}, registry: Indices]
    \cup [type: {"result"}, status: {"ok", "unknown", "error"}, version: Versions]

LastDelay == Len(ReconnectDelays) - 1

Init ==
  /\ ScheduleInit
  /\ ha = [i \in Indices |-> 1]
  /\ link = "closed"
  /\ subscribed = 0
  /\ asked = FALSE
  /\ inbox = <<>>
  /\ pc = "connect"
  /\ connected = FALSE
  /\ failures = 0
  /\ waitIn = 0
  /\ confirmed = 0
  /\ snapshot = <<>>
  /\ stop = FALSE
  /\ sending = None
  /\ taken = FALSE
  /\ mirror = Never
  /\ seen = Never
  /\ begun = Never
  /\ changes = 0
  /\ faults = 0

Fault == faults < MaxFaults /\ faults' = faults + 1 /\ UNCHANGED changes

\* Leaving the session closes its socket, and with it all that was under way.
CloseSession ==
  /\ link' = "closed"
  /\ subscribed' = 0
  /\ asked' = FALSE
  /\ inbox' = <<>>
  /\ confirmed' = 0
  /\ snapshot' = <<>>
  /\ begun' = Never
  /\ UNCHANGED ha

\* Mutant: the failure count is not capped where it indexes the delays.
BackOffUncapped ==
  /\ CloseSession
  /\ pc' = "backoff"
  /\ waitIn' = ReconnectDelays[failures + 1]
  /\ failures' = failures + 1
  /\ UNCHANGED connected

\* run's except branch.
BackOff ==
  /\ CloseSession
  /\ pc' = "backoff"
  /\ waitIn' = ReconnectDelays[failures + 1]
  /\ failures' = IF failures < LastDelay THEN failures + 1 ELSE failures
  /\ UNCHANGED connected

-----------------------------------------------------------------------------
(***************************************************************************)
(* run: connect, subscribe, and loop.                                      *)
(***************************************************************************)
\* Mutant: every connection starts with a schedule of its own.
ConnectWithNewSchedule ==
  /\ pc = "connect"
  /\ ~stop
  /\ link' = "open"
  /\ asked' = TRUE
  /\ pc' = "subscribe"
  /\ refreshIn' = 0
  /\ changeIn' = Unset
  /\ reconnectIn' = Unset
  /\ allowedIn' = 0
  /\ UNCHANGED <<ha, subscribed, inbox, connected, failures, waitIn, confirmed,
                 snapshot, begun, stop, delivery, seen, budgets>>

Connect ==
  /\ pc = "connect"
  /\ ~stop
  /\ link' = "open"
  /\ asked' = TRUE
  /\ pc' = "subscribe"
  /\ UNCHANGED <<schedule, ha, subscribed, inbox, connected, failures, waitIn, confirmed,
                 snapshot, begun, stop, delivery, seen, budgets>>

ConnectFails ==
  /\ pc = "connect"
  /\ ~stop
  /\ Fault
  /\ BackOff
  /\ UNCHANGED <<schedule, stop, delivery, seen>>

\* Mutant: the inner loop does not look at the stop event.
StoppedWhenConnecting ==
  /\ pc = "connect"
  /\ stop
  /\ CloseSession
  /\ pc' = "exited"
  /\ UNCHANGED <<schedule, connected, failures, waitIn, stop, delivery, seen, budgets>>

Stopped ==
  /\ pc \in {"connect", "loop"}
  /\ stop
  /\ CloseSession
  /\ pc' = "exited"
  /\ UNCHANGED <<schedule, connected, failures, waitIn, stop, delivery, seen, budgets>>

\* stop_event.wait(delay) ends after the delay or at the stop.
WakeUp ==
  /\ pc = "backoff"
  /\ waitIn = 0 \/ stop
  /\ pc' = "connect"
  /\ waitIn' = 0
  /\ UNCHANGED <<schedule, homeAssistant, connected, failures, confirmed, snapshot, begun, stop,
                 delivery, seen, budgets>>

(***************************************************************************)
(* RegistrySession.command, waiting for its result.                        *)
(***************************************************************************)
Awaiting == pc \in {"subscribe", "read"}

Arrived(type) == inbox # <<>> /\ Head(inbox).type = type

EventInCommand ==
  /\ Awaiting
  /\ Arrived("event")
  /\ inbox' = Tail(inbox)
  /\ Changed
  /\ UNCHANGED <<ha, link, subscribed, asked, worker, stop, delivery, seen, budgets>>

Subscribed ==
  /\ pc = "subscribe"
  /\ Arrived("result")
  /\ Head(inbox).status = "ok"
  /\ inbox' = Tail(inbox)
  /\ confirmed' = confirmed + 1
  /\ \/ /\ confirmed' < Count
        /\ asked' = TRUE
        /\ UNCHANGED <<schedule, pc, connected>>
     \/ /\ confirmed' = Count
        /\ IF connected THEN Reconnected ELSE UNCHANGED schedule
        /\ connected' = TRUE
        /\ pc' = "loop"
        /\ UNCHANGED asked
  /\ UNCHANGED <<ha, link, subscribed, failures, waitIn, snapshot, begun, stop, delivery, seen,
                 budgets>>

\* The socket reports an error, or nothing within REQUEST_TIMEOUT.
NothingArrives == inbox = <<>> /\ link = "broken"

SubscribeFails ==
  /\ pc = "subscribe"
  /\ \/ NothingArrives
     \/ Arrived("result") /\ Head(inbox).status # "ok"
  /\ BackOff
  /\ UNCHANGED <<schedule, stop, delivery, seen, budgets>>

-----------------------------------------------------------------------------
(***************************************************************************)
(* sync_if_due and read_snapshot.                                          *)
(***************************************************************************)
Idle ==
  /\ pc = "loop"
  /\ ~stop
  /\ sending # None \/ ~Due
  /\ pc' = "poll"
  /\ UNCHANGED <<schedule, homeAssistant, connected, failures, waitIn, confirmed, snapshot,
                 begun, stop, delivery, seen, budgets>>

\* Mutant: a delivery under way does not keep a due read from starting.
StartReadAnyway ==
  /\ pc = "loop"
  /\ ~stop
  /\ Started
  /\ asked' = TRUE
  /\ snapshot' = <<>>
  /\ begun' = ha
  /\ pc' = "read"
  /\ UNCHANGED <<ha, link, subscribed, inbox, connected, failures, waitIn, confirmed, stop,
                 delivery, seen, budgets>>

StartRead ==
  /\ pc = "loop"
  /\ ~stop
  /\ sending = None
  /\ Started
  /\ asked' = TRUE
  /\ snapshot' = <<>>
  /\ begun' = ha
  /\ pc' = "read"
  /\ UNCHANGED <<ha, link, subscribed, inbox, connected, failures, waitIn, confirmed, stop,
                 delivery, seen, budgets>>

\* Mutant: an unsupported command is an error like any other.
OnlyListsAcceptable(i, status) == status = "ok"

\* A list, or UnsupportedCommand for the floors of an older Home Assistant.
Acceptable(i, status) ==
  \/ status = "ok"
  \/ status = "unknown" /\ Registries[i] = Floors

\* Mutant: an unsupported list is the one of the last snapshot.
ListedOrRemembered ==
  IF Head(inbox).status = "ok" THEN Head(inbox).version ELSE seen[Len(snapshot) + 1]

\* What Home Assistant has; of an unsupported registry, that it has nothing.
Listed == Head(inbox).version

ListReceived ==
  /\ pc = "read"
  /\ Len(snapshot) < Count
  /\ Arrived("result")
  /\ LET i == Len(snapshot) + 1
     IN /\ Acceptable(i, Head(inbox).status)
        /\ snapshot' = Append(snapshot, Listed)
        /\ seen' = [seen EXCEPT ![i] = Listed]
        /\ asked' = (i < Count)
  /\ inbox' = Tail(inbox)
  /\ UNCHANGED <<schedule, ha, link, subscribed, pc, connected, failures, waitIn, confirmed,
                 begun, stop, delivery, budgets>>

\* HomeAssistantError: refresh_at = now, and the exception ends the session.
ReadFails ==
  /\ pc = "read"
  /\ Len(snapshot) < Count
  /\ \/ NothingArrives
     \/ Arrived("result") /\ ~Acceptable(Len(snapshot) + 1, Head(inbox).status)
  /\ ReadFailed
  /\ BackOff
  /\ UNCHANGED <<stop, delivery, seen, budgets>>

StartDelivery ==
  /\ pc = "read"
  /\ Len(snapshot) = Count
  /\ sending' = snapshot
  /\ taken' = FALSE
  /\ snapshot' = <<>>
  /\ begun' = Never
  /\ pc' = "poll"
  /\ UNCHANGED <<schedule, homeAssistant, connected, failures, waitIn, confirmed, stop, mirror,
                 seen, budgets>>

\* The snapshot exceeds a limit, or building it fails unexpectedly.
SkipSnapshot ==
  /\ pc = "read"
  /\ Len(snapshot) = Count
  /\ Fault
  /\ snapshot' = <<>>
  /\ begun' = Never
  /\ pc' = "poll"
  /\ UNCHANGED <<schedule, homeAssistant, connected, failures, waitIn, confirmed, stop, delivery,
                 seen>>

\* The delivery thread cannot be started; no handler of sync_if_due applies.
StartDeliveryFails ==
  /\ pc = "read"
  /\ Len(snapshot) = Count
  /\ Fault
  /\ BackOff
  /\ UNCHANGED <<schedule, stop, delivery, seen>>

-----------------------------------------------------------------------------
(***************************************************************************)
(* RegistrySession.poll; returning from it resets the failure count.       *)
(***************************************************************************)
AfterPoll == pc' = "loop" /\ failures' = 0

PollEvent ==
  /\ pc = "poll"
  /\ Arrived("event")
  /\ inbox' = Tail(inbox)
  /\ Changed
  /\ AfterPoll
  /\ UNCHANGED <<ha, link, subscribed, asked, connected, waitIn, confirmed, snapshot, begun, stop,
                 delivery, seen, budgets>>

\* Mutant: a poll without a timeout.
PollForever ==
  /\ pc = "poll"
  /\ inbox # <<>>
  /\ AfterPoll
  /\ UNCHANGED <<schedule, homeAssistant, connected, waitIn, confirmed, snapshot, begun, stop,
                 delivery, seen, budgets>>

\* Nothing within a second: what was sent may still be on its way.
PollTimeout ==
  /\ pc = "poll"
  /\ AfterPoll
  /\ UNCHANGED <<schedule, homeAssistant, connected, waitIn, confirmed, snapshot, begun, stop,
                 delivery, seen, budgets>>

PollFails ==
  /\ pc = "poll"
  /\ NothingArrives
  /\ BackOff
  /\ UNCHANGED <<schedule, stop, delivery, seen, budgets>>

-----------------------------------------------------------------------------
(***************************************************************************)
(* The delivery thread, as the caller of HauzerClient.post_registry sees   *)
(* it: module Delivery.  It ends by itself, not at the stop event.         *)
(***************************************************************************)
HauzerTakes ==
  /\ sending # None
  /\ ~taken
  /\ taken' = TRUE
  /\ mirror' = sending
  /\ UNCHANGED <<schedule, homeAssistant, worker, stop, sending, seen, budgets>>

DeliveryEnds ==
  /\ sending # None
  /\ taken
  /\ sending' = None
  /\ taken' = FALSE
  /\ UNCHANGED <<schedule, homeAssistant, worker, stop, mirror, seen, budgets>>

DeliveryFails ==
  /\ sending # None
  /\ Fault
  /\ sending' = None
  /\ taken' = FALSE
  /\ UNCHANGED <<schedule, homeAssistant, worker, stop, mirror, seen>>

-----------------------------------------------------------------------------
(***************************************************************************)
(* Home Assistant, the network, the signal handler and time.               *)
(***************************************************************************)
Answer(message) ==
  /\ link = "open"
  /\ asked
  /\ asked' = FALSE
  /\ inbox' = Append(inbox, message)

AnswerSubscribe ==
  /\ pc = "subscribe"
  /\ Answer(Result("ok", 0))
  /\ subscribed' = confirmed + 1
  /\ UNCHANGED <<schedule, ha, link, worker, stop, delivery, seen, budgets>>

AnswerList ==
  /\ pc = "read"
  /\ LET i == Len(snapshot) + 1
         status == IF Registries[i] = Floors /\ ~FloorsSupported THEN "unknown" ELSE "ok"
     IN Answer(Result(status, ha[i]))
  /\ UNCHANGED <<schedule, ha, link, subscribed, worker, stop, delivery, seen, budgets>>

RefuseCommand ==
  /\ Awaiting
  /\ Fault
  /\ Answer(Result("error", 0))
  /\ UNCHANGED <<schedule, ha, link, subscribed, worker, stop, delivery, seen>>

ChangeRegistry(i) ==
  /\ changes < MaxChanges
  /\ Registries[i] = Floors => FloorsSupported
  /\ changes' = changes + 1
  /\ ha' = [ha EXCEPT ![i] = @ + 1]
  /\ inbox' = IF link = "open" /\ i <= subscribed THEN Append(inbox, Event(i)) ELSE inbox
  /\ UNCHANGED <<schedule, link, subscribed, asked, worker, stop, delivery, seen, faults>>

\* Home Assistant or the connection goes away; the end of what was sent is lost.
LoseConnection ==
  /\ link = "open"
  /\ Fault
  /\ link' = "broken"
  /\ subscribed' = 0
  /\ asked' = FALSE
  /\ \E n \in 0..Len(inbox) : inbox' = SubSeq(inbox, 1, n)
  /\ UNCHANGED <<schedule, ha, worker, stop, delivery, seen>>

RequestStop ==
  /\ ~stop
  /\ stop' = TRUE
  /\ UNCHANGED <<schedule, homeAssistant, worker, delivery, seen, budgets>>

Tick ==
  /\ Elapse
  /\ waitIn' = Left(waitIn)
  /\ UNCHANGED <<homeAssistant, pc, connected, failures, confirmed, snapshot, begun, stop, delivery,
                 seen, budgets>>

-----------------------------------------------------------------------------
SessionStep ==
  \/ Connect \/ Stopped \/ WakeUp
  \/ EventInCommand \/ Subscribed \/ SubscribeFails
  \/ Idle \/ StartRead \/ ListReceived \/ ReadFails \/ StartDelivery

PollStep == PollEvent \/ PollTimeout \/ PollFails

DeliveryStep == HauzerTakes \/ DeliveryEnds

HomeAssistantStep == AnswerSubscribe \/ AnswerList

Failure ==
  \/ ConnectFails \/ SkipSnapshot \/ StartDeliveryFails \/ DeliveryFails
  \/ RefuseCommand \/ LoseConnection

Surroundings == RequestStop \/ \E i \in Indices : ChangeRegistry(i)

Next ==
  \/ SessionStep \/ PollStep \/ DeliveryStep \/ HomeAssistantStep
  \/ Failure \/ Surroundings \/ Tick

Spec == Init /\ [][Next]_vars

(***************************************************************************)
(* The worker and the delivery thread keep running, time passes, a sound   *)
(* connection answers and delivers (REQUEST_TIMEOUT turns it into a broken *)
(* one otherwise), a broken one is noticed although polls may time out     *)
(* first, and a delivery that does not fail succeeds.                      *)
(***************************************************************************)
FairSpec ==
  /\ Spec
  /\ WF_vars(SessionStep)
  /\ WF_vars(PollStep)
  /\ SF_vars(PollEvent)
  /\ SF_vars(PollFails)
  /\ WF_vars(DeliveryStep)
  /\ WF_vars(HomeAssistantStep)
  /\ WF_vars(Tick)

=============================================================================
