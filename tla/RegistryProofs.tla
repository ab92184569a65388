--------------------------- MODULE RegistryProofs ---------------------------
(***************************************************************************)
(* Proofs about the registry worker, for every list of registries, every   *)
(* delay and every bound: types, the timers, and that no change of a       *)
(* registry is forgotten.                                                  *)
(***************************************************************************)
EXTENDS RegistryProperties, TLAPS

LEMMA CountIsNat == Count \in Nat /\ Count > 0 /\ LastDelay \in Nat
BY RegistrySyncAssumption DEF Count, LastDelay

LEMMA LongestIsNat == /\ Longest \in Nat /\ Debounce <= Longest /\ Cooldown <= Longest
BY RegistryScheduleAssumption DEF Longest

(***************************************************************************)
(* The worker moves the timers only through the schedule's operations.     *)
(***************************************************************************)
LEMMA StepFollowsSchedule == [Next]_vars => [ScheduleNext]_schedule
<1> SUFFICES ASSUME [Next]_vars PROVE ScheduleNext \/ UNCHANGED schedule
  OBVIOUS
<1>1. CASE SessionStep
  BY <1>1 DEF SessionStep, ScheduleNext, Connect, Stopped, WakeUp, EventInCommand, Subscribed,
     SubscribeFails, Idle, StartRead, ListReceived, ReadFails, StartDelivery
<1>2. CASE PollStep
  BY <1>2 DEF PollStep, ScheduleNext, PollEvent, PollTimeout, PollFails
<1>3. CASE DeliveryStep
  BY <1>3 DEF DeliveryStep, HauzerTakes, DeliveryEnds
<1>4. CASE HomeAssistantStep
  BY <1>4 DEF HomeAssistantStep, AnswerSubscribe, AnswerList
<1>5. CASE Failure
  BY <1>5 DEF Failure, ConnectFails, SkipSnapshot, StartDeliveryFails, DeliveryFails,
     RefuseCommand, LoseConnection
<1>6. CASE Surroundings
  BY <1>6 DEF Surroundings, RequestStop, ChangeRegistry
<1>7. CASE Tick
  BY <1>7 DEF Tick, ScheduleNext
<1>8. CASE UNCHANGED vars
  BY <1>8 DEF vars
<1> QED
  BY <1>1, <1>2, <1>3, <1>4, <1>5, <1>6, <1>7, <1>8 DEF Next

\* What is proved of the schedule alone holds of the worker's schedule.
THEOREM WorkerFollowsSchedule == Spec => FollowsSchedule
<1>1. Init => ScheduleInit
  BY DEF Init
<1> QED
  BY <1>1, StepFollowsSchedule, PTL DEF Spec, FollowsSchedule, ScheduleSpec

-----------------------------------------------------------------------------
(***************************************************************************)
(* Where the worker is fixes what it has done: a session that reads is a   *)
(* subscribed one, the first read is due until then, and a read goes on    *)
(* only while no delivery does.                                            *)
(***************************************************************************)
SessionInvariant ==
  /\ pc \in {"loop", "read", "poll"} => connected
  /\ FirstReadPending
  /\ pc = "read" => sending = None

LEMMA SessionInit == Init => SessionInvariant
BY DEF Init, ScheduleInit, SessionInvariant, FirstReadPending

LEMMA SessionStepKeeps == SessionInvariant /\ [Next]_vars => SessionInvariant'
<1> SUFFICES ASSUME SessionInvariant, [Next]_vars PROVE SessionInvariant'
  OBVIOUS
<1> USE DEF SessionInvariant, FirstReadPending, schedule
<1>1. CASE Connect \/ Stopped \/ WakeUp \/ Idle
  BY <1>1 DEF Connect, Stopped, WakeUp, Idle, homeAssistant, delivery
<1>2. BackOff => pc' = "backoff" /\ connected' = connected
  BY DEF BackOff
<1>3. CASE ConnectFails \/ SubscribeFails \/ PollFails \/ StartDeliveryFails
  BY <1>2, <1>3 DEF ConnectFails, SubscribeFails, PollFails, StartDeliveryFails, delivery
<1>4. CASE EventInCommand
  BY <1>4 DEF EventInCommand, Changed, worker, delivery
<1>5. CASE Subscribed
  BY <1>5 DEF Subscribed, Reconnected, delivery
<1>6. CASE StartRead
  BY <1>6 DEF StartRead, Started, delivery
<1>7. CASE ListReceived
  BY <1>7 DEF ListReceived, delivery
<1>8. CASE ReadFails
  BY <1>2, <1>8 DEF ReadFails, ReadFailed, delivery
<1>9. CASE StartDelivery \/ SkipSnapshot
  BY <1>9 DEF StartDelivery, SkipSnapshot, homeAssistant, delivery
<1>10. CASE PollEvent
  BY <1>10 DEF PollEvent, AfterPoll, Changed, delivery
<1>11. CASE PollTimeout
  BY <1>11 DEF PollTimeout, AfterPoll, delivery
<1>12. CASE HauzerTakes \/ DeliveryEnds \/ DeliveryFails
  BY <1>12 DEF HauzerTakes, DeliveryEnds, DeliveryFails, worker
<1>13. CASE AnswerSubscribe \/ AnswerList \/ RefuseCommand \/ LoseConnection
  BY <1>13 DEF AnswerSubscribe, AnswerList, RefuseCommand, LoseConnection, worker, delivery
<1>14. CASE RequestStop \/ \E i \in Indices : ChangeRegistry(i)
  BY <1>14 DEF RequestStop, ChangeRegistry, worker, delivery
<1>15. CASE Tick
  BY <1>15 DEF Tick, Elapse, Left, delivery
<1>16. CASE UNCHANGED vars
  BY <1>16 DEF vars, worker, delivery
<1> QED
  BY <1>1, <1>3, <1>4, <1>5, <1>6, <1>7, <1>8, <1>9, <1>10, <1>11, <1>12, <1>13, <1>14, <1>15,
     <1>16 DEF Next, SessionStep, PollStep, DeliveryStep, HomeAssistantStep, Failure, Surroundings

THEOREM SessionInvariantHolds == Spec => []SessionInvariant
BY SessionInit, SessionStepKeeps, PTL DEF Spec

\* Until a session has been subscribed, the first snapshot stays due.
THEOREM FirstReadStaysPending == Spec => []FirstReadPending
<1>1. SessionInvariant => FirstReadPending
  BY DEF SessionInvariant
<1> QED
  BY <1>1, SessionInvariantHolds, PTL

-----------------------------------------------------------------------------
(***************************************************************************)
(* Types.  The versions stay in range because each needs a change.         *)
(***************************************************************************)
ScheduleTypeOK ==
  /\ refreshIn \in 0..Refresh
  /\ changeIn \in 0..Debounce \cup {Unset}
  /\ reconnectIn \in 0..Longest \cup {Unset}
  /\ allowedIn \in 0..Cooldown

LEMMA ScheduleTypes ==
  ASSUME ScheduleTypeOK, ScheduleNext \/ UNCHANGED schedule
  PROVE  ScheduleTypeOK'
<1> USE RegistryScheduleAssumption, LongestIsNat DEF ScheduleTypeOK
<1>1. CASE Changed
  BY <1>1 DEF Changed
<1>2. CASE Reconnected
  <2>1. reconnectIn' \in 0..Longest
    BY <1>2 DEF Reconnected
  <2> QED
    BY <1>2, <2>1 DEF Reconnected
<1>3. CASE Started
  <2>1. allowedIn' \in 0..Cooldown
    BY <1>3 DEF Started
  <2>2. refreshIn' \in 0..Refresh
    BY <1>3 DEF Started
  <2> QED
    BY <1>3, <2>1, <2>2 DEF Started
<1>4. CASE ReadFailed
  BY <1>4 DEF ReadFailed
<1>5. CASE Elapse
  <2>1. refreshIn' \in 0..Refresh /\ allowedIn' \in 0..Cooldown
    BY <1>5 DEF Elapse, Left
  <2>2. changeIn' \in 0..Debounce \cup {Unset}
    BY <1>5 DEF Elapse, Left
  <2>3. reconnectIn' \in 0..Longest \cup {Unset}
    BY <1>5 DEF Elapse, Left
  <2> QED
    BY <2>1, <2>2, <2>3
<1>6. CASE UNCHANGED schedule
  BY <1>6 DEF schedule
<1> QED
  BY <1>1, <1>2, <1>3, <1>4, <1>5, <1>6 DEF ScheduleNext

\* The rest of TypeOK, with what makes it inductive.
HomeTypeOK ==
  /\ ha \in Snapshots
  /\ link \in {"closed", "open", "broken"}
  /\ subscribed \in 0..Count
  /\ asked \in BOOLEAN
  /\ inbox \in Seq(Messages)
  /\ changes \in 0..MaxChanges
  /\ faults \in 0..MaxFaults
  /\ \A i \in Indices : ha[i] <= changes + 1

WorkerTypeOK ==
  /\ pc \in {"connect", "subscribe", "loop", "read", "poll", "backoff", "exited"}
  /\ connected \in BOOLEAN
  /\ failures \in 0..LastDelay
  /\ waitIn \in Nat
  /\ confirmed \in 0..Count
  /\ pc = "subscribe" => confirmed < Count
  /\ pc \in {"connect", "backoff"} => confirmed = 0
  /\ snapshot \in Seq(Versions)
  /\ Len(snapshot) <= Count
  /\ asked => pc = "subscribe" \/ (pc = "read" /\ Len(snapshot) < Count)
  /\ stop \in BOOLEAN

MirrorTypeOK ==
  /\ sending \in Snapshots \cup {None}
  /\ taken \in BOOLEAN
  /\ mirror \in Snapshots
  /\ seen \in Snapshots
  /\ begun \in Snapshots

\* A command is asked, then answered once, and no other is asked meanwhile.
Conversation ==
  /\ \A n \in 1..Len(inbox) : inbox[n].type = "result" =>
       ~asked /\ (pc = "subscribe" \/ (pc = "read" /\ Len(snapshot) < Count))
  /\ \A m, n \in 1..Len(inbox) :
       inbox[m].type = "result" /\ inbox[n].type = "result" => m = n

\* Every message has one of two shapes.
LEMMA MessageShapes ==
  ASSUME NEW m \in Messages
  PROVE  /\ m.type = "result" => m.version \in Versions /\ m.status \in {"ok", "unknown", "error"}
         /\ m.type = "event" => m.registry \in Indices
BY DEF Messages

LEMMA ResultIsMessage ==
  ASSUME NEW status \in {"ok", "unknown", "error"}, NEW version \in Versions
  PROVE  Result(status, version) \in Messages /\ Result(status, version).type = "result"
         /\ Result(status, version).status = status /\ Result(status, version).version = version
BY DEF Result, Messages

LEMMA EventIsMessage ==
  ASSUME NEW i \in Indices
  PROVE  Event(i) \in Messages /\ Event(i).type = "event"
BY DEF Event, Messages

LEMMA AnswerTypes ==
  ASSUME inbox \in Seq(Messages), NEW m \in Messages, Answer(m)
  PROVE  asked' = FALSE /\ inbox' \in Seq(Messages)
BY DEF Answer

LEMMA BackOffTypes ==
  ASSUME WorkerTypeOK, BackOff
  PROVE  /\ ha' = ha /\ link' = "closed" /\ subscribed' = 0 /\ asked' = FALSE /\ inbox' = <<>>
         /\ pc' = "backoff" /\ connected' = connected /\ failures' \in 0..LastDelay
         /\ waitIn' \in Nat /\ confirmed' = 0 /\ snapshot' = <<>>
<1>1. failures + 1 \in 1..Len(ReconnectDelays)
  BY RegistrySyncAssumption DEF WorkerTypeOK, LastDelay
<1>2. ReconnectDelays[failures + 1] \in Nat
  BY <1>1, RegistrySyncAssumption
<1>3. failures' \in 0..LastDelay
  BY CountIsNat DEF BackOff, WorkerTypeOK
<1> QED
  BY <1>2, <1>3 DEF BackOff, CloseSession

LEMMA FaultTypes ==
  ASSUME HomeTypeOK, Fault
  PROVE  faults' \in 0..MaxFaults /\ changes' = changes
BY RegistrySyncAssumption DEF HomeTypeOK, Fault

LEMMA HomeTypes == HomeTypeOK /\ WorkerTypeOK /\ [Next]_vars => HomeTypeOK'
<1> SUFFICES ASSUME HomeTypeOK, WorkerTypeOK, [Next]_vars PROVE HomeTypeOK'
  OBVIOUS
<1>0. /\ Count \in Nat /\ MaxChanges \in Nat
      /\ \A i \in Indices : ha[i] \in Versions
      /\ inbox \in Seq(Messages)
  BY CountIsNat, RegistrySyncAssumption DEF HomeTypeOK, Snapshots
\* The worker's end of the connection: the session goes on, closes or opens.
<1>1. ASSUME ha' = ha, link' \in {"closed", "open", "broken"}, subscribed' \in 0..Count,
             asked' \in BOOLEAN, inbox' \in Seq(Messages), changes' = changes,
             faults' \in 0..MaxFaults
      PROVE  HomeTypeOK'
  BY <1>1 DEF HomeTypeOK
<1> USE DEF homeAssistant, budgets
<1>2. CASE UNCHANGED homeAssistant /\ UNCHANGED budgets
  BY <1>1, <1>2 DEF HomeTypeOK
<1>3. CASE WakeUp \/ Idle \/ StartDelivery \/ PollTimeout \/ HauzerTakes \/ DeliveryEnds
           \/ RequestStop \/ UNCHANGED vars
  BY <1>2, <1>3 DEF WakeUp, Idle, StartDelivery, PollTimeout, HauzerTakes, DeliveryEnds,
     RequestStop, vars
<1>4. CASE Tick
  BY <1>2, <1>4 DEF Tick
<1>5. CASE Connect
  BY <1>1, <1>5 DEF Connect, HomeTypeOK
<1>6. ASSUME ha' = ha, link' = "closed", subscribed' = 0, asked' = FALSE, inbox' = <<>>,
             changes' = changes, faults' \in 0..MaxFaults
      PROVE  HomeTypeOK'
  <2>1. inbox' \in Seq(Messages) /\ subscribed' \in 0..Count
    BY <1>0, <1>6
  <2> QED
    BY <1>1, <1>6, <2>1
<1>7. CASE Stopped \/ SubscribeFails \/ PollFails \/ ReadFails
  <2>1. CloseSession \/ BackOff
    BY <1>7 DEF Stopped, SubscribeFails, PollFails, ReadFails
  <2>2. ha' = ha /\ link' = "closed" /\ subscribed' = 0 /\ asked' = FALSE /\ inbox' = <<>>
    BY <2>1, BackOffTypes DEF CloseSession
  <2>3. changes' = changes /\ faults' = faults
    BY <1>7 DEF Stopped, SubscribeFails, PollFails, ReadFails
  <2> QED
    BY <1>6, <2>2, <2>3 DEF HomeTypeOK
<1>8. CASE ConnectFails \/ StartDeliveryFails
  <2>1. BackOff /\ Fault
    BY <1>8 DEF ConnectFails, StartDeliveryFails
  <2>2. ha' = ha /\ link' = "closed" /\ subscribed' = 0 /\ asked' = FALSE /\ inbox' = <<>>
    BY <2>1, BackOffTypes
  <2> QED
    BY <1>6, <2>1, <2>2, FaultTypes
<1>9. CASE SkipSnapshot \/ DeliveryFails
  BY <1>0, <1>1, <1>9, FaultTypes DEF SkipSnapshot, DeliveryFails, HomeTypeOK
<1>10. inbox # <<>> => Tail(inbox) \in Seq(Messages)
  BY <1>0
<1>11. CASE EventInCommand \/ PollEvent
  BY <1>1, <1>10, <1>11 DEF EventInCommand, PollEvent, Arrived, HomeTypeOK
<1>12. CASE Subscribed
  <2>1. asked' \in BOOLEAN
    BY <1>12 DEF Subscribed, HomeTypeOK
  <2> QED
    BY <1>1, <1>10, <1>12, <2>1 DEF Subscribed, Arrived, HomeTypeOK
<1>13. CASE StartRead
  BY <1>1, <1>13 DEF StartRead, HomeTypeOK
<1>14. CASE ListReceived
  <2>1. asked' \in BOOLEAN
    BY <1>14 DEF ListReceived
  <2> QED
    BY <1>1, <1>10, <1>14, <2>1 DEF ListReceived, Arrived, HomeTypeOK
<1>15. CASE AnswerSubscribe
  <2>1. Result("ok", 0) \in Messages
    BY <1>0, ResultIsMessage DEF Versions
  <2>2. subscribed' \in 0..Count
    BY <1>0, <1>15 DEF AnswerSubscribe, WorkerTypeOK
  <2> QED
    BY <1>0, <1>1, <1>15, <2>1, <2>2, AnswerTypes DEF AnswerSubscribe, HomeTypeOK
<1>16. CASE AnswerList
  <2> DEFINE i == Len(snapshot) + 1
             status == IF Registries[i] = Floors /\ ~FloorsSupported THEN "unknown" ELSE "ok"
  <2>1. Answer(Result(status, ha[i])) /\ UNCHANGED <<ha, link, subscribed, budgets>>
    BY <1>16 DEF AnswerList
  <2>2. i \in Indices
    BY <1>0, <2>1, <1>16 DEF AnswerList, Answer, WorkerTypeOK, Indices
  <2>3. status \in {"ok", "unknown", "error"}
    OBVIOUS
  <2> HIDE DEF i, status
  <2>4. Result(status, ha[i]) \in Messages
    BY <1>0, <2>2, <2>3, ResultIsMessage
  <2> QED
    BY <1>0, <1>1, <2>1, <2>4, AnswerTypes DEF HomeTypeOK
<1>17. CASE RefuseCommand
  <2>1. Result("error", 0) \in Messages
    BY <1>0, ResultIsMessage DEF Versions
  <2> QED
    BY <1>0, <1>1, <1>17, <2>1, AnswerTypes, FaultTypes DEF RefuseCommand, HomeTypeOK
<1>18. ASSUME NEW i \in Indices, ChangeRegistry(i)
       PROVE  HomeTypeOK'
  <2>1. Event(i) \in Messages
    BY EventIsMessage
  <2>2. inbox' \in Seq(Messages)
    BY <1>0, <1>18, <2>1 DEF ChangeRegistry
  <2>3. changes' = changes + 1 /\ changes' \in 0..MaxChanges
    BY <1>0, <1>18 DEF ChangeRegistry, HomeTypeOK
  <2>4. ha' = [ha EXCEPT ![i] = @ + 1]
    BY <1>18 DEF ChangeRegistry
  <2>5. \A j \in Indices : ha'[j] \in Versions /\ ha'[j] <= changes' + 1
    BY <1>0, <2>3, <2>4 DEF HomeTypeOK, Snapshots, Versions
  <2>6. ha' \in Snapshots
    BY <2>4, <2>5 DEF HomeTypeOK, Snapshots
  <2> QED
    BY <1>18, <2>2, <2>3, <2>5, <2>6 DEF ChangeRegistry, HomeTypeOK
<1>19. CASE LoseConnection
  <2>1. PICK n \in 0..Len(inbox) : inbox' = SubSeq(inbox, 1, n)
    BY <1>19 DEF LoseConnection
  <2>2. inbox' \in Seq(Messages)
    BY <1>0, <2>1
  <2>3. /\ ha' = ha /\ link' = "broken" /\ subscribed' \in 0..Count /\ asked' = FALSE
        /\ Fault
    BY <1>0, <1>19 DEF LoseConnection
  <2> QED
    BY <1>1, <2>2, <2>3, FaultTypes
<1> QED
  BY <1>3, <1>4, <1>5, <1>6, <1>7, <1>8, <1>9, <1>11, <1>12, <1>13, <1>14, <1>15, <1>16, <1>17,
     <1>18, <1>19
     DEF Next, SessionStep, PollStep, DeliveryStep, HomeAssistantStep, Failure, Surroundings

\* The types of the worker while it subscribes.
LEMMA Subscribing ==
  ASSUME pc' = "subscribe", connected' \in BOOLEAN, stop' \in BOOLEAN,
         failures' \in 0..LastDelay, waitIn' \in Nat, snapshot' \in Seq(Versions),
         Len(snapshot') <= Count, confirmed' \in 0..Count, confirmed' < Count
  PROVE  WorkerTypeOK'
<1>1. pc' \in {"connect", "subscribe", "loop", "read", "poll", "backoff", "exited"}
  OBVIOUS
<1>2. pc' \in {"connect", "backoff"} => confirmed' = 0
  OBVIOUS
<1>3. asked' => pc' = "subscribe" \/ (pc' = "read" /\ Len(snapshot') < Count)
  BY Zenon
<1> QED
  BY <1>1, <1>2, <1>3, Zenon DEF WorkerTypeOK

LEMMA WorkerTypes ==
  HomeTypeOK /\ WorkerTypeOK /\ Conversation /\ [Next]_vars => WorkerTypeOK'
<1> SUFFICES ASSUME HomeTypeOK, WorkerTypeOK, Conversation, [Next]_vars PROVE WorkerTypeOK'
  OBVIOUS
<1>0. Count \in Nat /\ Count > 0 /\ LastDelay \in Nat
  BY CountIsNat
<1> USE DEF worker, homeAssistant
\* Nothing of the worker changes, or only the stop event, or a command is answered.
<1>1. ASSUME UNCHANGED worker, asked' = asked \/ asked' = FALSE, stop' \in BOOLEAN
      PROVE  WorkerTypeOK'
  BY <1>1 DEF WorkerTypeOK
<1>2. CASE HauzerTakes \/ DeliveryEnds \/ DeliveryFails \/ UNCHANGED vars
  BY <1>1, <1>2 DEF HauzerTakes, DeliveryEnds, DeliveryFails, vars, WorkerTypeOK
<1>3. CASE AnswerSubscribe \/ AnswerList \/ RefuseCommand \/ LoseConnection \/ EventInCommand
  BY <1>1, <1>3 DEF AnswerSubscribe, AnswerList, RefuseCommand, LoseConnection, EventInCommand,
     Answer, WorkerTypeOK
<1>4. CASE RequestStop \/ \E i \in Indices : ChangeRegistry(i)
  BY <1>1, <1>4 DEF RequestStop, ChangeRegistry, WorkerTypeOK
<1>5. CASE Tick
  <2>1. waitIn' \in Nat
    BY <1>5 DEF Tick, Left, WorkerTypeOK
  <2> QED
    BY <1>5, <2>1 DEF Tick, WorkerTypeOK
\* The session ends.
<1>6. CASE SubscribeFails \/ PollFails \/ ReadFails \/ ConnectFails \/ StartDeliveryFails
  <2>1. BackOff /\ stop' = stop
    BY <1>6 DEF SubscribeFails, PollFails, ReadFails, ConnectFails, StartDeliveryFails
  <2>2. /\ asked' = FALSE /\ pc' = "backoff" /\ connected' = connected
        /\ failures' \in 0..LastDelay /\ waitIn' \in Nat /\ confirmed' = 0 /\ snapshot' = <<>>
    BY <2>1, BackOffTypes
  <2>3. snapshot' \in Seq(Versions) /\ Len(snapshot') <= Count /\ confirmed' \in 0..Count
    BY <1>0, <2>2
  <2> QED
    BY <2>1, <2>2, <2>3 DEF WorkerTypeOK
<1>7. CASE Stopped
  <2>1. /\ asked' = FALSE /\ pc' = "exited" /\ confirmed' = 0 /\ snapshot' = <<>>
        /\ UNCHANGED <<connected, failures, waitIn, stop>>
    BY <1>7 DEF Stopped, CloseSession
  <2>2. snapshot' \in Seq(Versions) /\ Len(snapshot') <= Count /\ confirmed' \in 0..Count
    BY <1>0, <2>1
  <2> QED
    BY <2>1, <2>2 DEF WorkerTypeOK
\* The session goes on.
<1>8. CASE Connect
  <2>1. /\ pc = "connect" /\ pc' = "subscribe"
        /\ UNCHANGED <<connected, failures, waitIn, confirmed, snapshot, stop>>
    BY <1>8 DEF Connect
  <2>2. confirmed' = 0
    BY <2>1 DEF WorkerTypeOK
  <2>3. connected' \in BOOLEAN /\ stop' \in BOOLEAN
    BY <2>1 DEF WorkerTypeOK
  <2>4. /\ failures' \in 0..LastDelay /\ waitIn' \in Nat /\ snapshot' \in Seq(Versions)
        /\ Len(snapshot') <= Count
    BY <2>1 DEF WorkerTypeOK
  <2>5. pc' = "subscribe" /\ confirmed' \in 0..Count /\ confirmed' < Count
    BY <1>0, <2>1, <2>2
  <2> QED
    BY <2>3, <2>4, <2>5, Subscribing
<1>9. CASE WakeUp
  BY <1>9 DEF WakeUp, WorkerTypeOK
<1>10. CASE Subscribed
  <2>1. /\ pc = "subscribe" /\ confirmed < Count /\ confirmed' = confirmed + 1
        /\ confirmed' \in 0..Count
    BY <1>0, <1>10 DEF Subscribed, WorkerTypeOK
  <2>2. UNCHANGED <<failures, waitIn, snapshot, stop>>
    BY <1>10 DEF Subscribed
  <2>3. CASE confirmed' < Count
    <3>1. pc' = "subscribe" /\ connected' = connected
      BY <1>10, <2>1, <2>3 DEF Subscribed, WorkerTypeOK
    <3>2. connected' \in BOOLEAN /\ stop' \in BOOLEAN
      BY <2>2, <3>1 DEF WorkerTypeOK
    <3>3. /\ failures' \in 0..LastDelay /\ waitIn' \in Nat /\ snapshot' \in Seq(Versions)
          /\ Len(snapshot') <= Count
      BY <2>2 DEF WorkerTypeOK
    <3> QED
      BY <2>1, <2>3, <3>1, <3>2, <3>3, Subscribing
  <2>4. CASE confirmed' = Count
    <3>1. pc' = "loop" /\ connected' = TRUE
      BY <1>10, <2>1, <2>4 DEF Subscribed
    <3>2. inbox \in Seq(Messages) /\ inbox # <<>> /\ Head(inbox).type = "result"
      BY <1>10 DEF Subscribed, Arrived, HomeTypeOK
    <3>3. ~asked
      BY <3>2 DEF Conversation
    <3>4. ~asked'
      BY <1>0, <1>10, <2>1, <2>4, <3>3 DEF Subscribed
    <3> QED
      BY <2>1, <2>2, <3>1, <3>4 DEF WorkerTypeOK
  <2> QED
    BY <1>0, <2>1, <2>3, <2>4
<1>11. CASE Idle
  BY <1>11 DEF Idle, WorkerTypeOK
<1>12. CASE StartRead
  <2>1. /\ pc' = "read" /\ snapshot' = <<>> /\ asked' = TRUE
        /\ UNCHANGED <<connected, failures, waitIn, confirmed, stop>>
    BY <1>12 DEF StartRead
  <2>2. snapshot' \in Seq(Versions) /\ Len(snapshot') = 0
    BY <2>1
  <2> QED
    BY <1>0, <2>1, <2>2 DEF WorkerTypeOK
<1>13. CASE ListReceived
  <2>1. /\ pc = "read" /\ Len(snapshot) < Count
        /\ snapshot' = Append(snapshot, Head(inbox).version)
        /\ asked' = (Len(snapshot) + 1 < Count)
        /\ UNCHANGED <<pc, connected, failures, waitIn, confirmed, stop>>
    BY <1>13 DEF ListReceived, Listed
  <2>2. Head(inbox) \in Messages /\ Head(inbox).type = "result"
    BY <1>13 DEF ListReceived, Arrived, HomeTypeOK
  <2>3. Head(inbox).version \in Versions
    BY <2>2, MessageShapes
  <2>4. snapshot' \in Seq(Versions) /\ Len(snapshot') = Len(snapshot) + 1
    BY <2>1, <2>3 DEF WorkerTypeOK
  <2>5. asked' => Len(snapshot') < Count
    BY <2>1, <2>4
  <2>6. Len(snapshot') <= Count /\ pc' = "read"
    BY <1>0, <2>1, <2>4 DEF WorkerTypeOK
  <2> QED
    BY <2>1, <2>4, <2>5, <2>6 DEF WorkerTypeOK
<1>14. CASE StartDelivery \/ SkipSnapshot
  <2>1. /\ pc = "read" /\ Len(snapshot) = Count /\ pc' = "poll" /\ snapshot' = <<>>
        /\ asked' = asked
        /\ UNCHANGED <<connected, failures, waitIn, confirmed, stop>>
    BY <1>14 DEF StartDelivery, SkipSnapshot
  <2>2. snapshot' \in Seq(Versions) /\ Len(snapshot') = 0
    BY <2>1
  <2>3. asked' = FALSE
    BY <2>1 DEF WorkerTypeOK, HomeTypeOK
  <2> QED
    BY <1>0, <2>1, <2>2, <2>3 DEF WorkerTypeOK
<1>15. CASE PollEvent \/ PollTimeout
  <2>1. /\ pc = "poll" /\ pc' = "loop" /\ failures' = 0
        /\ UNCHANGED <<asked, connected, waitIn, confirmed, snapshot, stop>>
    BY <1>15 DEF PollEvent, PollTimeout, AfterPoll
  <2> QED
    BY <1>0, <2>1 DEF WorkerTypeOK
<1> QED
  BY <1>2, <1>3, <1>4, <1>5, <1>6, <1>7, <1>8, <1>9, <1>10, <1>11, <1>12, <1>13, <1>14, <1>15
     DEF Next, SessionStep, PollStep, DeliveryStep, HomeAssistantStep, Failure, Surroundings

LEMMA NeverIsSnapshot == Never \in Snapshots
BY RegistrySyncAssumption DEF Never, Snapshots, Versions

\* What a read notes of the registries is what they are, or is forgotten.
LEMMA StampMoves == [Next]_vars => begun' \in {begun, ha, Never}
<1> SUFFICES ASSUME [Next]_vars PROVE begun' = begun \/ begun' = ha \/ begun' = Never
  OBVIOUS
<1> USE DEF worker
<1>1. CASE Stopped \/ SubscribeFails \/ PollFails \/ ReadFails \/ ConnectFails
           \/ StartDeliveryFails
  BY <1>1 DEF Stopped, SubscribeFails, PollFails, ReadFails, ConnectFails, StartDeliveryFails,
     BackOff, CloseSession
<1>2. CASE Connect \/ WakeUp \/ EventInCommand \/ Subscribed \/ Idle \/ StartRead \/ ListReceived
           \/ StartDelivery
  BY <1>2 DEF Connect, WakeUp, EventInCommand, Subscribed, Idle, StartRead, ListReceived,
     StartDelivery
<1>3. CASE PollEvent \/ PollTimeout \/ DeliveryStep \/ HomeAssistantStep
  BY <1>3 DEF PollEvent, PollTimeout, DeliveryStep, HauzerTakes, DeliveryEnds, HomeAssistantStep,
     AnswerSubscribe, AnswerList
<1>4. CASE SkipSnapshot \/ DeliveryFails \/ RefuseCommand \/ LoseConnection
  BY <1>4 DEF SkipSnapshot, DeliveryFails, RefuseCommand, LoseConnection
<1>5. CASE Surroundings \/ Tick \/ UNCHANGED vars
  BY <1>5 DEF Surroundings, RequestStop, ChangeRegistry, Tick, vars
<1> QED
  BY <1>1, <1>2, <1>3, <1>4, <1>5 DEF Next, SessionStep, PollStep, Failure

LEMMA MirrorTypes ==
  HomeTypeOK /\ WorkerTypeOK /\ MirrorTypeOK /\ [Next]_vars => MirrorTypeOK'
<1> SUFFICES ASSUME HomeTypeOK, WorkerTypeOK, MirrorTypeOK, [Next]_vars PROVE MirrorTypeOK'
  OBVIOUS
<1> USE DEF delivery
<1>0. begun' \in Snapshots
  BY StampMoves, NeverIsSnapshot DEF HomeTypeOK, MirrorTypeOK
<1>1. CASE UNCHANGED delivery /\ seen' = seen
  BY <1>0, <1>1 DEF MirrorTypeOK
<1>2. CASE HauzerTakes
  BY <1>0, <1>2 DEF HauzerTakes, MirrorTypeOK
<1>3. CASE DeliveryEnds \/ DeliveryFails
  BY <1>0, <1>3 DEF DeliveryEnds, DeliveryFails, MirrorTypeOK
<1>4. CASE StartDelivery
  <2>1. snapshot \in Snapshots
    BY <1>4, CountIsNat DEF StartDelivery, WorkerTypeOK, Snapshots, Indices
  <2> QED
    BY <1>0, <1>4, <2>1 DEF StartDelivery, MirrorTypeOK
<1>5. CASE ListReceived
  <2>1. Head(inbox) \in Messages /\ Head(inbox).type = "result"
    BY <1>5 DEF ListReceived, Arrived, HomeTypeOK
  <2>2. Head(inbox).version \in Versions
    BY <2>1, MessageShapes
  <2>3. /\ seen' = [seen EXCEPT ![Len(snapshot) + 1] = Head(inbox).version]
        /\ UNCHANGED delivery
    BY <1>5 DEF ListReceived, Listed
  <2> QED
    BY <1>0, <2>2, <2>3 DEF MirrorTypeOK, Snapshots
<1>6. CASE SessionStep \/ PollStep \/ HomeAssistantStep \/ Failure \/ Surroundings
  BY <1>1, <1>3, <1>4, <1>5, <1>6
     DEF SessionStep, PollStep, HomeAssistantStep, Failure, Surroundings, Connect, Stopped, WakeUp,
         EventInCommand, Subscribed, SubscribeFails, Idle, StartRead, ReadFails, PollEvent,
         PollTimeout, PollFails, AnswerSubscribe, AnswerList, ConnectFails, SkipSnapshot,
         StartDeliveryFails, RefuseCommand, LoseConnection, RequestStop, ChangeRegistry
<1>7. CASE Tick \/ UNCHANGED vars
  BY <1>1, <1>7 DEF Tick, vars
<1> QED
  BY <1>2, <1>3, <1>6, <1>7 DEF Next, DeliveryStep

TypeInvariant ==
  /\ ScheduleTypeOK
  /\ HomeTypeOK
  /\ WorkerTypeOK
  /\ MirrorTypeOK
  /\ Conversation

LEMMA ConversationStep == HomeTypeOK /\ WorkerTypeOK /\ Conversation /\ [Next]_vars => Conversation'
<1> SUFFICES ASSUME HomeTypeOK, WorkerTypeOK, Conversation, [Next]_vars PROVE Conversation'
  OBVIOUS
<1>0. inbox \in Seq(Messages) /\ Len(inbox) \in Nat
  BY DEF HomeTypeOK
<1> USE DEF homeAssistant, worker
\* The connection is closed.
<1>1. ASSUME inbox' = <<>> PROVE Conversation'
  BY <1>1 DEF Conversation
<1>2. CASE Stopped \/ SubscribeFails \/ PollFails \/ ReadFails \/ ConnectFails
           \/ StartDeliveryFails
  <2>1. CloseSession
    BY <1>2 DEF Stopped, SubscribeFails, PollFails, ReadFails, ConnectFails, StartDeliveryFails,
       BackOff
  <2> QED
    BY <1>1, <2>1 DEF CloseSession
\* Nothing arrives or is received, and no command is pending.
<1>3. ASSUME inbox' = inbox,
             pc \notin {"subscribe", "read"} \/ (pc = "read" /\ Len(snapshot) = Count)
      PROVE  Conversation'
  BY <1>0, <1>3 DEF Conversation
<1>4. CASE Connect \/ WakeUp \/ Idle \/ StartRead \/ StartDelivery \/ SkipSnapshot \/ PollTimeout
  <2>1. CASE Connect \/ WakeUp \/ Idle \/ StartRead \/ PollTimeout
    <3>1. inbox' = inbox
      BY <2>1 DEF Connect, WakeUp, Idle, StartRead, PollTimeout
    <3>2. pc \notin {"subscribe", "read"}
      BY <2>1 DEF Connect, WakeUp, Idle, StartRead, PollTimeout
    <3> QED
      BY <1>3, <3>1, <3>2, Zenon
  <2>2. CASE StartDelivery \/ SkipSnapshot
    BY <1>3, <2>2 DEF StartDelivery, SkipSnapshot
  <2> QED
    BY <1>4, <2>1, <2>2
\* Nothing happens in the session.
<1>5. ASSUME UNCHANGED <<inbox, pc, snapshot, asked>> PROVE Conversation'
  BY <1>5 DEF Conversation
<1>6. CASE HauzerTakes \/ DeliveryEnds \/ DeliveryFails \/ RequestStop \/ Tick \/ UNCHANGED vars
  BY <1>5, <1>6 DEF HauzerTakes, DeliveryEnds, DeliveryFails, RequestStop, Tick, vars
\* The first message is received.
<1>7. ASSUME inbox # <<>>, inbox' = Tail(inbox)
      PROVE  /\ Len(inbox') = Len(inbox) - 1
             /\ \A n \in 1..Len(inbox') : n + 1 \in 1..Len(inbox) /\ inbox'[n] = inbox[n + 1]
  BY <1>0, <1>7
<1>8. CASE EventInCommand \/ PollEvent
  <2>1. inbox # <<>> /\ inbox' = Tail(inbox)
    BY <1>8 DEF EventInCommand, PollEvent, Arrived
  <2>2. UNCHANGED <<asked, snapshot>> /\ (pc' = pc \/ pc = "poll")
    BY <1>8 DEF EventInCommand, PollEvent
  <2> QED
    BY <1>0, <1>7, <2>1, <2>2 DEF Conversation
<1>9. CASE Subscribed \/ ListReceived
  <2>1. inbox # <<>> /\ inbox' = Tail(inbox) /\ inbox[1].type = "result"
    BY <1>9 DEF Subscribed, ListReceived, Arrived
  <2>2. \A n \in 1..Len(inbox') : inbox'[n].type # "result"
    BY <1>0, <1>7, <2>1 DEF Conversation
  <2> QED
    BY <2>2 DEF Conversation
\* A message is appended.
<1>10. ASSUME NEW m, inbox' = Append(inbox, m), UNCHANGED <<pc, snapshot>>,
              \/ m.type = "event" /\ asked' = asked
              \/ asked /\ asked' = FALSE
       PROVE  Conversation'
  <2>1. /\ Len(inbox') = Len(inbox) + 1
        /\ \A n \in 1..Len(inbox') :
             \/ n = Len(inbox') /\ inbox'[n] = m
             \/ n \in 1..Len(inbox) /\ inbox'[n] = inbox[n]
    BY <1>0, <1>10
  <2>2. CASE m.type = "event" /\ asked' = asked
    BY <1>0, <1>10, <2>1, <2>2 DEF Conversation
  <2>3. CASE asked /\ asked' = FALSE
    <3>1. pc = "subscribe" \/ (pc = "read" /\ Len(snapshot) < Count)
      BY <2>3 DEF WorkerTypeOK
    <3>2. \A n \in 1..Len(inbox) : inbox[n].type # "result"
      BY <2>3 DEF Conversation
    <3> QED
      BY <1>0, <1>10, <2>1, <2>3, <3>1, <3>2 DEF Conversation
  <2> QED
    BY <1>10, <2>2, <2>3
<1>11. CASE AnswerSubscribe \/ AnswerList \/ RefuseCommand
  <2>1. PICK m : Answer(m)
    BY <1>11 DEF AnswerSubscribe, AnswerList, RefuseCommand
  <2>2. UNCHANGED <<pc, snapshot>>
    BY <1>11 DEF AnswerSubscribe, AnswerList, RefuseCommand
  <2> QED
    BY <1>10, <2>1, <2>2 DEF Answer
<1>12. ASSUME NEW i \in Indices, ChangeRegistry(i)
       PROVE  Conversation'
  <2>1. UNCHANGED <<pc, snapshot, asked>> /\ (inbox' = Append(inbox, Event(i)) \/ inbox' = inbox)
    BY <1>12 DEF ChangeRegistry
  <2>2. Event(i).type = "event"
    BY DEF Event
  <2> QED
    BY <1>5, <1>10, <2>1, <2>2
\* The end of what was sent is lost.
<1>13. CASE LoseConnection
  <2>1. UNCHANGED <<pc, snapshot>> /\ asked' = FALSE
    BY <1>13 DEF LoseConnection
  <2>2. PICK n \in 0..Len(inbox) : inbox' = SubSeq(inbox, 1, n)
    BY <1>13 DEF LoseConnection
  <2>3. /\ Len(inbox') = n
        /\ \A j \in 1..n : j \in 1..Len(inbox) /\ inbox'[j] = inbox[j]
    BY <1>0, <2>2
  <2> QED
    BY <1>0, <2>1, <2>3 DEF Conversation
<1> QED
  BY <1>2, <1>4, <1>6, <1>8, <1>9, <1>11, <1>12, <1>13
     DEF Next, SessionStep, PollStep, DeliveryStep, HomeAssistantStep, Failure, Surroundings

LEMMA TypesInit == Init => TypeInvariant
<1> SUFFICES ASSUME Init
             PROVE  ScheduleTypeOK /\ HomeTypeOK /\ WorkerTypeOK /\ MirrorTypeOK /\ Conversation
  BY DEF TypeInvariant
<1>0. /\ Count \in Nat /\ Count > 0 /\ LastDelay \in Nat
      /\ MaxChanges \in Nat /\ MaxFaults \in Nat
  BY CountIsNat, RegistrySyncAssumption
<1>1. ScheduleTypeOK
  BY RegistryScheduleAssumption, LongestIsNat DEF Init, ScheduleInit, ScheduleTypeOK
<1>2. 0 \in Versions /\ 1 \in Versions
  BY <1>0 DEF Versions
<1>3. HomeTypeOK
  <2>1. ha \in Snapshots /\ \A i \in Indices : ha[i] <= changes + 1
    BY <1>2 DEF Init, Snapshots
  <2>2. inbox \in Seq(Messages)
    BY DEF Init
  <2>3. subscribed \in 0..Count /\ changes \in 0..MaxChanges /\ faults \in 0..MaxFaults
    BY <1>0 DEF Init
  <2> QED
    BY <2>1, <2>2, <2>3 DEF Init, HomeTypeOK
<1>4. WorkerTypeOK
  <2>1. snapshot \in Seq(Versions) /\ Len(snapshot) = 0
    BY DEF Init
  <2>2. failures \in 0..LastDelay /\ waitIn \in Nat /\ confirmed \in 0..Count
    BY <1>0 DEF Init
  <2>3. /\ pc = "connect" /\ confirmed = 0 /\ ~asked
        /\ connected \in BOOLEAN /\ stop \in BOOLEAN
    BY DEF Init
  <2>4. Len(snapshot) <= Count
    BY <1>0, <2>1
  <2> QED
    BY <2>1, <2>2, <2>3, <2>4 DEF WorkerTypeOK
<1>5. MirrorTypeOK
  BY <1>2, NeverIsSnapshot DEF Init, MirrorTypeOK
<1>6. Conversation
  BY DEF Init, Conversation
<1> QED
  BY <1>1, <1>3, <1>4, <1>5, <1>6

LEMMA TypesStep == TypeInvariant /\ [Next]_vars => TypeInvariant'
<1>1. ScheduleTypeOK /\ [Next]_vars => ScheduleTypeOK'
  BY ScheduleTypes, StepFollowsSchedule
<1> QED
  BY <1>1, HomeTypes, WorkerTypes, MirrorTypes, ConversationStep DEF TypeInvariant

THEOREM TypeInvariantHolds == Spec => []TypeInvariant
BY TypesInit, TypesStep, PTL DEF Spec

\* Every variable of the worker, the timers and the conversation keeps its type;
\* in particular RECONNECT_DELAYS is never indexed behind its end.
THEOREM RegistryTypeCorrect == Spec => []TypeOK
<1>1. TypeInvariant => TypeOK
  BY DEF TypeInvariant, ScheduleTypeOK, HomeTypeOK, WorkerTypeOK, MirrorTypeOK, TypeOK
<1> QED
  BY <1>1, TypeInvariantHolds, PTL

-----------------------------------------------------------------------------
(***************************************************************************)
(* No change is forgotten.  Home Assistant reports the changes of every    *)
(* registry whose subscription the worker counts on, and an answer that is *)
(* out of date when it is received has been followed by an event.          *)
(***************************************************************************)
SubscriptionsHold ==
  link = "open" =>
    /\ confirmed <= subscribed
    /\ pc = "subscribe" => \A n \in 1..Len(inbox) :
         inbox[n].type = "result" /\ inbox[n].status = "ok" => confirmed < subscribed

AnswersAreFresh ==
  pc = "read" /\ SessionUnderWay =>
    \A n \in 1..Len(inbox) :
      inbox[n].type = "result" /\ inbox[n].status # "error" =>
        \/ inbox[n].version = ha[Len(snapshot) + 1]
        \/ EventOnItsWay(Len(snapshot) + 1)
        \/ ReadScheduled

ChangeInvariant ==
  /\ SubscriptionsHold
  /\ AnswersAreFresh
  /\ NoChangeForgotten

LEMMA ChangeInit == Init => ChangeInvariant
<1> SUFFICES ASSUME Init PROVE ChangeInvariant
  OBVIOUS
<1>1. link = "closed"
  BY DEF Init
<1> QED
  BY <1>1 DEF ChangeInvariant, SubscriptionsHold, AnswersAreFresh, NoChangeForgotten,
     SessionUnderWay

\* No session is under way, so there is nothing to show.
LEMMA NoSession ==
  ASSUME SubscriptionsHold', ~SessionUnderWay'
  PROVE  ChangeInvariant'
BY DEF ChangeInvariant, AnswersAreFresh, NoChangeForgotten

LEMMA Disconnected ==
  ASSUME link' # "open"
  PROVE  ChangeInvariant'
BY NoSession DEF SubscriptionsHold, SessionUnderWay

\* A read is scheduled, so nothing is forgotten.
LEMMA Scheduled ==
  ASSUME SubscriptionsHold', ReadScheduled'
  PROVE  ChangeInvariant'
BY DEF ChangeInvariant, AnswersAreFresh, NoChangeForgotten

\* Time does not undo a deadline that has been set.
LEMMA ScheduleStays ==
  ASSUME ReadScheduled, Elapse \/ UNCHANGED schedule
  PROVE  ReadScheduled'
BY RegistryScheduleAssumption DEF ReadScheduled, Elapse, Left, schedule

\* Steps that leave the conversation and its place in the read alone.
LEMMA ConversationUntouched ==
  ASSUME ChangeInvariant, UNCHANGED <<homeAssistant, seen, confirmed, snapshot, pc>>,
         Elapse \/ UNCHANGED schedule
  PROVE  ChangeInvariant'
<1>1. ReadScheduled => ReadScheduled'
  BY ScheduleStays
<1>2. UNCHANGED <<ha, link, subscribed, asked, inbox>>
  BY DEF homeAssistant
<1>3. SubscriptionsHold'
  BY <1>2 DEF ChangeInvariant, SubscriptionsHold
<1>4. /\ SessionUnderWay' <=> SessionUnderWay
      /\ \A i \in Nat : /\ EventOnItsWay(i)' <=> EventOnItsWay(i)
                        /\ StillToRead(i)' <=> StillToRead(i)
                        /\ AnswerOnItsWay(i)' <=> AnswerOnItsWay(i)
  BY <1>2 DEF SessionUnderWay, EventOnItsWay, StillToRead, AnswerOnItsWay
<1> QED
  BY <1>1, <1>2, <1>3, <1>4
     DEF ChangeInvariant, AnswersAreFresh, NoChangeForgotten, EventOnItsWay, Indices

\* A message that is appended leaves the earlier ones where they are.
LEMMA Appended ==
  ASSUME inbox \in Seq(Messages), NEW m, inbox' = Append(inbox, m)
  PROVE  /\ Len(inbox') = Len(inbox) + 1
         /\ inbox'[Len(inbox')] = m
         /\ \A n \in 1..Len(inbox) : n \in 1..Len(inbox') /\ inbox'[n] = inbox[n]
         /\ \A n \in 1..Len(inbox') : n = Len(inbox') \/ n \in 1..Len(inbox)
         /\ \A i \in Indices : EventOnItsWay(i) => EventOnItsWay(i)'
<1>1. /\ Len(inbox') = Len(inbox) + 1
      /\ inbox'[Len(inbox')] = m
      /\ \A n \in 1..Len(inbox) : n \in 1..Len(inbox') /\ inbox'[n] = inbox[n]
      /\ \A n \in 1..Len(inbox') : n = Len(inbox') \/ n \in 1..Len(inbox)
  OBVIOUS
<1> QED
  BY <1>1 DEF EventOnItsWay, Event

\* A result that is received leaves the events behind it.
LEMMA ResultReceived ==
  ASSUME inbox \in Seq(Messages), inbox # <<>>, inbox' = Tail(inbox), inbox[1].type = "result"
  PROVE  /\ \A n \in 1..Len(inbox') : n + 1 \in 1..Len(inbox) /\ inbox'[n] = inbox[n + 1]
         /\ \A i \in Indices : EventOnItsWay(i) => EventOnItsWay(i)'
<1>1. /\ \A n \in 1..Len(inbox') : n + 1 \in 1..Len(inbox) /\ inbox'[n] = inbox[n + 1]
      /\ \A n \in 2..Len(inbox) : n - 1 \in 1..Len(inbox') /\ inbox'[n - 1] = inbox[n]
  OBVIOUS
<1>2. ASSUME NEW i \in Indices, EventOnItsWay(i)
      PROVE  EventOnItsWay(i)'
  <2>1. PICK n \in 1..Len(inbox) : inbox[n] = Event(i)
    BY <1>2 DEF EventOnItsWay
  <2>2. n # 1
    BY <2>1 DEF Event
  <2>3. n - 1 \in 1..Len(inbox') /\ inbox'[n - 1] = Event(i)
    BY <1>1, <2>1, <2>2
  <2> QED
    BY <2>3 DEF EventOnItsWay, Event
<1> QED
  BY <1>1, <1>2

LEMMA ListReceivedForgetsNothing ==
  ASSUME TypeInvariant, ChangeInvariant, ListReceived
  PROVE  ChangeInvariant'
<1> DEFINE i == Len(snapshot) + 1
<1>1. /\ inbox \in Seq(Messages) /\ ha \in Snapshots /\ seen \in Snapshots
      /\ Len(snapshot) \in Nat /\ Count \in Nat
  BY CountIsNat DEF TypeInvariant, HomeTypeOK, WorkerTypeOK, MirrorTypeOK
<1>2. /\ inbox # <<>> /\ inbox' = Tail(inbox) /\ Head(inbox) = inbox[1]
      /\ inbox[1].type = "result" /\ 1 \in 1..Len(inbox)
  BY <1>1 DEF ListReceived, Arrived
<1>3. /\ pc = "read" /\ i \in Indices
      /\ Acceptable(i, inbox[1].status)
      /\ seen' = [seen EXCEPT ![i] = inbox[1].version]
      /\ snapshot' = Append(snapshot, inbox[1].version)
      /\ i < Count => asked'
      /\ UNCHANGED <<schedule, ha, link, subscribed, pc, confirmed>>
  <2>1. pc = "read" /\ i \in Indices
    BY <1>1 DEF ListReceived, Indices
  <2>2. UNCHANGED <<schedule, ha, link, subscribed, pc, confirmed>>
    BY DEF ListReceived
  <2>3. /\ Acceptable(i, inbox[1].status)
        /\ seen' = [seen EXCEPT ![i] = inbox[1].version]
        /\ snapshot' = Append(snapshot, inbox[1].version)
        /\ asked' = (i < Count)
    BY <1>2, Zenon DEF ListReceived, Listed
  <2> QED
    BY <2>1, <2>2, <2>3
<1>4. /\ \A n \in 1..Len(inbox') : n + 1 \in 1..Len(inbox) /\ inbox'[n] = inbox[n + 1]
      /\ \A j \in Indices : EventOnItsWay(j) => EventOnItsWay(j)'
  BY <1>1, <1>2, ResultReceived
<1>5. Len(snapshot') = i
  BY <1>1, <1>3 DEF TypeInvariant, WorkerTypeOK
<1>6. \A n \in 1..Len(inbox') : inbox'[n].type # "result"
  BY <1>1, <1>2, <1>4 DEF TypeInvariant, Conversation
<1>7. inbox[1].status # "error"
  BY <1>3 DEF Acceptable
<1>8. (ReadScheduled' <=> ReadScheduled) /\ (SessionUnderWay' <=> SessionUnderWay)
  BY <1>3 DEF schedule, ReadScheduled, SessionUnderWay
<1>9. SubscriptionsHold'
  BY <1>3, <1>6 DEF ChangeInvariant, SubscriptionsHold
<1>10. AnswersAreFresh'
  BY <1>6 DEF AnswersAreFresh
<1>11. ASSUME NEW j \in Indices, seen'[j] # ha'[j], SessionUnderWay', ~ReadScheduled'
       PROVE  EventOnItsWay(j)' \/ StillToRead(j)'
  <2>1. CASE j = i
    <3>1. inbox[1].version # ha[i]
      BY <1>1, <1>3, <1>11, <2>1 DEF Snapshots
    <3>2. EventOnItsWay(i)
      BY <1>3, <1>2, <1>7, <1>8, <1>11, <3>1 DEF ChangeInvariant, AnswersAreFresh
    <3> QED
      BY <1>3, <1>4, <2>1, <3>2
  <2>2. CASE j # i
    <3>1. seen[j] # ha[j]
      BY <1>1, <1>3, <1>11, <2>2 DEF Snapshots
    <3>2. EventOnItsWay(j) \/ StillToRead(j) \/ AnswerOnItsWay(j)
      BY <1>3, <1>8, <1>11, <3>1 DEF ChangeInvariant, NoChangeForgotten
    <3>3. ~AnswerOnItsWay(j)
      BY <2>2 DEF AnswerOnItsWay
    <3>4. StillToRead(j) => StillToRead(j)'
      <4> SUFFICES ASSUME StillToRead(j) PROVE StillToRead(j)'
        OBVIOUS
      <4>1. j > i
        BY <1>1, <2>2 DEF StillToRead, Indices
      <4>2. i < Count
        BY <1>1, <4>1 DEF Indices
      <4>3. j > Len(snapshot') + 1 \/ j = Len(snapshot') + 1
        BY <1>1, <1>5, <4>1 DEF Indices
      <4> QED
        BY <1>3, <4>2, <4>3, Zenon DEF StillToRead
    <3> QED
      BY <1>4, <3>2, <3>3, <3>4
  <2> QED
    BY <2>1, <2>2
<1> QED
  BY <1>9, <1>10, <1>11 DEF ChangeInvariant, NoChangeForgotten

LEMMA AnswerForgetsNothing ==
  ASSUME TypeInvariant, ChangeInvariant, AnswerList \/ (RefuseCommand /\ pc = "read")
  PROVE  ChangeInvariant'
<1> DEFINE i == Len(snapshot) + 1
<1>1. /\ inbox \in Seq(Messages) /\ ha \in Snapshots
      /\ Len(snapshot) \in Nat /\ Count \in Nat
  BY CountIsNat DEF TypeInvariant, HomeTypeOK, WorkerTypeOK
<1>2. /\ pc = "read"
      /\ UNCHANGED <<schedule, ha, link, subscribed, pc, confirmed, snapshot, seen>>
  BY DEF AnswerList, RefuseCommand, worker
<1>3. PICK m : Answer(m) /\ m.type = "result" /\ (m.version = ha[i] \/ m.status = "error")
  <2>1. CASE AnswerList
    BY <2>1 DEF AnswerList, Result
  <2>2. CASE RefuseCommand
    BY <2>2 DEF RefuseCommand, Result
  <2> QED
    BY <2>1, <2>2
<1>4. asked /\ i \in Indices /\ inbox' = Append(inbox, m)
  BY <1>1, <1>2, <1>3 DEF Answer, TypeInvariant, WorkerTypeOK, Indices
<1>5. /\ Len(inbox') \in 1..Len(inbox')
      /\ inbox'[Len(inbox')] = m
      /\ \A n \in 1..Len(inbox') : n = Len(inbox') \/ n \in 1..Len(inbox)
      /\ \A n \in 1..Len(inbox) : inbox'[n] = inbox[n]
      /\ \A j \in Indices : EventOnItsWay(j) => EventOnItsWay(j)'
  BY <1>1, <1>4, Appended
<1>6. \A n \in 1..Len(inbox) : inbox[n].type # "result"
  BY <1>4 DEF TypeInvariant, Conversation
<1>7. (ReadScheduled' <=> ReadScheduled) /\ (SessionUnderWay' <=> SessionUnderWay)
  BY <1>2 DEF schedule, ReadScheduled, SessionUnderWay
<1>8. SubscriptionsHold'
  BY <1>2 DEF ChangeInvariant, SubscriptionsHold
<1>9. AnswersAreFresh'
  BY <1>2, <1>3, <1>5, <1>6 DEF AnswersAreFresh
<1>10. AnswerOnItsWay(i)'
  BY <1>2, <1>3, <1>5 DEF AnswerOnItsWay
<1>11. ASSUME NEW j \in Indices, seen'[j] # ha'[j], SessionUnderWay', ~ReadScheduled'
       PROVE  EventOnItsWay(j)' \/ StillToRead(j)' \/ AnswerOnItsWay(j)'
  <2>1. EventOnItsWay(j) \/ StillToRead(j) \/ AnswerOnItsWay(j)
    BY <1>2, <1>7, <1>11 DEF ChangeInvariant, NoChangeForgotten
  <2>2. CASE j = i
    BY <1>2, <1>10, <2>2 DEF AnswerOnItsWay
  <2>3. CASE j # i
    <3>1. StillToRead(j) => StillToRead(j)'
      BY <1>2, <2>3 DEF StillToRead
    <3>2. ~AnswerOnItsWay(j)
      BY <2>3 DEF AnswerOnItsWay
    <3> QED
      BY <1>5, <2>1, <3>1, <3>2
  <2> QED
    BY <2>2, <2>3
<1> QED
  BY <1>8, <1>9, <1>11 DEF ChangeInvariant, NoChangeForgotten

LEMMA ChangeIsReported ==
  ASSUME TypeInvariant, ChangeInvariant, NEW i \in Indices, ChangeRegistry(i)
  PROVE  ChangeInvariant'
<1>1. /\ inbox \in Seq(Messages) /\ ha \in Snapshots
      /\ Len(snapshot) \in Nat /\ Count \in Nat /\ subscribed \in Nat
      /\ Len(snapshot) <= Count
  BY CountIsNat DEF TypeInvariant, HomeTypeOK, WorkerTypeOK
<1>2. /\ UNCHANGED <<schedule, link, subscribed, asked, pc, confirmed, snapshot, seen>>
      /\ ha' = [ha EXCEPT ![i] = @ + 1]
  BY DEF ChangeRegistry, worker
<1>3. CASE ~SessionUnderWay
  <2>1. SubscriptionsHold'
    <3> SUFFICES ASSUME link' = "open"
                 PROVE  /\ confirmed' <= subscribed'
                        /\ pc' = "subscribe" => \A n \in 1..Len(inbox') :
                             inbox'[n].type = "result" /\ inbox'[n].status = "ok"
                               => confirmed' < subscribed'
      BY DEF SubscriptionsHold
    <3>1. CASE inbox' = inbox
      BY <1>2, <3>1 DEF ChangeInvariant, SubscriptionsHold
    <3>2. CASE inbox' = Append(inbox, Event(i))
      BY <1>1, <1>2, <3>2, Appended DEF ChangeInvariant, SubscriptionsHold, Event
    <3> QED
      BY <3>1, <3>2 DEF ChangeRegistry
  <2> QED
    BY <1>2, <1>3, <2>1, NoSession DEF SessionUnderWay
<1>4. CASE SessionUnderWay
  <2>1. i <= subscribed
    BY <1>1, <1>4 DEF SessionUnderWay, ChangeInvariant, SubscriptionsHold, Indices
  <2>2. inbox' = Append(inbox, Event(i))
    BY <1>4, <2>1 DEF ChangeRegistry, SessionUnderWay
  <2>3. /\ Len(inbox') \in 1..Len(inbox')
        /\ inbox'[Len(inbox')] = Event(i)
        /\ \A n \in 1..Len(inbox') : n = Len(inbox') \/ n \in 1..Len(inbox)
        /\ \A n \in 1..Len(inbox) : n \in 1..Len(inbox') /\ inbox'[n] = inbox[n]
        /\ \A j \in Indices : EventOnItsWay(j) => EventOnItsWay(j)'
    BY <1>1, <2>2, Appended
  <2>4. EventOnItsWay(i)'
    BY <2>3 DEF EventOnItsWay, Event
  <2>5. Event(i).type = "event"
    BY DEF Event
  <2>6. ReadScheduled => ReadScheduled'
    BY <1>2 DEF schedule, ReadScheduled
  <2>7. \A j \in Indices : j # i => ha'[j] = ha[j]
    BY <1>1, <1>2 DEF Snapshots
  <2>8. SubscriptionsHold'
    BY <1>2, <2>3, <2>5 DEF ChangeInvariant, SubscriptionsHold
  <2>9. AnswersAreFresh'
    <3> SUFFICES ASSUME pc' = "read", NEW n \in 1..Len(inbox'),
                        inbox'[n].type = "result", inbox'[n].status # "error"
                 PROVE  (\/ inbox[n].version = ha[Len(snapshot) + 1]
                         \/ EventOnItsWay(Len(snapshot) + 1)
                         \/ ReadScheduled)'
      BY DEF AnswersAreFresh
    <3>1. n \in 1..Len(inbox) /\ inbox'[n] = inbox[n]
      BY <2>3, <2>5
    <3>2. Len(snapshot) + 1 \in Indices
      BY <1>1, <1>2, <3>1 DEF TypeInvariant, Conversation, Indices
    <3>3. \/ inbox[n].version = ha[Len(snapshot) + 1]
          \/ EventOnItsWay(Len(snapshot) + 1)
          \/ ReadScheduled
      BY <1>2, <1>4, <3>1 DEF ChangeInvariant, AnswersAreFresh
    <3>4. CASE Len(snapshot) + 1 = i
      BY <1>2, <2>4, <3>4 DEF EventOnItsWay
    <3>5. CASE Len(snapshot) + 1 # i
      BY <1>2, <2>3, <2>6, <2>7, <3>1, <3>2, <3>3, <3>5 DEF EventOnItsWay
    <3> QED
      BY <3>4, <3>5
  <2>10. ASSUME NEW j \in Indices, seen'[j] # ha'[j], pc' # "exited", ~ReadScheduled'
         PROVE  EventOnItsWay(j)' \/ StillToRead(j)' \/ AnswerOnItsWay(j)'
    <3>1. CASE j = i
      BY <2>4, <3>1
    <3>2. CASE j # i
      <4>1. EventOnItsWay(j) \/ StillToRead(j) \/ AnswerOnItsWay(j)
        BY <1>2, <1>4, <2>6, <2>7, <2>10, <3>2 DEF ChangeInvariant, NoChangeForgotten
      <4>2. StillToRead(j) => StillToRead(j)'
        BY <1>2 DEF StillToRead
      <4>3. AnswerOnItsWay(j) => AnswerOnItsWay(j)'
        BY <1>2, <2>3, <2>7, <3>2 DEF AnswerOnItsWay
      <4> QED
        BY <2>3, <4>1, <4>2, <4>3
    <3> QED
      BY <3>1, <3>2
  <2> QED
    BY <2>8, <2>9, <2>10 DEF ChangeInvariant, NoChangeForgotten
<1> QED
  BY <1>3, <1>4

\* A subscription is confirmed; the last one schedules a read.
LEMMA SubscribedForgetsNothing ==
  ASSUME TypeInvariant, SessionInvariant, ChangeInvariant, Subscribed
  PROVE  ChangeInvariant'
<1>1. inbox \in Seq(Messages) /\ Count \in Nat /\ confirmed \in 0..Count /\ subscribed \in 0..Count
  BY CountIsNat DEF TypeInvariant, HomeTypeOK, WorkerTypeOK
<1>2. /\ inbox # <<>> /\ inbox' = Tail(inbox) /\ 1 \in 1..Len(inbox)
      /\ inbox[1].type = "result" /\ inbox[1].status = "ok"
      /\ pc = "subscribe" /\ confirmed' = confirmed + 1
      /\ UNCHANGED <<link, subscribed>>
  BY <1>1 DEF Subscribed, Arrived
<1>3. \A n \in 1..Len(inbox') : inbox'[n].type # "result"
  BY <1>1, <1>2, ResultReceived DEF TypeInvariant, Conversation
<1>4. SubscriptionsHold'
  BY <1>1, <1>2, <1>3 DEF ChangeInvariant, SubscriptionsHold
<1>5. CASE confirmed' < Count
  BY <1>1, <1>2, <1>4, <1>5, NoSession DEF SessionUnderWay
<1>6. CASE confirmed' = Count
  <2>1. IF connected THEN Reconnected ELSE UNCHANGED schedule
    BY <1>1, <1>6 DEF Subscribed
  <2>2. CASE connected
    <3>1. reconnectIn' \in Nat
      BY <2>1, <2>2, RegistryScheduleAssumption
         DEF Reconnected, TypeInvariant, ScheduleTypeOK
    <3> QED
      BY <1>4, <3>1, Scheduled, RegistryScheduleAssumption DEF ReadScheduled
  <2>3. CASE ~connected
    BY <1>4, <2>1, <2>3, Scheduled DEF ReadScheduled, schedule, SessionInvariant, FirstReadPending
  <2> QED
    BY <2>2, <2>3
<1> QED
  BY <1>5, <1>6 DEF Subscribed

\* An event is received, inside a command or in a poll, and schedules a read.
LEMMA EventForgetsNothing ==
  ASSUME TypeInvariant, ChangeInvariant, EventInCommand \/ PollEvent
  PROVE  ChangeInvariant'
<1>1. inbox \in Seq(Messages)
  BY DEF TypeInvariant, HomeTypeOK
<1>2. /\ inbox # <<>> /\ inbox' = Tail(inbox) /\ Changed
      /\ UNCHANGED <<link, subscribed, confirmed>>
      /\ pc' = pc \/ pc' = "loop"
  BY DEF EventInCommand, PollEvent, Arrived, AfterPoll, worker
<1>3. \A n \in 1..Len(inbox') : n + 1 \in 1..Len(inbox) /\ inbox'[n] = inbox[n + 1]
  BY <1>1, <1>2
<1>4. SubscriptionsHold'
  BY <1>2, <1>3 DEF ChangeInvariant, SubscriptionsHold
<1>5. changeIn' # Unset
  BY <1>2, RegistryScheduleAssumption DEF Changed
<1> QED
  BY <1>4, <1>5, Scheduled DEF ReadScheduled

\* The worker moves on while no result is awaited.
LEMMA MovingOnForgetsNothing ==
  ASSUME TypeInvariant, ChangeInvariant, Idle \/ PollTimeout \/ StartDelivery \/ SkipSnapshot
  PROVE  ChangeInvariant'
<1>1. Len(snapshot) \in Nat /\ Count \in Nat
  BY CountIsNat DEF TypeInvariant, WorkerTypeOK
<1>2. /\ UNCHANGED <<schedule, homeAssistant, confirmed, seen>>
      /\ pc \in {"loop", "poll"} \/ (pc = "read" /\ Len(snapshot) = Count)
      /\ pc' \in {"loop", "poll"}
  <2>1. CASE Idle \/ PollTimeout
    BY <2>1 DEF Idle, PollTimeout, AfterPoll
  <2>2. CASE StartDelivery \/ SkipSnapshot
    BY <2>2 DEF StartDelivery, SkipSnapshot
  <2> QED
    BY <2>1, <2>2
<1>3. UNCHANGED <<ha, link, subscribed, inbox, confirmed, seen, refreshIn, changeIn, reconnectIn>>
  BY <1>2 DEF homeAssistant, schedule
<1>4. SubscriptionsHold' /\ AnswersAreFresh'
  BY <1>2, <1>3 DEF ChangeInvariant, SubscriptionsHold, AnswersAreFresh
<1>5. ASSUME NEW j \in Indices, seen'[j] # ha'[j], SessionUnderWay', ~ReadScheduled'
      PROVE  EventOnItsWay(j)'
  <2>1. EventOnItsWay(j) \/ StillToRead(j) \/ AnswerOnItsWay(j)
    BY <1>2, <1>3, <1>5 DEF ChangeInvariant, NoChangeForgotten, SessionUnderWay, ReadScheduled
  <2>2. ~StillToRead(j) /\ ~AnswerOnItsWay(j)
    BY <1>1, <1>2 DEF StillToRead, AnswerOnItsWay, Indices
  <2> QED
    BY <1>3, <2>1, <2>2 DEF EventOnItsWay, Event
<1> QED
  BY <1>4, <1>5 DEF ChangeInvariant, NoChangeForgotten

LEMMA ChangeStep ==
  TypeInvariant /\ SessionInvariant /\ ChangeInvariant /\ [Next]_vars => ChangeInvariant'
<1> SUFFICES ASSUME TypeInvariant, SessionInvariant, ChangeInvariant, [Next]_vars
             PROVE  ChangeInvariant'
  OBVIOUS
<1>0. /\ Count \in Nat /\ Count > 0 /\ confirmed \in Nat /\ subscribed \in Nat
      /\ inbox \in Seq(Messages) /\ Len(snapshot) \in Nat
  BY CountIsNat DEF TypeInvariant, HomeTypeOK, WorkerTypeOK
\* Nothing is sent, received or asked.
<1>1. CASE HauzerTakes \/ DeliveryEnds \/ DeliveryFails \/ RequestStop \/ UNCHANGED vars
  <2>1. UNCHANGED <<schedule, homeAssistant, seen, confirmed, snapshot, pc>>
    BY <1>1 DEF HauzerTakes, DeliveryEnds, DeliveryFails, RequestStop, vars, worker
  <2> QED
    BY <2>1, ConversationUntouched
<1>2. CASE Tick
  <2>1. Elapse /\ UNCHANGED <<homeAssistant, seen, confirmed, snapshot, pc>>
    BY <1>2 DEF Tick
  <2> QED
    BY <2>1, ConversationUntouched
\* The connection is gone.
<1>3. CASE Stopped \/ SubscribeFails \/ PollFails \/ ReadFails \/ ConnectFails
           \/ StartDeliveryFails \/ LoseConnection
  <2>1. link' # "open"
    BY <1>3 DEF Stopped, SubscribeFails, PollFails, ReadFails, ConnectFails, StartDeliveryFails,
       LoseConnection, BackOff, CloseSession
  <2> QED
    BY <2>1, Disconnected
\* No session is subscribed yet.
<1>4. CASE Connect
  <2>1. /\ pc = "connect" /\ pc' = "subscribe" /\ inbox' = inbox
        /\ UNCHANGED <<subscribed, confirmed>>
    BY <1>4 DEF Connect
  <2>2. confirmed = 0 /\ \A n \in 1..Len(inbox) : inbox[n].type # "result"
    BY <2>1 DEF TypeInvariant, WorkerTypeOK, Conversation
  <2>3. SubscriptionsHold'
    BY <1>0, <2>1, <2>2 DEF SubscriptionsHold
  <2> QED
    BY <1>0, <2>1, <2>2, <2>3, NoSession DEF SessionUnderWay
<1>5. CASE WakeUp
  <2>1. /\ pc = "backoff" /\ pc' = "connect"
        /\ UNCHANGED <<link, subscribed, inbox, confirmed>>
    BY <1>5 DEF WakeUp, homeAssistant
  <2>2. confirmed = 0
    BY <2>1 DEF TypeInvariant, WorkerTypeOK
  <2>3. SubscriptionsHold'
    BY <2>1 DEF ChangeInvariant, SubscriptionsHold
  <2> QED
    BY <1>0, <2>1, <2>2, <2>3, NoSession DEF SessionUnderWay
<1>6. CASE AnswerSubscribe
  <2>1. /\ pc = "subscribe" /\ confirmed < Count /\ subscribed' = confirmed + 1
        /\ UNCHANGED <<confirmed, pc>>
    BY <1>6 DEF AnswerSubscribe, worker, TypeInvariant, WorkerTypeOK
  <2>2. SubscriptionsHold'
    BY <1>0, <2>1 DEF SubscriptionsHold
  <2> QED
    BY <1>0, <2>1, <2>2, NoSession DEF SessionUnderWay
<1>7. CASE RefuseCommand /\ pc = "subscribe"
  <2>1. /\ confirmed < Count /\ inbox' = Append(inbox, Result("error", 0))
        /\ UNCHANGED <<link, subscribed, confirmed, pc>>
    BY <1>7 DEF RefuseCommand, Answer, worker, TypeInvariant, WorkerTypeOK
  <2>2. Result("error", 0).status # "ok"
    BY DEF Result
  <2>3. SubscriptionsHold'
    BY <1>0, <2>1, <2>2, Appended DEF ChangeInvariant, SubscriptionsHold
  <2> QED
    BY <1>0, <2>1, <2>3, NoSession DEF SessionUnderWay
<1>8. CASE Subscribed
  BY <1>8, SubscribedForgetsNothing
\* A session is under way.
<1>9. CASE EventInCommand \/ PollEvent
  BY <1>9, EventForgetsNothing
<1>10. CASE Idle \/ PollTimeout \/ StartDelivery \/ SkipSnapshot
  BY <1>10, MovingOnForgetsNothing
<1>11. CASE StartRead
  <2>1. /\ pc = "loop" /\ pc' = "read" /\ snapshot' = <<>> /\ asked' = TRUE
        /\ UNCHANGED <<link, subscribed, inbox, confirmed>>
    BY <1>11 DEF StartRead
  <2>2. \A n \in 1..Len(inbox') : inbox'[n].type # "result"
    BY <2>1 DEF TypeInvariant, Conversation
  <2>3. SubscriptionsHold' /\ AnswersAreFresh'
    BY <2>1, <2>2 DEF ChangeInvariant, SubscriptionsHold, AnswersAreFresh
  <2>4. \A j \in Indices : StillToRead(j)'
    BY <1>0, <2>1 DEF StillToRead, Indices
  <2> QED
    BY <2>3, <2>4 DEF ChangeInvariant, NoChangeForgotten
<1>12. CASE ListReceived
  BY <1>12, ListReceivedForgetsNothing
<1>13. CASE AnswerList \/ (RefuseCommand /\ pc = "read")
  BY <1>13, AnswerForgetsNothing
<1>14. ASSUME NEW i \in Indices, ChangeRegistry(i)
       PROVE  ChangeInvariant'
  BY <1>14, ChangeIsReported
<1>15. RefuseCommand => pc \in {"subscribe", "read"}
  BY DEF RefuseCommand, Awaiting
<1> QED
  BY <1>1, <1>2, <1>3, <1>4, <1>5, <1>6, <1>7, <1>8, <1>9, <1>10, <1>11, <1>12, <1>13, <1>14, <1>15
     DEF Next, SessionStep, PollStep, DeliveryStep, HomeAssistantStep, Failure, Surroundings

(***************************************************************************)
(* Whatever changes, fails, reconnects or is being delivered: as long as   *)
(* the worker's last look at a registry is out of date, something that     *)
(* makes it look again is pending.                                         *)
(***************************************************************************)
THEOREM ChangesAreNotForgotten == Spec => []NoChangeForgotten
<1>1. Init => TypeInvariant /\ SessionInvariant /\ ChangeInvariant
  BY TypesInit, SessionInit, ChangeInit
<1>2. (TypeInvariant /\ SessionInvariant /\ ChangeInvariant) /\ [Next]_vars
        => (TypeInvariant /\ SessionInvariant /\ ChangeInvariant)'
  BY TypesStep, SessionStepKeeps, ChangeStep
<1>3. ChangeInvariant => NoChangeForgotten
  BY DEF ChangeInvariant
<1> QED
  BY <1>1, <1>2, <1>3, PTL DEF Spec

-----------------------------------------------------------------------------
(***************************************************************************)
(* The snapshots sent.  While a read is under way, the lists received, and *)
(* the one that is still in the connection, are as the registries were     *)
(* when the read took its stamp or later: no answer outlives the session   *)
(* or the read it was made for.                                            *)
(***************************************************************************)
ListsAreOfThisRead ==
  pc = "read" =>
    /\ \A i \in Indices : begun[i] <= ha[i]
    /\ \A j \in 1..Len(snapshot) : begun[j] <= snapshot[j] /\ snapshot[j] <= ha[j]
    /\ \A n \in 1..Len(inbox) :
         inbox[n].type = "result" /\ inbox[n].status # "error" =>
           /\ begun[Len(snapshot) + 1] <= inbox[n].version
           /\ inbox[n].version <= ha[Len(snapshot) + 1]

FeedInvariant ==
  /\ pc # "read" => begun = Never
  /\ ListsAreOfThisRead

\* The next list is received.
LEMMA ListReceivedIsCurrent ==
  ASSUME TypeInvariant, FeedInvariant, ListReceived
  PROVE  FeedInvariant'
<1> DEFINE i == Len(snapshot) + 1
<1>1. /\ inbox \in Seq(Messages) /\ snapshot \in Seq(Versions) /\ Len(snapshot) \in Nat
      /\ pc = "read" /\ inbox # <<>> /\ inbox' = Tail(inbox)
  BY DEF ListReceived, Arrived, TypeInvariant, HomeTypeOK, WorkerTypeOK
<1>2. /\ snapshot' = Append(snapshot, inbox[1].version)
      /\ UNCHANGED <<ha, begun, pc>>
      /\ inbox[1].type = "result" /\ inbox[1].status # "error" /\ 1 \in 1..Len(inbox)
  BY <1>1 DEF ListReceived, Listed, Arrived, Acceptable
<1>3. begun[i] <= inbox[1].version /\ inbox[1].version <= ha[i]
  BY <1>1, <1>2 DEF FeedInvariant, ListsAreOfThisRead
<1>4. inbox[1].version \in Versions
  BY <1>1, <1>2, MessageShapes
<1>5. \A j \in 1..Len(snapshot') : \/ j \in 1..Len(snapshot) /\ snapshot'[j] = snapshot[j]
                                   \/ j = i /\ snapshot'[j] = inbox[1].version
  <2> DEFINE v == inbox[1].version
  <2>1. v \in Versions /\ snapshot' = Append(snapshot, v)
    BY <1>2, <1>4
  <2> HIDE DEF v
  <2>2. Len(snapshot') = i /\ snapshot'[i] = v
    BY <1>1, <2>1
  <2>3. \A j \in 1..Len(snapshot) : snapshot'[j] = snapshot[j]
    BY <1>1, <2>1
  <2>4. \A j \in 1..Len(snapshot') : j = i \/ j \in 1..Len(snapshot)
    BY <1>1, <2>2
  <2> QED
    BY <2>2, <2>3, <2>4 DEF v
<1>6. \A n \in 1..Len(inbox') : inbox'[n].type # "result"
  BY <1>1, <1>2, ResultReceived DEF TypeInvariant, Conversation
<1> QED
  BY <1>1, <1>2, <1>3, <1>5, <1>6 DEF FeedInvariant, ListsAreOfThisRead

\* Home Assistant answers with what it has, or refuses.
LEMMA AnswerIsCurrent ==
  ASSUME TypeInvariant, FeedInvariant, AnswerList \/ RefuseCommand, pc = "read"
  PROVE  FeedInvariant'
<1> DEFINE i == Len(snapshot) + 1
<1>1. /\ inbox \in Seq(Messages) /\ ha \in Snapshots /\ Len(snapshot) \in Nat /\ Count \in Nat
  BY CountIsNat DEF TypeInvariant, HomeTypeOK, WorkerTypeOK
<1>2. UNCHANGED <<ha, begun, pc, snapshot>>
  BY DEF AnswerList, RefuseCommand, worker
<1>3. PICK m : Answer(m) /\ (m.version = ha[i] \/ m.status = "error")
  BY DEF AnswerList, RefuseCommand, Result
<1>4. asked /\ i \in Indices /\ inbox' = Append(inbox, m)
  BY <1>1, <1>3 DEF Answer, TypeInvariant, WorkerTypeOK, Indices
<1>5. \A n \in 1..Len(inbox') : \/ n \in 1..Len(inbox) /\ inbox'[n] = inbox[n]
                                \/ inbox'[n] = m
  BY <1>1, <1>4
<1>6. begun[i] <= ha[i] /\ ha[i] <= ha[i]
  BY <1>1, <1>4 DEF FeedInvariant, ListsAreOfThisRead, Snapshots, Versions
<1> QED
  BY <1>2, <1>3, <1>5, <1>6 DEF FeedInvariant, ListsAreOfThisRead

\* A registry changes after it was read, before, or while its list is on the way.
LEMMA ChangeKeepsCurrent ==
  ASSUME TypeInvariant, FeedInvariant, NEW i \in Indices, ChangeRegistry(i)
  PROVE  FeedInvariant'
<1>1. /\ inbox \in Seq(Messages) /\ ha \in Snapshots /\ begun \in Snapshots
      /\ Len(snapshot) \in Nat /\ Len(snapshot) <= Count /\ Count \in Nat
      /\ snapshot \in Seq(Versions)
  BY CountIsNat DEF TypeInvariant, HomeTypeOK, WorkerTypeOK, MirrorTypeOK
<1>2. /\ UNCHANGED <<begun, pc, snapshot>>
      /\ ha' = [ha EXCEPT ![i] = @ + 1]
  BY DEF ChangeRegistry, worker
<1>3. \A j \in Indices : ha[j] \in Nat /\ begun[j] \in Nat /\ ha[j] <= ha'[j] /\ ha'[j] \in Nat
  BY <1>1, <1>2, RegistrySyncAssumption DEF Snapshots, Versions
<1>4. \A n \in 1..Len(inbox') : \/ n \in 1..Len(inbox) /\ inbox'[n] = inbox[n]
                                \/ inbox'[n].type = "event"
  BY <1>1 DEF ChangeRegistry, Event
<1>5. SUFFICES ASSUME pc = "read" PROVE ListsAreOfThisRead'
  BY <1>2 DEF FeedInvariant, ListsAreOfThisRead
<1>6. \A j \in Indices : begun'[j] <= ha'[j]
  BY <1>2, <1>3, <1>5 DEF FeedInvariant, ListsAreOfThisRead
<1>7. \A j \in 1..Len(snapshot') : begun'[j] <= snapshot'[j] /\ snapshot'[j] <= ha'[j]
  <2> TAKE j \in 1..Len(snapshot')
  <2>1. j \in Indices /\ j \in 1..Len(snapshot) /\ snapshot[j] \in Nat
    BY <1>1, <1>2, RegistrySyncAssumption DEF Indices, Versions
  <2> QED
    BY <1>2, <1>3, <1>5, <2>1 DEF FeedInvariant, ListsAreOfThisRead
<1>8. ASSUME NEW n \in 1..Len(inbox'), inbox'[n].type = "result", inbox'[n].status # "error"
      PROVE  /\ begun'[Len(snapshot) + 1] <= inbox'[n].version
             /\ inbox'[n].version <= ha'[Len(snapshot) + 1]
  <2>1. n \in 1..Len(inbox) /\ inbox'[n] = inbox[n] /\ inbox[n].type = "result"
    BY <1>4, <1>8
  <2>2. Len(snapshot) + 1 \in Indices
    BY <1>1, <1>5, <2>1 DEF TypeInvariant, Conversation, Indices
  <2>3. inbox[n].version \in Nat
    BY <1>1, <2>1, MessageShapes DEF Versions
  <2> QED
    BY <1>2, <1>3, <1>5, <1>8, <2>1, <2>2, <2>3 DEF FeedInvariant, ListsAreOfThisRead
<1> QED
  BY <1>2, <1>6, <1>7, <1>8 DEF ListsAreOfThisRead

LEMMA FeedInvariantStep == TypeInvariant /\ FeedInvariant /\ [Next]_vars => FeedInvariant'
<1> SUFFICES ASSUME TypeInvariant, FeedInvariant, [Next]_vars PROVE FeedInvariant'
  OBVIOUS
<1>0. /\ inbox \in Seq(Messages) /\ Len(snapshot) \in Nat
      /\ ha \in Snapshots /\ Count \in Nat
  BY CountIsNat DEF TypeInvariant, HomeTypeOK, WorkerTypeOK
<1> USE DEF worker
\* No read is under way, or it ends.
<1>1. ASSUME pc' # "read", begun' = Never \/ (pc # "read" /\ begun' = begun)
      PROVE  FeedInvariant'
  BY <1>1 DEF FeedInvariant, ListsAreOfThisRead
<1>2. CASE Stopped \/ SubscribeFails \/ PollFails \/ ReadFails \/ ConnectFails
           \/ StartDeliveryFails
  <2>1. pc' # "read" /\ begun' = Never
    BY <1>2 DEF Stopped, SubscribeFails, PollFails, ReadFails, ConnectFails, StartDeliveryFails,
       BackOff, CloseSession
  <2> QED
    BY <1>1, <2>1
<1>3. CASE StartDelivery \/ SkipSnapshot
  BY <1>1, <1>3 DEF StartDelivery, SkipSnapshot
<1>4. CASE Connect \/ WakeUp \/ Subscribed \/ Idle \/ PollEvent \/ PollTimeout \/ AnswerSubscribe
  <2>1. pc # "read" /\ pc' # "read" /\ begun' = begun
    BY <1>4 DEF Connect, WakeUp, Subscribed, Idle, PollEvent, PollTimeout, AfterPoll,
       AnswerSubscribe
  <2> QED
    BY <1>1, <2>1
\* The read goes on; some of what was in the connection may be gone.
<1>5. ASSUME UNCHANGED <<ha, begun, pc, snapshot>>,
             \A n \in 1..Len(inbox') : \E m \in 1..Len(inbox) : inbox'[n] = inbox[m]
      PROVE  FeedInvariant'
  BY <1>5 DEF FeedInvariant, ListsAreOfThisRead
<1>6. CASE HauzerTakes \/ DeliveryEnds \/ DeliveryFails \/ RequestStop \/ Tick \/ UNCHANGED vars
  <2>1. UNCHANGED <<ha, begun, pc, snapshot, inbox>>
    BY <1>6 DEF HauzerTakes, DeliveryEnds, DeliveryFails, RequestStop, Tick, vars, homeAssistant
  <2> QED
    BY <1>5, <2>1
<1>7. CASE EventInCommand
  <2>1. UNCHANGED <<ha, begun, pc, snapshot>> /\ inbox # <<>> /\ inbox' = Tail(inbox)
    BY <1>7 DEF EventInCommand, Arrived
  <2>2. \A n \in 1..Len(inbox') : n + 1 \in 1..Len(inbox) /\ inbox'[n] = inbox[n + 1]
    BY <1>0, <2>1
  <2> QED
    BY <1>5, <2>1, <2>2
<1>8. CASE LoseConnection
  <2>1. UNCHANGED <<ha, begun, pc, snapshot>>
    BY <1>8 DEF LoseConnection
  <2>2. PICK n \in 0..Len(inbox) : inbox' = SubSeq(inbox, 1, n)
    BY <1>8 DEF LoseConnection
  <2>3. \A j \in 1..Len(inbox') : j \in 1..Len(inbox) /\ inbox'[j] = inbox[j]
    BY <1>0, <2>2
  <2> QED
    BY <1>5, <2>1, <2>3
<1>9. CASE StartRead
  <2>1. /\ pc = "loop" /\ pc' = "read" /\ snapshot' = <<>> /\ begun' = ha
        /\ UNCHANGED <<ha, inbox>>
    BY <1>9 DEF StartRead
  <2>2. \A n \in 1..Len(inbox') : inbox'[n].type # "result"
    BY <2>1 DEF TypeInvariant, Conversation
  <2>3. \A i \in Indices : begun'[i] <= ha'[i]
    BY <1>0, <2>1, RegistrySyncAssumption DEF Snapshots, Versions
  <2> QED
    BY <2>1, <2>2, <2>3 DEF FeedInvariant, ListsAreOfThisRead
<1>10. CASE ListReceived
  BY <1>10, ListReceivedIsCurrent
<1>11. CASE (AnswerList \/ RefuseCommand) /\ pc = "read"
  BY <1>11, AnswerIsCurrent
<1>12. CASE RefuseCommand /\ pc # "read"
  BY <1>1, <1>12 DEF RefuseCommand
<1>13. ASSUME NEW i \in Indices, ChangeRegistry(i)
       PROVE  FeedInvariant'
  BY <1>13, ChangeKeepsCurrent
<1>14. AnswerList => pc = "read"
  BY DEF AnswerList
<1> QED
  BY <1>2, <1>3, <1>4, <1>6, <1>7, <1>8, <1>9, <1>10, <1>11, <1>12, <1>13, <1>14
     DEF Next, SessionStep, PollStep, DeliveryStep, HomeAssistantStep, Failure, Surroundings

LEMMA StepImplementsFeed ==
  TypeInvariant /\ SessionInvariant /\ FeedInvariant /\ [Next]_vars => [Feed!Next]_(Feed!vars)
<1> SUFFICES ASSUME TypeInvariant, SessionInvariant, FeedInvariant, [Next]_vars
             PROVE  Feed!Next \/ UNCHANGED Feed!vars
  OBVIOUS
<1>0. /\ ha \in Snapshots /\ begun \in Snapshots /\ Count \in Nat
      /\ snapshot \in Seq(Versions) /\ \A v \in Versions : v \in Nat
  BY CountIsNat, RegistrySyncAssumption
     DEF TypeInvariant, HomeTypeOK, WorkerTypeOK, MirrorTypeOK, Versions
<1> USE DEF worker, homeAssistant, delivery
\* Nothing the feed tells apart.
<1>1. ASSUME UNCHANGED <<ha, begun, sending>>, (pc # "read" /\ pc' # "read") \/ pc' = pc
      PROVE  UNCHANGED Feed!vars
  BY <1>1 DEF Feed!vars
<1>2. CASE HauzerTakes \/ RequestStop \/ Tick \/ UNCHANGED vars \/ EventInCommand \/ ListReceived
           \/ HomeAssistantStep \/ RefuseCommand \/ LoseConnection
  BY <1>1, <1>2 DEF HauzerTakes, RequestStop, Tick, vars, EventInCommand, ListReceived,
     HomeAssistantStep, AnswerSubscribe, AnswerList, RefuseCommand, LoseConnection
<1>3. CASE Connect \/ WakeUp \/ Subscribed \/ Idle \/ PollEvent \/ PollTimeout
  <2>1. pc # "read" /\ pc' # "read" /\ UNCHANGED <<ha, begun, sending>>
    BY <1>3 DEF Connect, WakeUp, Subscribed, Idle, PollEvent, PollTimeout, AfterPoll
  <2> QED
    BY <1>1, <2>1
<1>4. CASE Stopped \/ SubscribeFails \/ PollFails \/ ConnectFails
  <2>1. pc # "read" /\ pc' # "read" /\ begun' = Never /\ UNCHANGED <<ha, sending>>
    BY <1>4 DEF Stopped, SubscribeFails, PollFails, ConnectFails, BackOff, CloseSession
  <2> QED
    BY <1>1, <2>1 DEF FeedInvariant
\* The read ends without a snapshot.
<1>5. CASE ReadFails \/ StartDeliveryFails \/ SkipSnapshot
  <2>1. pc = "read" /\ pc' # "read" /\ begun' = Never /\ UNCHANGED <<ha, sending>>
    BY <1>5 DEF ReadFails, StartDeliveryFails, SkipSnapshot, BackOff, CloseSession
  <2> QED
    BY <2>1 DEF Feed!Next, Feed!GiveUp, Feed!EndRead, Feed!Unstamped, Never
<1>6. CASE StartRead
  <2>1. /\ pc = "loop" /\ pc' = "read" /\ begun' = ha /\ sending = None
        /\ UNCHANGED <<ha, sending>>
    BY <1>6 DEF StartRead
  <2> QED
    BY <2>1 DEF Feed!Next, Feed!Begin
<1>7. CASE StartDelivery
  <2>1. /\ pc = "read" /\ pc' = "poll" /\ begun' = Never /\ sending' = snapshot
        /\ UNCHANGED ha /\ Len(snapshot) = Count /\ sending = None
    BY <1>7 DEF StartDelivery, SessionInvariant
  <2>2. sending' \in [Indices -> Nat]
    BY <1>0, <2>1 DEF Indices
  <2>3. \A i \in Indices : begun[i] <= sending'[i] /\ sending'[i] <= ha[i]
    BY <2>1 DEF FeedInvariant, ListsAreOfThisRead, Indices
  <2> QED
    BY <2>1, <2>2, <2>3
       DEF Feed!Next, Feed!Send, Feed!EndRead, Feed!Unstamped, Feed!Content, Feed!AtLeast, Never
<1>8. CASE DeliveryEnds \/ DeliveryFails
  <2>1. sending # None /\ sending' = None /\ UNCHANGED <<ha, begun, pc>>
    BY <1>8 DEF DeliveryEnds, DeliveryFails
  <2> QED
    BY <2>1 DEF Feed!Next, Feed!Finish
<1>9. ASSUME NEW i \in Indices, ChangeRegistry(i)
      PROVE  Feed!Next
  <2>1. ha' = [ha EXCEPT ![i] = @ + 1] /\ UNCHANGED <<begun, sending, pc>>
    BY <1>9 DEF ChangeRegistry
  <2>2. ha' \in [Indices -> Nat] /\ \A j \in Indices : ha[j] <= ha'[j]
    BY <1>0, <2>1 DEF Snapshots
  <2> QED
    BY <2>1, <2>2 DEF Feed!Next, Feed!Change, Feed!Content, Feed!AtLeast
<1> QED
  BY <1>2, <1>3, <1>4, <1>5, <1>6, <1>7, <1>8, <1>9
     DEF Next, SessionStep, PollStep, DeliveryStep, Failure, Surroundings

(***************************************************************************)
(* Hauzer is sent one snapshot at a time, and each says of every registry  *)
(* what was true when its generated_at was taken or later in its read,     *)
(* whatever changes, fails or reconnects meanwhile (sync_if_due).          *)
(***************************************************************************)
THEOREM WorkerImplementsFeed == Spec => ImplementsFeed
<1>1. Init => TypeInvariant /\ SessionInvariant /\ FeedInvariant
  BY TypesInit, SessionInit DEF Init, FeedInvariant, ListsAreOfThisRead
<1>2. (TypeInvariant /\ SessionInvariant /\ FeedInvariant) /\ [Next]_vars
        => (TypeInvariant /\ SessionInvariant /\ FeedInvariant)'
  BY TypesStep, SessionStepKeeps, FeedInvariantStep
<1>3. Init => Feed!Init
  <2> SUFFICES ASSUME Init PROVE Feed!Init
    OBVIOUS
  <2>1. ha \in [Indices -> Nat]
    BY DEF Init
  <2> QED
    BY <2>1 DEF Init, Feed!Init, Feed!Content, Feed!Unstamped, Never
<1> QED
  BY <1>1, <1>2, <1>3, StepImplementsFeed, PTL DEF Spec, ImplementsFeed, Feed!Spec

=============================================================================
