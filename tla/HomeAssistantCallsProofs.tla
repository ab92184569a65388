---------------------- MODULE HomeAssistantCallsProofs ----------------------
(***************************************************************************)
(* Theorems about the reads of the import, for every number of calls and   *)
(* changes.                                                                *)
(***************************************************************************)
EXTENDS HomeAssistantCalls, SequenceTheorems, TLAPS

\* The parameters are of the types their assumption gives them.
LEMMA Parameters == MaxContent \in Nat /\ MaxCalls \in Nat /\ Failed \notin 0..MaxContent
BY CallsAssumption

\* The messages Home Assistant makes are messages.
LEMMA MessagesAreTyped ==
  ASSUME content \in 0..MaxContent, nextId \in 1..(calls + 1), calls \in 0..MaxCalls
  PROVE  /\ Other \in Message
         /\ Plain("auth_required") \in Message
         /\ Plain("auth_ok") \in Message
         /\ CommandId \in 0..MaxCalls
         /\ \A id \in 0..MaxCalls, success \in BOOLEAN, shape \in {"valid", "invalid"},
               version \in 0..MaxContent : Result(id, success, shape, version) \in Message
<1> USE Parameters
<1>1. 0 \in 0..MaxCalls /\ 0 \in 0..MaxContent
  OBVIOUS
<1>2. /\ Other \in Message
      /\ Plain("auth_required") \in Message
      /\ Plain("auth_ok") \in Message
  BY <1>1, Zenon DEF Other, Plain, Message
<1>3. CommandId \in 0..MaxCalls
  BY DEF CommandId
<1> QED
  BY <1>2, <1>3 DEF Result, Message

\* One message received or sent, from an inbox that holds at most one.
LEMMA InboxOfOne ==
  ASSUME NEW box \in Seq(Message), Len(box) <= 1
  PROVE  /\ box # <<>> => /\ Head(box) \in Message
                          /\ Tail(box) = <<>>
         /\ \A message \in Message :
              box = <<>> => /\ Append(box, message) \in Seq(Message)
                            /\ Append(box, message) # <<>>
                            /\ Head(Append(box, message)) = message
                            /\ Len(Append(box, message)) = 1
<1>1. ASSUME box # <<>>
      PROVE  Head(box) \in Message /\ Tail(box) = <<>>
  <2>1. /\ Head(box) \in Message
        /\ Tail(box) \in Seq(Message)
        /\ Len(Tail(box)) = Len(box) - 1
    BY <1>1, HeadTailProperties
  <2>2. Len(box) \in Nat /\ Len(box) # 0
    BY <1>1, EmptySeq
  <2>3. Len(Tail(box)) = 0
    BY <2>1, <2>2
  <2> QED
    BY <2>1, <2>3, EmptySeq
<1>2. ASSUME NEW message \in Message, box = <<>>
      PROVE  /\ Append(box, message) \in Seq(Message)
             /\ Append(box, message) # <<>>
             /\ Head(Append(box, message)) = message
             /\ Len(Append(box, message)) = 1
  <2>1. Len(box) = 0
    BY <1>2
  <2>2. /\ Append(box, message) \in Seq(Message)
        /\ Append(box, message) # <<>>
        /\ Len(Append(box, message)) = 1
        /\ Head(Append(box, message)) = message
    BY <1>2, <2>1, AppendProperties, HeadTailAppend
  <2> QED
    BY <2>2
<1> QED
  BY <1>1, <1>2

\* The invariant holds before the first call.
LEMMA InitInvariant == Init => CallInvariant
BY Parameters DEF Init, CallInvariant, TypeOK, NoSocketLeft, InTurn, AnswersAreSeen

\* Ending a call, by whatever result, keeps it.
LEMMA EndKeepsInvariant ==
  ASSUME CallInvariant, pc # "idle",
         NEW value \in 0..MaxContent \cup {Failed},
         pc' = "idle", result' = value, Close,
         UNCHANGED <<content, nextId, calls, seen>>
  PROVE  CallInvariant'
<1> USE Parameters DEF CallInvariant, Close
<1>1. TypeOK'
  BY DEF TypeOK, NoSocketLeft
<1>2. NoSocketLeft'
  BY DEF NoSocketLeft, TypeOK
<1>3. InTurn' /\ AnswersAreSeen'
  BY DEF InTurn, AnswersAreSeen
<1> QED
  BY <1>1, <1>2, <1>3

\* Sending a message keeps it, provided an answer that would be taken is seen.
LEMMA SendKeepsInvariant ==
  ASSUME CallInvariant, duty # "none", NEW message \in Message, Sends(message),
         seen' \in SUBSET (0..MaxContent),
         pc \in {"result", "request"} /\ Answers(message) => message.version \in seen'
  PROVE  CallInvariant'
<1> USE DEF CallInvariant, Sends
<1>1. inbox = <<>> /\ inbox \in Seq(Message) /\ pc \notin {"idle", "connect"}
  BY DEF InTurn, TypeOK
<1>2. /\ inbox' \in Seq(Message)
      /\ inbox' # <<>>
      /\ Head(inbox') = message
      /\ Len(inbox') = 1
  BY <1>1, InboxOfOne
<1>3. TypeOK'
  BY <1>2 DEF TypeOK
<1>4. NoSocketLeft'
  BY DEF NoSocketLeft
<1>5. InTurn'
  BY <1>1, <1>2 DEF InTurn
<1>6. AnswersAreSeen'
  BY <1>2 DEF AnswersAreSeen, Answers, CommandId
<1> QED
  BY <1>3, <1>4, <1>5, <1>6

\* Every step of the client and of Home Assistant keeps it.
LEMMA StepInvariant == CallInvariant /\ [Next]_vars => CallInvariant'
<1> SUFFICES ASSUME CallInvariant, [Next]_vars
             PROVE  CallInvariant'
  OBVIOUS
<1> USE Parameters
<1>0. /\ content \in 0..MaxContent
      /\ inbox \in Seq(Message) /\ Len(inbox) <= 1
      /\ seen \in SUBSET (0..MaxContent)
      /\ Failed \in 0..MaxContent \cup {Failed}
  BY DEF CallInvariant, TypeOK, InTurn
<1>1. CASE Call
  BY <1>1 DEF Call, CallInvariant, TypeOK, NoSocketLeft, InTurn, AnswersAreSeen
<1>2. CASE Connect
  BY <1>2 DEF Connect, CallInvariant, TypeOK, NoSocketLeft, InTurn, AnswersAreSeen
<1>3. CASE ConnectFails \/ AuthenticationFails \/ ShapeRefused \/ CommandFails \/ RequestFails
           \/ TimesOut
  <2>1. pc # "idle"
    BY <1>3 DEF ConnectFails, AuthenticationFails, ShapeRefused, CommandFails, RequestFails,
                TimesOut
  <2>2. Raise
    BY <1>3 DEF ConnectFails, AuthenticationFails, ShapeRefused, CommandFails, RequestFails,
                TimesOut
  <2> QED
    BY <2>1, <2>2, <1>0, EndKeepsInvariant DEF Raise
<1>4. CASE Greeted \/ Authenticated
  <2>1. inbox' = <<>> /\ pc \in {"greeting", "auth"} /\ pc' \in {"auth", "result"}
    BY <1>4, <1>0, InboxOfOne DEF Greeted, Authenticated
  <2>2. nextId' \in 1..(calls' + 1)
    <3>1. CASE Greeted
      BY <3>1 DEF Greeted, CallInvariant, TypeOK
    <3>2. CASE Authenticated
      BY <3>2 DEF Authenticated, CallInvariant, TypeOK, InTurn
    <3> QED BY <1>4, <3>1, <3>2
  <2>3. TypeOK'
    <3>1. inbox' \in Seq(Message) /\ duty' \in {"verdict", "answer"}
      BY <1>4, <2>1 DEF Greeted, Authenticated
    <3> QED
      BY <1>4, <2>1, <2>2, <3>1 DEF Greeted, Authenticated, CallInvariant, TypeOK
  <2>4. NoSocketLeft'
    BY <1>4, <2>1 DEF Greeted, Authenticated, CallInvariant, NoSocketLeft
  <2>5. InTurn' /\ AnswersAreSeen'
    <3>1. CASE Greeted
      BY <3>1, <2>1 DEF Greeted, CallInvariant, InTurn, AnswersAreSeen
    <3>2. CASE Authenticated
      BY <3>2, <2>1 DEF Authenticated, CallInvariant, InTurn, AnswersAreSeen
    <3> QED BY <1>4, <3>1, <3>2
  <2> QED
    BY <2>3, <2>4, <2>5 DEF CallInvariant
<1>5. CASE Answered
  <2>1. Head(inbox).version \in 0..MaxContent
    BY <1>5, <1>0, InboxOfOne DEF Answered, Message
  <2> QED
    BY <1>5, <1>0, <2>1, EndKeepsInvariant DEF Answered, Return
<1>6. CASE HomeAssistant
  <2>0. content \in 0..MaxContent /\ nextId \in 1..(calls + 1) /\ calls \in 0..MaxCalls
    BY DEF CallInvariant, TypeOK
  <2>1. CASE Greet \/ Welcome
    <3>1. PICK type \in {"auth_required", "auth_ok"} : Sends(Plain(type))
      BY <2>1 DEF Greet, Welcome
    <3>2. Plain(type) \in Message /\ ~Answers(Plain(type))
      BY <2>0, MessagesAreTyped DEF Plain, Other, Answers
    <3> QED
      BY <2>1, <3>1, <3>2, <1>0, SendKeepsInvariant DEF Greet, Welcome
  <2>2. CASE Answer
    <3>1. PICK shape \in {"valid", "invalid"} : Sends(Result(CommandId, TRUE, shape, content))
      BY <2>2 DEF Answer
    <3>2. Result(CommandId, TRUE, shape, content) \in Message
      BY <2>0, MessagesAreTyped
    <3>3. Result(CommandId, TRUE, shape, content).version \in seen'
      BY <2>2 DEF Answer, Result
    <3> QED
      BY <2>0, <2>2, <3>1, <3>2, <3>3, <1>0, SendKeepsInvariant DEF Answer
  <2>3. CASE Refuse
    <3>1. Result(CommandId, FALSE, "valid", content) \in Message
      BY <2>0, MessagesAreTyped
    <3>2. ~Answers(Result(CommandId, FALSE, "valid", content))
      BY DEF Answers, Result
    <3> QED
      BY <2>3, <3>1, <3>2, <1>0, SendKeepsInvariant DEF Refuse
  <2>4. CASE Misanswer /\ Sends(Other)
    <3>1. Other \in Message /\ ~Answers(Other)
      BY <2>0, MessagesAreTyped DEF Answers, Other, Plain
    <3> QED
      BY <2>4, <3>1, <1>0, SendKeepsInvariant DEF Misanswer
  <2>5. CASE Misanswer /\ ~Sends(Other)
    <3>1. PICK id \in 0..MaxCalls \ {CommandId}, version \in 0..content :
            pc # "request" /\ Sends(Result(id, TRUE, "valid", version))
      BY <2>5 DEF Misanswer
    <3> DEFINE message == Result(id, TRUE, "valid", version)
    <3>0. version \in 0..MaxContent
      BY <2>0
    <3>2. message \in Message /\ message.id # CommandId
      BY <2>0, <3>0, MessagesAreTyped DEF Result
    <3>3. pc \in {"result", "request"} /\ Answers(message) => message.version \in seen'
      BY <3>1, <3>2 DEF Answers
    <3>4. Sends(message) /\ duty # "none" /\ seen' \in SUBSET (0..MaxContent)
      BY <2>5, <3>1, <1>0 DEF Misanswer
    <3> HIDE DEF message
    <3> QED
      BY <3>2, <3>3, <3>4, SendKeepsInvariant
  <2>6. CASE Change
    BY <2>6 DEF Change, CallInvariant, TypeOK, NoSocketLeft, InTurn, AnswersAreSeen, Answers,
                CommandId
  <2> QED
    BY <1>6, <2>1, <2>2, <2>3, <2>4, <2>5, <2>6 DEF HomeAssistant
<1>7. CASE UNCHANGED vars
  BY <1>7 DEF vars, CallInvariant, TypeOK, NoSocketLeft, InTurn, AnswersAreSeen, Answers,
              CommandId
<1> QED
  BY <1>1, <1>2, <1>3, <1>4, <1>5, <1>6, <1>7 DEF Next, Client

\* The invariant of the reads holds in every reachable state.
THEOREM CallInvariantHolds == Spec => []CallInvariant
BY InitInvariant, StepInvariant, PTL DEF Spec

\* Every variable of the reads keeps its type (home_assistant.py).
THEOREM CallTypeCorrect == Spec => []TypeOK
BY CallInvariantHolds, PTL DEF CallInvariant

\* No call leaves a socket behind, however it ends (SupervisorWebSocket.command).
THEOREM SocketsAreClosed == Spec => []NoSocketLeft
BY CallInvariantHolds, PTL DEF CallInvariant

-----------------------------------------------------------------------------
\* Every step of a read is a step of the atomic read, or changes nothing of it.
LEMMA StepsAreReads == CallInvariant /\ [Next]_vars => [Read!Next]_(Read!vars)
<1> SUFFICES ASSUME CallInvariant, [Next]_vars
             PROVE  [Read!Next]_(Read!vars)
  OBVIOUS
<1> USE DEF Read!Next, Read!vars
<1>1. CASE Call
  BY <1>1 DEF Call, Read!Call
<1>2. CASE Connect \/ Greeted \/ Authenticated
  BY <1>2 DEF Connect, Greeted, Authenticated
<1>3. CASE ConnectFails \/ AuthenticationFails \/ ShapeRefused \/ CommandFails \/ RequestFails
           \/ TimesOut
  BY <1>3 DEF ConnectFails, AuthenticationFails, ShapeRefused, CommandFails, RequestFails,
              TimesOut, Raise, Read!Raise
<1>4. CASE Answered
  <2>1. Head(inbox).version \in seen
    BY <1>4 DEF Answered, CallInvariant, AnswersAreSeen
  <2> QED
    BY <1>4, <2>1 DEF Answered, Return, Read!Return
<1>5. CASE Greet \/ Welcome \/ Refuse \/ Misanswer
  BY <1>5 DEF Greet, Welcome, Refuse, Misanswer, Sends
<1>6. CASE Answer
  BY <1>6 DEF Answer, Sends, CallInvariant, InTurn, Read!Look
<1>7. CASE Change
  BY <1>7 DEF Change, Read!Change
<1>8. CASE UNCHANGED vars
  BY <1>8 DEF vars
<1> QED
  BY <1>1, <1>2, <1>3, <1>4, <1>5, <1>6, <1>7, <1>8 DEF Next, Client, HomeAssistant

\* The reads implement the safety part of AtomicRead: a result is an answer
\* Home Assistant made to this call, after it was asked.
THEOREM ReadsAreAtomic == Spec => Read!Spec
<1>1. Init => Read!Init
  BY DEF Init, Read!Init
<1> QED
  BY <1>1, CallInvariantHolds, StepsAreReads, PTL DEF Spec, Read!Spec

=============================================================================
