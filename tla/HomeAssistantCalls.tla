------------------------- MODULE HomeAssistantCalls -------------------------
(***************************************************************************)
(* The reads of the utility import, one at a time: a WebSocket command on  *)
(* a socket of its own (SupervisorWebSocket.command) or a REST request,    *)
(* and the check of the result's shape (HomeAssistantClient), against a    *)
(* Home Assistant, behind the Supervisor's proxy, that may answer late,    *)
(* not at all, or with something else.                                     *)
(***************************************************************************)
EXTENDS Integers, Sequences

CONSTANTS
  MaxContent,   \* bound: how often Home Assistant's content changes
  MaxCalls,     \* bound: calls
  Failed        \* the result of a call that raised

ASSUME CallsAssumption ==
  /\ MaxContent \in Nat
  /\ MaxCalls \in Nat
  /\ Failed \notin 0..MaxContent

VARIABLES
  content,      \* the version of what Home Assistant has to say
  duty,         \* what Home Assistant sends next on the connection
  inbox,        \* what it has sent and the client has not received yet
  pc,           \* where the calling thread is
  sockets,      \* WebSockets that are open
  nextId,       \* _next_command_id
  result,       \* what the last call came to
  calls,        \* calls so far
  seen          \* history: the versions this call has been answered with

vars == <<content, duty, inbox, pc, sockets, nextId, result, calls, seen>>

-----------------------------------------------------------------------------
Message ==
  [type: {"auth_required", "auth_ok", "result", "other"},
   id: 0..MaxCalls, success: BOOLEAN, shape: {"valid", "invalid"}, version: 0..MaxContent]

Plain(type) ==
  [type |-> type, id |-> 0, success |-> FALSE, shape |-> "invalid", version |-> 0]

\* An empty or malformed frame, a refused authentication, an error page.
Other == Plain("other")

Result(id, success, shape, version) ==
  [type |-> "result", id |-> id, success |-> success, shape |-> shape, version |-> version]

\* The command under way was numbered before nextId was increased.
CommandId == nextId - 1

Init ==
  /\ content = 0
  /\ duty = "none"
  /\ inbox = <<>>
  /\ pc = "idle"
  /\ sockets = 0
  /\ nextId = 1
  /\ result = Failed
  /\ calls = 0
  /\ seen = {}

\* Mutant: the socket is closed only on the way of success.
CloseOnSuccess ==
  /\ sockets' = IF pc \in {"greeting", "auth", "result"} /\ result' # Failed
                THEN sockets - 1 ELSE sockets
  /\ duty' = "none"
  /\ inbox' = <<>>

\* The finally clause: what Home Assistant still sends reaches nobody.
Close ==
  /\ sockets' = IF pc \in {"greeting", "auth", "result"} THEN sockets - 1 ELSE sockets
  /\ duty' = "none"
  /\ inbox' = <<>>

Raise ==
  /\ pc' = "idle"
  /\ result' = Failed
  /\ Close
  /\ UNCHANGED <<content, nextId, calls, seen>>

Return(value) ==
  /\ pc' = "idle"
  /\ result' = value
  /\ Close
  /\ UNCHANGED <<content, nextId, calls, seen>>

-----------------------------------------------------------------------------
(***************************************************************************)
(* energy_preferences, statistics_metadata and statistics_during_period    *)
(* start a command, states a request.                                      *)
(***************************************************************************)
Call ==
  /\ pc = "idle"
  /\ calls < MaxCalls
  /\ calls' = calls + 1
  /\ seen' = {}
  /\ \/ pc' = "connect" /\ duty' = "none"
     \/ pc' = "request" /\ duty' = "answer"
  /\ UNCHANGED <<content, inbox, sockets, nextId, result>>

Connect ==
  /\ pc = "connect"
  /\ sockets' = sockets + 1
  /\ duty' = "greet"
  /\ pc' = "greeting"
  /\ UNCHANGED <<content, inbox, nextId, result, calls, seen>>

\* The socket factory is called before the try: there is nothing to close.
ConnectFails ==
  /\ pc = "connect"
  /\ Raise

Expected(message) ==
  \/ pc = "greeting" /\ message.type = "auth_required"
  \/ pc = "auth" /\ message.type = "auth_ok"

Greeted ==
  /\ pc = "greeting"
  /\ inbox # <<>> /\ Expected(Head(inbox))
  /\ inbox' = Tail(inbox)
  /\ duty' = "verdict"
  /\ pc' = "auth"
  /\ UNCHANGED <<content, sockets, nextId, result, calls, seen>>

Authenticated ==
  /\ pc = "auth"
  /\ inbox # <<>> /\ Expected(Head(inbox))
  /\ inbox' = Tail(inbox)
  /\ nextId' = nextId + 1
  /\ duty' = "answer"
  /\ pc' = "result"
  /\ UNCHANGED <<content, sockets, result, calls, seen>>

AuthenticationFails ==
  /\ pc \in {"greeting", "auth"}
  /\ inbox # <<>> /\ ~Expected(Head(inbox))
  /\ Raise

\* Mutant: the result of whatever command is taken for the one asked for.
AnswersAny(message) == message.type = "result" /\ message.success

Answers(message) ==
  /\ message.type = "result"
  /\ pc = "result" => message.id = CommandId
  /\ message.success

Answered ==
  /\ pc \in {"result", "request"}
  /\ inbox # <<>> /\ Answers(Head(inbox)) /\ Head(inbox).shape = "valid"
  /\ Return(Head(inbox).version)

\* The result has another type than the one this read is answered with.
ShapeRefused ==
  /\ pc \in {"result", "request"}
  /\ inbox # <<>> /\ Answers(Head(inbox)) /\ Head(inbox).shape = "invalid"
  /\ Raise

CommandFails ==
  /\ pc = "result"
  /\ inbox # <<>> /\ ~Answers(Head(inbox))
  /\ Raise

\* urlopen and json.loads raise what they like.
RequestFails ==
  /\ pc = "request"
  /\ inbox # <<>> /\ ~Answers(Head(inbox))
  /\ Raise

\* Nothing arrives within REQUEST_TIMEOUT, or the connection is lost.
TimesOut ==
  /\ pc \in {"greeting", "auth", "result", "request"}
  /\ inbox = <<>>
  /\ Raise

-----------------------------------------------------------------------------
(***************************************************************************)
(* Home Assistant.  It does its next duty, or something else instead.      *)
(***************************************************************************)
Sends(message) ==
  /\ inbox' = Append(inbox, message)
  /\ duty' = "none"
  /\ UNCHANGED <<content, pc, sockets, nextId, result, calls>>

Greet == duty = "greet" /\ Sends(Plain("auth_required")) /\ UNCHANGED seen

Welcome == duty = "verdict" /\ Sends(Plain("auth_ok")) /\ UNCHANGED seen

Answer ==
  /\ duty = "answer"
  /\ \E shape \in {"valid", "invalid"} : Sends(Result(CommandId, TRUE, shape, content))
  /\ seen' = seen \cup {content}

Refuse == duty = "answer" /\ Sends(Result(CommandId, FALSE, "valid", content)) /\ UNCHANGED seen

\* Anything else, also the result of a command it was not asked on this socket.
Misanswer ==
  /\ duty # "none"
  /\ \/ Sends(Other)
     \/ /\ pc # "request"
        /\ \E id \in 0..MaxCalls \ {CommandId}, version \in 0..content :
             Sends(Result(id, TRUE, "valid", version))
  /\ UNCHANGED seen

Change ==
  /\ content < MaxContent
  /\ content' = content + 1
  /\ UNCHANGED <<duty, inbox, pc, sockets, nextId, result, calls, seen>>

-----------------------------------------------------------------------------
Client ==
  \/ Connect \/ ConnectFails \/ Greeted \/ Authenticated \/ AuthenticationFails
  \/ Answered \/ ShapeRefused \/ CommandFails \/ RequestFails \/ TimesOut

HomeAssistant == Greet \/ Welcome \/ Answer \/ Refuse \/ Misanswer \/ Change

Next == Call \/ Client \/ HomeAssistant

Spec == Init /\ [][Next]_vars

\* The thread runs and every call has a timeout; nothing of Home Assistant.
FairSpec == Spec /\ WF_vars(Client)

-----------------------------------------------------------------------------
TypeOK ==
  /\ content \in 0..MaxContent
  /\ duty \in {"none", "greet", "verdict", "answer"}
  /\ inbox \in Seq(Message)
  /\ pc \in {"idle", "connect", "greeting", "auth", "result", "request"}
  /\ sockets \in Nat
  /\ nextId \in 1..(calls + 1)
  /\ result \in 0..MaxContent \cup {Failed}
  /\ calls \in 0..MaxCalls
  /\ seen \in SUBSET (0..MaxContent)

(***************************************************************************)
(* However a call ends, it leaves no socket behind: a cycle every five     *)
(* minutes against a Home Assistant that is down would run out of them     *)
(* (SupervisorWebSocket.command, finally).                                 *)
(***************************************************************************)
NoSocketLeft == sockets = IF pc \in {"greeting", "auth", "result"} THEN 1 ELSE 0

(***************************************************************************)
(* Every read implements AtomicRead: a result is the answer to this call,  *)
(* made after it was asked, whatever late, foreign or malformed messages   *)
(* arrive; and every call comes back, whatever Home Assistant does.        *)
(***************************************************************************)
Read == INSTANCE AtomicRead WITH calling <- pc # "idle"

ImplementsRead == Read!FairSpec

(***************************************************************************)
(* Why, inductively: Home Assistant sends one message at a time, in turn   *)
(* with the client, and an answer the client would take was made for it.   *)
(***************************************************************************)
InTurn ==
  /\ pc \in {"idle", "connect"} => duty = "none" /\ inbox = <<>>
  /\ duty = "greet" => pc = "greeting"
  /\ duty = "verdict" => pc = "auth"
  /\ duty = "answer" => pc \in {"result", "request"}
  /\ duty # "none" => inbox = <<>>
  /\ Len(inbox) <= 1
  /\ pc \in {"connect", "greeting", "auth"} => nextId <= calls

AnswersAreSeen ==
  pc \in {"result", "request"} /\ inbox # <<>> /\ Answers(Head(inbox)) =>
    Head(inbox).version \in seen

CallInvariant == TypeOK /\ NoSocketLeft /\ InTurn /\ AnswersAreSeen

=============================================================================
