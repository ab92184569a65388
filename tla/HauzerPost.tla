----------------------------- MODULE HauzerPost -----------------------------
(***************************************************************************)
(* One call of HauzerClient._post (hauzer.py): the attempt loop with its   *)
(* stop check, the transport, the classification of the answer and the     *)
(* interruptible wait before the next attempt.  The stop event is set by   *)
(* another thread (the signal handler of the main thread) at any moment,   *)
(* and Hauzer takes or loses a request independently of what the client    *)
(* learns about it.                                                        *)
(***************************************************************************)
EXTENDS Naturals, Sequences

CONSTANTS
  RetryDelays,      \* RETRY_DELAYS: the wait after attempt 1, 2, ...
  MaxRetryAfter,    \* MAX_RETRY_AFTER_SECONDS
  Headers,          \* the values a Retry-After header may carry
  NoHeader          \* an answer with no Retry-After, or an unreadable one

ASSUME HauzerPostAssumption ==
  /\ RetryDelays \in Seq(Nat)
  /\ MaxRetryAfter \in Nat
  /\ \A i \in 1..Len(RetryDelays) : RetryDelays[i] <= MaxRetryAfter
  /\ Headers \subseteq Nat
  /\ NoHeader \notin Nat

VARIABLES
  pc,          \* the line of the attempt loop the calling thread is at
  attempt,     \* the loop variable, from 0
  pause,       \* the argument of the current self._sleeper call
  outcome,     \* how the call ended
  stop,        \* stop_event.is_set()
  current,     \* what Hauzer has done with the request in flight
  strays,      \* abandoned requests that Hauzer may still take
  copies,      \* history: how often Hauzer has taken the payload
  sent,        \* history: requests handed to the transport
  lateSends    \* history: requests handed over after the stop event was set

vars == <<pc, attempt, pause, outcome, stop, current, strays, copies, sent, lateSends>>

LastAttempt == Len(RetryDelays)

Outcomes == {"acknowledged", "stopped", "rejected", "unavailable", "unexpected"}

TypeOK ==
  /\ pc \in {"idle", "check", "send", "inflight", "sleep", "done"}
  /\ attempt \in 0..LastAttempt
  /\ pause \in 0..MaxRetryAfter
  /\ outcome \in Outcomes \cup {"none"}
  /\ stop \in BOOLEAN
  /\ current \in {"none", "travelling", "taken"}
  /\ strays \in Nat
  /\ copies \in Nat
  /\ sent \in Nat
  /\ lateSends \in Nat

Init ==
  /\ pc = "idle"
  /\ attempt = 0
  /\ pause = 0
  /\ outcome = "none"
  /\ stop \in BOOLEAN
  /\ current = "none"
  /\ strays = 0
  /\ copies = 0
  /\ sent = 0
  /\ lateSends = 0

Call ==
  /\ pc = "idle"
  /\ pc' = "check"
  /\ UNCHANGED <<attempt, pause, outcome, stop, current, strays, copies, sent, lateSends>>

Return(result) ==
  /\ pc' = "done"
  /\ outcome' = result

\* Mutant: the stop event is looked at before the first attempt only.
CheckStopOnce ==
  /\ pc = "check"
  /\ \/ stop /\ attempt = 0 /\ Return("stopped")
     \/ (~stop \/ attempt > 0) /\ pc' = "send" /\ UNCHANGED outcome
  /\ UNCHANGED <<attempt, pause, stop, current, strays, copies, sent, lateSends>>

CheckStop ==
  /\ pc = "check"
  /\ \/ stop /\ Return("stopped")
     \/ ~stop /\ pc' = "send" /\ UNCHANGED outcome
  /\ UNCHANGED <<attempt, pause, stop, current, strays, copies, sent, lateSends>>

Send ==
  /\ pc = "send"
  /\ pc' = "inflight"
  /\ current' = "travelling"
  /\ sent' = sent + 1
  /\ lateSends' = IF stop THEN lateSends + 1 ELSE lateSends
  /\ UNCHANGED <<attempt, pause, outcome, stop, strays, copies>>

\* Mutant: the header's value is taken as it comes.
RetryAfterUnchecked(header) == header

(***************************************************************************)
(* _retry_after: a value outside 0..MAX_RETRY_AFTER_SECONDS is ignored.    *)
(***************************************************************************)
RetryAfter(header) ==
  IF header \in 0..MaxRetryAfter THEN header ELSE NoHeader

PauseBefore(retryAfter) ==
  IF retryAfter # NoHeader THEN retryAfter ELSE RetryDelays[attempt + 1]

\* Mutant: off by one, the last delay is never used.
GiveUpOneEarly(retryAfter) ==
  \/ /\ attempt + 1 >= LastAttempt
     /\ Return("unavailable")
     /\ UNCHANGED pause
  \/ /\ attempt + 1 < LastAttempt
     /\ pc' = "sleep"
     /\ pause' = PauseBefore(retryAfter)
     /\ UNCHANGED outcome

(***************************************************************************)
(* The except branches: give up after the last attempt, else wait.         *)
(***************************************************************************)
RetryOrGiveUp(retryAfter) ==
  \/ /\ attempt >= LastAttempt
     /\ Return("unavailable")
     /\ UNCHANGED pause
  \/ /\ attempt < LastAttempt
     /\ pc' = "sleep"
     /\ pause' = PauseBefore(retryAfter)
     /\ UNCHANGED outcome

\* 200, 201, or a 202 whose counts match what was submitted.
Accepted ==
  /\ pc = "inflight"
  /\ current = "taken"
  /\ Return("acknowledged")
  /\ current' = "none"
  /\ UNCHANGED <<attempt, pause, stop, strays, copies, sent, lateSends>>

\* 401, 422 or another status that Hauzer answers without taking the payload.
Refused ==
  /\ pc = "inflight"
  /\ current = "travelling"
  /\ Return("rejected")
  /\ current' = "none"
  /\ UNCHANGED <<attempt, pause, stop, strays, copies, sent, lateSends>>

\* The client has done with the request; one that Hauzer has not taken yet, as
\* when the connection failed or a proxy answered in its place, may still arrive.
Abandon ==
  /\ current' = "none"
  /\ strays' = IF current = "travelling" THEN strays + 1 ELSE strays

\* Mutant: any 202 counts as an acknowledgement.
MismatchedAccepted ==
  /\ pc = "inflight"
  /\ Return("acknowledged")
  /\ current' = "none"
  /\ UNCHANGED <<attempt, pause, stop, strays, copies, sent, lateSends>>

\* A 202 with a wrong acknowledgement is an error that is not retried; an
\* exception that is neither of the two the loop catches leaves it as well.
Mismatched ==
  /\ pc = "inflight"
  /\ \E result \in {"rejected", "unexpected"} : Return(result)
  /\ Abandon
  /\ UNCHANGED <<attempt, pause, stop, copies, sent, lateSends>>

\* 429 with its header, or 5xx, whose header is not read.
Busy ==
  /\ pc = "inflight"
  /\ \E header \in Headers \cup {NoHeader} : RetryOrGiveUp(RetryAfter(header))
  /\ Abandon
  /\ UNCHANGED <<attempt, stop, copies, sent, lateSends>>

\* OSError: the connection failed or timed out.
Lost ==
  /\ pc = "inflight"
  /\ RetryOrGiveUp(NoHeader)
  /\ Abandon
  /\ UNCHANGED <<attempt, stop, copies, sent, lateSends>>

\* Mutant: waking up does not use up an attempt.
WakeSameAttempt ==
  /\ pc = "sleep"
  /\ pc' = "check"
  /\ UNCHANGED <<attempt, pause, outcome, stop, current, strays, copies, sent, lateSends>>

\* self._sleeper is stop_event.wait: it ends after the pause or at the stop.
Wake ==
  /\ pc = "sleep"
  /\ pc' = "check"
  /\ attempt' = attempt + 1
  /\ UNCHANGED <<pause, outcome, stop, current, strays, copies, sent, lateSends>>

Answer == Accepted \/ Refused \/ Mismatched \/ Busy \/ Lost

(***************************************************************************)
(* The surroundings: Hauzer, and the thread that sets the stop event.      *)
(***************************************************************************)
Take ==
  /\ current = "travelling"
  /\ current' = "taken"
  /\ copies' = copies + 1
  /\ UNCHANGED <<pc, attempt, pause, outcome, stop, strays, sent, lateSends>>

TakeStray ==
  /\ strays > 0
  /\ strays' = strays - 1
  /\ copies' = copies + 1
  /\ UNCHANGED <<pc, attempt, pause, outcome, stop, current, sent, lateSends>>

RequestStop ==
  /\ ~stop
  /\ stop' = TRUE
  /\ UNCHANGED <<pc, attempt, pause, outcome, current, strays, copies, sent, lateSends>>

Step == Call \/ CheckStop \/ Send \/ Answer \/ Wake

Next == Step \/ Take \/ TakeStray \/ RequestStop

SafeSpec == Init /\ [][Next]_vars

(***************************************************************************)
(* The thread keeps running, and REQUEST_TIMEOUT ends every transport call *)
(* that gets no answer; Hauzer and the signal handler owe nothing.         *)
(***************************************************************************)
Fairness ==
  /\ WF_vars(CheckStop)
  /\ WF_vars(Send)
  /\ WF_vars(Answer)
  /\ WF_vars(Wake)

Spec == SafeSpec /\ Fairness

-----------------------------------------------------------------------------
Waiting == IF current = "travelling" THEN 1 ELSE 0

(***************************************************************************)
(* Duplicates are bounded: every copy Hauzer takes, and every one it may   *)
(* still take once the call has returned, is one of the requests of this   *)
(* call, and there are at most Len(RETRY_DELAYS) + 1 of them.              *)
(***************************************************************************)
CopiesBounded ==
  /\ copies + strays + Waiting <= sent
  /\ sent <= LastAttempt + 1

(***************************************************************************)
(* The stop check and the transport are not atomic, so a request may leave *)
(* after the stop event is set; it is never more than the one whose check  *)
(* had already passed.                                                     *)
(***************************************************************************)
OneLateSend == lateSends <= 1

(***************************************************************************)
(* A call that answers "unavailable" has really used every attempt: the    *)
(* caller gets a transient failure only when the budget is spent.          *)
(***************************************************************************)
UnavailableOnlyWhenSpent ==
  outcome = "unavailable" => sent = LastAttempt + 1

(***************************************************************************)
(* Refinement: the attempt loop implements one Delivery.                   *)
(***************************************************************************)
Phase ==
  CASE pc = "idle" -> "idle"
    [] pc = "done" -> IF outcome = "acknowledged" THEN "acknowledged" ELSE "failed"
    [] OTHER -> "pending"

D == INSTANCE Delivery WITH
       phase <- Phase,
       copies <- copies,
       MaxCopies <- LastAttempt + 1

ImplementsDelivery == D!Spec

=============================================================================
