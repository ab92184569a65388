-------------------------- MODULE HauzerPostProofs --------------------------
(***************************************************************************)
(* Proofs about HauzerPost, for every list of delays and every header: one *)
(* inductive invariant, the three bounds, and the safety part of the       *)
(* refinement of Delivery.                                                 *)
(***************************************************************************)
EXTENDS HauzerPost, TLAPS

\* Where the loop stands fixes how many requests it has sent.
SentSoFar ==
  /\ pc = "idle" => sent = 0
  /\ pc \in {"idle", "check", "send"} => sent = attempt
  /\ pc \in {"inflight", "sleep"} => sent = attempt + 1
  /\ pc = "sleep" => attempt < LastAttempt
  /\ sent <= LastAttempt + 1

\* Each of them is in flight, abandoned, taken or refused.
RequestsAccountedFor ==
  /\ pc # "inflight" => current = "none"
  /\ current = "taken" => copies > 0
  /\ copies + strays + Waiting <= sent

\* A late request needs a stop check that was passed before the stop.
LateAccountedFor ==
  /\ ~stop => lateSends = 0
  /\ pc = "send" => lateSends = 0
  /\ lateSends <= 1

PostInvariant ==
  /\ TypeOK
  /\ SentSoFar
  /\ RequestsAccountedFor
  /\ LateAccountedFor
  /\ UnavailableOnlyWhenSpent
  /\ pc # "done" => outcome = "none"

-----------------------------------------------------------------------------
\* A retry waits at most MaxRetryAfter, whatever the header says.
LEMMA PauseBounded ==
  ASSUME NEW header \in Headers \cup {NoHeader}, attempt \in Nat, attempt < LastAttempt
  PROVE  PauseBefore(RetryAfter(header)) \in 0..MaxRetryAfter
<1>1. RetryDelays[attempt + 1] \in 0..MaxRetryAfter
  BY HauzerPostAssumption DEF LastAttempt
<1>2. RetryAfter(header) = NoHeader \/ RetryAfter(header) \in 0..MaxRetryAfter
  BY DEF RetryAfter
<1> QED
  BY <1>1, <1>2 DEF PauseBefore

\* What the two except branches do to the invariant's parts.
LEMMA RetryOrGiveUpEffect ==
  ASSUME NEW header \in Headers \cup {NoHeader}, PostInvariant, pc = "inflight",
         RetryOrGiveUp(RetryAfter(header))
  PROVE  /\ pause' \in 0..MaxRetryAfter
         /\ \/ /\ pc' = "done"
               /\ outcome' = "unavailable"
               /\ sent = LastAttempt + 1
            \/ /\ pc' = "sleep"
               /\ outcome' = "none"
               /\ attempt < LastAttempt
<1>1. /\ attempt \in 0..LastAttempt
      /\ sent = attempt + 1
      /\ pause \in 0..MaxRetryAfter
      /\ outcome = "none"
      /\ LastAttempt \in Nat
  BY HauzerPostAssumption DEF PostInvariant, TypeOK, SentSoFar, LastAttempt
<1>2. CASE attempt < LastAttempt
  <2>1. PauseBefore(RetryAfter(header)) \in 0..MaxRetryAfter
    BY <1>1, <1>2, PauseBounded
  <2>2. /\ pc' = "sleep"
        /\ pause' = PauseBefore(RetryAfter(header))
        /\ outcome' = outcome
    BY <1>1, <1>2 DEF RetryOrGiveUp, Return
  <2> QED
    BY <1>1, <1>2, <2>1, <2>2
<1>3. CASE attempt >= LastAttempt
  BY <1>1, <1>3 DEF RetryOrGiveUp, Return
<1> QED
  BY <1>1, <1>2, <1>3

LEMMA InitPost == Init => PostInvariant
BY HauzerPostAssumption
   DEF Init, PostInvariant, TypeOK, SentSoFar, RequestsAccountedFor, LateAccountedFor,
       UnavailableOnlyWhenSpent, Waiting, LastAttempt, Outcomes

LEMMA NextPost == PostInvariant /\ [Next]_vars => PostInvariant'
<1> SUFFICES ASSUME PostInvariant, [Next]_vars
             PROVE  PostInvariant'
  OBVIOUS
<1> LastAttempt \in Nat /\ MaxRetryAfter \in Nat
  BY HauzerPostAssumption DEF LastAttempt
<1> USE DEF PostInvariant, TypeOK, SentSoFar, RequestsAccountedFor, LateAccountedFor,
            UnavailableOnlyWhenSpent, Waiting, Outcomes
<1>1. CASE Call
  BY <1>1 DEF Call
<1>2. CASE CheckStop
  BY <1>2 DEF CheckStop, Return
<1>3. CASE Send
  BY <1>3 DEF Send
<1>4. CASE Accepted
  BY <1>4 DEF Accepted, Return
<1>5. CASE Refused
  BY <1>5 DEF Refused, Return
<1>6. CASE Mismatched
  BY <1>6 DEF Mismatched, Abandon, Return
<1>7. CASE Busy
  <2>1. PICK header \in Headers \cup {NoHeader} : RetryOrGiveUp(RetryAfter(header))
    BY <1>7 DEF Busy
  <2>2. /\ pc = "inflight"
        /\ Abandon
        /\ UNCHANGED <<attempt, stop, copies, sent, lateSends>>
    BY <1>7 DEF Busy
  <2> HIDE DEF PostInvariant
  <2>3. /\ pause' \in 0..MaxRetryAfter
        /\ \/ pc' = "done" /\ outcome' = "unavailable" /\ sent = LastAttempt + 1
           \/ pc' = "sleep" /\ outcome' = "none" /\ attempt < LastAttempt
    BY <2>1, <2>2, RetryOrGiveUpEffect
  <2> QED
    BY <2>2, <2>3 DEF PostInvariant, Abandon
<1>8. CASE Lost
  <2>1. /\ pc = "inflight"
        /\ RetryOrGiveUp(NoHeader)
        /\ Abandon
        /\ UNCHANGED <<attempt, stop, copies, sent, lateSends>>
    BY <1>8 DEF Lost
  <2>2. RetryAfter(NoHeader) = NoHeader
    BY HauzerPostAssumption DEF RetryAfter
  <2> HIDE DEF PostInvariant
  <2>3. /\ pause' \in 0..MaxRetryAfter
        /\ \/ pc' = "done" /\ outcome' = "unavailable" /\ sent = LastAttempt + 1
           \/ pc' = "sleep" /\ outcome' = "none" /\ attempt < LastAttempt
    BY <2>1, <2>2, RetryOrGiveUpEffect
  <2> QED
    BY <2>1, <2>3 DEF PostInvariant, Abandon
<1>9. CASE Wake
  BY <1>9 DEF Wake
<1>10. CASE Take
  BY <1>10 DEF Take
<1>11. CASE TakeStray
  BY <1>11 DEF TakeStray
<1>12. CASE RequestStop
  BY <1>12 DEF RequestStop
<1>13. CASE UNCHANGED vars
  BY <1>13 DEF vars
<1> QED
  BY <1>1, <1>2, <1>3, <1>4, <1>5, <1>6, <1>7, <1>8, <1>9, <1>10, <1>11, <1>12, <1>13
     DEF Next, Step, Answer

\* The invariant of the attempt loop.
THEOREM PostInvariantHolds == SafeSpec => []PostInvariant
BY InitPost, NextPost, PTL DEF SafeSpec

\* The attempt counter, the pause and the other variables keep their types:
\* RETRY_DELAYS is never indexed behind its end.
THEOREM PostTypeCorrect == SafeSpec => []TypeOK
<1>1. PostInvariant => TypeOK
  BY DEF PostInvariant
<1> QED
  BY <1>1, PostInvariantHolds, PTL

\* At most Len(RETRY_DELAYS) + 1 requests, and no more copies than requests.
THEOREM DuplicatesBounded == SafeSpec => []CopiesBounded
<1>1. PostInvariant => CopiesBounded
  BY DEF PostInvariant, SentSoFar, RequestsAccountedFor, CopiesBounded
<1> QED
  BY <1>1, PostInvariantHolds, PTL

\* At most one request leaves after the stop event is set.
THEOREM LateSendBounded == SafeSpec => []OneLateSend
<1>1. PostInvariant => OneLateSend
  BY DEF PostInvariant, LateAccountedFor, OneLateSend
<1> QED
  BY <1>1, PostInvariantHolds, PTL

\* "unavailable" is returned only once every attempt is spent.
THEOREM UnavailableSpent == SafeSpec => []UnavailableOnlyWhenSpent
<1>1. PostInvariant => UnavailableOnlyWhenSpent
  BY DEF PostInvariant
<1> QED
  BY <1>1, PostInvariantHolds, PTL

-----------------------------------------------------------------------------
(***************************************************************************)
(* Refinement: each step of the loop is a step of Delivery or leaves its   *)
(* variables alone.                                                        *)
(***************************************************************************)
LEMMA InitDelivery == Init => D!Init
BY DEF Init, D!Init, Phase

LEMMA NextDelivery == PostInvariant /\ [Next]_vars => [D!Next]_(D!vars)
<1> SUFFICES ASSUME PostInvariant, [Next]_vars
             PROVE  [D!Next]_(D!vars)
  OBVIOUS
<1>0. /\ LastAttempt \in Nat
      /\ pc \in {"idle", "check", "send", "inflight", "sleep", "done"}
      /\ copies \in Nat
      /\ strays \in Nat
      /\ sent \in Nat
  BY HauzerPostAssumption DEF LastAttempt, PostInvariant, TypeOK
\* Steps that neither return nor deliver.
<1>1. ASSUME pc' = pc \/ {pc, pc'} \cap {"idle", "done"} = {}, pc # "done" \/ outcome' = outcome,
             copies' = copies
      PROVE  UNCHANGED D!vars
  <2>1. Phase' = Phase
    BY <1>0, <1>1 DEF Phase
  <2> QED
    BY <1>1, <2>1 DEF D!vars
\* A request that is taken, in flight or abandoned.
<1>2. ASSUME copies < LastAttempt + 1, copies' = copies + 1, pc # "idle", pc' = pc,
             outcome' = outcome
      PROVE  D!Take
  BY <1>0, <1>2 DEF Phase, D!Take
\* A call that returns.
<1>3. ASSUME pc \notin {"idle", "done"}, pc' = "done", outcome' # "acknowledged", copies' = copies
      PROVE  D!Fail
  BY <1>0, <1>3 DEF Phase, D!Fail
<1>4. CASE Call
  BY <1>4 DEF Call, Phase, D!Next, D!Start
<1>5. CASE CheckStop
  <2>1. pc = "check" /\ copies' = copies
    BY <1>5 DEF CheckStop
  <2>2. CASE pc' = "send"
    BY <1>1, <2>1, <2>2
  <2>3. CASE pc' = "done" /\ outcome' = "stopped"
    BY <1>3, <2>1, <2>3 DEF D!Next
  <2> QED
    BY <1>5, <2>2, <2>3 DEF CheckStop, Return
<1>6. CASE Send
  BY <1>1, <1>6 DEF Send
<1>7. CASE Accepted
  <2>1. copies > 0
    BY <1>7 DEF Accepted, PostInvariant, RequestsAccountedFor
  <2>2. D!Acknowledge
    BY <1>7, <2>1 DEF Accepted, Return, Phase, D!Acknowledge
  <2> QED
    BY <2>2 DEF D!Next
<1>8. CASE Refused
  BY <1>3, <1>8 DEF Refused, Return, D!Next
<1>9. CASE Mismatched
  BY <1>3, <1>9 DEF Mismatched, Return, D!Next
<1>10. CASE Busy \/ Lost
  <2>1. PICK header \in Headers \cup {NoHeader} :
          pc = "inflight" /\ copies' = copies /\ RetryOrGiveUp(RetryAfter(header))
    <3>1. CASE Busy
      BY <3>1 DEF Busy
    <3>2. CASE Lost
      <4>1. RetryAfter(NoHeader) = NoHeader
        BY HauzerPostAssumption DEF RetryAfter
      <4> QED
        BY <3>2, <4>1 DEF Lost
    <3> QED
      BY <1>10, <3>1, <3>2
  <2>2. \/ pc' = "done" /\ outcome' = "unavailable"
        \/ pc' = "sleep" /\ outcome' = "none"
    BY <2>1, RetryOrGiveUpEffect
  <2>3. CASE pc' = "done" /\ outcome' = "unavailable"
    BY <1>3, <2>1, <2>3 DEF D!Next
  <2>4. CASE pc' = "sleep"
    BY <1>1, <2>1, <2>4
  <2> QED
    BY <2>2, <2>3, <2>4
<1>11. CASE Wake
  BY <1>1, <1>11 DEF Wake
<1>12. CASE Take
  <2>1. /\ pc = "inflight"
        /\ copies + 1 <= LastAttempt + 1
    BY <1>0, <1>12 DEF Take, PostInvariant, RequestsAccountedFor, SentSoFar, Waiting
  <2> QED
    BY <1>0, <1>2, <1>12, <2>1 DEF Take, D!Next
<1>13. CASE TakeStray
  <2>1. Waiting \in Nat
    BY DEF Waiting
  <2>2. copies + 1 <= LastAttempt + 1
    BY <1>0, <1>13, <2>1 DEF TakeStray, PostInvariant, RequestsAccountedFor, SentSoFar
  <2>3. pc # "idle"
    BY <1>0, <1>13, <2>1 DEF TakeStray, PostInvariant, RequestsAccountedFor, SentSoFar
  <2> QED
    BY <1>0, <1>2, <1>13, <2>2, <2>3 DEF TakeStray, D!Next
<1>14. CASE RequestStop
  BY <1>1, <1>14 DEF RequestStop
<1>15. CASE UNCHANGED vars
  BY <1>1, <1>15 DEF vars
<1> QED
  BY <1>4, <1>5, <1>6, <1>7, <1>8, <1>9, <1>10, <1>11, <1>12, <1>13, <1>14, <1>15
     DEF Next, Step, Answer

\* The attempt loop implements the safety part of Delivery: "acknowledged" only
\* for a payload Hauzer has taken, and never more copies than attempts.
THEOREM PostImplementsDelivery == SafeSpec => D!SafeSpec
BY InitDelivery, NextDelivery, PostInvariantHolds, PTL DEF SafeSpec, D!SafeSpec

=============================================================================
