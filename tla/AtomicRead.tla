----------------------------- MODULE AtomicRead -----------------------------
(***************************************************************************)
(* What a read of Home Assistant promises its caller: a result it returns  *)
(* is what Home Assistant had to say at some moment between the call and   *)
(* the return, never something older; and the call comes back.             *)
(***************************************************************************)
EXTENDS Integers

CONSTANTS
  MaxContent,   \* bound: how often Home Assistant's content changes
  Failed        \* the result of a call that raised

VARIABLES
  content,      \* the version of what Home Assistant has to say
  calling,      \* a call is under way
  seen,         \* the versions Home Assistant has answered this call with
  result        \* what the last call came to

vars == <<content, calling, seen, result>>

Init ==
  /\ content = 0
  /\ calling = FALSE
  /\ seen = {}
  /\ result = Failed

Change ==
  /\ content < MaxContent
  /\ content' = content + 1
  /\ UNCHANGED <<calling, seen, result>>

Call ==
  /\ ~calling
  /\ calling' = TRUE
  /\ seen' = {}
  /\ UNCHANGED <<content, result>>

Look ==
  /\ calling
  /\ seen' = seen \cup {content}
  /\ UNCHANGED <<content, calling, result>>

Return ==
  /\ calling
  /\ calling' = FALSE
  /\ result' \in seen
  /\ UNCHANGED <<content, seen>>

Raise ==
  /\ calling
  /\ calling' = FALSE
  /\ result' = Failed
  /\ UNCHANGED <<content, seen>>

Next == Change \/ Call \/ Look \/ Return \/ Raise

Spec == Init /\ [][Next]_vars

FairSpec == Spec /\ WF_vars(Return \/ Raise)

=============================================================================
