---------------------------- MODULE TaskFuture ----------------------------
(***************************************************************************)
(* What coro::task promises to those who use it, without frames, handles,  *)
(* rings and native stacks: a task runs at most once, by being launched or *)
(* awaited; it has at most one awaiting coroutine; it ends with one        *)
(* outcome, which is there from then on and which the awaiting coroutine   *)
(* gets, whether it began to wait before or after the end; nothing is      *)
(* thrown away while it runs.  Runtime implements this module for callers  *)
(* that keep its rules.                                                    *)
(***************************************************************************)
CONSTANTS
  Task,
  None,
  Out,           \* outcomes of a task
  IoOut          \* what other co_await expressions return

VARIABLES
  state,         \* "unused", "created", "running", "done" or "gone"
  outcome,       \* "none" or a member of Out
  waits,         \* the task a coroutine awaits
  got            \* what its last co_await returned or threw

vars == <<state, outcome, waits, got>>

Init ==
  /\ state = [x \in Task |-> "unused"]
  /\ outcome = [x \in Task |-> "none"]
  /\ waits = [x \in Task |-> None]
  /\ got = [x \in Task |-> "none"]

Awaited(x) == \E t \in Task : waits[t] = x

(* Whoever runs can go on: it awaits no task.                              *)
Free(t) == state[t] = "running" /\ waits[t] = None

Create(x) ==
  /\ state[x] = "unused"
  /\ state' = [state EXCEPT ![x] = "created"]
  /\ UNCHANGED <<outcome, waits, got>>

Launch(x) ==
  /\ state[x] = "created"
  /\ state' = [state EXCEPT ![x] = "running"]
  /\ UNCHANGED <<outcome, waits, got>>

(* co_await of a task that is not done; it begins to run unless it was     *)
(* launched.                                                               *)
Await(t, x) ==
  /\ Free(t) /\ t # x
  /\ state[x] \in {"created", "running"} /\ ~Awaited(x)
  /\ state' = [state EXCEPT ![x] = "running"]
  /\ waits' = [waits EXCEPT ![t] = x]
  /\ UNCHANGED <<outcome, got>>

(* co_await of a task that is done.                                        *)
Collect(t, x) ==
  /\ Free(t) /\ state[x] = "done"
  /\ got' = [got EXCEPT ![t] = outcome[x]]
  /\ UNCHANGED <<state, outcome, waits>>

(* The end of x: the tasks of D, its locals, go with it; so does x itself  *)
(* if nobody has a way to ask for its outcome.  A coroutine that awaits x  *)
(* gets the outcome in the same step.                                      *)
Finish(x, out, D, last) ==
  /\ Free(x) /\ x \notin D
  /\ \A y \in D : state[y] \in {"created", "done"}
  /\ last \in {"done", "gone"} /\ (Awaited(x) => last = "done")
  /\ state' = [y \in Task |-> IF y \in D THEN "gone"
                              ELSE IF y = x THEN last ELSE state[y]]
  /\ outcome' = [outcome EXCEPT ![x] = out]
  /\ waits' = [t \in Task |-> IF waits[t] = x THEN None ELSE waits[t]]
  /\ got' = [t \in Task |-> IF waits[t] = x THEN out ELSE got[t]]

(* Task objects that have not begun, or are done, are destroyed.           *)
Discard(D) ==
  /\ \A y \in D : state[y] \in {"created", "done"}
  /\ state' = [y \in Task |-> IF y \in D THEN "gone" ELSE state[y]]
  /\ UNCHANGED <<outcome, waits, got>>

(* Something else that t has awaited returns.                              *)
Other(t, r) ==
  /\ Free(t)
  /\ got' = [got EXCEPT ![t] = r]
  /\ UNCHANGED <<state, outcome, waits>>

Next ==
  \/ \E x \in Task : Create(x) \/ Launch(x)
  \/ \E t, x \in Task : Await(t, x) \/ Collect(t, x)
  \/ \E x \in Task, out \in Out, D \in SUBSET Task, last \in {"done", "gone"} :
       Finish(x, out, D, last)
  \/ \E D \in SUBSET Task : Discard(D)
  \/ \E t \in Task, r \in IoOut : Other(t, r)

Spec == Init /\ [][Next]_vars
=============================================================================
