------------------------------ MODULE Runtime ------------------------------
(***************************************************************************)
(* The coroutine runtime of kkp-core: coroutine frames and their promises  *)
(* (coro/task.hpp), the awaiters of the ring (uring/base_uring_awaiter.hpp *)
(* and its subclasses), the event loop (uring/uring_loop.hpp) and the      *)
(* entry points of io_context.                                             *)
(*                                                                         *)
(* Everything runs on the one thread that is inside block_run; only the    *)
(* kernel acts concurrently.  One action is one stretch of native code     *)
(* between two points where control changes hands: the body of a coroutine *)
(* between two co_await expressions is an arbitrary choice of actions.     *)
(*                                                                         *)
(* The library trusts its callers.  breach records the rules a caller (or  *)
(* the kernel) has broken so far and fault the undefined behaviour the     *)
(* program ran into; nothing is modelled after a fault.                    *)
(*   "drop"     a task object was destroyed while its coroutine was        *)
(*              started and not finished                                   *)
(*   "share"    a second coroutine awaited a task that had an awaiter      *)
(*   "restart"  a started task that is not a daemon was awaited again      *)
(*   "early"    an awaiter of the ring was constructed in an expression    *)
(*              other than the co_await that awaits it                     *)
(*   "submit"   the kernel did not take every entry of the SQ              *)
(***************************************************************************)
EXTENDS Uring

CONSTANTS
  Task,          \* coroutine frames; one is used for one call of a coroutine
  None,          \* null pointer, no owner
  Main,          \* the native code: main() or uring_loop::run
  SharedAwait,   \* may a coroutine await a task object it does not own?
  Out            \* how the body of a coroutine may end

ASSUME RuntimeAssumption ==
  /\ Task \cap Op = {}
  /\ None \notin Task \cup Op
  /\ Main \notin Task \cup {None}
  /\ SharedAwait \in BOOLEAN
  /\ Out \subseteq {"value", "error"}

VARIABLES
  frame,         \* state of the coroutine frame
  caller,        \* promise.caller_
  context,       \* is promise.context_ set?
  daemon,        \* flag::daemon of promise.flags_
  outcome,       \* promise.value_ / has_value_ ("value") or ex_ ("error")
  holder,        \* who has the task<> object that owns the frame
  awaits,        \* the task or awaiter a suspended coroutine waits for
  received,      \* what the last co_await of the coroutine returned or threw
  cur,           \* the coroutine in control; Main: the native code
  stack,         \* resume() calls in progress: <<who calls, what it starts>>
  handle,        \* io_data.handle_ of an awaiter
  frameOf,       \* the coroutine frame the awaiter object lives in
  loop,          \* where block_run is
  running_,      \* uring_loop::running_
  root,          \* the task given to block_run
  breach,        \* rules broken so far
  fault          \* undefined behaviour reached

promiseVars == <<caller, context, daemon, outcome>>
awaiterVars == <<handle, frameOf>>
loopVars    == <<loop, running_, root>>
vars == <<sq, flight, cq, frame, promiseVars, holder, awaits, received, cur,
          stack, awaiterVars, loopVars, breach, fault>>

Rules == {"drop", "share", "restart", "early", "submit"}

Faults == {"use_after_free", "null_handle", "bad_resume", "null_sqe"}

TypeOK ==
  /\ RingTypeOK
  /\ frame \in [Task -> {"none", "initial", "running", "suspended", "final",
                         "destroyed"}]
  /\ caller \in [Task -> Task \cup {None}]
  /\ context \in [Task -> BOOLEAN]
  /\ daemon \in [Task -> BOOLEAN]
  /\ outcome \in [Task -> {"none", "value", "error"}]
  /\ holder \in [Task -> Task \cup {Main, None}]
  /\ awaits \in [Task -> Task \cup Op \cup {None}]
  /\ received \in [Task -> {"none", "value", "error", "sqfull"}]
  /\ cur \in Task \cup {Main}
  /\ stack \in Seq((Task \cup {Main}) \X Task)
  /\ handle \in [Op -> Task \cup {None}]
  /\ frameOf \in [Op -> Task \cup {None}]
  /\ loop \in {"idle", "entering", "waiting", "resuming"}
  /\ running_ \in BOOLEAN
  /\ root \in Task \cup {None}
  /\ breach \subseteq Rules
  /\ fault \in Faults \cup {"none"}

Init ==
  /\ RingInit
  /\ frame = [x \in Task |-> "none"]
  /\ caller = [x \in Task |-> None]
  /\ context = [x \in Task |-> FALSE]
  /\ daemon = [x \in Task |-> FALSE]
  /\ outcome = [x \in Task |-> "none"]
  /\ holder = [x \in Task |-> None]
  /\ awaits = [x \in Task |-> None]
  /\ received = [x \in Task |-> "none"]
  /\ cur = Main
  /\ stack = <<>>
  /\ handle = [o \in Op |-> None]
  /\ frameOf = [o \in Op |-> None]
  /\ loop = "idle"
  /\ running_ = FALSE
  /\ root = None
  /\ breach = {}
  /\ fault = "none"

-----------------------------------------------------------------------------
(* Who executes user code: the coroutine in control, or main() while no    *)
(* block_run is active.                                                    *)
Executes(a) ==
  /\ fault = "none"
  /\ cur = a
  /\ a = Main => loop = "idle"

Started(x) == frame[x] \in {"running", "suspended"}

(* Variant with a bug: control goes back to main(), past the launchers.    *)
ReturnToMain ==
  /\ cur' = Main
  /\ stack' = <<>>

(* The innermost resume() returns to its caller; the resume() calls of the *)
(* loop itself are not on the stack.                                       *)
Return ==
  IF stack = <<>>
    THEN cur' = Main /\ UNCHANGED stack
    ELSE /\ cur' = stack[Len(stack)][1]
         /\ stack' = SubSeq(stack, 1, Len(stack) - 1)

(***************************************************************************)
(* Destroying a frame destroys its locals, the task objects among them:    *)
(* the frames that go with x are the least set that holds x and every      *)
(* frame whose task object lives in a member of the set.                   *)
(***************************************************************************)
Doomed(x) ==
  {y \in Task :
     \A S \in SUBSET Task :
       (x \in S /\ \A z \in Task : holder[z] \in S => z \in S) => y \in S}

(* handle_.destroy() on the frames of D, which a started frame forbids.    *)
Destroyed(D) == [y \in Task |-> IF y \in D THEN "destroyed" ELSE frame[y]]

Released(D) == [y \in Task |-> IF y \in D THEN None ELSE holder[y]]

DropBreach(D) == IF \E y \in D : Started(y) THEN {"drop"} ELSE {}

SubmitBreach(entries, taken) == IF taken # entries THEN {"submit"} ELSE {}

(* Calling a coroutine function allocates the frame and suspends at        *)
(* initial_suspend; the caller gets the task object.                       *)
Create(a, x) ==
  /\ Executes(a)
  /\ frame[x] = "none"
  /\ frame' = [frame EXCEPT ![x] = "initial"]
  /\ holder' = [holder EXCEPT ![x] = a]
  /\ UNCHANGED <<ringVars, promiseVars, awaits, received, cur, stack,
                 awaiterVars, loopVars, breach, fault>>

(* ~task(), or the move assignment of another task to the object.          *)
Drop(a, x) ==
  /\ Executes(a)
  /\ holder[x] = a
  /\ LET D == Doomed(x) IN
       /\ frame' = Destroyed(D)
       /\ holder' = Released(D)
       /\ breach' = breach \cup DropBreach(D)
  /\ UNCHANGED <<ringVars, promiseVars, awaits, received, cur, stack,
                 awaiterVars, loopVars, fault>>

-----------------------------------------------------------------------------
(* The part block_run, launch and launch_detached share: set context_ and  *)
(* the daemon flag, then resume the coroutine on top of the native stack.  *)
Start(a, x, isDaemon) ==
  /\ Executes(a)
  /\ frame[x] = "initial"
  /\ holder[x] = a
  /\ context' = [context EXCEPT ![x] = TRUE]
  /\ daemon' = [daemon EXCEPT ![x] = isDaemon]
  /\ frame' = [frame EXCEPT ![x] = "running"]
  /\ stack' = Append(stack, <<a, x>>)
  /\ cur' = x
  /\ UNCHANGED <<ringVars, caller, outcome, awaits, received, awaiterVars,
                 running_, breach, fault>>

(* Variant with a bug: handle() in place of take_handle().                 *)
BlockRunKeepsTask(x) ==
  /\ Start(Main, x, FALSE)
  /\ loop' = "entering"
  /\ root' = x
  /\ UNCHANGED holder

(* io_context::block_run up to the return of the first resume.             *)
BlockRun(x) ==
  /\ Start(Main, x, FALSE)
  /\ holder' = [holder EXCEPT ![x] = None]
  /\ loop' = "entering"
  /\ root' = x

(* io_context::launch.  No task object owns the frame while the resume is  *)
(* in progress: BeingLaunched keeps everybody else from awaiting it.       *)
Launch(a, x) ==
  /\ Start(a, x, TRUE)
  /\ UNCHANGED <<holder, loop, root>>

LaunchDetached(a, x) ==
  /\ Start(a, x, TRUE)
  /\ holder' = [holder EXCEPT ![x] = None]
  /\ UNCHANGED <<loop, root>>

-----------------------------------------------------------------------------
(***************************************************************************)
(* co_await of a task.  await_transform(task &&) takes the handle out of   *)
(* the object, so that nobody owns the frame any more;                     *)
(* await_transform(task &) leaves it there.                                *)
(***************************************************************************)
BeingLaunched(x) == \E i \in DOMAIN stack : stack[i][2] = x

MayAwait(t, x) ==
  /\ Executes(t)
  /\ x # t
  /\ holder[x] # None /\ ~BeingLaunched(x)
  /\ SharedAwait \/ holder[x] = t

TakeHandle(x) == holder' \in {holder, [holder EXCEPT ![x] = None]}

(* await_ready: the callee is done, its outcome is there.                  *)
AwaitReady(t, x) ==
  /\ MayAwait(t, x)
  /\ frame[x] = "final"
  /\ TakeHandle(x)
  /\ received' = [received EXCEPT ![t] = outcome[x]]
  /\ UNCHANGED <<ringVars, frame, promiseVars, awaits, cur, stack,
                 awaiterVars, loopVars, breach, fault>>

(* Variant with a bug: the awaiting coroutine is not remembered.           *)
LinkNoCaller(t, x) ==
  /\ context' = [context EXCEPT ![x] = context[t]]
  /\ awaits' = [awaits EXCEPT ![t] = x]
  /\ UNCHANGED caller

(* What await_suspend does in both of its branches.                        *)
LinkCaller(t, x) ==
  /\ caller' = [caller EXCEPT ![x] = t]
  /\ context' = [context EXCEPT ![x] = context[t]]
  /\ awaits' = [awaits EXCEPT ![t] = x]

(* A task that was not launched: symmetric transfer to its start.          *)
AwaitStart(t, x) ==
  /\ MayAwait(t, x)
  /\ frame[x] = "initial"
  /\ TakeHandle(x)
  /\ LinkCaller(t, x)
  /\ frame' = [frame EXCEPT ![t] = "suspended", ![x] = "running"]
  /\ cur' = x
  /\ UNCHANGED <<ringVars, daemon, outcome, received, stack, awaiterVars,
                 loopVars, breach, fault>>

(* A launched task: suspend and give control back to the native stack.     *)
AwaitDaemon(t, x) ==
  /\ MayAwait(t, x)
  /\ Started(x) /\ daemon[x]
  /\ TakeHandle(x)
  /\ LinkCaller(t, x)
  /\ frame' = [frame EXCEPT ![t] = "suspended"]
  /\ Return
  /\ breach' = breach \cup IF caller[x] # None THEN {"share"} ELSE {}
  /\ UNCHANGED <<ringVars, daemon, outcome, received, awaiterVars, loopVars,
                 fault>>

(* A task that is not a daemon and is already started: await_suspend       *)
(* returns its handle, which resumes it at whatever it is suspended on.    *)
AwaitStarted(t, x) ==
  /\ MayAwait(t, x)
  /\ Started(x) /\ ~daemon[x]
  /\ breach' = breach \cup {"restart"}
  /\ fault' = "bad_resume"
  /\ UNCHANGED <<ringVars, frame, promiseVars, holder, awaits, received, cur,
                 stack, awaiterVars, loopVars>>

-----------------------------------------------------------------------------
(* Variants with a bug: handle_ is not set; handle_ is who gets control.   *)
SuspendNoHandle(t, o, entries) ==
  /\ \E taken \in Takes(entries) :
       /\ Submit(entries, taken)
       /\ breach' = breach \cup SubmitBreach(entries, taken)
  /\ frame' = [frame EXCEPT ![t] = "suspended"]
  /\ awaits' = [awaits EXCEPT ![t] = o]
  /\ Return
  /\ UNCHANGED <<promiseVars, holder, received, loopVars, fault, handle>>

SuspendWrongHandle(t, o, entries) ==
  /\ \E taken \in Takes(entries) :
       /\ Submit(entries, taken)
       /\ breach' = breach \cup SubmitBreach(entries, taken)
  /\ frame' = [frame EXCEPT ![t] = "suspended"]
  /\ awaits' = [awaits EXCEPT ![t] = o]
  /\ Return
  /\ handle' = [handle EXCEPT ![o] = cur']
  /\ UNCHANGED <<promiseVars, holder, received, loopVars, fault>>

(* await_suspend of an awaiter of the ring: remember who to resume, submit *)
(* what is in the SQ, return to the native stack.                          *)
SuspendOnIo(t, o, entries) ==
  /\ handle' = [handle EXCEPT ![o] = t]
  /\ \E taken \in Takes(entries) :
       /\ Submit(entries, taken)
       /\ breach' = breach \cup SubmitBreach(entries, taken)
  /\ frame' = [frame EXCEPT ![t] = "suspended"]
  /\ awaits' = [awaits EXCEPT ![t] = o]
  /\ Return
  /\ UNCHANGED <<promiseVars, holder, received, loopVars, fault>>

(* co_await of a recv, send, read, write, accept, connect or timeout: the  *)
(* constructor takes an SQE, await_ready is false.                         *)
IoAwait(t, o) ==
  /\ Executes(t)
  /\ Fresh(o) /\ ~SqFull
  /\ frameOf' = [frameOf EXCEPT ![o] = t]
  /\ SuspendOnIo(t, o, sq \cup {o})

(* No SQE: await_ready is true and await_resume reports -10086.            *)
IoRejected(t) ==
  /\ Executes(t)
  /\ SqFull
  /\ received' = [received EXCEPT ![t] = "sqfull"]
  /\ UNCHANGED <<ringVars, frame, promiseVars, holder, awaits, cur, stack,
                 awaiterVars, loopVars, breach, fault>>

(* The awaiter is constructed and not awaited yet: its entry is in the SQ  *)
(* with a null handle_, and goes out with the next submission.             *)
IoPrepare(t, o) ==
  /\ Executes(t)
  /\ Fresh(o) /\ ~SqFull
  /\ sq' = sq \cup {o}
  /\ frameOf' = [frameOf EXCEPT ![o] = t]
  /\ handle' = [handle EXCEPT ![o] = None]
  /\ breach' = breach \cup {"early"}
  /\ UNCHANGED <<flight, cq, frame, promiseVars, holder, awaits, received,
                 cur, stack, loopVars, fault>>

(* ... and awaited later.                                                  *)
IoAwaitPrepared(t, o) ==
  /\ Executes(t)
  /\ o \in InRing \ {Stop} /\ frameOf[o] = t /\ handle[o] = None
  /\ UNCHANGED frameOf
  /\ SuspendOnIo(t, o, sq)

-----------------------------------------------------------------------------
(***************************************************************************)
(* The body of t ends: return_value, return_void or unhandled_exception,   *)
(* the locals of the frame are destroyed, then final_suspend and           *)
(* final_task_awaiter::await_suspend.                                      *)
(***************************************************************************)
EndBody(t, out) ==
  /\ Executes(t)
  /\ outcome' = [outcome EXCEPT ![t] = out]
  /\ UNCHANGED <<caller, context, daemon, awaiterVars, loopVars>>

Locals(t) == Doomed(t) \ {t}

(* The awaiting coroutine is resumed by symmetric transfer, and reads the  *)
(* outcome in await_resume.                                                *)
FinishToCaller(t, out) ==
  /\ EndBody(t, out)
  /\ caller[t] # None
  /\ LET D == Locals(t)
         c == caller[t] IN
       /\ holder' = Released(D)
       /\ breach' = breach \cup DropBreach(D)
       /\ IF Destroyed(D)[c] = "destroyed"
            THEN /\ fault' = "use_after_free"
                 /\ frame' = [Destroyed(D) EXCEPT ![t] = "final"]
                 /\ UNCHANGED <<awaits, received, cur>>
            ELSE /\ fault' = IF frame[c] = "suspended" /\ awaits[c] = t
                             THEN "none" ELSE "bad_resume"
                 /\ frame' = [Destroyed(D) EXCEPT ![t] = "final",
                                                  ![c] = "running"]
                 /\ awaits' = [awaits EXCEPT ![c] = None]
                 /\ received' = [received EXCEPT ![c] = out]
                 /\ cur' = c
  /\ UNCHANGED <<ringVars, stack>>

(* A daemon nobody has awaited so far: the frame stays, with the outcome.  *)
FinishDaemon(t, out) ==
  /\ EndBody(t, out)
  /\ caller[t] = None /\ daemon[t]
  /\ LET D == Locals(t) IN
       /\ frame' = [Destroyed(D) EXCEPT ![t] = "final"]
       /\ holder' = Released(D)
       /\ breach' = breach \cup DropBreach(D)
  /\ Return
  /\ UNCHANGED <<ringVars, awaits, received, fault>>

(* Variant with a bug: the daemon flag is not looked at.                   *)
FinishNoDaemon(t, out) ==
  /\ EndBody(t, out)
  /\ caller[t] = None
  /\ frame' = Destroyed(Doomed(t))
  /\ holder' = Released(Locals(t))
  /\ Submit(sq \cup {Stop}, sq \cup {Stop})
  /\ Return
  /\ UNCHANGED <<awaits, received, breach, fault>>

(* The root: task_finish asks the loop to stop through the ring, then the  *)
(* frame destroys itself.  io_context::finish does not check the SQE.      *)
FinishRoot(t, out) ==
  /\ EndBody(t, out)
  /\ caller[t] = None /\ ~daemon[t]
  /\ frame' = Destroyed(Doomed(t))
  /\ holder' = Released(Locals(t))
  /\ \E taken \in Takes(sq \cup {Stop}) :
       IF ~context[t] \/ SqFull
         THEN /\ breach' = breach \cup DropBreach(Locals(t))
              /\ fault' = IF context[t] THEN "null_sqe" ELSE "none"
              /\ UNCHANGED ringVars
         ELSE /\ Submit(sq \cup {Stop}, taken)
              /\ breach' = breach \cup DropBreach(Locals(t))
                             \cup SubmitBreach(sq \cup {Stop}, taken)
              /\ UNCHANGED fault
  /\ Return
  /\ UNCHANGED <<awaits, received>>

-----------------------------------------------------------------------------
(* The first resume of block_run has returned: uring_loop::run starts.     *)
LoopRun ==
  /\ fault = "none"
  /\ loop = "entering" /\ cur = Main
  /\ loop' = "waiting"
  /\ running_' = TRUE
  /\ UNCHANGED <<ringVars, frame, promiseVars, holder, awaits, received, cur,
                 stack, awaiterVars, root, breach, fault>>

(* io_uring_wait_cqe returns the oldest completion.                        *)
Waits(r) ==
  /\ fault = "none"
  /\ loop = "waiting" /\ cur = Main
  /\ cq # <<>> /\ Head(cq) = r

(* Variant with a bug: running_ is not reset.                              *)
ResumeStopGoesOn ==
  /\ Waits(Stop)
  /\ loop' = "resuming"
  /\ UNCHANGED <<ringVars, frame, promiseVars, holder, awaits, received, cur,
                 stack, awaiterVars, running_, root, breach, fault>>

(* uring_loop::resume on the completion of io_data_completed.              *)
ResumeStop ==
  /\ Waits(Stop)
  /\ running_' = FALSE
  /\ loop' = "resuming"
  /\ UNCHANGED <<ringVars, frame, promiseVars, holder, awaits, received, cur,
                 stack, awaiterVars, root, breach, fault>>

(* uring_loop::resume on the completion of an awaiter.                     *)
Resume(o) ==
  /\ Waits(o)
  /\ o \in Op
  /\ loop' = "resuming"
  /\ \/ /\ frame[frameOf[o]] = "destroyed"
        /\ fault' = "use_after_free"
        /\ UNCHANGED <<frame, awaits, received, cur>>
     \/ /\ frame[frameOf[o]] # "destroyed" /\ handle[o] = None
        /\ fault' = "null_handle"
        /\ UNCHANGED <<frame, awaits, received, cur>>
     \/ /\ frame[frameOf[o]] # "destroyed" /\ handle[o] # None
        /\ LET t == handle[o] IN
             /\ fault' = IF frame[t] = "suspended" /\ awaits[t] = o
                         THEN "none" ELSE "bad_resume"
             /\ frame' = [frame EXCEPT ![t] = "running"]
             /\ awaits' = [awaits EXCEPT ![t] = None]
             /\ received' = [received EXCEPT ![t] = "value"]
             /\ cur' = t
  /\ UNCHANGED <<ringVars, promiseVars, holder, stack, awaiterVars, running_,
                 root, breach>>

(* Variant with a bug: the loop is left before the completion is marked.   *)
CqeSeenIfRunning ==
  /\ fault = "none"
  /\ loop = "resuming" /\ cur = Main
  /\ IF running_ THEN MarkSeen ELSE UNCHANGED ringVars
  /\ loop' = IF running_ THEN "waiting" ELSE "idle"
  /\ root' = IF running_ THEN root ELSE None
  /\ UNCHANGED <<frame, promiseVars, holder, awaits, received, cur, stack,
                 awaiterVars, running_, breach, fault>>

(* resume has returned: mark the completion seen, test running_.           *)
CqeSeen ==
  /\ fault = "none"
  /\ loop = "resuming" /\ cur = Main
  /\ MarkSeen
  /\ loop' = IF running_ THEN "waiting" ELSE "idle"
  /\ root' = IF running_ THEN root ELSE None
  /\ UNCHANGED <<frame, promiseVars, holder, awaits, received, cur, stack,
                 awaiterVars, running_, breach, fault>>

(* The kernel, at any time.                                                *)
Complete(r) ==
  /\ fault = "none"
  /\ PostCompletion(r)
  /\ UNCHANGED <<frame, promiseVars, holder, awaits, received, cur, stack,
                 awaiterVars, loopVars, breach, fault>>

-----------------------------------------------------------------------------
Actor == Task \cup {Main}

(* Steps that keep control in the same user code, or move it up.           *)
UserStep ==
  \/ \E a \in Actor, x \in Task :
       \/ Create(a, x)
       \/ Drop(a, x)
       \/ Launch(a, x)
       \/ LaunchDetached(a, x)
  \/ \E x \in Task : BlockRun(x)
  \/ \E t, x \in Task : AwaitReady(t, x) \/ AwaitStart(t, x)
  \/ \E t \in Task : IoRejected(t)
  \/ \E t \in Task, o \in Op : IoPrepare(t, o)

(* Steps by which the coroutine in control suspends or ends.               *)
Yield ==
  \/ \E t, x \in Task : AwaitDaemon(t, x) \/ AwaitStarted(t, x)
  \/ \E t \in Task, o \in Op : IoAwait(t, o) \/ IoAwaitPrepared(t, o)
  \/ \E t \in Task, out \in Out :
       \/ FinishToCaller(t, out)
       \/ FinishDaemon(t, out)
       \/ FinishRoot(t, out)

LoopStep ==
  \/ LoopRun
  \/ ResumeStop
  \/ \E o \in Op : Resume(o)
  \/ CqeSeen

Next ==
  \/ UserStep
  \/ Yield
  \/ LoopStep
  \/ \E r \in Request : Complete(r)

Spec == Init /\ [][Next]_vars

(***************************************************************************)
(* The scheduling the code guarantees: uring_loop::run goes on as long as  *)
(* there is a completion to handle, the body of a coroutine ends or        *)
(* reaches a suspension point, and the kernel completes the NOP of         *)
(* io_context::finish.  Nothing is assumed of other I/O: a recv may stay   *)
(* in flight for ever.                                                     *)
(***************************************************************************)
Fairness ==
  /\ WF_vars(LoopStep)
  /\ WF_vars(Yield)
  /\ WF_vars(Complete(Stop))

FairSpec == Spec /\ Fairness

-----------------------------------------------------------------------------
(* A program that keeps the rules never runs into undefined behaviour, and *)
(* each kind has its own cause: the loop touches a freed awaiter only      *)
(* after a started task was dropped, resumes a null handle_ only if an     *)
(* awaiter was constructed ahead of its co_await, resumes a coroutine that *)
(* does not wait for it only if a started task was awaited again, and      *)
(* finish() finds the SQ full only if entries were left in it.             *)
FaultHasCause ==
  /\ fault = "use_after_free" => breach \cap {"drop", "early"} # {}
  /\ fault = "null_handle" => "early" \in breach
  /\ fault = "bad_resume" => "restart" \in breach
  /\ fault = "null_sqe" => breach \cap {"submit", "early"} # {}

(* What will wake t up: a request of its own on the way through the ring   *)
(* whose io_data leads back to t, or a started task whose caller_ is t.    *)
WokenByIo(t) ==
  /\ awaits[t] \in InRing \cap Op
  /\ handle[awaits[t]] = t
  /\ frameOf[awaits[t]] = t

WokenByTask(t) ==
  /\ awaits[t] \in Task
  /\ Started(awaits[t])
  /\ caller[awaits[t]] = t

(* No lost wake-up: in a program that keeps the rules every suspended      *)
(* coroutine has something that will resume it, however the completions,   *)
(* the nested launches and the finishing tasks interleave.                 *)
NoLostWakeup ==
  breach = {} =>
    \A t \in Task : frame[t] = "suspended" => WokenByIo(t) \/ WokenByTask(t)

(* Whatever rules are broken: who waits for an awaiter has its request in  *)
(* the ring, and one that lies in the SQ, where the kernel does not see    *)
(* it, was left there by a short submission; who waits for a task has the  *)
(* promise to remember it, unless a second coroutine has taken the place   *)
(* in caller_ or the task was dropped; and the stop request of a root that *)
(* has finished is on its way to block_run, or was left in the SQ by a     *)
(* short submission.                                                       *)
LossHasCause ==
  fault = "none" =>
    /\ \A t \in Task : frame[t] = "suspended" =>
         \/ WokenByIo(t) /\ (awaits[t] \in sq => "submit" \in breach)
         \/ WokenByTask(t)
         \/ awaits[t] \in Task /\ breach \cap {"share", "drop"} # {}
    /\ root # None /\ frame[root] = "destroyed" =>
         Stop \in InRing /\ (Stop \in sq => "submit" \in breach)

(* Control is in one place: the coroutine in control and the callers of    *)
(* the resume() calls in progress are different running coroutines, there  *)
(* are no others, and main() is only at the bottom of the stack.  So no    *)
(* frame is destroyed, suspended or resumed while it executes.             *)
OneThread ==
  fault = "none" =>
    /\ \A t \in Task : frame[t] = "running" <=>
                         t = cur \/ \E i \in DOMAIN stack : stack[i][1] = t
    /\ \A i \in DOMAIN stack :
         /\ stack[i][1] # cur
         /\ stack[i][1] = Main => i = 1
         /\ \A j \in DOMAIN stack : i # j => stack[i][1] # stack[j][1]
    /\ cur = Main => stack = <<>>

(* A task object never refers to a freed frame: root frames and the frames *)
(* of coroutines freed by their owner are the only ones destroyed, and     *)
(* nobody holds them (block_run and launch_detached take the handle).      *)
NoDanglingTask ==
  \A x \in Task : holder[x] # None => frame[x] \notin {"none", "destroyed"}

(* The stop request is in the ring only on behalf of the root that has     *)
(* finished, and is consumed before block_run returns: a block_run after   *)
(* it does not stop on a stale one.                                        *)
StopIsRoots ==
  Stop \in InRing => loop # "idle" /\ root # None /\ frame[root] = "destroyed"

(* As long as every submission takes all entries and no awaiter is made    *)
(* ahead of its co_await, the SQ is empty whenever user code runs, so that *)
(* no co_await is turned down with -10086.                                 *)
SqNeverJams ==
  (\E t \in Task : received[t] = "sqfull") =>
    breach \cap {"submit", "early"} # {}

(* block_run returns only after its root has finished and is destroyed.    *)
BlockRunWaitsForRoot ==
  [][loop # "idle" /\ loop' = "idle" => frame[root] = "destroyed"]_vars

(* Once the root has finished, block_run returns, whatever the remaining   *)
(* coroutines do: the stop request cannot be overtaken for ever.           *)
BlockRunReturns ==
  (root # None /\ fault = "none" /\ frame[root] = "destroyed")
    ~> (loop = "idle" \/ fault # "none")

(* A posted completion resumes the coroutine that waits for it, unless     *)
(* block_run returns first.                                                *)
CompletionDelivered ==
  \A o \in Op :
    (o \in Completed /\ loop # "idle" /\ \E t \in Task : awaits[t] = o)
      ~> (loop = "idle" \/ fault # "none" \/ \A t \in Task : awaits[t] # o)
=============================================================================
