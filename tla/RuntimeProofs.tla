--------------------------- MODULE RuntimeProofs ---------------------------
(***************************************************************************)
(* Theorems about Runtime, for every set of frames and awaiters, every     *)
(* size of the SQ, and with or without failing submissions.                *)
(***************************************************************************)
EXTENDS Runtime, FiniteSetTheorems, TLAPS

-----------------------------------------------------------------------------
(* Returning from a resume() hands control to an actor and keeps the stack *)
(* a stack.                                                                *)
LEMMA ReturnType ==
  ASSUME stack \in Seq((Task \cup {Main}) \X Task), Return
  PROVE  /\ stack' \in Seq((Task \cup {Main}) \X Task)
         /\ cur' \in Task \cup {Main}
<1>1. CASE stack = <<>>
  BY <1>1 DEF Return
<1>2. CASE stack # <<>>
  <2>1. Len(stack) \in 1..Len(stack) /\ Len(stack) - 1 \in 0..Len(stack)
    BY <1>2
  <2>2. stack[Len(stack)] \in (Task \cup {Main}) \X Task
    BY <2>1
  <2>3. SubSeq(stack, 1, Len(stack) - 1) \in Seq((Task \cup {Main}) \X Task)
    BY <2>1
  <2> QED
    BY <1>2, <2>2, <2>3 DEF Return
<1> QED
  BY <1>1, <1>2

(* Whatever part of the entries a submission takes, the ring keeps its     *)
(* type.                                                                   *)
LEMMA SubmitType ==
  ASSUME RingTypeOK, NEW entries \in SUBSET Request,
         NEW taken \in Takes(entries), Submit(entries, taken)
  PROVE  RingTypeOK'
BY DEF RingTypeOK, Takes, Submit

(* Freeing a set of frames keeps the types.                                *)
LEMMA DestroyType ==
  ASSUME TypeOK, NEW D \in SUBSET Task
  PROVE  /\ Destroyed(D) \in [Task -> {"none", "initial", "running",
                                       "suspended", "final", "destroyed"}]
         /\ Released(D) \in [Task -> Task \cup {Main, None}]
         /\ DropBreach(D) \subseteq Rules
BY DEF TypeOK, Destroyed, Released, DropBreach, Rules

(* The frames freed with a frame are coroutine frames...                   *)
LEMMA DoomedType == \A x \in Task : Doomed(x) \in SUBSET Task
BY DEF Doomed

(* ... and so are the task objects among the locals of a frame.            *)
LEMMA LocalsType == \A x \in Task : Locals(x) \in SUBSET Task
BY DEF Doomed, Locals

-----------------------------------------------------------------------------
(* The initial state is well typed.                                        *)
LEMMA InitType == Init => TypeOK
<1> SUFFICES ASSUME Init PROVE TypeOK
  OBVIOUS
<1>1. RingTypeOK
  BY DEF Init, RingInit, RingTypeOK
<1>2. context \in [Task -> BOOLEAN] /\ daemon \in [Task -> BOOLEAN]
  BY DEF Init
<1>3. stack \in Seq((Task \cup {Main}) \X Task) /\ fault \in Faults \cup {"none"}
  BY DEF Init
<1> QED
  BY <1>1, <1>2, <1>3 DEF Init, TypeOK

(* Every step of user code that keeps control preserves the types.         *)
LEMMA UserStepType ==
  ASSUME TypeOK, UserStep PROVE TypeOK'
<1> USE RuntimeAssumption DEF Actor, Executes, ringVars, promiseVars,
        awaiterVars, loopVars
<1>1. ASSUME NEW a \in Actor, NEW x \in Task, Create(a, x) PROVE TypeOK'
  BY <1>1 DEF Create, TypeOK, RingTypeOK
<1>2. ASSUME NEW a \in Actor, NEW x \in Task, Drop(a, x) PROVE TypeOK'
  BY <1>2, DestroyType, DoomedType DEF Drop, TypeOK, RingTypeOK
<1>3. ASSUME NEW a \in Actor, NEW x \in Task, Launch(a, x) PROVE TypeOK'
  BY <1>3 DEF Launch, Start, TypeOK, RingTypeOK
<1>4. ASSUME NEW a \in Actor, NEW x \in Task, LaunchDetached(a, x)
      PROVE TypeOK'
  BY <1>4 DEF LaunchDetached, Start, TypeOK, RingTypeOK
<1>5. ASSUME NEW x \in Task, BlockRun(x) PROVE TypeOK'
  BY <1>5 DEF BlockRun, Start, TypeOK, RingTypeOK
<1>6. ASSUME NEW t \in Task, NEW x \in Task, AwaitReady(t, x) PROVE TypeOK'
  BY <1>6 DEF AwaitReady, MayAwait, TakeHandle, TypeOK, RingTypeOK
<1>7. ASSUME NEW t \in Task, NEW x \in Task, AwaitStart(t, x) PROVE TypeOK'
  BY <1>7 DEF AwaitStart, MayAwait, TakeHandle, LinkCaller, TypeOK, RingTypeOK
<1>8. ASSUME NEW t \in Task, IoRejected(t) PROVE TypeOK'
  BY <1>8 DEF IoRejected, TypeOK, RingTypeOK
<1>9. ASSUME NEW t \in Task, NEW o \in Op, IoPrepare(t, o) PROVE TypeOK'
  BY <1>9 DEF IoPrepare, TypeOK, RingTypeOK, Request, Rules
<1> QED
  BY <1>1, <1>2, <1>3, <1>4, <1>5, <1>6, <1>7, <1>8, <1>9 DEF UserStep

(* Suspending on an awaiter whose entry is in the SQ preserves the types.  *)
LEMMA SuspendType ==
  ASSUME TypeOK, NEW t \in Task, NEW o \in Op,
         NEW entries \in SUBSET Request, SuspendOnIo(t, o, entries),
         frameOf' \in [Op -> Task \cup {None}]
  PROVE  TypeOK'
<1> USE DEF promiseVars, loopVars
<1>1. PICK taken \in Takes(entries) :
        /\ Submit(entries, taken)
        /\ breach' = breach \cup SubmitBreach(entries, taken)
  BY DEF SuspendOnIo
<1>2. RingTypeOK' /\ breach' \subseteq Rules
  BY <1>1, SubmitType DEF TypeOK, SubmitBreach, Rules
<1>3. stack' \in Seq((Task \cup {Main}) \X Task) /\ cur' \in Task \cup {Main}
  BY ReturnType DEF SuspendOnIo, TypeOK
<1> QED
  BY <1>2, <1>3 DEF SuspendOnIo, TypeOK

(* Every step by which a coroutine suspends or ends preserves the types.   *)
LEMMA YieldType ==
  ASSUME TypeOK, Yield PROVE TypeOK'
<1> USE RuntimeAssumption DEF Actor, Executes, ringVars, promiseVars,
        awaiterVars, loopVars
<1>1. ASSUME NEW t \in Task, NEW x \in Task, AwaitDaemon(t, x) PROVE TypeOK'
  <2>1. stack' \in Seq((Task \cup {Main}) \X Task) /\ cur' \in Task \cup {Main}
    BY <1>1, ReturnType DEF AwaitDaemon, TypeOK
  <2> QED
    BY <1>1, <2>1 DEF AwaitDaemon, MayAwait, TakeHandle, LinkCaller, TypeOK,
       RingTypeOK, Rules
<1>2. ASSUME NEW t \in Task, NEW x \in Task, AwaitStarted(t, x) PROVE TypeOK'
  BY <1>2 DEF AwaitStarted, TypeOK, RingTypeOK, Rules, Faults
<1>3. ASSUME NEW t \in Task, NEW o \in Op, IoAwait(t, o) PROVE TypeOK'
  <2>1. sq \cup {o} \in SUBSET Request
    BY DEF TypeOK, RingTypeOK, Request
  <2>2. frameOf' \in [Op -> Task \cup {None}]
    BY <1>3 DEF IoAwait, TypeOK
  <2> QED
    BY <1>3, <2>1, <2>2, SuspendType DEF IoAwait
<1>4. ASSUME NEW t \in Task, NEW o \in Op, IoAwaitPrepared(t, o) PROVE TypeOK'
  <2>1. sq \in SUBSET Request /\ frameOf' \in [Op -> Task \cup {None}]
    BY <1>4 DEF IoAwaitPrepared, TypeOK, RingTypeOK
  <2> QED
    BY <1>4, <2>1, SuspendType DEF IoAwaitPrepared
<1>5. ASSUME NEW t \in Task, NEW out \in Out, FinishToCaller(t, out)
      PROVE TypeOK'
  <2> DEFINE c == caller[t]
  <2>1. c \in Task /\ out \in {"value", "error"}
    BY <1>5 DEF FinishToCaller, TypeOK
  <2>2. outcome' \in [Task -> {"none", "value", "error"}]
    BY <1>5, <2>1 DEF FinishToCaller, EndBody, TypeOK
  <2>3. CASE Destroyed(Locals(t))[c] = "destroyed"
    BY <1>5, <2>1, <2>2, <2>3, LocalsType, DestroyType
       DEF FinishToCaller, EndBody, TypeOK, RingTypeOK, Faults
  <2>4. CASE Destroyed(Locals(t))[c] # "destroyed"
    <3> DEFINE D == Locals(t)
    <3>1. /\ Destroyed(D) \in [Task -> {"none", "initial", "running",
                                       "suspended", "final", "destroyed"}]
          /\ Released(D) \in [Task -> Task \cup {Main, None}]
          /\ DropBreach(D) \subseteq Rules
      BY LocalsType, DestroyType
    <3> HIDE DEF D
    <3>2. /\ frame' = [Destroyed(D) EXCEPT ![t] = "final", ![c] = "running"]
          /\ holder' = Released(D) /\ breach' = breach \cup DropBreach(D)
          /\ awaits' = [awaits EXCEPT ![c] = None]
          /\ received' = [received EXCEPT ![c] = out]
          /\ cur' = c /\ fault' \in {"none", "bad_resume"}
      BY <1>5, <2>4 DEF FinishToCaller, D
    <3> HIDE DEF c
    <3>3. frame' \in [Task -> {"none", "initial", "running", "suspended",
                              "final", "destroyed"}]
      BY <2>1, <3>1, <3>2
    <3>4. RingTypeOK' /\ UNCHANGED <<stack, caller, context, daemon, handle,
                                    frameOf, loop, running_, root>>
      BY <1>5 DEF FinishToCaller, EndBody, TypeOK, RingTypeOK
    <3> QED
      BY <2>1, <2>2, <3>1, <3>2, <3>3, <3>4 DEF TypeOK, Faults
  <2> QED
    BY <2>3, <2>4
<1>6. ASSUME NEW t \in Task, NEW out \in Out, FinishDaemon(t, out)
      PROVE TypeOK'
  <2>1. stack' \in Seq((Task \cup {Main}) \X Task) /\ cur' \in Task \cup {Main}
    BY <1>6, ReturnType DEF FinishDaemon, TypeOK
  <2> QED
    BY <1>6, <2>1, LocalsType, DestroyType
       DEF FinishDaemon, EndBody, TypeOK, RingTypeOK
<1>7. ASSUME NEW t \in Task, NEW out \in Out, FinishRoot(t, out)
      PROVE TypeOK'
  <2>1. stack' \in Seq((Task \cup {Main}) \X Task) /\ cur' \in Task \cup {Main}
    BY <1>7, ReturnType DEF FinishRoot, TypeOK
  <2>2. RingTypeOK' /\ breach' \subseteq Rules /\ fault' \in Faults \cup {"none"}
    <3>1. sq \cup {Stop} \in SUBSET Request
      BY DEF TypeOK, RingTypeOK, Request
    <3>2. PICK taken \in Takes(sq \cup {Stop}) :
            IF ~context[t] \/ SqFull
              THEN /\ breach' = breach \cup DropBreach(Locals(t))
                   /\ fault' = IF context[t] THEN "null_sqe" ELSE "none"
                   /\ UNCHANGED ringVars
              ELSE /\ Submit(sq \cup {Stop}, taken)
                   /\ breach' = breach \cup DropBreach(Locals(t))
                                  \cup SubmitBreach(sq \cup {Stop}, taken)
                   /\ UNCHANGED fault
      BY <1>7 DEF FinishRoot
    <3>3. RingTypeOK'
      BY <3>1, <3>2, SubmitType DEF TypeOK, RingTypeOK
    <3>4. breach \subseteq Rules /\ DropBreach(Locals(t)) \subseteq Rules
      BY LocalsType, DestroyType DEF TypeOK
    <3>5. SubmitBreach(sq \cup {Stop}, taken) \subseteq Rules
      BY DEF SubmitBreach, Rules
    <3>6. CASE ~context[t] \/ SqFull
      BY <3>2, <3>3, <3>4, <3>6 DEF Faults
    <3>7. CASE ~(~context[t] \/ SqFull)
      BY <3>2, <3>3, <3>4, <3>5, <3>7 DEF TypeOK
    <3> QED
      BY <3>6, <3>7
  <2> QED
    BY <1>7, <2>1, <2>2, DoomedType, LocalsType, DestroyType
       DEF FinishRoot, EndBody, TypeOK
<1> QED
  BY <1>1, <1>2, <1>3, <1>4, <1>5, <1>6, <1>7 DEF Yield

(* Every step of the event loop preserves the types.                       *)
LEMMA LoopStepType ==
  ASSUME TypeOK, LoopStep PROVE TypeOK'
<1> USE DEF ringVars, promiseVars, awaiterVars, loopVars
<1>1. CASE LoopRun
  BY <1>1 DEF LoopRun, TypeOK, RingTypeOK
<1>2. CASE ResumeStop
  BY <1>2 DEF ResumeStop, TypeOK, RingTypeOK
<1>3. ASSUME NEW o \in Op, Resume(o) PROVE TypeOK'
  <2>1. /\ RingTypeOK'
        /\ UNCHANGED <<caller, context, daemon, outcome, holder, stack, handle,
                       frameOf, running_, root, breach>>
        /\ loop' = "resuming"
    BY <1>3 DEF Resume, TypeOK, RingTypeOK
  <2>2. CASE UNCHANGED <<frame, awaits, received, cur>>
    BY <1>3, <2>1, <2>2 DEF Resume, TypeOK, Faults
  <2>3. CASE handle[o] # None /\ ~UNCHANGED <<frame, awaits, received, cur>>
    <3> DEFINE t == handle[o]
    <3>1. t \in Task
      BY <2>3 DEF TypeOK
    <3>2. /\ frame' = [frame EXCEPT ![t] = "running"]
          /\ awaits' = [awaits EXCEPT ![t] = None]
          /\ received' = [received EXCEPT ![t] = "value"]
          /\ cur' = t
      BY <1>3, <2>3 DEF Resume
    <3>3. fault' \in {"none", "bad_resume"}
      BY <1>3, <2>3 DEF Resume
    <3> HIDE DEF t
    <3> QED
      BY <2>1, <3>1, <3>2, <3>3 DEF TypeOK, Faults
  <2> QED
    BY <1>3, <2>2, <2>3 DEF Resume
<1>4. CASE CqeSeen
  BY <1>4 DEF CqeSeen, MarkSeen, TypeOK, RingTypeOK
<1> QED
  BY <1>1, <1>2, <1>3, <1>4 DEF LoopStep

(* The kernel posts only completions of requests.                          *)
LEMMA CompleteType ==
  ASSUME TypeOK, NEW r \in Request, Complete(r) PROVE TypeOK'
BY DEF Complete, PostCompletion, TypeOK, RingTypeOK, promiseVars, awaiterVars,
       loopVars

(* TypeOK is an invariant: no step of the runtime, after any breach of the *)
(* rules, leaves the state space the other properties are stated over.     *)
THEOREM TypeCorrect == Spec => []TypeOK
<1>1. ASSUME TypeOK, [Next]_vars PROVE TypeOK'
  <2>1. CASE UNCHANGED vars
    BY <1>1, <2>1 DEF vars, promiseVars, awaiterVars, loopVars, TypeOK, RingTypeOK
  <2> QED
    BY <1>1, <2>1, UserStepType, YieldType, LoopStepType, CompleteType DEF Next
<1> QED
  BY InitType, <1>1, PTL DEF Spec

-----------------------------------------------------------------------------
(* The SQ is drained by every submission unless one failed or an awaiter   *)
(* was constructed ahead of its co_await.                                  *)
SqInv ==
  breach \cap {"submit", "early"} = {} =>
    /\ sq = {}
    /\ \A t \in Task : received[t] # "sqfull"

(* io_uring_get_sqe cannot fail on an empty SQ.                            *)
LEMMA EmptySqNotFull == sq = {} => ~SqFull
BY FS_EmptySet, UringAssumption DEF SqFull

(* A submission that breaks no rule takes everything.                      *)
LEMMA SubmitAll ==
  ASSUME NEW entries, NEW taken, Submit(entries, taken),
         SubmitBreach(entries, taken) \cap {"submit"} = {}
  PROVE  sq' = {} /\ flight' = flight \cup entries /\ cq' = cq
BY DEF Submit, SubmitBreach

(* Suspending on an awaiter submits everything and leaves the SQ empty.    *)
LEMMA SuspendSq ==
  ASSUME NEW t, NEW o, NEW entries, SuspendOnIo(t, o, entries),
         breach' \cap {"submit", "early"} = {}
  PROVE  sq' = {} /\ received' = received
<1>1. PICK taken \in Takes(entries) :
        /\ Submit(entries, taken)
        /\ breach' = breach \cup SubmitBreach(entries, taken)
  BY DEF SuspendOnIo
<1> QED
  BY <1>1, SubmitAll DEF SuspendOnIo

(* The SQ is empty between two stretches of user code, while those rules   *)
(* are kept.                                                               *)
LEMMA SqAlways == Spec => []SqInv
<1>1. Init => SqInv
  BY DEF Init, RingInit, SqInv
<1>2. ASSUME TypeOK, SqInv, [Next]_vars PROVE SqInv'
  <2> SUFFICES ASSUME breach' \cap {"submit", "early"} = {}
               PROVE  sq' = {} /\ \A t \in Task : received'[t] # "sqfull"
    BY DEF SqInv
  <2>1. CASE UNCHANGED vars
    BY <1>2, <2>1 DEF vars, SqInv
  <2>2. CASE UserStep
    <3>1. ASSUME NEW t \in Task, IoRejected(t) PROVE FALSE
      BY <1>2, <3>1, EmptySqNotFull DEF IoRejected, SqInv
    <3>2. ASSUME NEW t \in Task, NEW o \in Op, IoPrepare(t, o) PROVE FALSE
      BY <3>2 DEF IoPrepare
    <3>3. ASSUME NEW t \in Task, NEW x \in Task, AwaitReady(t, x)
          PROVE  sq' = {} /\ \A z \in Task : received'[z] # "sqfull"
      <4>1. outcome[x] # "sqfull"
        BY <1>2 DEF TypeOK
      <4> QED
        BY <1>2, <3>3, <4>1 DEF AwaitReady, SqInv, ringVars, TypeOK
    <3>4. ASSUME NEW a \in Actor, NEW x \in Task,
                 \/ Create(a, x) \/ Drop(a, x) \/ Launch(a, x)
                 \/ LaunchDetached(a, x) \/ BlockRun(x)
                 \/ a \in Task /\ AwaitStart(a, x)
          PROVE  sq' = {} /\ received' = received /\ breach \subseteq breach'
      <4>1. breach \subseteq breach'
        BY <3>4 DEF Create, Drop, Launch, LaunchDetached, BlockRun, Start,
           AwaitStart
      <4> QED
        BY <1>2, <3>4, <4>1 DEF Create, Drop, Launch, LaunchDetached, BlockRun,
           Start, AwaitStart, SqInv, ringVars
    <3> QED
      BY <1>2, <2>2, <3>1, <3>2, <3>3, <3>4 DEF UserStep, SqInv, Actor
  <2>3. CASE Yield
    <3>1. ASSUME NEW t \in Task, NEW x \in Task,
                 AwaitDaemon(t, x) \/ AwaitStarted(t, x)
          PROVE  sq' = {} /\ received' = received
      BY <1>2, <3>1 DEF AwaitDaemon, AwaitStarted, SqInv, ringVars
    <3>2. ASSUME NEW t \in Task, NEW o \in Op,
                 IoAwait(t, o) \/ IoAwaitPrepared(t, o)
          PROVE  /\ sq' = {} /\ received' = received
                 /\ breach \cap {"submit", "early"} = {}
      <4>1. PICK entries : SuspendOnIo(t, o, entries)
        BY <3>2 DEF IoAwait, IoAwaitPrepared
      <4> QED
        BY <4>1, SuspendSq DEF SuspendOnIo
    <3>3. ASSUME NEW t \in Task, NEW out \in Out, FinishToCaller(t, out)
          PROVE  sq' = {} /\ \A z \in Task : received'[z] # "sqfull"
      <4>1. out # "sqfull"
        BY RuntimeAssumption
      <4>2. received' \in {received, [received EXCEPT ![caller[t]] = out]}
        BY <3>3 DEF FinishToCaller
      <4>3. sq' = sq /\ breach \subseteq breach'
        BY <3>3 DEF FinishToCaller, ringVars
      <4>4. caller[t] \in Task
        BY <1>2, <3>3 DEF FinishToCaller, TypeOK
      <4> QED
        BY <1>2, <4>1, <4>2, <4>3, <4>4 DEF SqInv, TypeOK
    <3>4. ASSUME NEW t \in Task, NEW out \in Out, FinishDaemon(t, out)
          PROVE  sq' = {} /\ received' = received
      BY <1>2, <3>4 DEF FinishDaemon, SqInv, ringVars
    <3>5. ASSUME NEW t \in Task, NEW out \in Out, FinishRoot(t, out)
          PROVE  /\ sq' = {} /\ received' = received
                 /\ breach \cap {"submit", "early"} = {}
      <4>1. received' = received
        BY <3>5 DEF FinishRoot
      <4>2. PICK taken \in Takes(sq \cup {Stop}) :
              \/ /\ breach' = breach \cup DropBreach(Locals(t))
                 /\ sq' = sq
              \/ /\ Submit(sq \cup {Stop}, taken)
                 /\ breach' = breach \cup DropBreach(Locals(t))
                                \cup SubmitBreach(sq \cup {Stop}, taken)
        BY <3>5 DEF FinishRoot, ringVars
      <4> QED
        BY <1>2, <4>1, <4>2, SubmitAll DEF SqInv
    <3> QED
      BY <1>2, <2>3, <3>1, <3>2, <3>3, <3>4, <3>5
         DEF Yield, SqInv, AwaitDaemon, AwaitStarted, FinishDaemon
  <2>4. CASE LoopStep
    <3>1. ASSUME NEW o \in Op, Resume(o)
          PROVE  /\ sq' = sq /\ breach' = breach
                 /\ received' \in {received,
                                   [received EXCEPT ![handle[o]] = "value"]}
      BY <3>1 DEF Resume, ringVars
    <3>2. ASSUME LoopRun \/ ResumeStop \/ CqeSeen
          PROVE  sq' = sq /\ breach' = breach /\ received' = received
      BY <3>2 DEF LoopRun, ResumeStop, CqeSeen, MarkSeen, ringVars
    <3>3. \A o \in Op, t \in Task :
            [received EXCEPT ![handle[o]] = "value"][t] \in {received[t], "value"}
      BY <1>2 DEF TypeOK
    <3> QED
      BY <1>2, <2>4, <3>1, <3>2, <3>3 DEF LoopStep, SqInv
  <2>5. ASSUME NEW r \in Request, Complete(r)
        PROVE  sq' = sq /\ breach' = breach /\ received' = received
    BY <2>5 DEF Complete, PostCompletion
  <2> QED
    BY <1>2, <2>1, <2>2, <2>3, <2>4, <2>5 DEF Next, SqInv
<1> QED
  BY <1>1, <1>2, TypeCorrect, PTL DEF Spec

(* No co_await is turned down for want of an SQE while the rules on        *)
(* submission and on awaiters are kept, whatever else the program breaks.  *)
THEOREM NeverTurnedDown == Spec => []SqNeverJams
<1>1. SqInv => SqNeverJams
  BY DEF SqInv, SqNeverJams
<1> QED
  BY <1>1, SqAlways, PTL

-----------------------------------------------------------------------------
(* A root frees its own frame, which is safe as long as no task object     *)
(* holds it: a coroutine that was started otherwise than by launch, and    *)
(* that nobody awaits, has no owner.                                       *)
Begun == {x \in Task : frame[x] \notin {"none", "initial"}}

HeldInv ==
  fault = "none" =>
    /\ \A x \in Begun : ~daemon[x] /\ caller[x] = None => holder[x] = None
    /\ cur \in Task => cur \in Begun
    /\ \A i \in DOMAIN stack : stack[i][1] \in Task => stack[i][1] \in Begun

(* resume() returns to a coroutine that has begun.                         *)
LEMMA ReturnBegun ==
  ASSUME TypeOK, HeldInv, fault = "none", Return,
         Begun \subseteq Begun'
  PROVE  /\ cur' \in Task => cur' \in Begun'
         /\ \A i \in DOMAIN stack' :
              stack'[i][1] \in Task => stack'[i][1] \in Begun'
<1>1. CASE stack = <<>>
  BY <1>1, RuntimeAssumption DEF Return
<1>2. CASE stack # <<>>
  <2>1. Len(stack) \in DOMAIN stack
    BY <1>2 DEF TypeOK
  <2>2. /\ cur' = stack[Len(stack)][1]
        /\ stack' = SubSeq(stack, 1, Len(stack) - 1)
    BY <1>2 DEF Return
  <2>3. \A i \in DOMAIN stack' : i \in DOMAIN stack /\ stack'[i] = stack[i]
    BY <2>2 DEF TypeOK
  <2>4. stack[Len(stack)][1] \in Task => stack[Len(stack)][1] \in Begun
    BY <2>1 DEF HeldInv
  <2>5. cur' \in Task => cur' \in Begun'
    BY <2>2, <2>4 DEF Begun
  <2>6. ASSUME NEW i \in DOMAIN stack', stack'[i][1] \in Task
        PROVE  stack'[i][1] \in Begun'
    BY <2>3, <2>6 DEF HeldInv, Begun
  <2> QED
    BY <2>5, <2>6
<1> QED
  BY <1>1, <1>2

(* Freeing frames with their owners leaves no owner of a coroutine that    *)
(* has begun on its own behind.                                            *)
LEMMA DestroyHeld ==
  ASSUME TypeOK, HeldInv, fault = "none", NEW D \in SUBSET Task,
         holder' = Released(D), UNCHANGED <<daemon, caller>>,
         Begun' \ D \subseteq Begun
  PROVE  \A x \in Begun' : ~daemon'[x] /\ caller'[x] = None
                     => holder'[x] = None
BY DEF HeldInv, Released, TypeOK, Begun

(* HeldInv is inductive.                                                   *)
LEMMA HeldStep ==
  ASSUME TypeOK, HeldInv, [Next]_vars PROVE HeldInv'
<1> SUFFICES ASSUME fault' = "none" PROVE HeldInv'
  BY DEF HeldInv
<1> USE DEF promiseVars, awaiterVars, loopVars
<1>1. fault = "none"
  BY DEF Next, UserStep, Yield, LoopStep, Create, Drop, Launch, LaunchDetached,
     BlockRun, Start, AwaitReady, AwaitStart, IoRejected, IoPrepare,
     AwaitDaemon, AwaitStarted, IoAwait, IoAwaitPrepared, FinishToCaller,
     FinishDaemon, FinishRoot, EndBody, Executes, MayAwait, LoopRun,
     ResumeStop, Resume, CqeSeen, Waits, Complete, vars
<1>2. CASE UNCHANGED vars
  BY <1>2 DEF vars, HeldInv, Begun
<1>3. ASSUME NEW a \in Actor, NEW x \in Task, Create(a, x) PROVE HeldInv'
  <2>1. Begun' = Begun
    BY <1>3 DEF Create, Begun, TypeOK
  <2>2. \A y \in Begun : holder'[y] = holder[y]
    BY <1>3 DEF Create, Begun, TypeOK
  <2> QED
    BY <1>1, <1>3, <2>1, <2>2 DEF HeldInv, Create
<1>4. ASSUME NEW a \in Actor, NEW x \in Task, Drop(a, x) PROVE HeldInv'
  <2>1. Begun \subseteq Begun'
    BY <1>4 DEF Drop, Begun, Destroyed
  <2>2. Begun' \ Doomed(x) \subseteq Begun
    BY <1>4 DEF Drop, Begun, Destroyed
  <2>3. \A y \in Begun' : ~daemon'[y] /\ caller'[y] = None
                     => holder'[y] = None
    BY <1>1, <1>4, <2>2, DoomedType, DestroyHeld DEF Drop
  <2> QED
    BY <1>1, <1>4, <2>1, <2>3 DEF HeldInv, Drop
<1>5. ASSUME NEW a \in Actor, NEW x \in Task,
             \/ Launch(a, x)
             \/ LaunchDetached(a, x)
             \/ BlockRun(x) /\ a = Main
      PROVE  HeldInv'
  <2>1. PICK d \in BOOLEAN : Start(a, x, d) /\ (d \/ holder'[x] = None)
    BY <1>5 DEF Launch, LaunchDetached, BlockRun, TypeOK
  <2>2. Begun' = Begun \cup {x}
    BY <2>1 DEF Start, Begun, TypeOK
  <2>3. \A y \in Task \ {x} : daemon'[y] = daemon[y] /\ holder'[y] = holder[y]
    BY <1>5, <2>1 DEF Start, Launch, LaunchDetached, BlockRun, TypeOK
  <2>4. (daemon'[x] \/ holder'[x] = None) /\ caller' = caller
    BY <2>1 DEF Start, TypeOK
  <2>5. a \in Task => a \in Begun
    BY <1>1, <2>1 DEF Start, Executes, HeldInv
  <2>6. cur' = x /\ stack' = Append(stack, <<a, x>>)
    BY <2>1 DEF Start
  <2>7. \A i \in DOMAIN stack' :
          \/ i \in DOMAIN stack /\ stack'[i][1] = stack[i][1]
          \/ stack'[i][1] = a
    BY <2>6 DEF TypeOK
  <2>8. \A i \in DOMAIN stack' : stack'[i][1] \in Task => stack'[i][1] \in Begun'
    BY <1>1, <2>2, <2>5, <2>7 DEF HeldInv
  <2> QED
    BY <1>1, <2>2, <2>3, <2>4, <2>6, <2>8 DEF HeldInv, Begun
<1>6. ASSUME NEW t \in Task, NEW x \in Task, AwaitReady(t, x) PROVE HeldInv'
  BY <1>1, <1>6 DEF AwaitReady, TakeHandle, HeldInv, Begun, TypeOK
<1>7. ASSUME NEW t \in Task, NEW x \in Task, AwaitStart(t, x) PROVE HeldInv'
  <2>1. t \in Begun /\ cur = t /\ t # x
    BY <1>1, <1>7 DEF AwaitStart, MayAwait, Executes, HeldInv
  <2>2. Begun' = Begun \cup {x}
    BY <1>7, <2>1 DEF AwaitStart, Begun, TypeOK
  <2>3. /\ caller'[x] = t /\ \A y \in Task \ {x} : caller'[y] = caller[y]
        /\ \A y \in Task : holder[y] = None => holder'[y] = None
        /\ daemon' = daemon /\ cur' = x /\ stack' = stack
    BY <1>7 DEF AwaitStart, LinkCaller, TakeHandle, TypeOK
  <2>4. t # None
    BY RuntimeAssumption
  <2> QED
    BY <1>1, <2>2, <2>3, <2>4 DEF HeldInv, Begun
<1>8. ASSUME NEW t \in Task, NEW x \in Task, AwaitDaemon(t, x) PROVE HeldInv'
  <2>1. t \in Begun /\ cur = t /\ t # x
    BY <1>1, <1>8 DEF AwaitDaemon, MayAwait, Executes, HeldInv
  <2>2. Begun' = Begun
    BY <1>8, <2>1 DEF AwaitDaemon, Begun, TypeOK
  <2>3. /\ caller'[x] = t /\ \A y \in Task \ {x} : caller'[y] = caller[y]
        /\ \A y \in Task : holder[y] = None => holder'[y] = None
        /\ daemon' = daemon /\ Return
    BY <1>8 DEF AwaitDaemon, LinkCaller, TakeHandle, TypeOK
  <2>4. /\ cur' \in Task => cur' \in Begun'
        /\ \A i \in DOMAIN stack' :
             stack'[i][1] \in Task => stack'[i][1] \in Begun'
    BY <1>1, <2>2, <2>3, ReturnBegun
  <2>5. t # None
    BY RuntimeAssumption
  <2> QED
    BY <1>1, <2>2, <2>3, <2>4, <2>5 DEF HeldInv, Begun
<1>9. ASSUME NEW t \in Task, NEW x \in Task, AwaitStarted(t, x) PROVE FALSE
  BY <1>9 DEF AwaitStarted
<1>10. ASSUME NEW t \in Task, NEW o \in Op,
              IoAwait(t, o) \/ IoAwaitPrepared(t, o)
       PROVE  HeldInv'
  <2>1. t \in Begun /\ cur = t
    BY <1>1, <1>10 DEF IoAwait, IoAwaitPrepared, Executes, HeldInv
  <2>2. PICK entries : SuspendOnIo(t, o, entries)
    BY <1>10 DEF IoAwait, IoAwaitPrepared
  <2>3. Begun' = Begun
    BY <2>1, <2>2 DEF SuspendOnIo, Begun, TypeOK
  <2>4. Return /\ UNCHANGED <<holder, daemon, caller>>
    BY <2>2 DEF SuspendOnIo
  <2>5. /\ cur' \in Task => cur' \in Begun'
        /\ \A i \in DOMAIN stack' :
             stack'[i][1] \in Task => stack'[i][1] \in Begun'
    BY <1>1, <2>3, <2>4, ReturnBegun
  <2> QED
    BY <1>1, <2>3, <2>4, <2>5 DEF HeldInv
<1>11. ASSUME NEW t \in Task, IoRejected(t) PROVE HeldInv'
  BY <1>1, <1>11 DEF IoRejected, HeldInv, Begun
<1>12. ASSUME NEW t \in Task, NEW o \in Op, IoPrepare(t, o) PROVE HeldInv'
  BY <1>1, <1>12 DEF IoPrepare, HeldInv, Begun
<1>13. ASSUME NEW t \in Task, NEW out \in Out, FinishToCaller(t, out)
       PROVE  HeldInv'
  <2> DEFINE D == Locals(t)
             F == Destroyed(D)
             c == caller[t]
  <2>1. /\ Executes(t) /\ c \in Task /\ D \in SUBSET Task
        /\ F \in [Task -> {"none", "initial", "running", "suspended", "final",
                           "destroyed"}]
        /\ F[c] # "destroyed" /\ frame[c] = "suspended"
        /\ holder' = Released(D)
        /\ frame' = [F EXCEPT ![t] = "final", ![c] = "running"]
        /\ cur' = c /\ UNCHANGED <<caller, daemon, stack>>
    BY <1>13, LocalsType, DestroyType DEF FinishToCaller, EndBody, TypeOK
  <2>2. t \in Begun /\ c \in Begun
    BY <1>1, <2>1 DEF Executes, HeldInv, Begun
  <2>3. /\ \A y \in Task : F[y] \in {frame[y], "destroyed"}
        /\ \A y \in Task \ D : F[y] = frame[y]
    BY DEF Destroyed
  <2> HIDE DEF D, F, c
  <2>4. \A y \in Task : frame'[y] = F[y] \/ (y \in {t, c} /\ y \in Begun')
    BY <2>1 DEF Begun
  <2>5. /\ Begun \subseteq Begun'
        /\ Begun' \ D \subseteq Begun
    BY <2>2, <2>3, <2>4 DEF Begun
  <2>6. \A y \in Begun' : ~daemon'[y] /\ caller'[y] = None
                     => holder'[y] = None
    BY <1>1, <2>1, <2>5, DestroyHeld
  <2> QED
    BY <1>1, <2>1, <2>2, <2>5, <2>6 DEF HeldInv
<1>14. ASSUME NEW t \in Task, NEW out \in Out, FinishDaemon(t, out)
       PROVE  HeldInv'
  <2> DEFINE D == Locals(t)
             F == Destroyed(D)
  <2>1. /\ Executes(t) /\ D \in SUBSET Task
        /\ F \in [Task -> {"none", "initial", "running", "suspended", "final",
                           "destroyed"}]
        /\ holder' = Released(D)
        /\ frame' = [F EXCEPT ![t] = "final"]
        /\ Return /\ UNCHANGED <<caller, daemon>>
    BY <1>14, LocalsType, DestroyType DEF FinishDaemon, EndBody
  <2>2. t \in Begun
    BY <1>1, <2>1 DEF Executes, HeldInv
  <2>3. /\ \A y \in Task : F[y] \in {frame[y], "destroyed"}
        /\ \A y \in Task \ D : F[y] = frame[y]
    BY DEF Destroyed
  <2> HIDE DEF D, F
  <2>4. \A y \in Task : frame'[y] = F[y] \/ (y = t /\ y \in Begun')
    BY <2>1 DEF Begun
  <2>5. /\ Begun \subseteq Begun'
        /\ Begun' \ D \subseteq Begun
    BY <2>2, <2>3, <2>4 DEF Begun
  <2>6. \A y \in Begun' : ~daemon'[y] /\ caller'[y] = None
                     => holder'[y] = None
    BY <1>1, <2>1, <2>5, DestroyHeld
  <2>7. /\ cur' \in Task => cur' \in Begun'
        /\ \A i \in DOMAIN stack' :
             stack'[i][1] \in Task => stack'[i][1] \in Begun'
    BY <1>1, <2>1, <2>5, ReturnBegun
  <2> QED
    BY <2>6, <2>7 DEF HeldInv
<1>15. ASSUME NEW t \in Task, NEW out \in Out, FinishRoot(t, out)
       PROVE  HeldInv'
  <2>1. /\ Executes(t) /\ frame' = Destroyed(Doomed(t))
        /\ holder' = Released(Locals(t)) /\ Return
        /\ UNCHANGED <<caller, daemon>>
    BY <1>15 DEF FinishRoot, EndBody
  <2>2. t \in Begun
    BY <1>1, <2>1 DEF Executes, HeldInv
  <2>3. /\ Begun \subseteq Begun'
        /\ Begun' \ Locals(t) \subseteq Begun
    BY <2>1, <2>2 DEF Begun, Destroyed, Locals
  <2>4. \A y \in Begun' : ~daemon'[y] /\ caller'[y] = None
                     => holder'[y] = None
    BY <1>1, <2>1, <2>3, LocalsType, DestroyHeld
  <2>5. /\ cur' \in Task => cur' \in Begun'
        /\ \A i \in DOMAIN stack' :
             stack'[i][1] \in Task => stack'[i][1] \in Begun'
    BY <1>1, <2>1, <2>3, ReturnBegun
  <2> QED
    BY <2>4, <2>5 DEF HeldInv
<1>16. ASSUME NEW o \in Op, Resume(o) PROVE HeldInv'
  <2> DEFINE t == handle[o]
  <2>1. \/ UNCHANGED <<frame, cur>>
        \/ /\ frame[t] = "suspended" /\ t \in Task /\ cur' = t
           /\ frame' = [frame EXCEPT ![t] = "running"]
    BY <1>16 DEF Resume, TypeOK
  <2>2. UNCHANGED <<holder, daemon, caller, stack>>
    BY <1>16 DEF Resume
  <2>3. Begun' = Begun
    BY <2>1 DEF Begun, TypeOK
  <2>4. cur' \in Task => cur' \in Begun'
    BY <1>1, <2>1, <2>3 DEF HeldInv, Begun
  <2> QED
    BY <1>1, <2>2, <2>3, <2>4 DEF HeldInv
<1>17. ASSUME LoopRun \/ ResumeStop \/ CqeSeen \/ \E r \in Request : Complete(r)
       PROVE  HeldInv'
  <2>1. UNCHANGED <<frame, holder, daemon, caller, stack, cur>>
    BY <1>17 DEF LoopRun, ResumeStop, CqeSeen, Complete
  <2> QED
    BY <1>1, <2>1 DEF HeldInv, Begun
<1>18. CASE UserStep
  <2>1. ASSUME NEW x \in Task, BlockRun(x) PROVE HeldInv'
    BY <1>5, <2>1 DEF Actor
  <2> QED
    BY <1>3, <1>4, <1>5, <1>6, <1>7, <1>11, <1>12, <1>18, <2>1, Zenon
       DEF UserStep
<1>19. CASE Yield
  BY <1>8, <1>9, <1>10, <1>13, <1>14, <1>15, <1>19 DEF Yield
<1> QED
  BY <1>2, <1>16, <1>17, <1>18, <1>19 DEF Next, LoopStep

(* Whatever the program does, a task object never refers to a frame that   *)
(* was freed: a task object dies with the frame it owns, and the frame of  *)
(* a root, which frees itself, has no owner.                               *)
THEOREM NoTaskDangles == Spec => []NoDanglingTask
<1> USE DEF promiseVars, awaiterVars, loopVars
<1>1. Init => NoDanglingTask
  BY DEF Init, NoDanglingTask
<1>3. Init => HeldInv
  BY RuntimeAssumption DEF Init, HeldInv, Begun
<1>2. ASSUME TypeOK, HeldInv, NoDanglingTask, [Next]_vars
      PROVE  NoDanglingTask'
  <2> USE <1>2 DEF TypeOK, NoDanglingTask
  <2>1. ASSUME NEW D \in SUBSET Task, NEW y \in Task, Released(D)[y] # None
        PROVE  Destroyed(D)[y] \notin {"none", "destroyed"}
    BY <2>1 DEF Released, Destroyed
  <2>2. CASE UNCHANGED vars
    BY <2>2 DEF vars
  <2>3. CASE UserStep
    <3>1. ASSUME NEW a \in Actor, NEW x \in Task,
                 Launch(a, x) \/ LaunchDetached(a, x) \/ BlockRun(x)
          PROVE  NoDanglingTask'
      BY <3>1 DEF Launch, LaunchDetached, BlockRun, Start
    <3>2. ASSUME NEW a \in Actor, NEW x \in Task, Create(a, x)
          PROVE  NoDanglingTask'
      BY <3>2 DEF Create
    <3>3. ASSUME NEW a \in Actor, NEW x \in Task, Drop(a, x)
          PROVE  NoDanglingTask'
      BY <2>1, <3>3, DoomedType DEF Drop
    <3>4. ASSUME NEW t \in Task, NEW x \in Task,
                 AwaitReady(t, x) \/ AwaitStart(t, x)
          PROVE  NoDanglingTask'
      BY <3>4 DEF AwaitReady, AwaitStart, TakeHandle
    <3>5. ASSUME NEW t \in Task, NEW o \in Op, IoRejected(t) \/ IoPrepare(t, o)
          PROVE  UNCHANGED <<frame, holder>>
      BY <3>5 DEF IoRejected, IoPrepare
    <3>6. ASSUME NEW t \in Task, IoRejected(t) PROVE UNCHANGED <<frame, holder>>
      BY <3>6 DEF IoRejected
    <3> QED
      BY <2>3, <3>1, <3>2, <3>3, <3>4, <3>5, <3>6 DEF UserStep, Actor
  <2>4. CASE Yield
    <3>1. ASSUME NEW t \in Task, NEW x \in Task,
                 AwaitDaemon(t, x) \/ AwaitStarted(t, x)
          PROVE  NoDanglingTask'
      BY <3>1 DEF AwaitDaemon, AwaitStarted, TakeHandle
    <3>2. ASSUME NEW t \in Task, NEW o \in Op,
                 IoAwait(t, o) \/ IoAwaitPrepared(t, o)
          PROVE  NoDanglingTask'
      BY <3>2 DEF IoAwait, IoAwaitPrepared, SuspendOnIo
    <3>3. ASSUME NEW t \in Task, NEW out \in Out, FinishToCaller(t, out)
          PROVE  NoDanglingTask'
      <4> DEFINE D == Locals(t)
                 F == Destroyed(D)
      <4>1. /\ F \in [Task -> {"none", "initial", "running", "suspended",
                               "final", "destroyed"}]
            /\ D \in SUBSET Task
        BY LocalsType, DestroyType
      <4>2. /\ holder' = Released(D)
            /\ \/ frame' = [F EXCEPT ![t] = "final"]
               \/ frame' = [F EXCEPT ![t] = "final", ![caller[t]] = "running"]
        BY <3>3 DEF FinishToCaller
      <4>3. \A y \in Task : frame'[y] \in {F[y], "final", "running"}
        <5> HIDE DEF F
        <5> QED BY <4>1, <4>2
      <4> HIDE DEF D
      <4> QED
        BY <2>1, <4>1, <4>2, <4>3
    <3>4. ASSUME NEW t \in Task, NEW out \in Out, FinishDaemon(t, out)
          PROVE  NoDanglingTask'
      <4> DEFINE D == Locals(t)
                 F == Destroyed(D)
      <4>1. /\ F \in [Task -> {"none", "initial", "running", "suspended",
                               "final", "destroyed"}]
            /\ D \in SUBSET Task
        BY LocalsType, DestroyType
      <4>2. holder' = Released(D) /\ frame' = [F EXCEPT ![t] = "final"]
        BY <3>4 DEF FinishDaemon
      <4>3. \A y \in Task : frame'[y] \in {F[y], "final"}
        <5> HIDE DEF F
        <5> QED BY <4>1, <4>2
      <4> HIDE DEF D
      <4> QED
        BY <2>1, <4>1, <4>2, <4>3
    <3>5. ASSUME NEW t \in Task, NEW out \in Out, FinishRoot(t, out)
          PROVE  NoDanglingTask'
      <4>1. /\ frame' = Destroyed(Doomed(t)) /\ holder' = Released(Locals(t))
            /\ Executes(t) /\ caller[t] = None /\ ~daemon[t]
        BY <3>5 DEF FinishRoot, EndBody
      <4>2. holder[t] = None
        BY <1>2, <4>1 DEF Executes, HeldInv
      <4>3. \A y \in Task : holder'[y] = Released(Doomed(t))[y]
        BY <4>1, <4>2 DEF Released, Locals
      <4> QED
        BY <2>1, <4>1, <4>3, DoomedType
    <3> QED
      BY <2>4, <3>1, <3>2, <3>3, <3>4, <3>5 DEF Yield
  <2>5. CASE LoopStep
    <3>1. ASSUME NEW o \in Op, Resume(o)
          PROVE  holder' = holder /\ \A y \in Task : frame'[y] \in {frame[y], "running"}
      BY <3>1 DEF Resume
    <3>2. ASSUME LoopRun \/ ResumeStop \/ CqeSeen
          PROVE  UNCHANGED <<frame, holder>>
      BY <3>2 DEF LoopRun, ResumeStop, CqeSeen
    <3> QED
      BY <2>5, <3>1, <3>2 DEF LoopStep
  <2>6. ASSUME NEW r \in Request, Complete(r) PROVE UNCHANGED <<frame, holder>>
    BY <2>6 DEF Complete
  <2> QED
    BY <2>2, <2>3, <2>4, <2>5, <2>6 DEF Next
<1> QED
  BY <1>1, <1>2, <1>3, HeldStep, TypeCorrect, PTL DEF Spec

-----------------------------------------------------------------------------
(***************************************************************************)
(* Control: one thread, whatever the program does.                         *)
(***************************************************************************)

(* The coroutines in control; OneThread without its premise, and the loop  *)
(* waits with an empty native stack.                                       *)
ControlInv ==
  /\ \A t \in Task : frame[t] = "running" <=>
                       t = cur \/ \E i \in DOMAIN stack : stack[i][1] = t
  /\ \A i \in DOMAIN stack :
       /\ stack[i][1] # cur
       /\ stack[i][1] = Main => i = 1
       /\ \A j \in DOMAIN stack : i # j => stack[i][1] # stack[j][1]
  /\ cur = Main => stack = <<>>
  /\ loop = "waiting" => cur = Main

(* When the coroutine in control gives it up, the innermost resume()       *)
(* returns to a running coroutine or to main().                            *)
LEMMA ReturnControl ==
  ASSUME TypeOK, ControlInv, Return, cur \in Task, loop' = loop,
         frame'[cur] # "running",
         \A y \in Task \ {cur} : frame'[y] = "running" <=> frame[y] = "running"
  PROVE  ControlInv'
<1>0. loop # "waiting"
  BY RuntimeAssumption DEF ControlInv
<1>1. CASE stack = <<>>
  BY <1>0, <1>1, RuntimeAssumption DEF ControlInv, Return
<1>2. CASE stack # <<>>
  <2> DEFINE n == Len(stack)
  <2>1. /\ n \in Nat /\ n >= 1
        /\ stack \in Seq((Task \cup {Main}) \X Task)
        /\ DOMAIN stack = 1..n
    BY <1>2 DEF TypeOK
  <2>2. /\ cur' = stack[n][1]
        /\ stack' = SubSeq(stack, 1, n - 1)
    BY <1>2 DEF Return
  <2>3. /\ DOMAIN stack' = 1..(n - 1)
        /\ \A i \in 1..(n - 1) : stack'[i] = stack[i]
    BY <2>1, <2>2
  <2>4. \A i \in DOMAIN stack' : i \in DOMAIN stack /\ i # n
    BY <2>1, <2>3
  <2>5. \A i \in DOMAIN stack : i = n \/ i \in DOMAIN stack'
    BY <2>1, <2>3
  <2>6. n \in DOMAIN stack
    BY <2>1
  <2> HIDE DEF n
  <2>7. \A t \in Task : frame'[t] = "running" <=>
                          t = cur' \/ \E i \in DOMAIN stack' : stack'[i][1] = t
    <3>1. \A i \in DOMAIN stack : stack[i][1] # cur
      BY DEF ControlInv
    <3>2. \A i \in DOMAIN stack' : stack'[i][1] = stack[i][1] /\ i \in DOMAIN stack
      BY <2>3, <2>4
    <3>3. ASSUME NEW t \in Task, t # cur
          PROVE  frame'[t] = "running" <=> \E i \in DOMAIN stack : stack[i][1] = t
      BY <3>3 DEF ControlInv
    <3>4. ASSUME NEW t \in Task
          PROVE  (\E i \in DOMAIN stack : stack[i][1] = t) <=>
                   t = cur' \/ \E i \in DOMAIN stack' : stack'[i][1] = t
      BY <2>2, <2>5, <2>6, <3>2
    <3>5. cur' # cur /\ \A i \in DOMAIN stack' : stack'[i][1] # cur
      BY <2>2, <2>6, <3>1, <3>2
    <3> QED
      BY <3>3, <3>4, <3>5
  <2>8. \A i \in DOMAIN stack' :
          /\ stack'[i][1] # cur'
          /\ stack'[i][1] = Main => i = 1
          /\ \A j \in DOMAIN stack' : i # j => stack'[i][1] # stack'[j][1]
    <3>1. \A i \in DOMAIN stack' :
            /\ stack'[i][1] = stack[i][1] /\ i \in DOMAIN stack /\ i # n
      BY <2>3, <2>4
    <3>2. \A i \in DOMAIN stack :
            /\ stack[i][1] = Main => i = 1
            /\ \A j \in DOMAIN stack : i # j => stack[i][1] # stack[j][1]
      BY DEF ControlInv
    <3> SUFFICES ASSUME NEW i \in DOMAIN stack'
                 PROVE  /\ stack'[i][1] # cur'
                        /\ stack'[i][1] = Main => i = 1
                        /\ \A j \in DOMAIN stack' :
                             i # j => stack'[i][1] # stack'[j][1]
      OBVIOUS
    <3>3. stack[i][1] # stack[n][1]
      BY <2>6, <3>1, <3>2
    <3>4. \A j \in DOMAIN stack' : i # j => stack[i][1] # stack[j][1]
      BY <3>1, <3>2
    <3>5. stack[i][1] = Main => i = 1
      BY <3>1, <3>2
    <3> QED
      BY <2>2, <3>1, <3>3, <3>4, <3>5
  <2>9. cur' = Main => stack' = <<>>
    <3> SUFFICES ASSUME cur' = Main PROVE stack' = <<>>
      OBVIOUS
    <3>1. n = 1
      BY <2>2, <2>6 DEF ControlInv
    <3> QED
      BY <2>1, <2>2, <3>1
  <2> QED
    BY <1>0, <2>7, <2>8, <2>9 DEF ControlInv
<1> QED
  BY <1>1, <1>2

(* When user code resumes a coroutine by launching it, the launcher goes   *)
(* on the stack.                                                           *)
LEMMA StartControl ==
  ASSUME TypeOK, ControlInv, NEW a \in Actor, NEW x \in Task,
         NEW isDaemon, Start(a, x, isDaemon), loop' \in {loop, "entering"}
  PROVE  ControlInv'
<1> DEFINE n == Len(stack) + 1
<1>1. /\ cur = a /\ frame[x] = "initial" /\ frame'[x] = "running" /\ cur' = x
      /\ frame' = [frame EXCEPT ![x] = "running"]
      /\ stack' = Append(stack, <<a, x>>)
  BY DEF Start, Executes, TypeOK
<1>2. loop # "waiting"
  BY <1>1, RuntimeAssumption DEF ControlInv, Start, Executes
<1>3. /\ DOMAIN stack' = DOMAIN stack \cup {n}
      /\ n \notin DOMAIN stack
      /\ stack'[n] = <<a, x>>
      /\ \A i \in DOMAIN stack : stack'[i] = stack[i]
      /\ stack = <<>> => n = 1
  BY <1>1 DEF TypeOK
<1> HIDE DEF n
<1>4. \A i \in DOMAIN stack : stack[i][1] \in Task \cup {Main}
  BY DEF TypeOK
<1>5. a \in Task => frame[a] = "running"
  BY <1>1 DEF ControlInv
<1>6. x # a /\ \A i \in DOMAIN stack : stack[i][1] # x
  BY <1>1, <1>5 DEF ControlInv
<1>7. \A t \in Task : frame'[t] = "running" <=>
                        t = cur' \/ \E i \in DOMAIN stack' : stack'[i][1] = t
  <2>1. \A t \in Task \ {x} : frame'[t] = frame[t]
    BY <1>1 DEF TypeOK
  <2> QED
    BY <1>1, <1>3, <2>1 DEF ControlInv
<1>8. \A i \in DOMAIN stack' :
        /\ stack'[i][1] # cur'
        /\ stack'[i][1] = Main => i = 1
        /\ \A j \in DOMAIN stack' : i # j => stack'[i][1] # stack'[j][1]
  BY <1>1, <1>3, <1>6 DEF ControlInv
<1>9. cur' # Main /\ loop' # "waiting"
  BY <1>1, <1>2, RuntimeAssumption
<1> QED
  BY <1>7, <1>8, <1>9 DEF ControlInv

(***************************************************************************)
(* One thread of control, whatever the program does.  The frames that go   *)
(* with a task object must not be in execution.  They are not, because a   *)
(* frame begins after the frame that holds it, and on the native stack     *)
(* those that have begun last are on top; rank is the order in which the   *)
(* frames have begun.                                                      *)
(***************************************************************************)
HolderOrder(rank) ==
  \A y \in Task : holder[y] \in Task =>
    /\ holder[y] \in Begun
    /\ y \in Begun => rank[holder[y]] < rank[y]

(* A coroutine on the stack began before the one it has resumed, and this  *)
(* one not after those in execution above it.                              *)
StackOrder(rank) ==
  \A i \in DOMAIN stack :
    /\ stack[i][2] \in Begun
    /\ stack[i][1] \in Task => rank[stack[i][1]] < rank[stack[i][2]]
    /\ cur \in Task => rank[stack[i][2]] <= rank[cur]
    /\ \A j \in DOMAIN stack :
         i < j /\ stack[j][1] \in Task => rank[stack[i][2]] <= rank[stack[j][1]]

(* What began above an entry of the stack is awaited from above it.        *)
CallerOrder(rank) ==
  \A x \in Task : caller[x] # None =>
    /\ x \in Begun /\ caller[x] \in Begun
    /\ \A i \in DOMAIN stack :
         rank[stack[i][2]] <= rank[x] => rank[stack[i][2]] <= rank[caller[x]]

Ordered(rank, n) ==
  /\ \A t \in Task : rank[t] < n
  /\ HolderOrder(rank)
  /\ StackOrder(rank)
  /\ CallerOrder(rank)

OrderInv == \E n \in Nat, rank \in [Task -> Nat] : Ordered(rank, n)

ThreadInv == fault = "none" => ControlInv /\ OrderInv

(* A set that holds x and, with a frame, all that it holds, contains the   *)
(* frames that go with x.                                                  *)
LEMMA DoomedIn ==
  ASSUME NEW x \in Task, NEW S \in SUBSET Task, x \in S,
         \A z \in Task : holder[z] \in S => z \in S
  PROVE  Doomed(x) \subseteq S
BY DEF Doomed

(* Frames in execution are not freed: what user code frees has not begun,  *)
(* or has begun after it.                                                  *)
LEMMA FreesNoneRunning ==
  ASSUME TypeOK, ControlInv, OrderInv, NEW a \in Actor, cur = a,
         NEW D \in SUBSET Task,
         \/ \E x \in Task : holder[x] = a /\ D = Doomed(x)
         \/ a \in Task /\ D = Locals(a)
  PROVE  \A y \in D : frame[y] # "running"
<1>1. CASE a = Main
  BY <1>1, RuntimeAssumption DEF ControlInv
<1>2. CASE a \in Task
  <2>1. PICK n \in Nat, rank \in [Task -> Nat] : Ordered(rank, n)
    BY DEF OrderInv
  <2> DEFINE After == {y \in Task : y \in Begun => rank[a] < rank[y]}
  <2>2. \A z \in Task : holder[z] \in Task =>
          /\ holder[z] \in Begun
          /\ z \in Begun => rank[holder[z]] < rank[z]
    BY <2>1 DEF Ordered, HolderOrder
  <2>3. \A y, z \in Task : rank[a] \in Nat /\ rank[y] \in Nat /\ rank[z] \in Nat
    BY <1>2
  <2>4. \A z \in Task : holder[z] \in After => z \in After
    BY <2>2, <2>3
  <2>5. D \subseteq After
    <3>1. ASSUME NEW x \in Task, holder[x] = a, D = Doomed(x) PROVE D \subseteq After
      <4>1. x \in After
        BY <1>2, <2>2, <3>1
      <4> HIDE DEF After
      <4> QED
        BY <2>4, <3>1, <4>1, DoomedIn DEF After
    <3>2. ASSUME D = Locals(a) PROVE D \subseteq After
      <4> DEFINE S == After \cup {a}
      <4>1. S \in SUBSET Task /\ a \in S
        BY <1>2
      <4>2. \A z \in Task : holder[z] = a => z \in After
        BY <1>2, <2>2
      <4>3. \A z \in Task : holder[z] \in S => z \in S
        BY <2>4, <4>2
      <4> HIDE DEF After
      <4>4. Doomed(a) \subseteq S
        BY <1>2, <4>1, <4>3, DoomedIn
      <4> QED
        BY <3>2, <4>4 DEF Locals
    <3> QED
      BY <3>1, <3>2
  <2>6. ASSUME NEW y \in Task, frame[y] = "running" PROVE y \notin After
    <3>1. y \in Begun
      BY <2>6 DEF Begun
    <3>2. CASE y = a
      BY <2>3, <3>1, <3>2
    <3>3. CASE y # a
      <4>1. PICK i \in DOMAIN stack : stack[i][1] = y
        BY <2>6, <3>3 DEF ControlInv
      <4>2. stack[i][2] \in Task
        BY DEF TypeOK
      <4>3. rank[y] < rank[stack[i][2]] /\ rank[stack[i][2]] <= rank[a]
        BY <1>2, <2>1, <4>1 DEF Ordered, StackOrder
      <4> QED
        BY <2>3, <3>1, <4>2, <4>3
    <3> QED
      BY <3>2, <3>3
  <2> QED
    BY <2>5, <2>6
<1> QED
  BY <1>1, <1>2 DEF Actor

(* Holders keep their order while nothing begins and frames are freed with *)
(* their owners.                                                           *)
OwnersKept ==
  /\ Begun \subseteq Begun'
  /\ \A y \in Task : holder'[y] \in Task =>
       /\ holder'[y] = holder[y] \/ (holder'[y] \in Begun' /\ y \notin Begun')
       /\ y \in Begun' => y \in Begun

(* Whom the frames belong to stays in order.                               *)
LEMMA HoldersKept ==
  ASSUME TypeOK, NEW rank \in [Task -> Nat], HolderOrder(rank), OwnersKept
  PROVE  HolderOrder(rank)'
BY DEF HolderOrder, OwnersKept

(* A step that begins nothing and changes no link.                         *)
LEMMA OrderKept ==
  ASSUME TypeOK, OrderInv, OwnersKept, UNCHANGED <<caller, stack, cur>>
  PROVE  OrderInv'
<1>1. PICK n \in Nat, rank \in [Task -> Nat] : Ordered(rank, n)
  BY DEF OrderInv
<1>2. HolderOrder(rank)'
  BY <1>1, HoldersKept DEF Ordered
<1>3. StackOrder(rank)' /\ CallerOrder(rank)'
  BY <1>1 DEF Ordered, StackOrder, CallerOrder, OwnersKept
<1> QED
  BY <1>1, <1>2, <1>3 DEF OrderInv, Ordered

(* resume() returns: the top entry leaves the native stack.                *)
LEMMA ReturnOrder ==
  ASSUME TypeOK, OrderInv, OwnersKept, Return, cur \in Begun,
         \A x \in Task : \/ caller'[x] = caller[x]
                         \/ caller'[x] = cur /\ x \in Begun
  PROVE  OrderInv'
<1>1. PICK n \in Nat, rank \in [Task -> Nat] : Ordered(rank, n)
  BY DEF OrderInv
<1>2. HolderOrder(rank)'
  BY <1>1, HoldersKept DEF Ordered
<1>3. \A i \in DOMAIN stack' : i \in DOMAIN stack /\ stack'[i] = stack[i]
  <2>1. CASE stack = <<>>
    BY <2>1 DEF Return
  <2>2. CASE stack # <<>>
    BY <2>2 DEF Return, TypeOK
  <2> QED
    BY <2>1, <2>2
<1>4. StackOrder(rank)'
  <2>1. ASSUME NEW i \in DOMAIN stack', cur' \in Task
        PROVE  rank[stack[i][2]] <= rank[cur']
    <3> DEFINE m == Len(stack)
    <3>1. stack # <<>>
      BY <1>3
    <3>2. m \in DOMAIN stack /\ i \in DOMAIN stack /\ i < m /\ cur' = stack[m][1]
      BY <2>1, <3>1 DEF Return, TypeOK
    <3> HIDE DEF m
    <3> QED
      BY <1>1, <2>1, <3>2 DEF Ordered, StackOrder
  <2>2. ASSUME NEW i \in DOMAIN stack'
        PROVE  /\ stack'[i][2] \in Begun'
               /\ stack'[i][1] \in Task => rank[stack'[i][1]] < rank[stack'[i][2]]
               /\ \A j \in DOMAIN stack' :
                    i < j /\ stack'[j][1] \in Task
                      => rank[stack'[i][2]] <= rank[stack'[j][1]]
    BY <1>1, <1>3 DEF Ordered, StackOrder, OwnersKept
  <2> QED
    BY <1>3, <2>1, <2>2 DEF StackOrder
<1>5. CallerOrder(rank)'
  <2>1. \A i \in DOMAIN stack : rank[stack[i][2]] <= rank[cur]
    BY <1>1 DEF Ordered, StackOrder, Begun
  <2> SUFFICES ASSUME NEW x \in Task, caller'[x] # None
               PROVE  /\ x \in Begun' /\ caller'[x] \in Begun'
                      /\ \A i \in DOMAIN stack' :
                           rank[stack'[i][2]] <= rank[x]
                             => rank[stack'[i][2]] <= rank[caller'[x]]
    BY DEF CallerOrder
  <2>2. CASE caller'[x] = caller[x]
    BY <1>1, <1>3, <2>2 DEF Ordered, CallerOrder, OwnersKept
  <2>3. CASE caller'[x] = cur /\ x \in Begun
    BY <1>3, <2>1, <2>3 DEF OwnersKept
  <2> QED
    BY <2>2, <2>3
<1> QED
  BY <1>1, <1>2, <1>4, <1>5 DEF OrderInv, Ordered

-----------------------------------------------------------------------------
(* How the order of beginnings goes on.                                    *)

(* A coroutine that begins now has begun after all others.                 *)
LEMMA BeginOrder ==
  ASSUME TypeOK, HeldInv, OrderInv, fault = "none", NEW x \in Task,
         x \notin Begun, Begun' = Begun \cup {x}, cur' = x,
         \A y \in Task : holder'[y] \in Task => holder'[y] = holder[y],
         \/ stack' = Append(stack, <<cur, x>>) /\ caller' = caller
         \/ /\ stack' = stack /\ cur \in Task
            /\ caller' = [caller EXCEPT ![x] = cur]
  PROVE  OrderInv'
<1>1. PICK n \in Nat, rank \in [Task -> Nat] : Ordered(rank, n)
  BY DEF OrderInv
<1> DEFINE new == [rank EXCEPT ![x] = n]
<1>2. new \in [Task -> Nat] /\ new[x] = n /\ \A y \in Task \ {x} : new[y] = rank[y]
  OBVIOUS
<1>3. \A y \in Task : rank[y] < n
  BY <1>1 DEF Ordered
<1>4. \A y \in Begun : y \in Task \ {x}
  BY DEF Begun
<1> HIDE DEF new
<1>5. \A y \in Task : new[y] < n + 1
  BY <1>2, <1>3
<1>6. HolderOrder(new)'
  <2>1. ASSUME NEW y \in Task, holder'[y] \in Task
        PROVE  holder'[y] \in Begun' /\ (y \in Begun' => new[holder'[y]] < new[y])
    <3>1. holder'[y] = holder[y] /\ holder[y] \in Begun
      BY <1>1, <2>1 DEF Ordered, HolderOrder
    <3>2. new[holder'[y]] = rank[holder[y]] /\ holder[y] \in Task
      BY <1>2, <1>4, <3>1
    <3>3. CASE y = x
      BY <1>2, <1>3, <3>1, <3>2, <3>3
    <3>4. CASE y # x
      BY <1>1, <1>2, <3>1, <3>2, <3>4 DEF Ordered, HolderOrder
    <3> QED
      BY <3>3, <3>4
  <2> QED
    BY <2>1 DEF HolderOrder
<1>7. \A i \in DOMAIN stack :
        /\ stack[i][2] \in Begun
        /\ stack[i][1] \in Task => stack[i][1] \in Begun
        /\ new[stack[i][2]] = rank[stack[i][2]]
        /\ stack[i][1] \in Task => new[stack[i][1]] = rank[stack[i][1]]
  BY <1>1, <1>2, <1>4 DEF Ordered, StackOrder, HeldInv
<1>8. cur \in Task => cur \in Begun /\ new[cur] = rank[cur] /\ rank[cur] < n
  BY <1>2, <1>3, <1>4 DEF HeldInv
<1>9. \A i \in DOMAIN stack :
        /\ stack[i][1] \in Task => new[stack[i][1]] < new[stack[i][2]]
        /\ new[stack[i][2]] <= new[x]
        /\ cur \in Task => new[stack[i][2]] <= new[cur]
        /\ \A j \in DOMAIN stack :
             i < j /\ stack[j][1] \in Task => new[stack[i][2]] <= new[stack[j][1]]
  <2>1. \A i \in DOMAIN stack : rank[stack[i][2]] < n /\ rank[stack[i][2]] \in Nat
    BY <1>3, <1>4, <1>7
  <2> QED
    BY <1>1, <1>2, <1>7, <1>8, <2>1 DEF Ordered, StackOrder
<1>10. \A y \in Task : caller[y] # None =>
         /\ y \in Begun /\ caller[y] \in Begun
         /\ new[y] = rank[y] /\ new[caller[y]] = rank[caller[y]]
         /\ new[y] < new[x]
         /\ \A i \in DOMAIN stack :
              new[stack[i][2]] <= new[y] => new[stack[i][2]] <= new[caller[y]]
  BY <1>1, <1>2, <1>3, <1>4, <1>7 DEF Ordered, CallerOrder
<1>11. CASE stack' = Append(stack, <<cur, x>>) /\ caller' = caller
  <2> DEFINE k == Len(stack) + 1
  <2>1. /\ DOMAIN stack' = DOMAIN stack \cup {k}
        /\ \A i \in DOMAIN stack : i < k /\ stack'[i] = stack[i]
        /\ stack'[k] = <<cur, x>>
        /\ \A i \in DOMAIN stack : i \in Nat
        /\ k \in Nat
    BY <1>11 DEF TypeOK
  <2> HIDE DEF k
  <2>2. StackOrder(new)'
    <3>1. ASSUME NEW i \in DOMAIN stack
          PROVE  /\ stack'[i][2] \in Begun'
                 /\ stack'[i][1] \in Task
                      => new[stack'[i][1]] < new[stack'[i][2]]
                 /\ new[stack'[i][2]] <= new[cur']
                 /\ \A j \in DOMAIN stack' : i < j /\ stack'[j][1] \in Task
                      => new[stack'[i][2]] <= new[stack'[j][1]]
      <4>1. \A j \in DOMAIN stack : i < j /\ stack'[j][1] \in Task
                      => new[stack'[i][2]] <= new[stack'[j][1]]
        BY <1>9, <2>1
      <4>2. cur \in Task => new[stack'[i][2]] <= new[cur]
        BY <1>9, <2>1
      <4> QED
        BY <1>7, <1>9, <2>1, <4>1, <4>2
    <3>2. /\ stack'[k][2] \in Begun'
          /\ stack'[k][1] \in Task => new[stack'[k][1]] < new[stack'[k][2]]
          /\ new[stack'[k][2]] <= new[cur']
          /\ \A j \in DOMAIN stack' : ~(k < j)
      <4>1. new[x] \in Nat /\ \A j \in DOMAIN stack' : ~(k < j)
        BY <1>2, <2>1
      <4> QED
        BY <1>2, <1>8, <2>1, <4>1
    <3> QED
      BY <2>1, <3>1, <3>2 DEF StackOrder
  <2>3. CallerOrder(new)'
    <3>1. ASSUME NEW y \in Task, caller[y] # None
          PROVE  \A i \in DOMAIN stack' :
                   new[stack'[i][2]] <= new[y] => new[stack'[i][2]] <= new[caller[y]]
      <4>1. ~(new[x] <= new[y])
        BY <1>2, <1>10, <3>1
      <4> QED
        BY <1>10, <2>1, <3>1, <4>1
    <3> QED
      BY <1>10, <1>11, <3>1 DEF CallerOrder
  <2> QED
    BY <1>2, <1>5, <1>6, <2>2, <2>3 DEF OrderInv, Ordered
<1>12. CASE /\ stack' = stack /\ cur \in Task
            /\ caller' = [caller EXCEPT ![x] = cur]
  <2>1. StackOrder(new)'
    BY <1>7, <1>9, <1>12 DEF StackOrder
  <2>2. caller'[x] = cur /\ \A y \in Task \ {x} : caller'[y] = caller[y]
    BY <1>12 DEF TypeOK
  <2>3. CallerOrder(new)'
    BY <1>8, <1>9, <1>10, <1>12, <2>2 DEF CallerOrder
  <2> QED
    BY <1>2, <1>5, <1>6, <2>1, <2>3 DEF OrderInv, Ordered
<1> QED
  BY <1>11, <1>12

(* A coroutine that ends hands control to one that began below it, but     *)
(* above all that wait on the stack.                                       *)
LEMMA PassOrder ==
  ASSUME TypeOK, OrderInv, OwnersKept, UNCHANGED <<caller, stack>>,
         cur \in Task, cur' = caller[cur], cur' \in Task
  PROVE  OrderInv'
<1>1. PICK n \in Nat, rank \in [Task -> Nat] : Ordered(rank, n)
  BY DEF OrderInv
<1>2. HolderOrder(rank)'
  BY <1>1, HoldersKept DEF Ordered
<1>3. \A i \in DOMAIN stack : rank[stack[i][2]] <= rank[cur']
  BY <1>1, RuntimeAssumption DEF Ordered, StackOrder, CallerOrder
<1>4. StackOrder(rank)'
  BY <1>1, <1>3 DEF Ordered, StackOrder, OwnersKept
<1>5. CallerOrder(rank)'
  BY <1>1 DEF Ordered, CallerOrder, OwnersKept
<1> QED
  BY <1>1, <1>2, <1>4, <1>5 DEF OrderInv, Ordered

(* The loop resumes a coroutine on an empty native stack.                  *)
LEMMA ResumeOrder ==
  ASSUME TypeOK, OrderInv, OwnersKept, UNCHANGED <<caller, stack>>, stack = <<>>
  PROVE  OrderInv'
<1>1. PICK n \in Nat, rank \in [Task -> Nat] : Ordered(rank, n)
  BY DEF OrderInv
<1>2. HolderOrder(rank)'
  BY <1>1, HoldersKept DEF Ordered
<1>3. StackOrder(rank)' /\ CallerOrder(rank)'
  BY <1>1 DEF Ordered, StackOrder, CallerOrder, OwnersKept
<1> QED
  BY <1>1, <1>2, <1>3 DEF OrderInv, Ordered

-----------------------------------------------------------------------------
(* The actions keep control in one place.                                  *)

(* Nothing happens after a fault.                                          *)
LEMMA NoFaultBefore ==
  ASSUME Next PROVE fault = "none"
BY DEF Next, UserStep, Yield, LoopStep, Create, Drop, Launch, LaunchDetached,
     BlockRun, Start, AwaitReady, AwaitStart, IoRejected, IoPrepare,
     AwaitDaemon, AwaitStarted, IoAwait, IoAwaitPrepared, FinishToCaller,
     FinishDaemon, FinishRoot, EndBody, Executes, MayAwait, LoopRun,
     ResumeStop, Resume, CqeSeen, Waits, Complete, vars

(* Who is in control does not change with frames that are not running.     *)
LEMMA ControlKept ==
  ASSUME ControlInv, UNCHANGED <<cur, stack>>,
         \A y \in Task : frame'[y] = "running" <=> frame[y] = "running",
         loop' = "waiting" => cur = Main
  PROVE  ControlInv'
BY DEF ControlInv

(* Task objects are freed with the frames that hold them.                  *)
LEMMA OwnersFreed ==
  ASSUME TypeOK, NEW D \in SUBSET Task, holder' = Released(D),
         Begun \subseteq Begun', Begun' \ D \subseteq Begun
  PROVE  OwnersKept
BY RuntimeAssumption DEF OwnersKept, Released, Begun, TypeOK

(* Calling a coroutine function and destroying a task object.              *)
LEMMA CreateThread ==
  ASSUME TypeOK, HeldInv, ThreadInv, NEW a \in Actor, NEW x \in Task, Create(a, x)
  PROVE  ControlInv' /\ OrderInv'
<1> USE DEF promiseVars, loopVars
<1>1. /\ fault = "none" /\ cur = a /\ frame[x] = "none"
      /\ frame' = [frame EXCEPT ![x] = "initial"]
      /\ holder' = [holder EXCEPT ![x] = a]
      /\ UNCHANGED <<caller, cur, stack, loop>>
  BY DEF Create, Executes
<1>2. Begun' = Begun /\ x \notin Begun
  BY <1>1 DEF Begun, TypeOK
<1>3. OwnersKept
  BY <1>1, <1>2 DEF OwnersKept, HeldInv, TypeOK
<1>4. \A y \in Task : frame'[y] = "running" <=> frame[y] = "running"
  BY <1>1 DEF TypeOK
<1> QED
  BY <1>1, <1>3, <1>4, ControlKept, OrderKept DEF ThreadInv, ControlInv

(* Destroying a task object.                                               *)
LEMMA DropThread ==
  ASSUME TypeOK, HeldInv, ThreadInv, NEW a \in Actor, NEW x \in Task, Drop(a, x)
  PROVE  ControlInv' /\ OrderInv'
<1> USE DEF promiseVars, loopVars
<1> DEFINE D == Doomed(x)
<1>1. /\ fault = "none" /\ cur = a /\ holder[x] = a
      /\ frame' = Destroyed(D) /\ holder' = Released(D)
      /\ UNCHANGED <<caller, cur, stack, loop>>
  BY DEF Drop, Executes
<1>2. D \in SUBSET Task
  BY DoomedType
<1>3. \A y \in D : frame[y] # "running"
  BY <1>1, <1>2, FreesNoneRunning DEF ThreadInv
<1> HIDE DEF D
<1>4. Begun \subseteq Begun' /\ Begun' \ D \subseteq Begun
  BY <1>1 DEF Begun, Destroyed
<1>5. OwnersKept
  BY <1>1, <1>2, <1>4, OwnersFreed
<1>6. \A y \in Task : frame'[y] = "running" <=> frame[y] = "running"
  BY <1>1, <1>3 DEF Destroyed
<1> QED
  BY <1>1, <1>5, <1>6, ControlKept, OrderKept DEF ThreadInv, ControlInv

(* launch, launch_detached and block_run.                                  *)
LEMMA StartThread ==
  ASSUME TypeOK, HeldInv, ThreadInv, NEW a \in Actor, NEW x \in Task,
         NEW isDaemon, Start(a, x, isDaemon), loop' \in {loop, "entering"},
         holder' = holder \/ holder' = [holder EXCEPT ![x] = None]
  PROVE  ControlInv' /\ OrderInv'
<1>1. /\ fault = "none" /\ cur = a /\ frame[x] = "initial"
      /\ frame' = [frame EXCEPT ![x] = "running"]
      /\ stack' = Append(stack, <<cur, x>>)
      /\ cur' = x /\ caller' = caller
  BY DEF Start, Executes
<1>2. x \notin Begun /\ Begun' = Begun \cup {x}
  BY <1>1 DEF Begun, TypeOK
<1>3. \A y \in Task : holder'[y] \in Task => holder'[y] = holder[y]
  BY RuntimeAssumption DEF TypeOK
<1>4. ControlInv /\ OrderInv
  BY <1>1 DEF ThreadInv
<1>5. ControlInv'
  BY <1>4, StartControl
<1>6. OrderInv'
  BY <1>1, <1>2, <1>3, <1>4, BeginOrder
<1> QED
  BY <1>5, <1>6

(* co_await of a task that has not started.                                *)
LEMMA AwaitStartThread ==
  ASSUME TypeOK, HeldInv, ThreadInv, NEW t \in Task, NEW x \in Task,
         AwaitStart(t, x)
  PROVE  ControlInv' /\ OrderInv'
<1> USE DEF promiseVars, loopVars
<1>1. /\ fault = "none" /\ cur = t /\ x # t /\ frame[x] = "initial"
      /\ frame' = [frame EXCEPT ![t] = "suspended", ![x] = "running"]
      /\ stack' = stack /\ cur' = x /\ loop' = loop
      /\ caller' = [caller EXCEPT ![x] = cur]
      /\ holder' = holder \/ holder' = [holder EXCEPT ![x] = None]
  BY DEF AwaitStart, MayAwait, Executes, LinkCaller, TakeHandle
<1>2. ControlInv /\ OrderInv
  BY <1>1 DEF ThreadInv
<1>3. frame[t] = "running"
  BY <1>1, <1>2 DEF ControlInv
<1>4. /\ frame'[t] = "suspended" /\ frame'[x] = "running"
      /\ \A y \in Task \ {t, x} : frame'[y] = frame[y]
  BY <1>1 DEF TypeOK
<1>5. x \notin Begun /\ Begun' = Begun \cup {x}
  BY <1>1, <1>3, <1>4 DEF Begun
<1>6. \A y \in Task : holder'[y] \in Task => holder'[y] = holder[y]
  BY <1>1, RuntimeAssumption DEF TypeOK
<1>7. OrderInv'
  BY <1>1, <1>2, <1>5, <1>6, BeginOrder
<1>8. \A i \in DOMAIN stack : stack[i][1] # t /\ stack[i][1] # x
  BY <1>1, <1>2, <1>3 DEF ControlInv
<1>9. \A y \in Task : frame'[y] = "running" <=>
                        y = cur' \/ \E i \in DOMAIN stack : stack[i][1] = y
  BY <1>1, <1>2, <1>4, <1>8 DEF ControlInv
<1>10. cur' # Main /\ loop' # "waiting"
  BY <1>1, <1>2, RuntimeAssumption DEF ControlInv
<1>11. ControlInv'
  BY <1>1, <1>2, <1>8, <1>9, <1>10 DEF ControlInv
<1> QED
  BY <1>7, <1>11

(* The coroutine in control suspends, or ends without an awaiter.          *)
LEMMA LeaveThread ==
  ASSUME TypeOK, HeldInv, ThreadInv, fault = "none", NEW t \in Task, cur = t,
         Return, loop' = loop, NEW D \in SUBSET Task,
         holder' = Released(D) \/ OwnersKept,
         D = {} \/ D = Locals(t),
         \A y \in Task \ {t} :
           frame'[y] = IF y \in D THEN "destroyed" ELSE frame[y],
         frame'[t] \in {"suspended", "final", "destroyed"},
         \A y \in Task : \/ caller'[y] = caller[y]
                         \/ caller'[y] = cur /\ y \in Begun
  PROVE  ControlInv' /\ OrderInv'
<1>1. ControlInv /\ OrderInv
  BY DEF ThreadInv
<1>2. \A y \in D : frame[y] # "running"
  <2>1. CASE D = {}
    BY <2>1
  <2>2. CASE D = Locals(t)
    BY <1>1, <2>2, FreesNoneRunning DEF Actor
  <2> QED
    BY <2>1, <2>2
<1>3. t \in Begun /\ Begun \subseteq Begun' /\ Begun' \ D \subseteq Begun
  BY DEF HeldInv, Begun
<1>4. OwnersKept
  BY <1>3, OwnersFreed
<1>5. \A y \in Task \ {t} : frame'[y] = "running" <=> frame[y] = "running"
  BY <1>2
<1>6. ControlInv'
  BY <1>1, <1>5, ReturnControl
<1>7. OrderInv'
  BY <1>1, <1>3, <1>4, ReturnOrder
<1> QED
  BY <1>6, <1>7

(* The coroutine in control ends and hands over to its awaiter.            *)
LEMMA FinishToCallerThread ==
  ASSUME TypeOK, HeldInv, ThreadInv, NEW t \in Task, NEW out \in Out,
         FinishToCaller(t, out), fault' = "none"
  PROVE  ControlInv' /\ OrderInv'
<1> USE DEF promiseVars, loopVars
<1> DEFINE D == Locals(t)
           F == Destroyed(D)
           c == caller[t]
<1>1. /\ fault = "none" /\ cur = t /\ c \in Task /\ D \in SUBSET Task
      /\ F[c] # "destroyed" /\ frame[c] = "suspended"
      /\ holder' = Released(D)
      /\ frame' = [F EXCEPT ![t] = "final", ![c] = "running"]
      /\ cur' = c /\ UNCHANGED <<caller, stack, loop>>
  BY LocalsType DEF FinishToCaller, EndBody, Executes, TypeOK
<1>2. F \in [Task -> {"none", "initial", "running", "suspended", "final",
                      "destroyed"}]
  BY <1>1, DestroyType
<1>3. ControlInv /\ OrderInv
  BY <1>1 DEF ThreadInv
<1>4. \A y \in D : frame[y] # "running"
  BY <1>1, <1>3, FreesNoneRunning DEF Actor
<1>5. \A y \in Task : F[y] = IF y \in D THEN "destroyed" ELSE frame[y]
  BY DEF Destroyed
<1>6. frame[t] = "running" /\ c # t
  BY <1>1, <1>3 DEF ControlInv
<1> HIDE DEF D, F, c
<1>7. /\ frame'[t] = "final" /\ frame'[c] = "running"
      /\ \A y \in Task \ {t, c} : frame'[y] = F[y]
  BY <1>1, <1>2, <1>6
<1>8. Begun \subseteq Begun' /\ Begun' \ D \subseteq Begun
  BY <1>1, <1>5, <1>6, <1>7 DEF Begun
<1>9. OwnersKept
  BY <1>1, <1>8, OwnersFreed
<1>10. OrderInv'
  BY <1>1, <1>3, <1>9, PassOrder DEF c
<1>11. \A i \in DOMAIN stack : stack[i][1] # t /\ stack[i][1] # c
  BY <1>1, <1>3 DEF ControlInv
<1>12. \A y \in Task : frame'[y] = "running" <=>
                         y = cur' \/ \E i \in DOMAIN stack : stack[i][1] = y
  BY <1>1, <1>3, <1>4, <1>5, <1>7, <1>11 DEF ControlInv
<1>13. cur' # Main /\ loop' # "waiting"
  BY <1>1, <1>3, RuntimeAssumption DEF ControlInv
<1>14. ControlInv'
  BY <1>1, <1>3, <1>11, <1>12, <1>13 DEF ControlInv
<1> QED
  BY <1>10, <1>14

(* The loop resumes a coroutine.                                           *)
LEMMA ResumeThread ==
  ASSUME TypeOK, HeldInv, ThreadInv, NEW o \in Op, Resume(o), fault' = "none"
  PROVE  ControlInv' /\ OrderInv'
<1> DEFINE t == handle[o]
<1>1. /\ fault = "none" /\ t \in Task /\ cur = Main /\ cur' = t
      /\ frame[t] = "suspended"
      /\ frame' = [frame EXCEPT ![t] = "running"]
      /\ UNCHANGED <<holder, caller, stack>> /\ loop' = "resuming"
  BY DEF Resume, Waits, TypeOK, promiseVars
<1> HIDE DEF t
<1>2. ControlInv /\ OrderInv /\ stack = <<>>
  BY <1>1 DEF ThreadInv, ControlInv
<1>3. Begun' = Begun
  BY <1>1 DEF Begun, TypeOK
<1>4. OwnersKept
  BY <1>1, <1>3 DEF OwnersKept
<1>5. OrderInv'
  BY <1>1, <1>2, <1>4, ResumeOrder
<1>6. \A y \in Task : frame'[y] = "running" <=> y = t
  BY <1>1, <1>2, RuntimeAssumption DEF ControlInv, TypeOK
<1>7. ControlInv'
  BY <1>1, <1>2, <1>6, RuntimeAssumption DEF ControlInv
<1> QED
  BY <1>5, <1>7

(* Nothing has been created at the start.                                  *)
LEMMA HeldInit == Init => HeldInv
BY RuntimeAssumption DEF Init, HeldInv, Begun

(* Whoever has begun had an owner.                                         *)
LEMMA HeldAlways == Spec => []HeldInv
BY HeldInit, HeldStep, TypeCorrect, PTL DEF Spec

(* ThreadInv is inductive.                                                 *)
LEMMA ThreadStep ==
  ASSUME TypeOK, HeldInv, ThreadInv, [Next]_vars
  PROVE  ThreadInv'
<1> SUFFICES ASSUME fault' = "none" PROVE ControlInv' /\ OrderInv'
  BY DEF ThreadInv
<1> USE DEF promiseVars, loopVars
<1>1. CASE UNCHANGED vars
  <2>1. ControlInv /\ OrderInv /\ OwnersKept
    BY <1>1 DEF vars, ThreadInv, OwnersKept, Begun
  <2> QED
    BY <1>1, <2>1, ControlKept, OrderKept DEF vars, ControlInv
<1>2. CASE Next
  <2>0. fault = "none"
    BY <1>2, NoFaultBefore
  <2>1. ControlInv /\ OrderInv
    BY <2>0 DEF ThreadInv
  <2>2. ASSUME UNCHANGED <<frame, caller, holder, cur, stack>>,
               loop' = "waiting" => cur = Main
        PROVE  ControlInv' /\ OrderInv'
    <3>1. OwnersKept
      BY <2>2 DEF OwnersKept, Begun
    <3> QED
      BY <2>1, <2>2, <3>1, ControlKept, OrderKept
  <2>3. loop = "waiting" => cur = Main
    BY <2>1 DEF ControlInv
  <2>4. ASSUME NEW t \in Task, NEW x \in Task, AwaitReady(t, x)
        PROVE  ControlInv' /\ OrderInv'
    <3>1. OwnersKept
      BY <2>4, RuntimeAssumption
         DEF AwaitReady, TakeHandle, OwnersKept, Begun, TypeOK
    <3> QED
      BY <2>1, <2>3, <2>4, <3>1, ControlKept, OrderKept DEF AwaitReady
  <2>5. CASE UserStep
    <3>1. ASSUME NEW a \in Actor, NEW x \in Task,
                 Launch(a, x) \/ LaunchDetached(a, x)
          PROVE  ControlInv' /\ OrderInv'
      BY <3>1, StartThread DEF Launch, LaunchDetached
    <3>2. ASSUME NEW x \in Task, BlockRun(x) PROVE ControlInv' /\ OrderInv'
      BY <3>2, StartThread DEF BlockRun, Actor
    <3>3. ASSUME NEW t \in Task, IoRejected(t) PROVE ControlInv' /\ OrderInv'
      BY <2>2, <2>3, <3>3 DEF IoRejected
    <3>4. ASSUME NEW t \in Task, NEW o \in Op, IoPrepare(t, o)
          PROVE  ControlInv' /\ OrderInv'
      BY <2>2, <2>3, <3>4 DEF IoPrepare
    <3> QED
      BY <2>4, <2>5, <3>1, <3>2, <3>3, <3>4, CreateThread, DropThread,
         AwaitStartThread DEF UserStep
  <2>6. CASE Yield
    <3>1. ASSUME NEW t \in Task, NEW x \in Task, AwaitDaemon(t, x)
          PROVE  ControlInv' /\ OrderInv'
      <4>1. /\ cur = t /\ Return /\ loop' = loop /\ x \in Begun /\ x # t
            /\ frame' = [frame EXCEPT ![t] = "suspended"]
            /\ caller' = [caller EXCEPT ![x] = t]
            /\ holder' = holder \/ holder' = [holder EXCEPT ![x] = None]
        BY <3>1 DEF AwaitDaemon, MayAwait, Executes, LinkCaller, TakeHandle,
           Started, Begun
      <4>2. /\ frame'[t] = "suspended"
            /\ \A y \in Task \ {t} : frame'[y] = frame[y]
            /\ \A y \in Task : caller'[y] = caller[y] \/ (caller'[y] = cur /\ y \in Begun)
        BY <4>1 DEF TypeOK
      <4>3. t \in Begun
        BY <2>0, <4>1 DEF HeldInv
      <4>4. OwnersKept
        BY <4>1, <4>2, <4>3, RuntimeAssumption DEF OwnersKept, Begun, TypeOK
      <4> DEFINE D == {}
      <4>5. \A y \in Task \ {t} :
              frame'[y] = IF y \in D THEN "destroyed" ELSE frame[y]
        BY <4>2
      <4>6. D \in SUBSET Task /\ D = {}
        OBVIOUS
      <4> HIDE DEF D
      <4> QED
        BY <2>0, <4>1, <4>2, <4>4, <4>5, <4>6, LeaveThread
    <3>2. ASSUME NEW t \in Task, NEW o \in Op, IoAwait(t, o) \/ IoAwaitPrepared(t, o)
          PROVE  ControlInv' /\ OrderInv'
      <4>1. PICK entries : SuspendOnIo(t, o, entries)
        BY <3>2 DEF IoAwait, IoAwaitPrepared
      <4>2. /\ cur = t /\ Return /\ loop' = loop
            /\ frame' = [frame EXCEPT ![t] = "suspended"]
            /\ caller' = caller /\ holder' = holder
        BY <3>2, <4>1 DEF IoAwait, IoAwaitPrepared, Executes, SuspendOnIo
      <4>3. /\ frame'[t] = "suspended"
            /\ \A y \in Task \ {t} : frame'[y] = frame[y]
        BY <4>2 DEF TypeOK
      <4>4. t \in Begun
        BY <2>0, <4>2 DEF HeldInv
      <4>5. OwnersKept
        BY <4>2, <4>3, <4>4 DEF OwnersKept, Begun
      <4> DEFINE D == {}
      <4>6. \A y \in Task \ {t} :
              frame'[y] = IF y \in D THEN "destroyed" ELSE frame[y]
        BY <4>3
      <4>7. D \in SUBSET Task /\ D = {}
        OBVIOUS
      <4> HIDE DEF D
      <4> QED
        BY <2>0, <4>2, <4>3, <4>5, <4>6, <4>7, LeaveThread
    <3>3. ASSUME NEW t \in Task, NEW out \in Out, FinishDaemon(t, out)
          PROVE  ControlInv' /\ OrderInv'
      <4> DEFINE D == Locals(t)
      <4>1. /\ cur = t /\ Return /\ loop' = loop /\ D \in SUBSET Task
            /\ frame' = [Destroyed(D) EXCEPT ![t] = "final"]
            /\ caller' = caller /\ holder' = Released(D)
        BY <3>3, LocalsType DEF FinishDaemon, EndBody, Executes
      <4>2. /\ frame'[t] = "final"
            /\ \A y \in Task \ {t} :
                 frame'[y] = IF y \in D THEN "destroyed" ELSE frame[y]
        BY <4>1 DEF Destroyed
      <4> HIDE DEF D
      <4> QED
        BY <2>0, <4>1, <4>2, LeaveThread DEF D
    <3>4. ASSUME NEW t \in Task, NEW out \in Out, FinishRoot(t, out)
          PROVE  ControlInv' /\ OrderInv'
      <4> DEFINE D == Locals(t)
      <4>1. /\ cur = t /\ Return /\ loop' = loop /\ D \in SUBSET Task
            /\ frame' = Destroyed(Doomed(t))
            /\ caller' = caller /\ holder' = Released(D)
        BY <3>4, LocalsType DEF FinishRoot, EndBody, Executes
      <4>2. t \in Doomed(t)
        BY DEF Doomed
      <4>3. /\ frame'[t] = "destroyed"
            /\ \A y \in Task \ {t} :
                 frame'[y] = IF y \in D THEN "destroyed" ELSE frame[y]
        BY <4>1, <4>2 DEF Destroyed, Locals
      <4> HIDE DEF D
      <4> QED
        BY <2>0, <4>1, <4>3, LeaveThread DEF D
    <3>5. ASSUME NEW t \in Task, NEW x \in Task, AwaitStarted(t, x) PROVE FALSE
      BY <3>5 DEF AwaitStarted
    <3> QED
      BY <2>6, <3>1, <3>2, <3>3, <3>4, <3>5, FinishToCallerThread DEF Yield
  <2>7. CASE LoopRun \/ ResumeStop \/ CqeSeen \/ \E r \in Request : Complete(r)
    BY <2>2, <2>3, <2>7 DEF LoopRun, ResumeStop, CqeSeen, Complete
  <2> QED
    BY <1>2, <2>5, <2>6, <2>7, ResumeThread DEF Next, LoopStep
<1> QED
  BY <1>1, <1>2

(* At the start main() is in control, and nothing has begun.               *)
LEMMA ThreadInit == Init => ThreadInv
<1> SUFFICES ASSUME Init PROVE ControlInv /\ OrderInv
  BY DEF ThreadInv
<1>1. ControlInv
  BY RuntimeAssumption DEF Init, ControlInv
<1> DEFINE rank == [t \in Task |-> 0]
<1>2. rank \in [Task -> Nat] /\ \A t \in Task : rank[t] < 1
  OBVIOUS
<1>3. HolderOrder(rank) /\ StackOrder(rank) /\ CallerOrder(rank)
  BY RuntimeAssumption DEF Init, HolderOrder, StackOrder, CallerOrder
<1> HIDE DEF rank
<1>4. Ordered(rank, 1)
  BY <1>2, <1>3 DEF Ordered
<1> QED
  BY <1>1, <1>2, <1>4 DEF OrderInv

(* Control is in one place, in an order of beginnings.                     *)
LEMMA ThreadAlways == Spec => []ThreadInv
BY ThreadInit, ThreadStep, HeldAlways, TypeCorrect, PTL DEF Spec

(* OneThread, for coroutine_handle::resume, destroy and symmetric transfer *)
(* in task.hpp and io_context.hpp: control is in one place until undefined *)
(* behaviour is reached, whatever rules the program has broken before.     *)
THEOREM ControlIsOne == Spec => []OneThread
<1>1. ThreadInv => OneThread
  BY DEF ThreadInv, ControlInv, OneThread
<1> QED
  BY <1>1, ThreadAlways, PTL
=============================================================================
