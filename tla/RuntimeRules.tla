---------------------------- MODULE RuntimeRules ----------------------------
(***************************************************************************)
(* Who resumes whom.  The first part holds for every program: undefined    *)
(* behaviour has its cause in a broken rule, block_run returns for its own *)
(* root only, a wake-up is lost only to a broken rule.  The second part    *)
(* is about programs that keep the rules: they lose no wake-up, and the    *)
(* runtime does for them what TaskFuture promises.                         *)
(***************************************************************************)
EXTENDS RuntimeProofs, RuntimeFuture

-----------------------------------------------------------------------------
(* Requests whose completion has not reached its awaiter yet: all of the   *)
(* ring except the completion the loop is working on.                      *)
Pending ==
  flight \cup {cq[i] : i \in {j \in DOMAIN cq : j = 1 => loop # "resuming"}}

(* Who may ask the loop to stop, and when.                                 *)
RootInv ==
  /\ \A x \in Task : Started(x) => context[x]
  /\ \A x \in Task : Started(x) /\ ~daemon[x] /\ caller[x] = None => x = root
  /\ root # None <=> loop # "idle"
  /\ Stop \in InRing => root # None /\ frame[root] = "destroyed"
  /\ loop = "waiting" => running_
  /\ loop = "resuming" => cq # <<>> /\ (running_ \/ cq[1] = Stop)

(* Pending changes only with the ring and with the loop.                   *)
LEMMA SamePending ==
  ASSUME UNCHANGED <<flight, cq>>, loop' = "resuming" <=> loop = "resuming"
  PROVE  Pending' = Pending
BY DEF Pending

(***************************************************************************)
(* What resumes a coroutine, whatever the program does.                    *)
(***************************************************************************)

(* A request is in one place of the ring.                                  *)
OnePlace ==
  /\ sq \cap flight = {}
  /\ (sq \cup flight) \cap Completed = {}
  /\ \A i, j \in DOMAIN cq : i # j => cq[i] # cq[j]

(* c waits for w, unless the task object that owned c was destroyed.       *)
WaitsOrLost(c, w) ==
  \/ frame[c] = "suspended" /\ awaits[c] = w
  \/ frame[c] = "destroyed" /\ "drop" \in breach

(* caller_ of a started task leads to a coroutine that waits for it.       *)
CallerInv ==
  \A x \in Task : Started(x) /\ caller[x] # None => WaitsOrLost(caller[x], x)

(* handle_ of an awaiter whose request is under way is the coroutine that  *)
(* waits for it, which holds the awaiter in its frame.                     *)
HandleInv ==
  \A o \in (sq \cup Pending) \cap Op :
    IF handle[o] = None THEN "early" \in breach
                        ELSE frameOf[o] = handle[o] /\ WaitsOrLost(handle[o], o)

LinkCore == OnePlace /\ CallerInv /\ HandleInv /\ RootInv

LinkInv == fault = "none" => LinkCore

(* A step neither resumes y nor makes it wait for something else.          *)
WaiterKept(y) ==
  \/ frame'[y] = frame[y] /\ awaits'[y] = awaits[y]
  \/ frame'[y] = "destroyed" /\ (Started(y) => "drop" \in breach')
  \/ frame[y] \notin {"suspended", "destroyed"}

(* c goes on waiting for w, or is lost with its task object.               *)
LEMMA WaitsKept ==
  ASSUME NEW c, NEW w, WaiterKept(c), WaitsOrLost(c, w), breach \subseteq breach'
  PROVE  WaitsOrLost(c, w)'
BY DEF WaiterKept, WaitsOrLost, Started

(* caller_ stays right. R are the coroutines that the step resumes: no     *)
(* caller_ that stays leads to them.                                       *)
LEMMA CallersKept ==
  ASSUME TypeOK, CallerInv, breach \subseteq breach', NEW R,
         \A y \in Task \ R : WaiterKept(y),
         \A x \in Task : Started(x)' /\ caller'[x] # None =>
           \/ WaitsOrLost(caller[x], x)'
           \/ Started(x) /\ caller'[x] = caller[x] /\ caller[x] \notin R
  PROVE  CallerInv'
<1> SUFFICES ASSUME NEW x \in Task, Started(x)', caller'[x] # None,
                    Started(x), caller'[x] = caller[x], caller[x] \notin R
             PROVE  WaitsOrLost(caller[x], x)'
  BY DEF CallerInv
<1>1. PICK c \in Task \ R : c = caller[x]
  BY DEF TypeOK
<1>2. WaitsOrLost(c, x)
  BY <1>1 DEF CallerInv
<1>3. WaitsOrLost(c, x)'
  BY <1>1, <1>2, WaitsKept
<1> QED
  BY <1>1, <1>3 DEF WaitsOrLost

(* So does handle_.                                                        *)
LEMMA HandlesKept ==
  ASSUME TypeOK, HandleInv, breach \subseteq breach', NEW R,
         \A y \in Task \ R : WaiterKept(y),
         \A o \in (sq \cup Pending)' \cap Op :
           \/ handle'[o] = None /\ "early" \in breach'
           \/ /\ handle'[o] # None /\ frameOf'[o] = handle'[o]
              /\ WaitsOrLost(handle[o], o)'
           \/ /\ o \in sq \cup Pending /\ handle[o] \notin R
              /\ handle'[o] = handle[o] /\ frameOf'[o] = frameOf[o]
  PROVE  HandleInv'
<1> SUFFICES ASSUME NEW o \in (sq \cup Pending)' \cap Op,
                    o \in sq \cup Pending, handle[o] \notin R,
                    handle'[o] = handle[o], frameOf'[o] = frameOf[o]
             PROVE  IF handle'[o] = None THEN "early" \in breach'
                      ELSE frameOf'[o] = handle'[o] /\ WaitsOrLost(handle[o], o)'
  BY DEF HandleInv
<1>1. CASE handle[o] = None
  BY <1>1 DEF HandleInv
<1>2. CASE handle[o] # None
  <2>1. PICK c \in Task \ R : c = handle[o]
    BY <1>2 DEF TypeOK
  <2>2. frameOf[o] = c /\ WaitsOrLost(c, o)
    BY <1>2, <2>1 DEF HandleInv
  <2>3. WaitsOrLost(c, o)'
    BY <2>1, <2>2, WaitsKept
  <2> QED
    BY <1>2, <2>1, <2>2, <2>3 DEF WaitsOrLost
<1> QED
  BY <1>1, <1>2

(* The root is the same, and no further coroutine is started.              *)
LEMMA RootKept ==
  ASSUME TypeOK, RootInv, UNCHANGED <<root, loop, running_, cq>>,
         \A x \in Task : Started(x)' =>
           /\ Started(x) /\ daemon'[x] = daemon[x]
           /\ context[x] => context'[x]
           /\ caller'[x] = None => caller[x] = None,
         \A x \in Task : frame[x] = "destroyed" => frame'[x] = "destroyed",
         Stop \in InRing' => Stop \in InRing
  PROVE  RootInv'
BY DEF RootInv, TypeOK

(* A coroutine that has not begun has no caller_.                          *)
LEMMA CallerBegun ==
  ASSUME OrderInv PROVE \A x \in Task : caller[x] # None => x \in Begun
BY DEF OrderInv, Ordered, CallerOrder

(* Whatever part of the SQ is submitted, requests are in one place.        *)
LEMMA SubmitPlace ==
  ASSUME TypeOK, OnePlace, NEW entries, NEW taken \in Takes(entries),
         Submit(entries, taken), entries \cap flight = {},
         entries \cap Completed = {}
  PROVE  /\ OnePlace'
         /\ sq' \cup flight' = entries \cup flight /\ cq' = cq
<1>1. taken \subseteq entries
  BY DEF Takes
<1> QED
  BY <1>1 DEF OnePlace, Submit, Completed

(* Steps that resume nobody.                                               *)
LEMMA CallersQuiet ==
  ASSUME TypeOK, CallerInv, breach \subseteq breach',
         \A y \in Task : WaiterKept(y),
         \A x \in Task : Started(x)' /\ caller'[x] # None =>
           WaitsOrLost(caller[x], x)' \/ (Started(x) /\ caller'[x] = caller[x])
  PROVE  CallerInv'
<1> DEFINE R == {}
<1>1. /\ \A y \in Task \ R : WaiterKept(y)
      /\ \A x \in Task : Started(x)' /\ caller'[x] # None =>
           \/ WaitsOrLost(caller[x], x)'
           \/ Started(x) /\ caller'[x] = caller[x] /\ caller[x] \notin R
  OBVIOUS
<1> HIDE DEF R
<1> QED
  BY <1>1, CallersKept

(* The same for handle_.                                                   *)
LEMMA HandlesQuiet ==
  ASSUME TypeOK, HandleInv, breach \subseteq breach',
         \A y \in Task : WaiterKept(y),
         \A o \in (sq \cup Pending)' \cap Op :
           \/ handle'[o] = None /\ "early" \in breach'
           \/ /\ handle'[o] # None /\ frameOf'[o] = handle'[o]
              /\ WaitsOrLost(handle[o], o)'
           \/ /\ o \in sq \cup Pending
              /\ handle'[o] = handle[o] /\ frameOf'[o] = frameOf[o]
  PROVE  HandleInv'
<1> DEFINE R == {}
<1>1. /\ \A y \in Task \ R : WaiterKept(y)
      /\ \A o \in (sq \cup Pending)' \cap Op :
           \/ handle'[o] = None /\ "early" \in breach'
           \/ /\ handle'[o] # None /\ frameOf'[o] = handle'[o]
              /\ WaitsOrLost(handle[o], o)'
           \/ /\ o \in sq \cup Pending /\ handle[o] \notin R
              /\ handle'[o] = handle[o] /\ frameOf'[o] = frameOf[o]
  OBVIOUS
<1> HIDE DEF R
<1> QED
  BY <1>1, HandlesKept

(* Steps that leave the ring and the awaiters as they are.                 *)
LEMMA QuietRing ==
  ASSUME OnePlace, UNCHANGED <<sq, flight, cq>>,
         loop' = "resuming" <=> loop = "resuming"
  PROVE  OnePlace' /\ Pending' = Pending /\ InRing' = InRing
<1>1. OnePlace' /\ InRing' = InRing
  BY DEF OnePlace, Completed, InRing
<1> QED
  BY <1>1, SamePending

(* A step that leaves the ring and the awaiters as they are.               *)
LEMMA QuietLink ==
  ASSUME TypeOK, LinkCore, UNCHANGED <<sq, flight, cq, handle, frameOf>>,
         loop' = "resuming" <=> loop = "resuming",
         breach \subseteq breach', \A y \in Task : WaiterKept(y)
  PROVE  OnePlace' /\ HandleInv' /\ InRing' = InRing
<1>1. OnePlace' /\ Pending' = Pending /\ InRing' = InRing
  BY QuietRing DEF LinkCore
<1>2. HandleInv'
  BY <1>1, HandlesQuiet DEF LinkCore
<1> QED
  BY <1>1, <1>2

-----------------------------------------------------------------------------
(* Steps of user code.                                                     *)

(* Calling a coroutine function.                                           *)
LEMMA CreateLink ==
  ASSUME TypeOK, LinkCore, NEW a \in Actor, NEW x \in Task, Create(a, x)
  PROVE  LinkCore'
<1> USE DEF ringVars, promiseVars, awaiterVars, loopVars
<1>1. /\ frame[x] = "none"
      /\ frame' = [frame EXCEPT ![x] = "initial"]
      /\ UNCHANGED <<ringVars, promiseVars, awaits, awaiterVars, loopVars, breach>>
  BY DEF Create
<1>2. \A y \in Task : WaiterKept(y)
  BY <1>1 DEF WaiterKept, TypeOK
<1>3. \A y \in Task : /\ Started(y)' => Started(y)
                      /\ frame[y] = "destroyed" => frame'[y] = "destroyed"
  BY <1>1 DEF Started, TypeOK
<1>4. OnePlace' /\ HandleInv' /\ InRing' = InRing
  BY <1>1, <1>2, QuietLink
<1>5. CallerInv'
  BY <1>1, <1>2, <1>3, CallersQuiet DEF LinkCore
<1>6. RootInv'
  BY <1>1, <1>3, <1>4, RootKept DEF LinkCore
<1> QED
  BY <1>4, <1>5, <1>6 DEF LinkCore

(* Freeing frames: a coroutine that was started and is freed is lost.      *)
LEMMA FreedWaiters ==
  ASSUME TypeOK, NEW D \in SUBSET Task, frame' = Destroyed(D),
         DropBreach(D) \subseteq breach', awaits' = awaits
  PROVE  \A y \in Task : /\ WaiterKept(y)
                         /\ Started(y)' => Started(y)
                         /\ frame[y] = "destroyed" => frame'[y] = "destroyed"
<1>1. \A y \in D : Started(y) => "drop" \in breach'
  BY DEF DropBreach
<1> QED
  BY <1>1 DEF WaiterKept, Destroyed, Started

(* Destroying a task object.                                               *)
LEMMA DropLink ==
  ASSUME TypeOK, LinkCore, NEW a \in Actor, NEW x \in Task, Drop(a, x)
  PROVE  LinkCore'
<1> USE DEF ringVars, promiseVars, awaiterVars, loopVars
<1> DEFINE D == Doomed(x)
<1>1. /\ frame' = Destroyed(D) /\ breach' = breach \cup DropBreach(D)
      /\ UNCHANGED <<ringVars, promiseVars, awaits, awaiterVars, loopVars>>
      /\ D \in SUBSET Task
  BY DoomedType DEF Drop
<1> HIDE DEF D
<1>2. \A y \in Task : /\ WaiterKept(y)
                      /\ Started(y)' => Started(y)
                      /\ frame[y] = "destroyed" => frame'[y] = "destroyed"
  BY <1>1, FreedWaiters
<1>4. OnePlace' /\ HandleInv' /\ InRing' = InRing
  BY <1>1, <1>2, QuietLink
<1>5. CallerInv'
  BY <1>1, <1>2, CallersQuiet DEF LinkCore
<1>6. RootInv'
  BY <1>1, <1>2, <1>4, RootKept DEF LinkCore
<1> QED
  BY <1>4, <1>5, <1>6 DEF LinkCore

(* launch, launch_detached and block_run.                                  *)
LEMMA StartLink ==
  ASSUME TypeOK, OrderInv, LinkCore, NEW a \in Actor, NEW x \in Task,
         NEW isDaemon \in BOOLEAN, Start(a, x, isDaemon),
         \/ isDaemon /\ UNCHANGED <<loop, root>>
         \/ ~isDaemon /\ a = Main /\ loop' = "entering" /\ root' = x
  PROVE  LinkCore'
<1> USE DEF ringVars, awaiterVars
<1>1. /\ frame[x] = "initial"
      /\ frame' = [frame EXCEPT ![x] = "running"]
      /\ context' = [context EXCEPT ![x] = TRUE]
      /\ daemon' = [daemon EXCEPT ![x] = isDaemon]
      /\ UNCHANGED <<ringVars, caller, awaits, awaiterVars, running_, breach>>
      /\ a = Main => loop = "idle"
  BY DEF Start, Executes
<1>2. loop' = "resuming" <=> loop = "resuming"
  BY <1>1
<1>3. \A y \in Task : WaiterKept(y)
  BY <1>1 DEF WaiterKept, TypeOK
<1>4. OnePlace' /\ HandleInv' /\ InRing' = InRing
  BY <1>1, <1>2, <1>3, QuietLink
<1>5. /\ \A y \in Task : Started(y)' => Started(y) \/ y = x
      /\ \A y \in Task \ {x} : context'[y] = context[y] /\ daemon'[y] = daemon[y]
                                 /\ frame'[y] = frame[y]
      /\ context'[x] = TRUE /\ daemon'[x] = isDaemon /\ frame'[x] = "running"
  BY <1>1 DEF Started, TypeOK
<1>6. caller[x] = None
  BY <1>1, CallerBegun DEF Begun
<1>7. CallerInv'
  BY <1>1, <1>3, <1>5, <1>6, CallersQuiet DEF LinkCore
<1>8. RootInv'
  <2>5. CASE isDaemon /\ UNCHANGED <<loop, root>>
    <3>1. \A y \in Task : Started(y)' => context'[y]
      BY <1>5 DEF LinkCore, RootInv
    <3>2. \A y \in Task :
            Started(y)' /\ ~daemon'[y] /\ caller'[y] = None => y = root'
      BY <1>1, <1>5, <2>5 DEF LinkCore, RootInv
    <3>3. Stop \in InRing' => root' # None /\ frame'[root'] = "destroyed"
      BY <1>1, <1>4, <1>5, <2>5 DEF LinkCore, RootInv, TypeOK
    <3> QED
      BY <1>1, <2>5, <3>1, <3>2, <3>3 DEF LinkCore, RootInv
  <2>6. CASE ~isDaemon /\ a = Main /\ loop' = "entering" /\ root' = x
    <3>1. root = None /\ loop = "idle" /\ Stop \notin InRing
      BY <1>1, <2>6 DEF LinkCore, RootInv
    <3>2. \A y \in Task : ~(Started(y) /\ ~daemon[y] /\ caller[y] = None)
      BY <3>1, RuntimeAssumption DEF LinkCore, RootInv
    <3> QED
      BY <1>1, <1>4, <1>5, <2>6, <3>1, <3>2, RuntimeAssumption
         DEF LinkCore, RootInv
  <2> QED
    BY <2>5, <2>6
<1> QED
  BY <1>4, <1>7, <1>8 DEF LinkCore

(* Steps that change no frame and no promise.                              *)
LEMMA SameFramesLink ==
  ASSUME TypeOK, LinkCore,
         UNCHANGED <<ringVars, frame, caller, context, daemon, awaits,
                     awaiterVars, loopVars, breach>>
  PROVE  LinkCore'
<1> USE DEF ringVars, awaiterVars, loopVars
<1>1. \A y \in Task : WaiterKept(y) /\ (Started(y)' => Started(y))
  BY DEF WaiterKept, Started
<1>2. OnePlace' /\ HandleInv' /\ InRing' = InRing
  BY <1>1, QuietLink
<1>3. CallerInv' /\ RootInv'
  BY <1>1, <1>2, CallersQuiet, RootKept DEF LinkCore
<1> QED
  BY <1>2, <1>3 DEF LinkCore

(* co_await of a task that has not started.                                *)
LEMMA AwaitStartLink ==
  ASSUME TypeOK, ControlInv, OrderInv, LinkCore,
         NEW t \in Task, NEW x \in Task, AwaitStart(t, x)
  PROVE  LinkCore'
<1> USE DEF ringVars, awaiterVars, loopVars
<1>1. /\ x # t /\ cur = t /\ frame[x] = "initial"
      /\ frame' = [frame EXCEPT ![t] = "suspended", ![x] = "running"]
      /\ caller' = [caller EXCEPT ![x] = t]
      /\ context' = [context EXCEPT ![x] = context[t]]
      /\ awaits' = [awaits EXCEPT ![t] = x]
      /\ UNCHANGED <<ringVars, daemon, awaiterVars, loopVars, breach>>
  BY DEF AwaitStart, MayAwait, Executes, LinkCaller
<1>2. frame[t] = "running"
  BY <1>1 DEF ControlInv
<1>3. /\ frame'[t] = "suspended" /\ frame'[x] = "running"
      /\ awaits'[t] = x /\ caller'[x] = t /\ context'[x] = context[t]
      /\ \A y \in Task \ {t, x} : frame'[y] = frame[y]
      /\ \A y \in Task \ {x} : caller'[y] = caller[y] /\ context'[y] = context[y]
      /\ \A y \in Task \ {t} : awaits'[y] = awaits[y]
  BY <1>1 DEF TypeOK
<1>4. \A y \in Task : WaiterKept(y)
  BY <1>1, <1>2, <1>3 DEF WaiterKept
<1>5. OnePlace' /\ HandleInv' /\ InRing' = InRing
  BY <1>1, <1>4, QuietLink
<1>6. \A y \in Task \ {x} : Started(y)' => Started(y)
  BY <1>2, <1>3 DEF Started
<1>7. WaitsOrLost(caller[x], x)'
  BY <1>1, <1>3 DEF WaitsOrLost
<1>8. CallerInv'
  <2>1. \A y \in Task : Started(y)' /\ caller'[y] # None =>
          \/ WaitsOrLost(caller[y], y)'
          \/ Started(y) /\ caller'[y] = caller[y]
    BY <1>3, <1>6, <1>7
  <2> QED
    BY <1>1, <1>4, <2>1, CallersQuiet DEF LinkCore
<1>9. RootInv'
  <2>1. \A y \in Task : Started(y)' => context'[y]
    BY <1>2, <1>3, <1>6 DEF LinkCore, RootInv, Started
  <2>2. \A y \in Task :
          Started(y)' /\ ~daemon'[y] /\ caller'[y] = None => y = root'
    BY <1>1, <1>3, <1>6, RuntimeAssumption DEF LinkCore, RootInv
  <2>3. Stop \in InRing' => root' # None /\ frame'[root'] = "destroyed"
    <3>1. \A y \in Task : frame[y] = "destroyed" => frame'[y] = "destroyed"
      BY <1>1, <1>2, <1>3
    <3> QED
      BY <1>1, <1>5, <3>1 DEF LinkCore, RootInv, TypeOK
  <2> QED
    BY <1>1, <2>1, <2>2, <2>3 DEF LinkCore, RootInv
<1> QED
  BY <1>5, <1>8, <1>9 DEF LinkCore

(* co_await of a launched task.                                            *)
LEMMA AwaitDaemonLink ==
  ASSUME TypeOK, ControlInv, LinkCore,
         NEW t \in Task, NEW x \in Task, AwaitDaemon(t, x)
  PROVE  LinkCore'
<1> USE DEF ringVars, awaiterVars, loopVars
<1>1. /\ x # t /\ cur = t
      /\ frame' = [frame EXCEPT ![t] = "suspended"]
      /\ caller' = [caller EXCEPT ![x] = t]
      /\ context' = [context EXCEPT ![x] = context[t]]
      /\ awaits' = [awaits EXCEPT ![t] = x]
      /\ UNCHANGED <<ringVars, daemon, awaiterVars, loopVars>>
      /\ breach \subseteq breach'
  BY DEF AwaitDaemon, MayAwait, Executes, LinkCaller
<1>2. frame[t] = "running"
  BY <1>1 DEF ControlInv
<1>3. /\ frame'[t] = "suspended"
      /\ awaits'[t] = x /\ caller'[x] = t /\ context'[x] = context[t]
      /\ \A y \in Task \ {t} : frame'[y] = frame[y] /\ awaits'[y] = awaits[y]
      /\ \A y \in Task \ {x} : caller'[y] = caller[y] /\ context'[y] = context[y]
  BY <1>1 DEF TypeOK
<1>4. \A y \in Task : WaiterKept(y)
  BY <1>1, <1>2, <1>3 DEF WaiterKept
<1>5. OnePlace' /\ HandleInv' /\ InRing' = InRing
  BY <1>1, <1>4, QuietLink
<1>6. \A y \in Task : Started(y)' => Started(y)
  BY <1>2, <1>3 DEF Started
<1>7. WaitsOrLost(caller[x], x)'
  BY <1>1, <1>3 DEF WaitsOrLost
<1>8. CallerInv'
  <2>1. \A y \in Task : Started(y)' /\ caller'[y] # None =>
          \/ WaitsOrLost(caller[y], y)'
          \/ Started(y) /\ caller'[y] = caller[y]
    BY <1>3, <1>6, <1>7
  <2> QED
    BY <1>1, <1>4, <2>1, CallersQuiet DEF LinkCore
<1>9. RootInv'
  <2>1. context[t]
    BY <1>2 DEF LinkCore, RootInv, Started
  <2>2. \A y \in Task : Started(y)' =>
          /\ Started(y) /\ daemon'[y] = daemon[y]
          /\ context[y] => context'[y]
          /\ caller'[y] = None => caller[y] = None
    BY <1>1, <1>3, <1>6, <2>1, RuntimeAssumption
  <2>3. \A y \in Task : frame[y] = "destroyed" => frame'[y] = "destroyed"
    BY <1>2, <1>3
  <2> QED
    BY <1>1, <1>5, <2>2, <2>3, RootKept DEF LinkCore
<1> QED
  BY <1>5, <1>8, <1>9 DEF LinkCore

-----------------------------------------------------------------------------
(* Steps by which a coroutine suspends or ends.                            *)

(* co_await of an awaiter of the ring.                                     *)
LEMMA SuspendLink ==
  ASSUME TypeOK, ControlInv, LinkCore, NEW t \in Task, NEW o \in Op,
         IoAwait(t, o) \/ IoAwaitPrepared(t, o)
  PROVE  LinkCore'
<1> USE DEF promiseVars, loopVars
<1>1. PICK entries :
        /\ SuspendOnIo(t, o, entries) /\ cur = t
        /\ \/ entries = sq \cup {o} /\ o \notin InRing
              /\ frameOf' = [frameOf EXCEPT ![o] = t]
           \/ entries = sq /\ frameOf[o] = t /\ frameOf' = frameOf
  BY DEF IoAwait, IoAwaitPrepared, Executes, Fresh
<1>2. PICK taken \in Takes(entries) :
        Submit(entries, taken) /\ breach' = breach \cup SubmitBreach(entries, taken)
  BY <1>1 DEF SuspendOnIo
<1>3. /\ handle' = [handle EXCEPT ![o] = t]
      /\ frame' = [frame EXCEPT ![t] = "suspended"]
      /\ awaits' = [awaits EXCEPT ![t] = o]
      /\ UNCHANGED <<caller, context, daemon, loop, running_, root>>
  BY <1>1 DEF SuspendOnIo
<1>4. frame[t] = "running"
  BY <1>1 DEF ControlInv
<1>5. entries \cap flight = {} /\ entries \cap Completed = {}
  BY <1>1 DEF LinkCore, OnePlace, InRing
<1>6. OnePlace' /\ sq' \cup flight' = entries \cup flight /\ cq' = cq
  BY <1>2, <1>5, SubmitPlace DEF LinkCore
<1>7. /\ (sq \cup Pending)' \subseteq sq \cup Pending \cup {o}
      /\ InRing' \subseteq InRing \cup {o}
  <2>1. (sq \cup Pending)' = sq' \cup flight'
          \cup {cq[i] : i \in {j \in DOMAIN cq : j = 1 => loop # "resuming"}}
    BY <1>3, <1>6 DEF Pending
  <2>2. sq' \cup flight' \subseteq sq \cup flight \cup {o}
    BY <1>1, <1>6
  <2> QED
    BY <1>6, <2>1, <2>2 DEF Pending, InRing, Completed
<1>8. /\ frame'[t] = "suspended" /\ awaits'[t] = o
      /\ handle'[o] = t /\ frameOf'[o] = t
      /\ \A y \in Task \ {t} : frame'[y] = frame[y] /\ awaits'[y] = awaits[y]
      /\ \A p \in Op \ {o} : handle'[p] = handle[p] /\ frameOf'[p] = frameOf[p]
  BY <1>1, <1>3 DEF TypeOK
<1>9. \A y \in Task : WaiterKept(y) /\ (Started(y)' => Started(y))
  BY <1>4, <1>8 DEF WaiterKept, Started
<1>10. breach \subseteq breach'
  BY <1>2
<1>11. CallerInv'
  BY <1>3, <1>9, <1>10, CallersQuiet DEF LinkCore
<1>12. HandleInv'
  <2>1. WaitsOrLost(handle[o], o)'
    BY <1>8 DEF WaitsOrLost
  <2>2. handle'[o] # None /\ frameOf'[o] = handle'[o]
    BY <1>8, RuntimeAssumption
  <2>3. \A p \in (sq \cup Pending)' \cap Op : p = o \/ p \in sq \cup Pending
    BY <1>7
  <2> QED
    BY <1>8, <1>9, <1>10, <2>1, <2>2, <2>3, HandlesQuiet DEF LinkCore
<1>13. RootInv'
  <2>1. Stop \in InRing' => Stop \in InRing
    BY <1>7, UringAssumption
  <2>2. \A y \in Task : frame[y] = "destroyed" => frame'[y] = "destroyed"
    BY <1>4, <1>8
  <2> QED
    BY <1>3, <1>6, <1>9, <2>1, <2>2, RootKept DEF LinkCore
<1> QED
  BY <1>6, <1>11, <1>12, <1>13 DEF LinkCore

(* An awaiter constructed ahead of its co_await.                           *)
LEMMA PrepareLink ==
  ASSUME TypeOK, LinkCore, NEW t \in Task, NEW o \in Op, IoPrepare(t, o)
  PROVE  LinkCore'
<1> USE DEF promiseVars, loopVars
<1>1. /\ o \notin InRing /\ sq' = sq \cup {o}
      /\ handle' = [handle EXCEPT ![o] = None]
      /\ frameOf' = [frameOf EXCEPT ![o] = t]
      /\ "early" \in breach' /\ breach \subseteq breach'
      /\ UNCHANGED <<flight, cq, frame, caller, context, daemon, awaits, loop,
                     running_, root>>
  BY DEF IoPrepare, Fresh
<1>2. \A y \in Task : WaiterKept(y) /\ (Started(y)' => Started(y))
  BY <1>1 DEF WaiterKept, Started
<1>3. Pending' = Pending
  BY <1>1, SamePending
<1>4. /\ handle'[o] = None
      /\ \A p \in Op \ {o} : handle'[p] = handle[p] /\ frameOf'[p] = frameOf[p]
  BY <1>1 DEF TypeOK
<1>5. HandleInv'
  <2>1. \A p \in (sq \cup Pending)' \cap Op : p = o \/ p \in sq \cup Pending
    BY <1>1, <1>3
  <2> QED
    BY <1>1, <1>2, <1>4, <2>1, HandlesQuiet DEF LinkCore
<1>6. CallerInv'
  BY <1>1, <1>2, CallersQuiet DEF LinkCore
<1>7. OnePlace' /\ InRing' = InRing \cup {o}
  BY <1>1 DEF LinkCore, OnePlace, InRing, Completed
<1>8. RootInv'
  BY <1>1, <1>2, <1>7, UringAssumption, RootKept DEF LinkCore
<1> QED
  BY <1>5, <1>6, <1>7, <1>8 DEF LinkCore

(* The coroutine that gets control from one that ends waited for it.       *)
LEMMA FinishToCallerLink ==
  ASSUME TypeOK, ControlInv, LinkCore, NEW t \in Task, NEW out \in Out,
         FinishToCaller(t, out), fault' = "none"
  PROVE  LinkCore'
<1> USE DEF ringVars, promiseVars, awaiterVars, loopVars
<1> DEFINE D == Locals(t)
           F == Destroyed(D)
           c == caller[t]
<1>1. /\ cur = t /\ c \in Task /\ D \in SUBSET Task
      /\ frame[c] = "suspended" /\ awaits[c] = t
      /\ breach' = breach \cup DropBreach(D)
      /\ frame' = [F EXCEPT ![t] = "final", ![c] = "running"]
      /\ awaits' = [awaits EXCEPT ![c] = None]
      /\ UNCHANGED <<ringVars, caller, context, daemon, awaiterVars, loopVars>>
  BY LocalsType DEF FinishToCaller, EndBody, Executes, TypeOK
<1>2. F \in [Task -> {"none", "initial", "running", "suspended", "final",
                      "destroyed"}]
  BY <1>1, DestroyType
<1>3. \A y \in Task : F[y] = IF y \in D THEN "destroyed" ELSE frame[y]
  BY DEF Destroyed
<1>4. frame[t] = "running" /\ c # t
  BY <1>1 DEF ControlInv
<1>5. \A y \in D : Started(y) => "drop" \in breach'
  BY <1>1 DEF DropBreach
<1>6. PICK r \in Task : r = c
  BY <1>1
<1> HIDE DEF D, F, c
<1>7. /\ frame'[t] = "final" /\ frame'[r] = "running"
      /\ \A y \in Task \ {t, r} : frame'[y] = F[y]
      /\ \A y \in Task \ {r} : awaits'[y] = awaits[y]
  BY <1>1, <1>2, <1>4, <1>6 DEF TypeOK
<1>8. \A y \in Task \ {r} : WaiterKept(y)
  BY <1>3, <1>4, <1>5, <1>7 DEF WaiterKept
<1>9. \A y \in Task : Started(y)' => Started(y) /\ y # t
  BY <1>1, <1>3, <1>4, <1>6, <1>7 DEF Started
<1>10. \A y \in Task \ {t} : Started(y) => caller[y] # r
  BY <1>1, <1>6, RuntimeAssumption DEF LinkCore, CallerInv, WaitsOrLost
<1>11. \A o \in (sq \cup Pending) \cap Op : handle[o] # r
  BY <1>1, <1>6, RuntimeAssumption DEF LinkCore, HandleInv, WaitsOrLost
<1>12. breach \subseteq breach'
  BY <1>1
<1>13. CallerInv'
  <2>1. \A y \in Task : Started(y)' /\ caller'[y] # None =>
          Started(y) /\ caller'[y] = caller[y] /\ caller[y] \notin {r}
    BY <1>1, <1>9, <1>10
  <2> QED
    BY <1>8, <1>12, <2>1, CallersKept DEF LinkCore
<1>14. OnePlace' /\ Pending' = Pending /\ InRing' = InRing
  BY <1>1, QuietRing DEF LinkCore
<1>15. HandleInv'
  <2>1. \A o \in (sq \cup Pending)' \cap Op :
          /\ o \in sq \cup Pending /\ handle[o] \notin {r}
          /\ handle'[o] = handle[o] /\ frameOf'[o] = frameOf[o]
    BY <1>1, <1>11, <1>14
  <2> QED
    BY <1>8, <1>12, <2>1, HandlesKept DEF LinkCore
<1>16. RootInv'
  <2>1. \A y \in Task : frame[y] = "destroyed" => frame'[y] = "destroyed"
    BY <1>1, <1>3, <1>4, <1>6, <1>7
  <2> QED
    BY <1>1, <1>9, <1>14, <2>1, RootKept DEF LinkCore
<1> QED
  BY <1>13, <1>14, <1>15, <1>16 DEF LinkCore

(* A daemon that nobody awaits ends.                                       *)
LEMMA FinishDaemonLink ==
  ASSUME TypeOK, ControlInv, LinkCore, NEW t \in Task, NEW out \in Out,
         FinishDaemon(t, out)
  PROVE  LinkCore'
<1> USE DEF ringVars, promiseVars, awaiterVars, loopVars
<1> DEFINE D == Locals(t)
<1>1. /\ cur = t /\ D \in SUBSET Task
      /\ breach' = breach \cup DropBreach(D)
      /\ frame' = [Destroyed(D) EXCEPT ![t] = "final"]
      /\ UNCHANGED <<ringVars, caller, context, daemon, awaits, awaiterVars, loopVars>>
  BY LocalsType DEF FinishDaemon, EndBody, Executes
<1>2. frame[t] = "running"
  BY <1>1 DEF ControlInv
<1>3. \A y \in D : Started(y) => "drop" \in breach'
  BY <1>1 DEF DropBreach
<1>4. /\ frame'[t] = "final"
      /\ \A y \in Task \ {t} :
           frame'[y] = IF y \in D THEN "destroyed" ELSE frame[y]
  BY <1>1 DEF Destroyed
<1> HIDE DEF D
<1>5. \A y \in Task : /\ WaiterKept(y)
                      /\ Started(y)' => Started(y)
                      /\ frame[y] = "destroyed" => frame'[y] = "destroyed"
  BY <1>1, <1>2, <1>3, <1>4 DEF WaiterKept, Started
<1>6. OnePlace' /\ HandleInv' /\ InRing' = InRing
  BY <1>1, <1>5, QuietLink
<1>7. CallerInv'
  BY <1>1, <1>5, CallersQuiet DEF LinkCore
<1>8. RootInv'
  BY <1>1, <1>5, <1>6, RootKept DEF LinkCore
<1> QED
  BY <1>6, <1>7, <1>8 DEF LinkCore

(* The root ends, asks the loop to stop and frees itself.                  *)
LEMMA FinishRootLink ==
  ASSUME TypeOK, ControlInv, LinkCore, NEW t \in Task, NEW out \in Out,
         FinishRoot(t, out), fault' = "none"
  PROVE  LinkCore'
<1> USE DEF promiseVars, awaiterVars, loopVars
<1> DEFINE D == Doomed(t)
<1>1. /\ cur = t /\ D \in SUBSET Task /\ t \in D
      /\ frame' = Destroyed(D) /\ caller[t] = None /\ ~daemon[t]
      /\ UNCHANGED <<caller, context, daemon, awaits, awaiterVars, loopVars>>
  BY DoomedType DEF FinishRoot, EndBody, Executes, Doomed
<1>2. frame[t] = "running"
  BY <1>1 DEF ControlInv
<1>3. t = root /\ context[t] /\ Stop \notin InRing
  BY <1>1, <1>2 DEF LinkCore, RootInv, Started
<1>4. PICK taken \in Takes(sq \cup {Stop}) :
        /\ Submit(sq \cup {Stop}, taken)
        /\ breach' = breach \cup DropBreach(Locals(t))
                       \cup SubmitBreach(sq \cup {Stop}, taken)
  BY <1>3 DEF FinishRoot
<1>5. \A y \in D : Started(y) /\ y # t => "drop" \in breach'
  BY <1>4 DEF DropBreach, Locals
<1>6. \A y \in Task : frame'[y] = IF y \in D THEN "destroyed" ELSE frame[y]
  BY <1>1 DEF Destroyed
<1> HIDE DEF D
<1>7. \A y \in Task : /\ WaiterKept(y)
                      /\ Started(y)' => Started(y)
                      /\ frame[y] = "destroyed" => frame'[y] = "destroyed"
  BY <1>1, <1>2, <1>5, <1>6 DEF WaiterKept, Started
<1>8. /\ (sq \cup {Stop}) \cap flight = {}
      /\ (sq \cup {Stop}) \cap Completed = {}
  BY <1>3 DEF LinkCore, OnePlace, InRing
<1>9. OnePlace' /\ sq' \cup flight' = sq \cup {Stop} \cup flight /\ cq' = cq
  BY <1>4, <1>8, SubmitPlace DEF LinkCore
<1>10. breach \subseteq breach'
  BY <1>4
<1>11. CallerInv'
  BY <1>1, <1>7, <1>10, CallersQuiet DEF LinkCore
<1>12. HandleInv'
  <2>1. (sq \cup Pending)' = sq' \cup flight'
          \cup {cq[i] : i \in {j \in DOMAIN cq : j = 1 => loop # "resuming"}}
    BY <1>1, <1>9 DEF Pending
  <2>2. \A o \in (sq \cup Pending)' \cap Op : o \in sq \cup Pending
    BY <1>9, <2>1, UringAssumption DEF Pending
  <2> QED
    BY <1>1, <1>7, <1>10, <2>2, HandlesQuiet DEF LinkCore
<1>13. RootInv'
  <2>1. frame'[root'] = "destroyed" /\ root' \in Task
    BY <1>1, <1>3, <1>6
  <2> QED
    BY <1>1, <1>7, <1>9, <2>1, RuntimeAssumption DEF LinkCore, RootInv
<1> QED
  BY <1>9, <1>11, <1>12, <1>13 DEF LinkCore

-----------------------------------------------------------------------------
(* Steps of the loop and of the kernel.                                    *)

(* The completion the loop takes up is not under way any more.             *)
LEMMA TakenUpOnce ==
  ASSUME TypeOK, OnePlace, cq # <<>>, UNCHANGED <<sq, flight, cq>>,
         loop # "resuming", loop' = "resuming"
  PROVE  /\ (sq \cup Pending)' = (sq \cup Pending) \ {cq[1]}
         /\ cq[1] \in Pending
<1>1. 1 \in DOMAIN cq
  BY DEF TypeOK, RingTypeOK
<1>2. cq[1] \notin sq \cup flight
  BY <1>1 DEF OnePlace, Completed
<1>3. \A i \in DOMAIN cq : i # 1 => cq[i] # cq[1]
  BY <1>1 DEF OnePlace
<1> QED
  BY <1>1, <1>2, <1>3 DEF Pending

(* The loop starts to wait.                                                *)
LEMMA LoopRunLink ==
  ASSUME TypeOK, LinkCore, LoopRun PROVE LinkCore'
<1>1. /\ loop = "entering" /\ loop' = "waiting" /\ running_' = TRUE
      /\ UNCHANGED <<sq, flight, cq, frame, caller, context, daemon, awaits,
                     handle, frameOf, root, breach>>
  BY DEF LoopRun, ringVars, promiseVars, awaiterVars
<1>2. \A y \in Task : WaiterKept(y) /\ (Started(y)' <=> Started(y))
  BY <1>1 DEF WaiterKept, Started
<1>3. OnePlace' /\ HandleInv' /\ InRing' = InRing
  BY <1>1, <1>2, QuietLink
<1>4. CallerInv'
  BY <1>1, <1>2, CallersQuiet DEF LinkCore
<1>5. RootInv'
  BY <1>1, <1>2, <1>3 DEF LinkCore, RootInv
<1> QED
  BY <1>3, <1>4, <1>5 DEF LinkCore

(* The loop takes up the stop request.                                     *)
LEMMA ResumeStopLink ==
  ASSUME TypeOK, LinkCore, ResumeStop PROVE LinkCore'
<1>1. /\ loop = "waiting" /\ loop' = "resuming" /\ running_' = FALSE
      /\ cq # <<>> /\ Head(cq) = Stop
      /\ UNCHANGED <<sq, flight, cq, frame, caller, context, daemon, awaits,
                     handle, frameOf, root, breach>>
  BY DEF ResumeStop, Waits, ringVars, promiseVars, awaiterVars
<1>2. cq[1] = Stop
  BY <1>1 DEF TypeOK, RingTypeOK
<1>3. (sq \cup Pending)' \subseteq sq \cup Pending
  BY <1>1, TakenUpOnce DEF LinkCore
<1>4. \A y \in Task : WaiterKept(y) /\ (Started(y)' <=> Started(y))
  BY <1>1 DEF WaiterKept, Started
<1>5. HandleInv' /\ CallerInv'
  BY <1>1, <1>3, <1>4, HandlesQuiet, CallersQuiet DEF LinkCore
<1>6. OnePlace' /\ RootInv'
  BY <1>1, <1>2, <1>4 DEF LinkCore, OnePlace, RootInv, InRing, Completed
<1> QED
  BY <1>5, <1>6 DEF LinkCore

(* What handle_ leads to when a completion has come: nothing that is       *)
(* wrong, but a frame that is gone or a handle_ that is not set.           *)
LEMMA ResumedWaits ==
  ASSUME TypeOK, LinkCore, NEW o \in Op, Waits(o)
  PROVE  /\ frame[frameOf[o]] = "destroyed" => breach \cap {"drop", "early"} # {}
         /\ handle[o] = None => "early" \in breach
         /\ frame[frameOf[o]] # "destroyed" /\ handle[o] # None =>
              /\ handle[o] \in Task
              /\ frame[handle[o]] = "suspended" /\ awaits[handle[o]] = o
<1>1. cq # <<>> /\ cq[1] = o /\ loop = "waiting" /\ 1 \in DOMAIN cq
  BY DEF Waits, TypeOK, RingTypeOK
<1>2. o \in Pending
  BY <1>1 DEF Pending
<1> QED
  BY <1>2 DEF LinkCore, HandleInv, WaitsOrLost, TypeOK

(* The loop resumes the coroutine that waits for the completion.           *)
LEMMA ResumeLink ==
  ASSUME TypeOK, LinkCore, NEW o \in Op, Resume(o), fault' = "none"
  PROVE  LinkCore'
<1>1. /\ loop = "waiting" /\ loop' = "resuming" /\ cq # <<>> /\ Head(cq) = o
      /\ UNCHANGED <<sq, flight, cq, caller, context, daemon, handle, frameOf,
                     running_, root, breach>>
  BY DEF Resume, Waits, ringVars, promiseVars, awaiterVars
<1>2. PICK t \in Task :
        /\ handle[o] = t /\ frame[t] = "suspended" /\ awaits[t] = o
        /\ frame' = [frame EXCEPT ![t] = "running"]
        /\ awaits' = [awaits EXCEPT ![t] = None]
  BY DEF Resume, TypeOK
<1>3. /\ frame'[t] = "running"
      /\ \A y \in Task \ {t} : frame'[y] = frame[y] /\ awaits'[y] = awaits[y]
  BY <1>2 DEF TypeOK
<1>4. cq[1] = o
  BY <1>1 DEF TypeOK, RingTypeOK
<1>5. (sq \cup Pending)' = (sq \cup Pending) \ {o}
  BY <1>1, <1>4, TakenUpOnce DEF LinkCore
<1>6. /\ \A y \in Task \ {t} : WaiterKept(y)
      /\ \A y \in Task : Started(y)' => Started(y)
      /\ \A y \in Task : frame[y] = "destroyed" => frame'[y] = "destroyed"
  BY <1>2, <1>3 DEF WaiterKept, Started
<1>7. \A y \in Task : Started(y) => caller[y] # t
  BY <1>2, RuntimeAssumption DEF LinkCore, CallerInv, WaitsOrLost
<1>8. \A p \in (sq \cup Pending) \cap Op : p # o => handle[p] # t
  BY <1>2, RuntimeAssumption DEF LinkCore, HandleInv, WaitsOrLost
<1>9. CallerInv'
  <2>1. \A y \in Task : Started(y)' /\ caller'[y] # None =>
          Started(y) /\ caller'[y] = caller[y] /\ caller[y] \notin {t}
    BY <1>1, <1>6, <1>7
  <2> QED
    BY <1>1, <1>6, <2>1, CallersKept DEF LinkCore
<1>10. HandleInv'
  <2>1. \A p \in (sq \cup Pending)' \cap Op :
          /\ p \in sq \cup Pending /\ handle[p] \notin {t}
          /\ handle'[p] = handle[p] /\ frameOf'[p] = frameOf[p]
    BY <1>1, <1>5, <1>8
  <2> QED
    BY <1>1, <1>6, <2>1, HandlesKept DEF LinkCore
<1>11. OnePlace' /\ InRing' = InRing
  BY <1>1 DEF LinkCore, OnePlace, InRing, Completed
<1>12. RootInv'
  BY <1>1, <1>6, <1>11 DEF LinkCore, RootInv, TypeOK
<1> QED
  BY <1>9, <1>10, <1>11, <1>12 DEF LinkCore

(* Marking a completion seen takes the head off the CQ.                    *)
LEMMA CqeSeenPending ==
  ASSUME TypeOK, CqeSeen
  PROVE  /\ Len(cq) \in Nat
         /\ DOMAIN cq = 1..Len(cq) /\ DOMAIN cq' = 1..(Len(cq) - 1)
         /\ \A i \in 1..(Len(cq) - 1) : cq'[i] = cq[i + 1]
         /\ 1 \in DOMAIN cq
         /\ Completed' = {cq[i] : i \in {j \in DOMAIN cq : j # 1}}
         /\ Pending' = Pending
<1>1. /\ loop = "resuming" /\ loop' # "resuming"
      /\ cq # <<>> /\ cq' = Tail(cq) /\ flight' = flight
  BY DEF CqeSeen, MarkSeen
<1>2. /\ cq \in Seq(Request) /\ Len(cq) \in Nat /\ Len(cq) >= 1
      /\ DOMAIN cq = 1..Len(cq) /\ DOMAIN cq' = 1..(Len(cq) - 1)
      /\ \A i \in 1..(Len(cq) - 1) : cq'[i] = cq[i + 1]
  BY <1>1 DEF TypeOK, RingTypeOK
<1>3. Completed' = {cq[i] : i \in {j \in DOMAIN cq : j # 1}}
  <2>1. \A r : r \in Completed' => \E i \in DOMAIN cq : i # 1 /\ r = cq[i]
    BY <1>2 DEF Completed
  <2>2. ASSUME NEW i \in DOMAIN cq, i # 1 PROVE cq[i] \in Completed'
    <3>1. i - 1 \in DOMAIN cq' /\ cq'[i - 1] = cq[i]
      BY <1>2, <2>2
    <3> QED
      BY <3>1 DEF Completed
  <2> QED
    BY <2>1, <2>2
<1>4. Pending' = Pending
  <2>1. Pending' = flight \cup Completed'
    BY <1>1 DEF Pending, Completed
  <2>2. Pending = flight \cup {cq[i] : i \in {j \in DOMAIN cq : j # 1}}
    BY <1>1 DEF Pending
  <2> QED
    BY <1>3, <2>1, <2>2
<1> QED
  BY <1>2, <1>3, <1>4

(* The loop marks the completion seen and goes on, or block_run returns.   *)
LEMMA CqeSeenLink ==
  ASSUME TypeOK, LinkCore, CqeSeen PROVE LinkCore'
<1>1. /\ loop = "resuming" /\ cur = Main /\ cq # <<>> /\ cq' = Tail(cq)
      /\ loop' = (IF running_ THEN "waiting" ELSE "idle")
      /\ root' = (IF running_ THEN root ELSE None)
      /\ UNCHANGED <<sq, flight, frame, caller, context, daemon, awaits,
                     handle, frameOf, running_, breach>>
  BY DEF CqeSeen, MarkSeen, promiseVars, awaiterVars
<1>2. /\ Len(cq) \in Nat
      /\ DOMAIN cq = 1..Len(cq) /\ DOMAIN cq' = 1..(Len(cq) - 1)
      /\ \A i \in 1..(Len(cq) - 1) : cq'[i] = cq[i + 1]
  BY CqeSeenPending
<1>3. Completed' = {cq[i] : i \in {j \in DOMAIN cq : j # 1}}
  BY CqeSeenPending
<1>4. Pending' = Pending
  BY CqeSeenPending
<1>5. InRing' \subseteq InRing /\ Completed' \subseteq Completed
  BY <1>1, <1>3 DEF InRing, Completed
<1>6. OnePlace'
  <2>1. \A i, j \in DOMAIN cq' : i # j => cq'[i] # cq'[j]
    <3> SUFFICES ASSUME NEW i \in DOMAIN cq', NEW j \in DOMAIN cq', i # j
                 PROVE  cq'[i] # cq'[j]
      OBVIOUS
    <3>1. i + 1 \in DOMAIN cq /\ j + 1 \in DOMAIN cq /\ i + 1 # j + 1
      BY <1>2
    <3> QED
      BY <1>2, <3>1 DEF LinkCore, OnePlace
  <2> QED
    BY <1>1, <1>5, <2>1 DEF LinkCore, OnePlace
<1>7. \A y \in Task : WaiterKept(y) /\ (Started(y)' <=> Started(y))
  BY <1>1 DEF WaiterKept, Started
<1>8. CallerInv' /\ HandleInv'
  BY <1>1, <1>4, <1>7, CallersQuiet, HandlesQuiet DEF LinkCore
<1>9. RootInv'
  <2>1. CASE running_
    BY <1>1, <1>5, <2>1 DEF LinkCore, RootInv, Started
  <2>2. CASE ~running_
    <3>1. cq[1] = Stop
      BY <1>1, <2>2 DEF LinkCore, RootInv
    <3>2. Stop \in InRing /\ Stop \notin InRing'
      <4>1. 1 \in DOMAIN cq
        BY CqeSeenPending
      <4>2. Stop \in Completed /\ Stop \in InRing
        BY <3>1, <4>1 DEF InRing, Completed
      <4>3. \A i \in DOMAIN cq : i # 1 => cq[i] # Stop
        BY <3>1, <4>1 DEF LinkCore, OnePlace
      <4> QED
        BY <1>1, <1>3, <4>2, <4>3 DEF InRing, LinkCore, OnePlace
    <3>4. \A y \in Task : ~(Started(y) /\ ~daemon[y] /\ caller[y] = None)
      BY <3>2 DEF LinkCore, RootInv, Started
    <3>5. loop' = "idle" /\ root' = None
      BY <1>1, <2>2
    <3> QED
      BY <1>1, <1>7, <3>2, <3>4, <3>5 DEF LinkCore, RootInv
  <2> QED
    BY <2>1, <2>2
<1> QED
  BY <1>6, <1>8, <1>9 DEF LinkCore

(* The kernel posts a completion: its request is under way all the same.   *)
LEMMA CompletePending ==
  ASSUME TypeOK, RootInv, NEW r \in Request, Complete(r)
  PROVE  /\ \A i, j \in DOMAIN cq' : i # j =>
              \/ cq'[i] = r /\ cq'[j] \in Completed
              \/ cq'[j] = r /\ cq'[i] \in Completed
              \/ i \in DOMAIN cq /\ j \in DOMAIN cq
                   /\ cq'[i] = cq[i] /\ cq'[j] = cq[j]
         /\ cq # <<>> => cq'[1] = cq[1]
         /\ cq' # <<>>
         /\ Completed' = Completed \cup {r}
         /\ InRing' = InRing /\ Pending' = Pending
<1>1. /\ r \in flight /\ flight' = flight \ {r} /\ cq' = Append(cq, r)
      /\ UNCHANGED <<sq, loop>>
  BY DEF Complete, PostCompletion, loopVars
<1> DEFINE n == Len(cq) + 1
<1>2. /\ DOMAIN cq' = DOMAIN cq \cup {n} /\ n \notin DOMAIN cq
      /\ cq'[n] = r /\ \A i \in DOMAIN cq : cq'[i] = cq[i]
      /\ (cq # <<>> => n # 1 /\ 1 \in DOMAIN cq) /\ cq' # <<>>
  BY <1>1 DEF TypeOK, RingTypeOK
<1> HIDE DEF n
<1>3. Completed' = Completed \cup {r}
  BY <1>2 DEF Completed
<1>4. InRing' = InRing
  BY <1>1, <1>3 DEF InRing
<1>5. Pending' = Pending
  <2>1. loop = "resuming" => cq # <<>>
    BY DEF RootInv
  <2>2. {cq'[i] : i \in {j \in DOMAIN cq' : j = 1 => loop # "resuming"}} =
          {cq[i] : i \in {j \in DOMAIN cq : j = 1 => loop # "resuming"}} \cup {r}
    BY <1>2, <2>1
  <2> QED
    BY <1>1, <2>2 DEF Pending
<1>6. \A i \in DOMAIN cq : cq[i] \in Completed
  BY DEF Completed
<1> QED
  BY <1>2, <1>3, <1>4, <1>5, <1>6

(* The kernel posts a completion, and moves the request in the ring.       *)
LEMMA CompleteLink ==
  ASSUME TypeOK, LinkCore, NEW r \in Request, Complete(r) PROVE LinkCore'
<1>1. /\ r \in flight /\ flight' = flight \ {r}
      /\ UNCHANGED <<sq, frame, caller, context, daemon, awaits, handle,
                     frameOf, loop, running_, root, breach>>
  BY DEF Complete, PostCompletion, promiseVars, awaiterVars, loopVars
<1>2. /\ InRing' = InRing /\ Pending' = Pending
      /\ Completed' = Completed \cup {r}
      /\ cq # <<>> => cq' # <<>> /\ cq'[1] = cq[1]
  BY CompletePending DEF LinkCore
<1>3. r \notin Completed /\ r \notin sq
  BY <1>1 DEF LinkCore, OnePlace
<1>4. OnePlace'
  <2>1. \A i, j \in DOMAIN cq' : i # j => cq'[i] # cq'[j]
    BY <1>3, CompletePending DEF LinkCore, OnePlace
  <2> QED
    BY <1>1, <1>2, <1>3, <2>1 DEF LinkCore, OnePlace
<1>5. \A y \in Task : WaiterKept(y) /\ (Started(y)' <=> Started(y))
  BY <1>1 DEF WaiterKept, Started
<1>6. CallerInv' /\ HandleInv'
  BY <1>1, <1>2, <1>5, CallersQuiet, HandlesQuiet DEF LinkCore
<1>7. RootInv'
  BY <1>1, <1>2, <1>5 DEF LinkCore, RootInv
<1> QED
  BY <1>4, <1>6, <1>7 DEF LinkCore

-----------------------------------------------------------------------------
(* The links, and what follows from them for every program.                *)

(* LinkInv is inductive, with ThreadInv.                                   *)
LEMMA LinkStep ==
  ASSUME TypeOK, ThreadInv, LinkInv, [Next]_vars
  PROVE  LinkInv'
<1> SUFFICES ASSUME fault' = "none" PROVE LinkCore'
  BY DEF LinkInv
<1>1. CASE UNCHANGED vars
  <2>1. LinkCore
    BY <1>1 DEF vars, LinkInv
  <2> QED
    BY <1>1, <2>1, SameFramesLink
       DEF vars, ringVars, promiseVars, awaiterVars, loopVars
<1>2. CASE Next
  <2>1. ControlInv /\ OrderInv /\ LinkCore
    BY <1>2, NoFaultBefore DEF ThreadInv, LinkInv
  <2>2. CASE UserStep
    <3>1. ASSUME NEW a \in Actor, NEW x \in Task,
                 Launch(a, x) \/ LaunchDetached(a, x)
          PROVE  LinkCore'
      BY <2>1, <3>1, StartLink DEF Launch, LaunchDetached
    <3>2. ASSUME NEW x \in Task, BlockRun(x) PROVE LinkCore'
      BY <2>1, <3>2, StartLink DEF BlockRun, Actor
    <3>3. ASSUME NEW t \in Task, NEW x \in Task, AwaitReady(t, x) PROVE LinkCore'
      BY <2>1, <3>3, SameFramesLink DEF AwaitReady, promiseVars
    <3>4. ASSUME NEW t \in Task, IoRejected(t) PROVE LinkCore'
      BY <2>1, <3>4, SameFramesLink DEF IoRejected, promiseVars
    <3>5. ASSUME NEW a \in Actor, NEW x \in Task, Create(a, x) \/ Drop(a, x)
          PROVE  LinkCore'
      BY <2>1, <3>5, CreateLink, DropLink
    <3>6. ASSUME NEW t \in Task, NEW x \in Task, AwaitStart(t, x) PROVE LinkCore'
      BY <2>1, <3>6, AwaitStartLink
    <3>7. ASSUME NEW t \in Task, NEW o \in Op, IoPrepare(t, o) PROVE LinkCore'
      BY <2>1, <3>7, PrepareLink
    <3> QED
      BY <2>2, <3>1, <3>2, <3>3, <3>4, <3>5, <3>6, <3>7 DEF UserStep
  <2>3. CASE Yield
    <3>1. ASSUME NEW t \in Task, NEW x \in Task, AwaitDaemon(t, x)
          PROVE  LinkCore'
      BY <2>1, <3>1, AwaitDaemonLink
    <3>2. ASSUME NEW t \in Task, NEW x \in Task, AwaitStarted(t, x) PROVE FALSE
      BY <3>2 DEF AwaitStarted
    <3>3. ASSUME NEW t \in Task, NEW o \in Op, IoAwait(t, o) \/ IoAwaitPrepared(t, o)
          PROVE  LinkCore'
      BY <2>1, <3>3, SuspendLink
    <3>4. ASSUME NEW t \in Task, NEW out \in Out,
                 \/ FinishToCaller(t, out)
                 \/ FinishDaemon(t, out)
                 \/ FinishRoot(t, out)
          PROVE  LinkCore'
      BY <2>1, <3>4, FinishToCallerLink, FinishDaemonLink, FinishRootLink
    <3> QED
      BY <2>3, <3>1, <3>2, <3>3, <3>4 DEF Yield
  <2>4. CASE LoopStep
    <3>1. ASSUME NEW o \in Op, Resume(o) PROVE LinkCore'
      BY <2>1, <3>1, ResumeLink
    <3> QED
      BY <2>1, <2>4, <3>1, LoopRunLink, ResumeStopLink, CqeSeenLink DEF LoopStep
  <2>5. ASSUME NEW r \in Request, Complete(r) PROVE LinkCore'
    BY <2>1, <2>5, CompleteLink
  <2> QED
    BY <1>2, <2>2, <2>3, <2>4, <2>5 DEF Next
<1> QED
  BY <1>1, <1>2

(* Nobody waits for anything at the start.                                 *)
LEMMA LinkInit == Init => LinkInv
<1> SUFFICES ASSUME Init PROVE LinkCore
  BY DEF LinkInv
<1>1. Pending = {} /\ InRing = {} /\ DOMAIN cq = {}
  BY DEF Init, RingInit, Pending, InRing, Completed
<1>2. OnePlace /\ CallerInv /\ HandleInv
  BY <1>1 DEF Init, RingInit, OnePlace, CallerInv, HandleInv, Completed, Started
<1>3. RootInv
  BY <1>1, RuntimeAssumption DEF Init, RingInit, RootInv, Started
<1> QED
  BY <1>2, <1>3 DEF LinkCore

(* The links are right until undefined behaviour is reached.               *)
LEMMA LinkAlways == Spec => []LinkInv
BY LinkInit, LinkStep, ThreadAlways, TypeCorrect, PTL DEF Spec

(* What a step that runs into undefined behaviour leaves as it was.        *)
LEMMA FaultingStep ==
  ASSUME TypeOK, ControlInv, LinkCore, SqInv, Next, fault' # "none"
  PROVE  /\ FaultHasCause'
         /\ InRing' = InRing /\ root' = root
         /\ loop # "idle" => loop' # "idle"
         /\ \A y \in Task : frame[y] = "destroyed" => frame'[y] = "destroyed"
         /\ \A y \in Task : frame[y] = "suspended" /\ frame'[y] = "running" => FALSE
<1>0. fault = "none"
  BY NoFaultBefore
<1> SUFFICES ASSUME \/ \E t, x \in Task : AwaitStarted(t, x)
                    \/ \E t \in Task, out \in Out :
                         FinishToCaller(t, out) \/ FinishRoot(t, out)
                    \/ \E o \in Op : Resume(o)
             PROVE  /\ FaultHasCause'
                    /\ InRing' = InRing /\ root' = root
                    /\ loop # "idle" => loop' # "idle"
                    /\ \A y \in Task :
                         frame[y] = "destroyed" => frame'[y] = "destroyed"
                    /\ \A y \in Task :
                         frame[y] = "suspended" /\ frame'[y] = "running" => FALSE
  BY <1>0 DEF Next, UserStep, Yield, LoopStep, Create, Drop, Launch,
     LaunchDetached, BlockRun, Start, AwaitReady, AwaitStart, IoRejected,
     IoPrepare, AwaitDaemon, IoAwait, IoAwaitPrepared, SuspendOnIo,
     FinishDaemon, LoopRun, ResumeStop, CqeSeen, Complete
<1>1. ASSUME NEW t \in Task, NEW x \in Task, AwaitStarted(t, x)
      PROVE  /\ FaultHasCause'
             /\ UNCHANGED <<ringVars, root, loop, frame>>
  BY <1>1 DEF AwaitStarted, FaultHasCause, loopVars
<1>2. ASSUME NEW t \in Task, NEW out \in Out, FinishToCaller(t, out)
      PROVE  /\ FaultHasCause'
             /\ UNCHANGED <<ringVars, root, loop>>
             /\ \A y \in Task :
                  /\ frame[y] = "destroyed" => frame'[y] = "destroyed"
                  /\ frame[y] = "suspended" => frame'[y] # "running"
  <2> DEFINE D == Locals(t)
             F == Destroyed(D)
  <2>1. PICK c \in Task : c = caller[t]
    BY <1>2 DEF FinishToCaller, TypeOK
  <2>2. /\ cur = t /\ caller[t] # None
        /\ breach' = breach \cup DropBreach(D)
        /\ UNCHANGED <<ringVars, root, loop>>
    BY <1>2 DEF FinishToCaller, EndBody, Executes, loopVars
  <2>3. frame[t] = "running"
    BY <2>2 DEF ControlInv
  <2>4. WaitsOrLost(c, t)
    BY <2>1, <2>2, <2>3 DEF LinkCore, CallerInv, Started
  <2>5. F[c] = "destroyed"
    BY <1>2, <2>1, <2>4 DEF FinishToCaller, WaitsOrLost, Destroyed
  <2>6. fault' = "use_after_free" /\ frame' = [F EXCEPT ![t] = "final"]
    BY <1>2, <2>1, <2>5 DEF FinishToCaller
  <2>7. "drop" \in breach'
    BY <2>2, <2>4, <2>5 DEF WaitsOrLost, Destroyed, DropBreach, Started
  <2>8. \A y \in Task : frame'[y] \in {frame[y], "final", "destroyed"}
    BY <2>6 DEF Destroyed
  <2>9. \A y \in Task : frame[y] = "destroyed" => frame'[y] = "destroyed"
    BY <2>3, <2>6 DEF Destroyed
  <2> QED
    BY <2>2, <2>6, <2>7, <2>8, <2>9 DEF FaultHasCause
<1>3. ASSUME NEW t \in Task, NEW out \in Out, FinishRoot(t, out)
      PROVE  /\ FaultHasCause'
             /\ UNCHANGED <<ringVars, root, loop>>
             /\ \A y \in Task :
                  /\ frame[y] = "destroyed" => frame'[y] = "destroyed"
                  /\ frame[y] = "suspended" => frame'[y] # "running"
  <2>1. /\ SqFull /\ fault' = "null_sqe" /\ UNCHANGED ringVars
        /\ breach \subseteq breach'
    BY <1>0, <1>3 DEF FinishRoot
  <2>2. frame' = Destroyed(Doomed(t)) /\ UNCHANGED <<root, loop>>
    BY <1>3 DEF FinishRoot, EndBody, loopVars
  <2>3. breach \cap {"submit", "early"} # {}
    BY <2>1, FS_EmptySet, UringAssumption DEF SqInv, SqFull
  <2> QED
    BY <2>1, <2>2, <2>3 DEF FaultHasCause, Destroyed
<1>4. ASSUME NEW o \in Op, Resume(o)
      PROVE  /\ FaultHasCause'
             /\ UNCHANGED <<ringVars, root, frame>> /\ loop' = "resuming"
  BY <1>4, ResumedWaits DEF Resume, FaultHasCause
<1> QED
  BY <1>1, <1>2, <1>3, <1>4 DEF InRing, Completed, ringVars

(* What is known of the state a step starts from.                          *)
LEMMA CoreNow ==
  ASSUME ThreadInv, LinkInv, Next
  PROVE  ControlInv /\ OrderInv /\ LinkCore
BY NoFaultBefore DEF ThreadInv, LinkInv

(* Undefined behaviour has its cause in what the program did: the loop     *)
(* touches a freed awaiter, or final_suspend a freed caller_, only after a *)
(* started task was dropped; a null handle_ is resumed only if an awaiter  *)
(* was constructed ahead of its co_await, a wrong coroutine only if a      *)
(* started task was awaited again; finish() finds the SQ full only if      *)
(* entries were left in it.                                                *)
THEOREM FaultsHaveCauses == Spec => []FaultHasCause
<1>1. Init => FaultHasCause
  BY DEF Init, FaultHasCause
<1>2. ASSUME TypeOK, SqInv, ThreadInv, LinkInv, FaultHasCause, [Next]_vars
      PROVE  FaultHasCause'
  <2>1. CASE UNCHANGED vars
    BY <1>2, <2>1 DEF vars, FaultHasCause
  <2>2. CASE Next
    <3>1. CASE fault' = "none"
      BY <3>1 DEF FaultHasCause
    <3>2. CASE fault' # "none"
      BY <1>2, <2>2, <3>2, CoreNow, FaultingStep
    <3> QED
      BY <3>1, <3>2
  <2> QED
    BY <1>2, <2>1, <2>2
<1> QED
  BY <1>1, <1>2, TypeCorrect, SqAlways, ThreadAlways, LinkAlways, PTL DEF Spec

(* The stop request is in the ring only on behalf of the root that has     *)
(* finished, so that none is left over for the next block_run, whatever    *)
(* the program does.                                                       *)
THEOREM StopBelongsToRoot == Spec => []StopIsRoots
<1>1. Init => StopIsRoots
  BY DEF Init, RingInit, StopIsRoots, InRing, Completed
<1>2. ASSUME TypeOK, SqInv, ThreadInv, LinkInv, LinkInv', StopIsRoots, [Next]_vars
      PROVE  StopIsRoots'
  <2>1. CASE UNCHANGED vars
    BY <1>2, <2>1 DEF vars, ringVars, loopVars, StopIsRoots, InRing, Completed
  <2>2. CASE Next
    <3>1. CASE fault' = "none"
      BY <1>2, <3>1 DEF LinkInv, LinkCore, RootInv, StopIsRoots
    <3>2. CASE fault' # "none"
      BY <1>2, <2>2, <3>2, CoreNow, FaultingStep DEF StopIsRoots, TypeOK
    <3> QED
      BY <3>1, <3>2
  <2> QED
    BY <1>2, <2>1, <2>2
<1> QED
  BY <1>1, <1>2, TypeCorrect, SqAlways, ThreadAlways, LinkAlways, PTL DEF Spec

(* block_run returns only when its root has finished and is destroyed: of  *)
(* all steps only CqeSeen leaves the loop, and only after the stop         *)
(* request.                                                                *)
THEOREM BlockRunOutlivesRoot == Spec => BlockRunWaitsForRoot
<1>1. ASSUME TypeOK, ThreadInv, LinkInv, [Next]_vars
      PROVE  [loop # "idle" /\ loop' = "idle" => frame[root] = "destroyed"]_vars
  <2> SUFFICES ASSUME loop # "idle", loop' = "idle"
               PROVE  frame[root] = "destroyed"
    OBVIOUS
  <2>1. CqeSeen
    <3>1. ~UNCHANGED vars
      BY DEF vars, loopVars
    <3>2. ~UserStep
      BY DEF UserStep, Create, Drop, Launch, LaunchDetached, BlockRun, Start,
         AwaitReady, AwaitStart, IoRejected, IoPrepare, loopVars
    <3>3. ~Yield
      BY DEF Yield, AwaitDaemon, AwaitStarted, IoAwait, IoAwaitPrepared,
         SuspendOnIo, FinishToCaller, FinishDaemon, FinishRoot, EndBody, loopVars
    <3>4. ~LoopRun /\ ~ResumeStop /\ \A o \in Op : ~Resume(o)
      BY DEF LoopRun, ResumeStop, Resume
    <3>5. \A r \in Request : ~Complete(r)
      BY DEF Complete, loopVars
    <3> QED
      BY <1>1, <3>1, <3>2, <3>3, <3>4, <3>5 DEF Next, LoopStep
  <2>2. RootInv
    BY <1>1, <2>1, NoFaultBefore DEF CqeSeen, LinkInv, LinkCore
  <2>3. cq # <<>> /\ cq[1] = Stop
    BY <2>1, <2>2 DEF CqeSeen, RootInv
  <2>4. Stop \in InRing
    BY <1>1, <2>3 DEF InRing, Completed, TypeOK, RingTypeOK
  <2> QED
    BY <2>2, <2>4 DEF RootInv
<1>2. Spec => [][loop # "idle" /\ loop' = "idle" => frame[root] = "destroyed"]_vars
  BY <1>1, TypeCorrect, ThreadAlways, LinkAlways, PTL DEF Spec
<1> QED
  BY <1>2 DEF BlockRunWaitsForRoot

-----------------------------------------------------------------------------
(* Everything that goes with x, except x itself, is held by a task object. *)
LEMMA DoomedHeld ==
  ASSUME TypeOK, NEW x \in Task
  PROVE  \A y \in Doomed(x) : y = x \/ holder[y] # None
<1> DEFINE S == {x} \cup {z \in Task : holder[z] # None}
<1>1. S \in SUBSET Task /\ x \in S
  OBVIOUS
<1>2. \A z \in Task : holder[z] \in S => z \in S
  BY RuntimeAssumption
<1> HIDE DEF S
<1>3. \A y \in Doomed(x) : y \in S
  BY <1>1, <1>2 DEF Doomed
<1> QED
  BY <1>3 DEF S

LEMMA DoomedSelf == \A x \in Task : x \in Doomed(x)
BY DEF Doomed

-----------------------------------------------------------------------------
(***************************************************************************)
(* What a broken rule may lose, and nothing else.                          *)
(***************************************************************************)

(* What t waits for is under way and leads back to t, or a rule that loses *)
(* it has been broken.                                                     *)
Waiting(t) ==
  \/ /\ awaits[t] \in (sq \cup Pending) \cap Op
     /\ handle[awaits[t]] = t /\ frameOf[awaits[t]] = t
     /\ awaits[t] \in sq => "submit" \in breach
  \/ WokenByTask(t)
  \/ awaits[t] \in Task /\ breach \cap {"share", "drop"} # {}

SleepInv == \A t \in Task : frame[t] = "suspended" => Waiting(t)

(* The completion the loop works on: its awaiter has a handle_, so that no *)
(* co_await takes it for a prepared one, and the stop request ends run.    *)
HeadInv ==
  loop = "resuming" =>
    /\ cq[1] = Stop => ~running_
    /\ cq[1] \in Op => handle[cq[1]] # None

(* Nobody owns the root, so that only its own end destroys it.             *)
RootHeld ==
  root # None =>
    /\ holder[root] = None /\ frame[root] # "none"
    /\ frame[root] = "destroyed" =>
         Stop \in InRing /\ (Stop \in sq => "submit" \in breach)

LossCore == SleepInv /\ HeadInv /\ RootHeld

LossInv == fault = "none" => LossCore

(* A coroutine goes on waiting as long as what it waits for leads to it.   *)
LEMMA StillWaits ==
  ASSUME TypeOK, SleepInv, breach \subseteq breach',
         \A y \in Task : frame'[y] = "suspended" =>
           Waiting(y)' \/ (frame[y] = "suspended" /\ awaits'[y] = awaits[y]),
         \A o \in (sq \cup Pending) \cap Op :
           handle[o] \in Task /\ frame'[handle[o]] = "suspended" =>
             /\ o \in (sq \cup Pending)'
             /\ handle'[o] = handle[o] /\ frameOf'[o] = frameOf[o]
             /\ o \in sq' => o \in sq \/ "submit" \in breach',
         \A x \in Task :
           Started(x) /\ caller[x] \in Task /\ frame'[caller[x]] = "suspended" =>
             \/ Started(x)' /\ caller'[x] = caller[x]
             \/ breach' \cap {"share", "drop"} # {}
  PROVE  SleepInv'
<1> SUFFICES ASSUME NEW y \in Task, frame'[y] = "suspended",
                    frame[y] = "suspended", awaits'[y] = awaits[y]
             PROVE  Waiting(y)'
  BY DEF SleepInv
<1>1. Waiting(y)
  BY DEF SleepInv
<1>2. CASE /\ awaits[y] \in (sq \cup Pending) \cap Op
           /\ handle[awaits[y]] = y /\ frameOf[awaits[y]] = y
           /\ awaits[y] \in sq => "submit" \in breach
  BY <1>2 DEF Waiting
<1>3. CASE WokenByTask(y)
  <2>1. PICK x \in Task : x = awaits[y] /\ Started(x) /\ caller[x] = y
    BY <1>3 DEF WokenByTask
  <2>2. CASE Started(x)' /\ caller'[x] = caller[x]
    BY <2>1, <2>2 DEF Waiting, WokenByTask, Started
  <2>3. CASE breach' \cap {"share", "drop"} # {}
    BY <2>1, <2>3 DEF Waiting
  <2> QED
    BY <2>1, <2>2, <2>3
<1>4. CASE awaits[y] \in Task /\ breach \cap {"share", "drop"} # {}
  BY <1>4 DEF Waiting
<1> QED
  BY <1>1, <1>2, <1>3, <1>4 DEF Waiting

(* A step that leaves the requests, the awaiters and the promises alone    *)
(* and makes nobody wait.                                                  *)
LEMMA QuietSleep ==
  ASSUME TypeOK, SleepInv, breach \subseteq breach',
         UNCHANGED <<sq, handle, frameOf, caller>>,
         Pending \cap Op \subseteq Pending',
         \A y \in Task : frame'[y] = "suspended" =>
           frame[y] = "suspended" /\ awaits'[y] = awaits[y],
         \A x \in Task : Started(x) /\ caller[x] \in Task =>
           Started(x)' \/ "drop" \in breach'
  PROVE  SleepInv'
<1>1. \A o \in (sq \cup Pending) \cap Op :
        /\ o \in (sq \cup Pending)'
        /\ handle'[o] = handle[o] /\ frameOf'[o] = frameOf[o]
        /\ o \in sq' => o \in sq
  OBVIOUS
<1> QED
  BY <1>1, StillWaits

(* The root stays as it is, and so does its stop request.                  *)
LEMMA RootStays ==
  ASSUME RootHeld, root' = root, breach \subseteq breach',
         root # None =>
           /\ holder'[root] = None
           /\ frame'[root] = frame[root]
                \/ frame'[root] \notin {"none", "destroyed"},
         Stop \in InRing => Stop \in InRing',
         Stop \in sq' => Stop \in sq \/ "submit" \in breach'
  PROVE  RootHeld'
BY DEF RootHeld

(* Frames that go with a frame somebody owns, or that are among its        *)
(* locals, are not the root.                                               *)
LEMMA RootNotDoomed ==
  ASSUME TypeOK, RootHeld, root # None, NEW x \in Task
  PROVE  root \in Doomed(x) => x = root
BY DoomedHeld DEF RootHeld

-----------------------------------------------------------------------------
(* Steps of user code that keep control.                                   *)
LEMMA UserLoss ==
  ASSUME TypeOK, ControlInv, OrderInv, LinkCore, LossCore, UserStep
  PROVE  LossCore'
<1> USE DEF ringVars, promiseVars, awaiterVars, loopVars
<1>1. ASSUME NEW a \in Actor, NEW x \in Task, Create(a, x) PROVE LossCore'
  <2>1. /\ frame[x] = "none" /\ frame' = [frame EXCEPT ![x] = "initial"]
        /\ holder' = [holder EXCEPT ![x] = a]
        /\ UNCHANGED <<ringVars, promiseVars, awaits, awaiterVars, loopVars,
                       breach>>
    BY <1>1 DEF Create
  <2>2. Pending' = Pending /\ InRing' = InRing
    BY <2>1, SamePending DEF InRing, Completed
  <2>3. \A y \in Task : y # x => frame'[y] = frame[y] /\ holder'[y] = holder[y]
    BY <2>1 DEF TypeOK
  <2>4. frame'[x] = "initial"
    BY <2>1 DEF TypeOK
  <2>5. SleepInv'
    BY <2>1, <2>2, <2>3, <2>4, QuietSleep DEF LossCore, Started
  <2>6. HeadInv'
    BY <2>1 DEF LossCore, HeadInv
  <2>7. root # None => root \in Task /\ root # x
    BY <2>1 DEF LossCore, RootHeld, TypeOK
  <2>8. RootHeld'
    BY <2>1, <2>2, <2>3, <2>7, RootStays DEF LossCore, RootHeld
  <2> QED
    BY <2>5, <2>6, <2>8 DEF LossCore
<1>2. ASSUME NEW a \in Actor, NEW x \in Task, Drop(a, x) PROVE LossCore'
  <2> DEFINE D == Doomed(x)
  <2>1. /\ frame' = Destroyed(D) /\ holder' = Released(D)
        /\ breach' = breach \cup DropBreach(D) /\ holder[x] = a
        /\ UNCHANGED <<ringVars, promiseVars, awaits, awaiterVars, loopVars>>
    BY <1>2 DEF Drop
  <2>2. Pending' = Pending /\ InRing' = InRing
    BY <2>1, SamePending DEF InRing, Completed
  <2>3. a # None
    BY RuntimeAssumption DEF Actor
  <2>4. root # None => root \in Task /\ root \notin D
    BY <2>1, <2>3, RootNotDoomed DEF LossCore, RootHeld, TypeOK
  <2> HIDE DEF D
  <2>5. /\ \A y \in Task : frame'[y] = IF y \in D THEN "destroyed" ELSE frame[y]
        /\ \A y \in Task : holder'[y] = IF y \in D THEN None ELSE holder[y]
    BY <2>1 DEF Destroyed, Released
  <2>6. \A y \in D : Started(y) => "drop" \in breach'
    BY <2>1 DEF DropBreach
  <2>7. SleepInv'
    BY <2>1, <2>2, <2>5, <2>6, QuietSleep DEF LossCore, Started
  <2>8. HeadInv'
    BY <2>1 DEF LossCore, HeadInv
  <2>9. RootHeld'
    BY <2>1, <2>2, <2>4, <2>5, RootStays DEF LossCore, RootHeld
  <2> QED
    BY <2>7, <2>8, <2>9 DEF LossCore
<1>3. ASSUME NEW a \in Actor, NEW x \in Task, NEW isDaemon \in BOOLEAN,
             Start(a, x, isDaemon),
             holder' \in {holder, [holder EXCEPT ![x] = None]},
             \/ UNCHANGED <<loop, root>>
             \/ /\ a = Main /\ loop' = "entering" /\ root' = x
                /\ holder' = [holder EXCEPT ![x] = None]
      PROVE  LossCore'
  <2>1. /\ frame[x] = "initial" /\ frame' = [frame EXCEPT ![x] = "running"]
        /\ loop' = "resuming" <=> loop = "resuming"
        /\ UNCHANGED <<ringVars, caller, awaits, awaiterVars, running_, breach>>
    BY <1>3 DEF Start, Executes
  <2>2. Pending' = Pending /\ InRing' = InRing
    BY <2>1, SamePending DEF InRing, Completed
  <2>3. /\ frame'[x] = "running"
        /\ \A y \in Task : y # x => frame'[y] = frame[y]
        /\ \A y \in Task : holder[y] = None => holder'[y] = None
    BY <1>3, <2>1 DEF TypeOK
  <2>4. SleepInv'
    BY <2>1, <2>2, <2>3, QuietSleep DEF LossCore, Started
  <2>5. HeadInv'
    BY <2>1 DEF LossCore, HeadInv
  <2>6. RootHeld'
    <3>1. CASE UNCHANGED <<loop, root>>
      <4>1. root # None => root \in Task
        BY DEF TypeOK
      <4>2. root # None =>
              /\ holder'[root] = None
              /\ frame'[root] = frame[root] \/ frame'[root] = "running"
        BY <2>3, <4>1 DEF LossCore, RootHeld
      <4> QED
        BY <2>1, <2>2, <3>1, <4>2, RootStays DEF LossCore
    <3>2. CASE root' = x /\ holder' = [holder EXCEPT ![x] = None]
      <4>1. holder'[x] = None
        BY <3>2 DEF TypeOK
      <4> QED
        BY <2>3, <3>2, <4>1 DEF RootHeld
    <3> QED
      BY <1>3, <3>1, <3>2
  <2> QED
    BY <2>4, <2>5, <2>6 DEF LossCore
<1>4. ASSUME UNCHANGED <<ringVars, frame, caller, awaits, awaiterVars,
                         loopVars, breach>>,
             \A y \in Task : holder[y] = None => holder'[y] = None
      PROVE  LossCore'
  <2>1. Pending' = Pending /\ InRing' = InRing
    BY <1>4, SamePending DEF InRing, Completed
  <2>2. SleepInv'
    BY <1>4, <2>1, QuietSleep DEF LossCore, Started
  <2>3. HeadInv'
    BY <1>4 DEF LossCore, HeadInv
  <2>4. root # None => root \in Task
    BY DEF TypeOK
  <2>5. RootHeld'
    BY <1>4, <2>1, <2>4, RootStays DEF LossCore, RootHeld
  <2> QED
    BY <2>2, <2>3, <2>5 DEF LossCore
<1>5. ASSUME NEW t \in Task, NEW x \in Task, AwaitReady(t, x) PROVE LossCore'
  <2>1. \A y \in Task : holder[y] = None => holder'[y] = None
    BY <1>5 DEF AwaitReady, TakeHandle, TypeOK
  <2> QED
    BY <1>4, <1>5, <2>1 DEF AwaitReady
<1>6. ASSUME NEW t \in Task, IoRejected(t) PROVE LossCore'
  BY <1>4, <1>6 DEF IoRejected
<1>7. ASSUME NEW t \in Task, NEW x \in Task, AwaitStart(t, x) PROVE LossCore'
  <2>1. /\ t # x /\ cur = t /\ frame[x] = "initial"
        /\ frame' = [frame EXCEPT ![t] = "suspended", ![x] = "running"]
        /\ caller' = [caller EXCEPT ![x] = t]
        /\ awaits' = [awaits EXCEPT ![t] = x]
        /\ holder' \in {holder, [holder EXCEPT ![x] = None]}
        /\ UNCHANGED <<ringVars, awaiterVars, loopVars, breach>>
    BY <1>7 DEF AwaitStart, MayAwait, Executes, LinkCaller, TakeHandle
  <2>2. Pending' = Pending /\ InRing' = InRing
    BY <2>1, SamePending DEF InRing, Completed
  <2>3. /\ frame'[t] = "suspended" /\ frame'[x] = "running"
        /\ \A y \in Task \ {t, x} : frame'[y] = frame[y]
        /\ \A y \in Task \ {t} : awaits'[y] = awaits[y]
        /\ \A y \in Task \ {x} : caller'[y] = caller[y]
        /\ \A y \in Task : holder[y] = None => holder'[y] = None
        /\ awaits'[t] = x /\ caller'[x] = t
    BY <2>1 DEF TypeOK
  <2>4. Waiting(t)'
    BY <2>3 DEF Waiting, WokenByTask, Started
  <2>5. SleepInv'
    <3>1. \A y \in Task : frame'[y] = "suspended" =>
            Waiting(y)' \/ (frame[y] = "suspended" /\ awaits'[y] = awaits[y])
      BY <2>3, <2>4
    <3>2. \A y \in Task : Started(y) => Started(y)' /\ caller'[y] = caller[y]
      BY <2>1, <2>3 DEF Started
    <3> QED
      BY <2>1, <2>2, <3>1, <3>2, StillWaits DEF LossCore
  <2>6. HeadInv'
    BY <2>1 DEF LossCore, HeadInv
  <2>7. root # None => root \in Task
    BY DEF TypeOK
  <2>8. RootHeld'
    <3>1. root # None =>
            /\ holder'[root] = None
            /\ frame'[root] = frame[root]
                 \/ frame'[root] \notin {"none", "destroyed"}
      BY <2>3, <2>7 DEF LossCore, RootHeld
    <3> QED
      BY <2>1, <2>2, <3>1, RootStays DEF LossCore
  <2> QED
    BY <2>5, <2>6, <2>8 DEF LossCore
<1>8. ASSUME NEW t \in Task, NEW o \in Op, IoPrepare(t, o) PROVE LossCore'
  <2>1. /\ o \notin InRing /\ sq' = sq \cup {o}
        /\ frameOf' = [frameOf EXCEPT ![o] = t]
        /\ handle' = [handle EXCEPT ![o] = None]
        /\ breach \subseteq breach'
        /\ UNCHANGED <<flight, cq, frame, promiseVars, holder, awaits, loopVars>>
    BY <1>8 DEF IoPrepare, Fresh
  <2>2. Pending' = Pending /\ InRing' = InRing \cup {o} /\ sq \cup Pending \subseteq InRing
    BY <2>1, SamePending DEF InRing, Completed, Pending
  <2>3. \A p \in Op \ {o} : handle'[p] = handle[p] /\ frameOf'[p] = frameOf[p]
    BY <2>1 DEF TypeOK
  <2>4. SleepInv'
    <3>1. \A p \in (sq \cup Pending) \cap Op :
            /\ p \in (sq \cup Pending)'
            /\ handle'[p] = handle[p] /\ frameOf'[p] = frameOf[p]
            /\ p \in sq' => p \in sq
      BY <2>1, <2>2, <2>3
    <3> QED
      BY <2>1, <3>1, StillWaits DEF LossCore, Started
  <2>5. HeadInv'
    <3>1. loop = "resuming" => cq[1] \in InRing
      BY DEF LinkCore, RootInv, InRing, Completed, TypeOK, RingTypeOK
    <3> QED
      BY <2>1, <2>3, <3>1 DEF LossCore, HeadInv
  <2>6. Stop # o
    BY UringAssumption
  <2>7. RootHeld'
    BY <2>1, <2>2, <2>6, RootStays DEF LossCore, RootHeld
  <2> QED
    BY <2>4, <2>5, <2>7 DEF LossCore
<1>9. ASSUME NEW a \in Actor, NEW x \in Task,
             Launch(a, x) \/ LaunchDetached(a, x) \/ BlockRun(x)
      PROVE  LossCore'
  BY <1>3, <1>9 DEF Launch, LaunchDetached, BlockRun, Actor
<1> QED
  BY <1>1, <1>2, <1>5, <1>6, <1>7, <1>8, <1>9 DEF UserStep, Actor

(* co_await of a launched task: it may push another coroutine out of       *)
(* caller_.                                                                *)
LEMMA AwaitDaemonLoss ==
  ASSUME TypeOK, ControlInv, LinkCore, LossCore,
         NEW t \in Task, NEW x \in Task, AwaitDaemon(t, x)
  PROVE  LossCore'
<1> USE DEF ringVars, promiseVars, awaiterVars, loopVars
<1>1. /\ t # x /\ cur = t /\ Started(x)
      /\ frame' = [frame EXCEPT ![t] = "suspended"]
      /\ caller' = [caller EXCEPT ![x] = t]
      /\ awaits' = [awaits EXCEPT ![t] = x]
      /\ holder' \in {holder, [holder EXCEPT ![x] = None]}
      /\ breach \subseteq breach'
      /\ caller[x] # None => "share" \in breach'
      /\ UNCHANGED <<ringVars, awaiterVars, loopVars>>
  BY DEF AwaitDaemon, MayAwait, Executes, LinkCaller, TakeHandle
<1>2. Pending' = Pending /\ InRing' = InRing
  BY <1>1, SamePending DEF InRing, Completed
<1>3. /\ frame'[t] = "suspended" /\ frame[t] = "running"
      /\ \A y \in Task \ {t} : frame'[y] = frame[y]
      /\ \A y \in Task \ {t} : awaits'[y] = awaits[y]
      /\ \A y \in Task \ {x} : caller'[y] = caller[y]
      /\ \A y \in Task : holder[y] = None => holder'[y] = None
      /\ awaits'[t] = x /\ caller'[x] = t
  BY <1>1 DEF TypeOK, ControlInv
<1>4. Waiting(t)'
  BY <1>1, <1>3 DEF Waiting, WokenByTask, Started
<1>5. SleepInv'
  <2>1. \A y \in Task : frame'[y] = "suspended" =>
          Waiting(y)' \/ (frame[y] = "suspended" /\ awaits'[y] = awaits[y])
    BY <1>3, <1>4
  <2>2. \A y \in Task : Started(y) /\ caller[y] \in Task =>
          \/ Started(y)' /\ caller'[y] = caller[y]
          \/ breach' \cap {"share", "drop"} # {}
    BY <1>1, <1>3, RuntimeAssumption DEF Started
  <2> QED
    BY <1>1, <1>2, <2>1, <2>2, StillWaits DEF LossCore
<1>6. HeadInv'
  BY <1>1 DEF LossCore, HeadInv
<1>7. root # None => root \in Task
  BY DEF TypeOK
<1>8. root # None => /\ holder'[root] = None
                     /\ frame'[root] = frame[root] \/ frame'[root] = "suspended"
  BY <1>3, <1>7 DEF LossCore, RootHeld
<1>9. RootHeld'
  BY <1>1, <1>2, <1>8, RootStays DEF LossCore
<1> QED
  BY <1>5, <1>6, <1>9 DEF LossCore

(* co_await of an awaiter of the ring: its entry is on the way, or left in *)
(* the SQ by the submission.                                               *)
LEMMA SuspendLoss ==
  ASSUME TypeOK, ControlInv, LinkCore, LossCore, NEW t \in Task, NEW o \in Op,
         IoAwait(t, o) \/ IoAwaitPrepared(t, o)
  PROVE  LossCore'
<1> USE DEF promiseVars, loopVars
<1>1. PICK entries :
        /\ SuspendOnIo(t, o, entries) /\ cur = t
        /\ \/ entries = sq \cup {o} /\ o \notin InRing
              /\ frameOf' = [frameOf EXCEPT ![o] = t]
           \/ entries = sq /\ frameOf[o] = t /\ frameOf' = frameOf
              /\ o \in InRing /\ handle[o] = None
  BY DEF IoAwait, IoAwaitPrepared, Executes, Fresh
<1>2. PICK taken \in Takes(entries) :
        Submit(entries, taken) /\ breach' = breach \cup SubmitBreach(entries, taken)
  BY <1>1 DEF SuspendOnIo
<1>3. /\ handle' = [handle EXCEPT ![o] = t]
      /\ frame' = [frame EXCEPT ![t] = "suspended"]
      /\ awaits' = [awaits EXCEPT ![t] = o]
      /\ UNCHANGED <<caller, holder, loop, running_, root>>
  BY <1>1 DEF SuspendOnIo
<1>4. frame[t] = "running"
  BY <1>1 DEF ControlInv
<1>5. entries \cap flight = {} /\ entries \cap Completed = {}
  BY <1>1 DEF LinkCore, OnePlace, InRing
<1>6. OnePlace' /\ sq' \cup flight' = entries \cup flight /\ cq' = cq
  BY <1>2, <1>5, SubmitPlace DEF LinkCore
<1>7. sq' # {} => "submit" \in breach'
  BY <1>2 DEF Submit, SubmitBreach
<1>8. (sq \cup Pending)' = entries \cup Pending
  <2>1. (sq \cup Pending)' = sq' \cup flight'
          \cup {cq[i] : i \in {j \in DOMAIN cq : j = 1 => loop # "resuming"}}
    BY <1>3, <1>6 DEF Pending
  <2> QED
    BY <1>6, <2>1 DEF Pending
<1>9. o \in (sq \cup Pending)'
  <2>1. CASE o \in entries
    BY <1>8, <2>1
  <2>2. CASE o \in InRing /\ handle[o] = None /\ o \notin sq
    <3>1. CASE o \in flight
      BY <1>8, <3>1 DEF Pending
    <3>2. CASE o \in Completed
      <4>1. PICK i \in DOMAIN cq : cq[i] = o
        BY <3>2 DEF Completed
      <4>2. i = 1 => loop # "resuming"
        BY <2>2, <4>1 DEF LossCore, HeadInv
      <4> QED
        BY <1>8, <4>1, <4>2 DEF Pending
    <3> QED
      BY <2>2, <3>1, <3>2 DEF InRing
  <2> QED
    BY <1>1, <2>1, <2>2
<1>10. /\ frame'[t] = "suspended" /\ awaits'[t] = o
       /\ handle'[o] = t /\ frameOf'[o] = t
       /\ \A y \in Task \ {t} : frame'[y] = frame[y] /\ awaits'[y] = awaits[y]
       /\ \A p \in Op \ {o} : handle'[p] = handle[p] /\ frameOf'[p] = frameOf[p]
  BY <1>1, <1>3 DEF TypeOK
<1>11. breach \subseteq breach'
  BY <1>2
<1>12. Waiting(t)'
  BY <1>7, <1>9, <1>10 DEF Waiting
<1>13. SleepInv'
  <2>1. \A y \in Task : frame'[y] = "suspended" =>
          Waiting(y)' \/ (frame[y] = "suspended" /\ awaits'[y] = awaits[y])
    BY <1>10, <1>12
  <2>2. \A p \in (sq \cup Pending) \cap Op :
          handle[p] \in Task /\ frame'[handle[p]] = "suspended" =>
            /\ p \in (sq \cup Pending)'
            /\ handle'[p] = handle[p] /\ frameOf'[p] = frameOf[p]
            /\ p \in sq' => p \in sq \/ "submit" \in breach'
    <3>1. \A p \in sq \cup Pending : p = o => handle[p] = None
      BY <1>1 DEF InRing, Pending, Completed
    <3>2. \A p \in sq \cup Pending : p \in (sq \cup Pending)'
      BY <1>1, <1>8
    <3> QED
      BY <1>7, <1>10, <3>1, <3>2, RuntimeAssumption
  <2>3. \A x \in Task : Started(x) => Started(x)' /\ caller'[x] = caller[x]
    BY <1>3, <1>10 DEF Started
  <2> QED
    BY <1>11, <2>1, <2>2, <2>3, StillWaits DEF LossCore
<1>14. HeadInv'
  BY <1>3, <1>6, <1>10, RuntimeAssumption DEF LossCore, HeadInv
<1>15. RootHeld'
  <2>1. InRing' = entries \cup flight \cup Completed
    BY <1>6 DEF InRing, Completed
  <2>2. Stop \in InRing => Stop \in InRing'
    BY <1>1, <2>1 DEF InRing
  <2>3. root # None => root \in Task
    BY DEF TypeOK
  <2>4. root # None =>
          /\ holder'[root] = None
          /\ frame'[root] = frame[root] \/ frame'[root] = "suspended"
    BY <1>3, <1>10, <2>3 DEF LossCore, RootHeld
  <2> QED
    BY <1>3, <1>7, <1>11, <2>2, <2>4, RootStays DEF LossCore
<1> QED
  BY <1>13, <1>14, <1>15 DEF LossCore

(* A coroutine ends and resumes the one in its caller_.                    *)
LEMMA FinishToCallerLoss ==
  ASSUME TypeOK, ControlInv, LinkCore, LossCore, NEW t \in Task, NEW out \in Out,
         FinishToCaller(t, out), fault' = "none"
  PROVE  LossCore'
<1> USE DEF ringVars, promiseVars, awaiterVars, loopVars
<1> DEFINE D == Locals(t)
           F == Destroyed(D)
<1>1. PICK c \in Task : c = caller[t]
  BY DEF FinishToCaller, TypeOK
<1>2. /\ cur = t /\ D \in SUBSET Task
      /\ frame[c] = "suspended" /\ awaits[c] = t
      /\ breach' = breach \cup DropBreach(D)
      /\ holder' = Released(D)
      /\ frame' = [F EXCEPT ![t] = "final", ![c] = "running"]
      /\ awaits' = [awaits EXCEPT ![c] = None]
      /\ UNCHANGED <<ringVars, caller, awaiterVars, loopVars>>
  BY <1>1, LocalsType DEF FinishToCaller, EndBody, Executes
<1>3. F \in [Task -> {"none", "initial", "running", "suspended", "final",
                      "destroyed"}]
  BY <1>2, DestroyType
<1>4. /\ \A y \in Task : F[y] = IF y \in D THEN "destroyed" ELSE frame[y]
      /\ \A y \in Task : holder'[y] = IF y \in D THEN None ELSE holder[y]
  BY <1>2 DEF Destroyed, Released
<1>5. frame[t] = "running" /\ c # t
  BY <1>2 DEF ControlInv
<1>6. \A y \in D : Started(y) => "drop" \in breach'
  BY <1>2 DEF DropBreach
<1>7. root # None => root \in Task /\ root \notin D
  BY RootNotDoomed DEF LossCore, Locals, TypeOK
<1> HIDE DEF D, F
<1>8. /\ frame'[t] = "final" /\ frame'[c] = "running"
      /\ \A y \in Task \ {t, c} : frame'[y] = F[y]
      /\ \A y \in Task \ {c} : awaits'[y] = awaits[y]
  BY <1>2, <1>3, <1>5 DEF TypeOK
<1>9. Pending' = Pending /\ InRing' = InRing
  BY <1>2, SamePending DEF InRing, Completed
<1>10. SleepInv'
  <2>1. \A y \in Task : frame'[y] = "suspended" =>
          frame[y] = "suspended" /\ awaits'[y] = awaits[y]
    BY <1>4, <1>8
  <2>2. \A x \in Task :
          Started(x) /\ caller[x] \in Task /\ frame'[caller[x]] = "suspended" =>
            Started(x)' \/ "drop" \in breach'
    BY <1>1, <1>4, <1>6, <1>8 DEF Started
  <2> QED
    BY <1>2, <1>9, <2>1, <2>2, StillWaits DEF LossCore
<1>11. HeadInv'
  BY <1>2 DEF LossCore, HeadInv
<1>12. root # None =>
         /\ holder'[root] = None
         /\ frame'[root] = frame[root] \/ frame'[root] \in {"final", "running"}
  BY <1>4, <1>7, <1>8 DEF LossCore, RootHeld
<1>13. RootHeld'
  BY <1>2, <1>9, <1>12, RootStays DEF LossCore
<1> QED
  BY <1>10, <1>11, <1>13 DEF LossCore

(* A daemon nobody awaits ends.                                            *)
LEMMA FinishDaemonLoss ==
  ASSUME TypeOK, ControlInv, LinkCore, LossCore, NEW t \in Task, NEW out \in Out,
         FinishDaemon(t, out)
  PROVE  LossCore'
<1> USE DEF ringVars, promiseVars, awaiterVars, loopVars
<1> DEFINE D == Locals(t)
<1>1. /\ cur = t /\ D \in SUBSET Task /\ caller[t] = None
      /\ breach' = breach \cup DropBreach(D)
      /\ holder' = Released(D)
      /\ frame' = [Destroyed(D) EXCEPT ![t] = "final"]
      /\ UNCHANGED <<ringVars, caller, awaits, awaiterVars, loopVars>>
  BY LocalsType DEF FinishDaemon, EndBody, Executes
<1>2. \A y \in D : Started(y) => "drop" \in breach'
  BY <1>1 DEF DropBreach
<1>3. /\ frame'[t] = "final"
      /\ \A y \in Task \ {t} :
           frame'[y] = IF y \in D THEN "destroyed" ELSE frame[y]
      /\ \A y \in Task : holder'[y] = IF y \in D THEN None ELSE holder[y]
  BY <1>1 DEF Destroyed, Released
<1>4. root # None => root \in Task /\ root \notin D
  BY RootNotDoomed DEF LossCore, Locals, TypeOK
<1> HIDE DEF D
<1>5. Pending' = Pending /\ InRing' = InRing
  BY <1>1, SamePending DEF InRing, Completed
<1>6. SleepInv'
  <2>1. \A y \in Task : frame'[y] = "suspended" =>
          frame[y] = "suspended" /\ awaits'[y] = awaits[y]
    BY <1>1, <1>3
  <2>2. \A x \in Task : Started(x) /\ caller[x] \in Task =>
          Started(x)' \/ "drop" \in breach'
    BY <1>1, <1>2, <1>3, RuntimeAssumption DEF Started
  <2> QED
    BY <1>1, <1>5, <2>1, <2>2, QuietSleep DEF LossCore
<1>7. HeadInv'
  BY <1>1 DEF LossCore, HeadInv
<1>8. root # None =>
        /\ holder'[root] = None
        /\ frame'[root] = frame[root] \/ frame'[root] = "final"
  BY <1>3, <1>4 DEF LossCore, RootHeld
<1>9. RootHeld'
  BY <1>1, <1>5, <1>8, RootStays DEF LossCore
<1> QED
  BY <1>6, <1>7, <1>9 DEF LossCore

(* The root ends: its stop request is on the way, or left in the SQ.       *)
LEMMA FinishRootLoss ==
  ASSUME TypeOK, ControlInv, LinkCore, LossCore, NEW t \in Task, NEW out \in Out,
         FinishRoot(t, out), fault' = "none"
  PROVE  LossCore'
<1> USE DEF promiseVars, awaiterVars, loopVars
<1> DEFINE D == Doomed(t)
<1>1. /\ cur = t /\ D \in SUBSET Task /\ t \in D
      /\ frame' = Destroyed(D) /\ holder' = Released(Locals(t))
      /\ caller[t] = None /\ ~daemon[t]
      /\ UNCHANGED <<caller, awaits, awaiterVars, loopVars>>
  BY DoomedType, DoomedSelf DEF FinishRoot, EndBody, Executes
<1>2. frame[t] = "running"
  BY <1>1 DEF ControlInv
<1>3. t = root /\ context[t] /\ Stop \notin InRing
  BY <1>1, <1>2 DEF LinkCore, RootInv, Started
<1>4. PICK taken \in Takes(sq \cup {Stop}) :
        /\ Submit(sq \cup {Stop}, taken)
        /\ breach' = breach \cup DropBreach(Locals(t))
                       \cup SubmitBreach(sq \cup {Stop}, taken)
  BY <1>3 DEF FinishRoot
<1>5. \A y \in D : Started(y) /\ y # t => "drop" \in breach'
  BY <1>4 DEF DropBreach, Locals
<1>6. \A y \in Task : frame'[y] = IF y \in D THEN "destroyed" ELSE frame[y]
  BY <1>1 DEF Destroyed
<1>7. holder'[t] = None
  BY <1>1, <1>3, RuntimeAssumption DEF Released, LossCore, RootHeld
<1> HIDE DEF D
<1>8. /\ (sq \cup {Stop}) \cap flight = {}
      /\ (sq \cup {Stop}) \cap Completed = {}
  BY <1>3 DEF LinkCore, OnePlace, InRing
<1>9. OnePlace' /\ sq' \cup flight' = sq \cup {Stop} \cup flight /\ cq' = cq
  BY <1>4, <1>8, SubmitPlace DEF LinkCore
<1>10. sq' # {} => "submit" \in breach'
  BY <1>4 DEF Submit, SubmitBreach
<1>11. breach \subseteq breach'
  BY <1>4
<1>12. sq \cup Pending \subseteq (sq \cup Pending)'
  <2>1. (sq \cup Pending)' = sq' \cup flight'
          \cup {cq[i] : i \in {j \in DOMAIN cq : j = 1 => loop # "resuming"}}
    BY <1>1, <1>9 DEF Pending
  <2> QED
    BY <1>9, <2>1 DEF Pending
<1>13. SleepInv'
  <2>1. \A y \in Task : frame'[y] = "suspended" =>
          frame[y] = "suspended" /\ awaits'[y] = awaits[y]
    BY <1>1, <1>6
  <2>2. \A p \in (sq \cup Pending) \cap Op :
          /\ p \in (sq \cup Pending)'
          /\ handle'[p] = handle[p] /\ frameOf'[p] = frameOf[p]
          /\ p \in sq' => p \in sq \/ "submit" \in breach'
    BY <1>1, <1>10, <1>12
  <2>3. \A x \in Task : Started(x) /\ caller[x] \in Task =>
          \/ Started(x)' /\ caller'[x] = caller[x]
          \/ "drop" \in breach'
    BY <1>1, <1>5, <1>6, RuntimeAssumption DEF Started
  <2> QED
    BY <1>11, <2>1, <2>2, <2>3, StillWaits DEF LossCore
<1>14. HeadInv'
  BY <1>1, <1>9 DEF LossCore, HeadInv
<1>15. RootHeld'
  <2>1. Stop \in InRing'
    BY <1>9 DEF InRing
  <2>2. frame'[t] = "destroyed"
    BY <1>1, <1>6
  <2> QED
    BY <1>1, <1>3, <1>7, <1>10, <2>1, <2>2 DEF RootHeld
<1> QED
  BY <1>13, <1>14, <1>15 DEF LossCore

(* Steps of the loop and of the kernel.                                    *)
LEMMA LoopLoss ==
  ASSUME TypeOK, LinkCore, LossCore, fault' = "none",
         LoopStep \/ \E r \in Request : Complete(r)
  PROVE  LossCore'
<1> USE DEF ringVars, promiseVars, awaiterVars, loopVars
<1>1. ASSUME UNCHANGED <<sq, frame, caller, holder, awaits, handle, frameOf,
                         breach>>,
             Pending \cap Op \subseteq Pending'
      PROVE  SleepInv'
  BY <1>1, QuietSleep DEF LossCore, Started
<1>2. ASSUME UNCHANGED <<sq, frame, holder, root, breach>>,
             Stop \in InRing => Stop \in InRing'
      PROVE  RootHeld'
  BY <1>2, RootStays DEF LossCore, RootHeld
<1>3. CASE LoopRun
  <2>1. Pending' = Pending /\ InRing' = InRing
    BY <1>3, SamePending DEF LoopRun, InRing, Completed
  <2>2. HeadInv'
    BY <1>3 DEF LoopRun, HeadInv
  <2> QED
    BY <1>1, <1>2, <1>3, <2>1, <2>2 DEF LoopRun, LossCore
<1>4. CASE ResumeStop
  <2>1. /\ cq # <<>> /\ cq[1] = Stop /\ loop = "waiting" /\ loop' = "resuming"
        /\ ~running_'
        /\ UNCHANGED <<ringVars, frame, caller, holder, awaits, handle, frameOf,
                       root, breach>>
    BY <1>4 DEF ResumeStop, Waits, TypeOK, RingTypeOK
  <2>2. Pending' \cap Op = Pending \cap Op
    BY <2>1, UringAssumption DEF Pending
  <2>3. InRing' = InRing
    BY <2>1 DEF InRing, Completed
  <2>4. HeadInv'
    BY <2>1, UringAssumption DEF HeadInv
  <2> QED
    BY <1>1, <1>2, <2>1, <2>2, <2>3, <2>4 DEF LossCore
<1>5. ASSUME NEW o \in Op, Resume(o) PROVE LossCore'
  <2>1. /\ cq # <<>> /\ cq[1] = o /\ loop = "waiting" /\ loop' = "resuming"
        /\ handle[o] # None
        /\ UNCHANGED <<ringVars, caller, holder, handle, frameOf, root, breach>>
    BY <1>5 DEF Resume, Waits, TypeOK, RingTypeOK
  <2>2. PICK t \in Task :
          /\ t = handle[o] /\ frame[t] = "suspended" /\ awaits[t] = o
          /\ frame' = [frame EXCEPT ![t] = "running"]
          /\ awaits' = [awaits EXCEPT ![t] = None]
    BY <1>5 DEF Resume, TypeOK
  <2>3. (sq \cup Pending) \ {o} \subseteq (sq \cup Pending)' /\ InRing' = InRing
    BY <2>1, TakenUpOnce DEF LinkCore, InRing, Completed
  <2>4. /\ frame'[t] = "running"
        /\ \A y \in Task \ {t} : frame'[y] = frame[y] /\ awaits'[y] = awaits[y]
    BY <2>2 DEF TypeOK
  <2>5. \A x \in Task : Started(x) => Started(x)'
    BY <2>4 DEF Started
  <2>6. SleepInv'
    <3>1. \A p \in (sq \cup Pending) \cap Op :
            frame'[handle[p]] = "suspended" =>
              /\ p \in (sq \cup Pending)'
              /\ handle'[p] = handle[p] /\ frameOf'[p] = frameOf[p]
              /\ p \in sq' => p \in sq
      BY <2>1, <2>2, <2>3, <2>4
    <3>2. \A y \in Task : frame'[y] = "suspended" =>
            frame[y] = "suspended" /\ awaits'[y] = awaits[y]
      BY <2>4
    <3> QED
      BY <2>1, <2>5, <3>1, <3>2, StillWaits DEF LossCore
  <2>7. HeadInv'
    BY <2>1, UringAssumption DEF HeadInv
  <2>8. RootHeld'
    <3>1. root # None => root \in Task
      BY DEF TypeOK
    <3>2. root # None =>
            /\ holder'[root] = None
            /\ frame'[root] = frame[root] \/ frame'[root] = "running"
      BY <2>1, <2>4, <3>1 DEF LossCore, RootHeld
    <3> QED
      BY <2>1, <2>3, <3>2, RootStays DEF LossCore
  <2> QED
    BY <2>6, <2>7, <2>8 DEF LossCore
<1>6. CASE CqeSeen
  <2>1. /\ loop = "resuming" /\ loop' # "resuming"
        /\ root' = (IF running_ THEN root ELSE None)
        /\ UNCHANGED <<sq, flight, frame, caller, holder, awaits, handle,
                       frameOf, breach>>
    BY <1>6 DEF CqeSeen, MarkSeen
  <2>2. HeadInv'
    BY <2>1 DEF HeadInv
  <2>3. CASE running_
    <3>1. cq[1] # Stop
      BY <2>1, <2>3 DEF LossCore, HeadInv
    <3>2. Stop \in Completed => Stop \in Completed'
      BY <1>6, <3>1, CqeSeenPending DEF Completed
    <3>3. Stop \in InRing => Stop \in InRing'
      BY <2>1, <3>2 DEF InRing
    <3> QED
      BY <1>1, <1>2, <1>6, <2>1, <2>2, <2>3, <3>3, CqeSeenPending DEF LossCore
  <2>4. CASE ~running_
    <3>1. RootHeld'
      BY <2>1, <2>4 DEF RootHeld
    <3> QED
      BY <1>1, <1>6, <2>1, <2>2, <3>1, CqeSeenPending DEF LossCore
  <2> QED
    BY <2>3, <2>4
<1>7. ASSUME NEW r \in Request, Complete(r) PROVE LossCore'
  <2>1. UNCHANGED <<sq, frame, caller, holder, awaits, handle, frameOf, loop,
                    running_, root, breach>>
    BY <1>7 DEF Complete, PostCompletion
  <2>2. /\ InRing' = InRing /\ Pending' = Pending
        /\ cq # <<>> => cq'[1] = cq[1]
    BY <1>7, CompletePending DEF LinkCore
  <2>3. HeadInv'
    BY <2>1, <2>2 DEF LossCore, HeadInv, LinkCore, RootInv
  <2> QED
    BY <1>1, <1>2, <2>1, <2>2, <2>3 DEF LossCore
<1> QED
  BY <1>3, <1>4, <1>5, <1>6, <1>7 DEF LoopStep

(* LossInv is inductive, with ThreadInv and LinkInv.                       *)
LEMMA LossStep ==
  ASSUME TypeOK, ThreadInv, LinkInv, LossInv, [Next]_vars
  PROVE  LossInv'
<1> SUFFICES ASSUME fault' = "none" PROVE LossCore'
  BY DEF LossInv
<1>1. CASE UNCHANGED vars
  <2>1. UNCHANGED <<sq, flight, cq, frame, caller, holder, awaits, handle,
                    frameOf, loop, running_, root, breach, fault>>
    BY <1>1 DEF vars, ringVars, promiseVars, awaiterVars, loopVars
  <2>2. LossCore /\ Pending' = Pending /\ InRing' = InRing
    BY <2>1, SamePending DEF LossInv, InRing, Completed
  <2>3. SleepInv'
    BY <2>1, <2>2, QuietSleep DEF LossCore, Started
  <2>4. HeadInv' /\ RootHeld'
    BY <2>1, <2>2 DEF LossCore, HeadInv, RootHeld
  <2> QED
    BY <2>3, <2>4 DEF LossCore
<1>2. CASE Next
  <2>1. ControlInv /\ OrderInv /\ LinkCore /\ LossCore
    BY <1>2, CoreNow, NoFaultBefore DEF LossInv
  <2>2. CASE UserStep
    BY <2>1, <2>2, UserLoss
  <2>3. CASE Yield
    <3>1. ASSUME NEW t \in Task, NEW x \in Task, AwaitStarted(t, x) PROVE FALSE
      BY <3>1 DEF AwaitStarted
    <3>2. ASSUME NEW t \in Task, NEW x \in Task, AwaitDaemon(t, x)
          PROVE  LossCore'
      BY <2>1, <3>2, AwaitDaemonLoss
    <3>3. ASSUME NEW t \in Task, NEW o \in Op, IoAwait(t, o) \/ IoAwaitPrepared(t, o)
          PROVE  LossCore'
      BY <2>1, <3>3, SuspendLoss
    <3>4. ASSUME NEW t \in Task, NEW out \in Out,
                 \/ FinishToCaller(t, out)
                 \/ FinishDaemon(t, out)
                 \/ FinishRoot(t, out)
          PROVE  LossCore'
      BY <2>1, <3>4, FinishToCallerLoss, FinishDaemonLoss, FinishRootLoss
    <3> QED
      BY <2>3, <3>1, <3>2, <3>3, <3>4 DEF Yield
  <2>4. CASE LoopStep \/ \E r \in Request : Complete(r)
    BY <2>1, <2>4, LoopLoss
  <2> QED
    BY <1>2, <2>2, <2>3, <2>4 DEF Next
<1> QED
  BY <1>1, <1>2

(* What can be lost, and why, whatever rules the program breaks: a request *)
(* that the kernel did not take, a coroutine pushed out of caller_ or      *)
(* waiting for a task that was dropped, the stop request of the root when  *)
(* the kernel did not take it.                                             *)
THEOREM LossesHaveCauses == Spec => []LossHasCause
<1>1. Init => LossInv
  BY RuntimeAssumption DEF Init, LossInv, LossCore, SleepInv, HeadInv, RootHeld
<1>2. LossInv => LossHasCause
  <2>1. sq \cup Pending \subseteq InRing
    BY DEF Pending, InRing, Completed
  <2>2. ASSUME NEW t \in Task, Waiting(t)
        PROVE  \/ WokenByIo(t) /\ (awaits[t] \in sq => "submit" \in breach)
               \/ WokenByTask(t)
               \/ awaits[t] \in Task /\ breach \cap {"share", "drop"} # {}
    BY <2>1, <2>2 DEF Waiting, WokenByIo
  <2> QED
    BY <2>2 DEF LossInv, LossCore, SleepInv, RootHeld, LossHasCause
<1> QED
  BY <1>1, <1>2, LossStep, TypeCorrect, ThreadAlways, LinkAlways, PTL DEF Spec

-----------------------------------------------------------------------------
(***************************************************************************)
(* Programs that keep the rules.                                           *)
(***************************************************************************)

(* What will resume t: WokenByIo with a request whose completion has not   *)
(* been taken up yet, or WokenByTask.                                      *)
WokenByPending(t) ==
  /\ awaits[t] \in Pending \cap Op
  /\ handle[awaits[t]] = t
  /\ frameOf[awaits[t]] = t

WakeInv ==
  /\ \A t \in Task :
       frame[t] = "suspended" => WokenByPending(t) \/ WokenByTask(t)
  /\ \A o \in InRing \cap Op : handle[o] # None

(* With the invariants that hold for every program.                        *)
RulesCore ==
  /\ fault = "none"
  /\ sq = {}
  /\ ControlInv
  /\ OrderInv
  /\ LinkCore
  /\ WakeInv

RulesInv == breach = {} => RulesCore

(* A set of frames without a started one is freed without a trace in the   *)
(* frames the invariant speaks of.                                         *)
LEMMA DestroyKeeps ==
  ASSUME TypeOK, NEW D \in SUBSET Task, DropBreach(D) = {}
  PROVE  \A y \in Task :
           /\ Destroyed(D)[y] \in {frame[y], "destroyed"}
           /\ Started(y) => Destroyed(D)[y] = frame[y] /\ y \notin D
           /\ frame[y] = "destroyed" => Destroyed(D)[y] = "destroyed"
<1>1. \A y \in D : ~Started(y)
  BY DEF DropBreach
<1> QED
  BY <1>1 DEF TypeOK, Destroyed, Started

(* Breaking a rule is for ever.                                            *)
LEMMA BreachGrows ==
  ASSUME [Next]_vars PROVE breach \subseteq breach'
<1>1. CASE UNCHANGED vars
  BY <1>1 DEF vars
<1>2. CASE UserStep
  BY <1>2 DEF UserStep, Create, Drop, Launch, LaunchDetached, BlockRun, Start,
     AwaitReady, AwaitStart, IoRejected, IoPrepare
<1>3. CASE Yield
  BY <1>3 DEF Yield, AwaitDaemon, AwaitStarted, IoAwait, IoAwaitPrepared,
     SuspendOnIo, FinishToCaller, FinishDaemon, FinishRoot
<1>4. CASE LoopStep
  BY <1>4 DEF LoopStep, LoopRun, ResumeStop, Resume, CqeSeen
<1>5. ASSUME NEW r \in Request, Complete(r) PROVE breach \subseteq breach'
  BY <1>5 DEF Complete
<1> QED
  BY <1>1, <1>2, <1>3, <1>4, <1>5 DEF Next

(* No awaiter waits for its co_await while the rules are kept.             *)
LEMMA NoPreparedAwait ==
  ASSUME RulesCore, NEW t \in Task, NEW o \in Op, IoAwaitPrepared(t, o)
  PROVE  FALSE
BY DEF IoAwaitPrepared, RulesCore, WakeInv

(* caller_ of a started task is the coroutine that waits for it.           *)
LEMMA CallerWaits ==
  ASSUME RulesCore, breach = {}, NEW x \in Task, Started(x), caller[x] # None
  PROVE  frame[caller[x]] = "suspended" /\ awaits[caller[x]] = x
BY DEF RulesCore, LinkCore, CallerInv, WaitsOrLost

(* What resumes a coroutine stays as long as the coroutine is suspended.   *)
LEMMA StillWoken ==
  ASSUME TypeOK, WakeInv,
         \A o \in Pending \cap Op : frame'[handle[o]] = "suspended" =>
           o \in Pending' /\ handle'[o] = handle[o] /\ frameOf'[o] = frameOf[o],
         \A x \in Task :
           Started(x) /\ caller[x] # None /\ frame'[caller[x]] = "suspended" =>
             Started(x)' /\ caller'[x] = caller[x],
         \A y \in Task : frame'[y] = "suspended" =>
           \/ WokenByPending(y)' \/ WokenByTask(y)'
           \/ frame[y] = "suspended" /\ awaits'[y] = awaits[y],
         \A o \in InRing' \cap Op :
           handle'[o] # None \/ (o \in InRing /\ handle'[o] = handle[o])
  PROVE  WakeInv'
<1>1. ASSUME NEW y \in Task, frame'[y] = "suspended",
             frame[y] = "suspended", awaits'[y] = awaits[y]
      PROVE  WokenByPending(y)' \/ WokenByTask(y)'
  <2>1. CASE WokenByPending(y)
    BY <1>1, <2>1 DEF WokenByPending
  <2>2. CASE WokenByTask(y)
    BY <1>1, <2>2, RuntimeAssumption DEF WokenByTask, Started
  <2> QED
    BY <1>1, <2>1, <2>2 DEF WakeInv
<1> QED
  BY <1>1 DEF WakeInv

(* Steps of user code that keep the ring as it is.                         *)
LEMMA UserWake ==
  ASSUME TypeOK, RulesCore, breach' = {}, UserStep PROVE WakeInv'
<1> USE DEF ringVars, promiseVars, awaiterVars, loopVars
<1>1. ASSUME NEW a \in Actor, NEW x \in Task, Create(a, x) PROVE WakeInv'
  <2>1. /\ frame[x] = "none" /\ frame' = [frame EXCEPT ![x] = "initial"]
        /\ UNCHANGED <<ringVars, promiseVars, awaits, awaiterVars, loopVars>>
    BY <1>1 DEF Create
  <2>2. Pending' = Pending /\ InRing' = InRing
    BY <2>1, SamePending DEF InRing, Completed
  <2> QED
    BY <2>1, <2>2, StillWoken DEF RulesCore, Started, TypeOK
<1>2. ASSUME NEW a \in Actor, NEW x \in Task, Drop(a, x) PROVE WakeInv'
  <2> DEFINE D == Doomed(x)
  <2>1. /\ frame' = Destroyed(D) /\ DropBreach(D) = {}
        /\ UNCHANGED <<ringVars, promiseVars, awaits, awaiterVars, loopVars>>
    BY <1>2 DEF Drop
  <2>2. Pending' = Pending /\ InRing' = InRing
    BY <2>1, SamePending DEF InRing, Completed
  <2>3. \A y \in Task : /\ frame'[y] \in {frame[y], "destroyed"}
                        /\ Started(y) => frame'[y] = frame[y]
    BY <2>1, DoomedType, DestroyKeeps
  <2> HIDE DEF D
  <2> QED
    BY <2>1, <2>2, <2>3, StillWoken DEF RulesCore, Started
<1>3. ASSUME NEW a \in Actor, NEW x \in Task, NEW isDaemon \in BOOLEAN,
             Start(a, x, isDaemon),
             loop' = loop \/ (a = Main /\ loop' = "entering")
      PROVE  WakeInv'
  <2>1. /\ frame[x] = "initial" /\ frame' = [frame EXCEPT ![x] = "running"]
        /\ loop' = "resuming" <=> loop = "resuming"
        /\ UNCHANGED <<ringVars, caller, awaits, awaiterVars>>
    BY <1>3 DEF Start, Executes
  <2>2. Pending' = Pending /\ InRing' = InRing
    BY <2>1, SamePending DEF InRing, Completed
  <2> QED
    BY <2>1, <2>2, StillWoken DEF RulesCore, Started, TypeOK
<1>4. ASSUME NEW t \in Task, NEW x \in Task, AwaitReady(t, x) PROVE WakeInv'
  <2>1. UNCHANGED <<ringVars, frame, promiseVars, awaits, awaiterVars, loopVars>>
    BY <1>4 DEF AwaitReady
  <2>2. Pending' = Pending /\ InRing' = InRing
    BY <2>1, SamePending DEF InRing, Completed
  <2> QED
    BY <2>1, <2>2, StillWoken DEF RulesCore, Started
<1>5. ASSUME NEW t \in Task, NEW x \in Task, AwaitStart(t, x) PROVE WakeInv'
  <2>1. /\ t # x /\ cur = t /\ frame[x] = "initial"
        /\ frame' = [frame EXCEPT ![t] = "suspended", ![x] = "running"]
        /\ caller' = [caller EXCEPT ![x] = t]
        /\ awaits' = [awaits EXCEPT ![t] = x]
        /\ UNCHANGED <<ringVars, awaiterVars, loopVars>>
    BY <1>5 DEF AwaitStart, MayAwait, Executes, LinkCaller
  <2>2. Pending' = Pending /\ InRing' = InRing
    BY <2>1, SamePending DEF InRing, Completed
  <2>3. WokenByTask(t)'
    BY <2>1 DEF WokenByTask, Started, TypeOK
  <2> QED
    BY <2>1, <2>2, <2>3, StillWoken DEF RulesCore, Started, TypeOK
<1>6. ASSUME NEW t \in Task, IoRejected(t) PROVE FALSE
  BY <1>6, EmptySqNotFull DEF IoRejected, RulesCore
<1>7. ASSUME NEW t \in Task, NEW o \in Op, IoPrepare(t, o) PROVE FALSE
  BY <1>7 DEF IoPrepare
<1> QED
  BY <1>1, <1>2, <1>3, <1>4, <1>5, <1>6, <1>7
     DEF UserStep, Launch, LaunchDetached, BlockRun, Actor

(* Steps by which a coroutine suspends or ends.                            *)
LEMMA YieldWake ==
  ASSUME TypeOK, RulesCore, breach' = {}, fault' = "none", Yield PROVE WakeInv'
<1> USE DEF ringVars, promiseVars, awaiterVars, loopVars
<1>0. breach = {}
  BY BreachGrows DEF Next
<1>1. ASSUME NEW t \in Task, NEW x \in Task, AwaitDaemon(t, x) PROVE WakeInv'
  <2>1. /\ t # x /\ cur = t /\ Started(x) /\ caller[x] = None
        /\ frame' = [frame EXCEPT ![t] = "suspended"]
        /\ caller' = [caller EXCEPT ![x] = t]
        /\ awaits' = [awaits EXCEPT ![t] = x]
        /\ UNCHANGED <<ringVars, awaiterVars, loopVars>>
    BY <1>1 DEF AwaitDaemon, MayAwait, Executes, LinkCaller
  <2>2. Pending' = Pending /\ InRing' = InRing
    BY <2>1, SamePending DEF InRing, Completed
  <2>3. WokenByTask(t)'
    BY <2>1 DEF WokenByTask, Started, TypeOK
  <2> QED
    BY <2>1, <2>2, <2>3, StillWoken DEF RulesCore, ControlInv, Started, TypeOK
<1>2. ASSUME NEW t \in Task, NEW x \in Task, AwaitStarted(t, x) PROVE FALSE
  BY <1>2 DEF AwaitStarted
<1>3. ASSUME NEW t \in Task, NEW o \in Op, IoAwait(t, o) PROVE WakeInv'
  <2>1. /\ cur = t /\ o \notin InRing
        /\ frameOf' = [frameOf EXCEPT ![o] = t]
        /\ handle' = [handle EXCEPT ![o] = t]
        /\ frame' = [frame EXCEPT ![t] = "suspended"]
        /\ awaits' = [awaits EXCEPT ![t] = o]
        /\ UNCHANGED <<promiseVars, loopVars>>
    BY <1>3 DEF IoAwait, Executes, Fresh, SuspendOnIo
  <2>2. /\ sq' = {} /\ flight' = flight \cup {o} /\ cq' = cq
    <3>1. PICK taken \in Takes(sq \cup {o}) :
            /\ Submit(sq \cup {o}, taken)
            /\ breach' = breach \cup SubmitBreach(sq \cup {o}, taken)
      BY <1>3 DEF IoAwait, SuspendOnIo
    <3> QED
      BY <3>1, SubmitAll DEF RulesCore
  <2>3. /\ Pending' = Pending \cup {o} /\ InRing' = InRing \cup {o}
        /\ Pending \subseteq InRing
    BY <2>1, <2>2 DEF Pending, InRing, Completed, RulesCore
  <2>4. frame[t] = "running"
    BY <2>1 DEF RulesCore, ControlInv
  <2>5. WokenByPending(t)'
    BY <2>1, <2>3 DEF WokenByPending, TypeOK
  <2>6. /\ \A y \in Task \ {t} : frame'[y] = frame[y] /\ awaits'[y] = awaits[y]
        /\ \A p \in Op \ {o} : handle'[p] = handle[p] /\ frameOf'[p] = frameOf[p]
        /\ handle'[o] = t /\ frame'[t] = "suspended"
    BY <2>1 DEF TypeOK
  <2>7. \A x \in Task : Started(x) => Started(x)'
    BY <2>6 DEF Started
  <2> QED
    BY <2>1, <2>3, <2>5, <2>6, <2>7, RuntimeAssumption, StillWoken DEF RulesCore
<1>4. ASSUME NEW t \in Task, NEW out \in Out, FinishToCaller(t, out)
      PROVE  WakeInv'
  <2> DEFINE D == Locals(t)
  <2>1. PICK c \in Task : c = caller[t]
    BY <1>4 DEF FinishToCaller, TypeOK
  <2>2. /\ cur = t /\ caller[t] # None /\ DropBreach(D) = {}
        /\ UNCHANGED <<ringVars, caller, awaiterVars, loopVars>>
    BY <1>4 DEF FinishToCaller, EndBody, Executes
  <2>3. /\ frame' = [Destroyed(D) EXCEPT ![t] = "final", ![c] = "running"]
        /\ awaits' = [awaits EXCEPT ![c] = None]
    BY <1>4, <2>1 DEF FinishToCaller
  <2>4. Pending' = Pending /\ InRing' = InRing
    BY <2>2, SamePending DEF InRing, Completed
  <2>5. \A y \in Task : /\ Destroyed(D)[y] \in {frame[y], "destroyed"}
                        /\ Started(y) => Destroyed(D)[y] = frame[y]
    BY <2>2, LocalsType, DestroyKeeps
  <2>6. D \in SUBSET Task
    BY LocalsType
  <2> HIDE DEF D
  <2>7. /\ \A y \in Task \ {t, c} : /\ frame'[y] \in {frame[y], "destroyed"}
                                    /\ Started(y) => frame'[y] = frame[y]
                                    /\ awaits'[y] = awaits[y]
        /\ frame'[c] # "suspended" /\ frame'[t] # "suspended"
        /\ frame'[c] = "running" \/ c = t
    BY <2>3, <2>5, <2>6 DEF Destroyed, TypeOK
  <2>8. frame[c] = "suspended" /\ frame[t] = "running"
    BY <1>0, <2>1, <2>2 DEF RulesCore, ControlInv, LinkCore, CallerInv,
       WaitsOrLost, Started
  <2>9. \A x \in Task :
          Started(x) /\ caller[x] # None /\ frame'[caller[x]] = "suspended" =>
            Started(x)'
    <3>1. frame'[c] = "running"
      BY <2>7, <2>8
    <3>2. \A x \in Task \ {t} : Started(x) => Started(x)'
      BY <2>7, <3>1 DEF Started
    <3> QED
      BY <2>1, <2>7, <3>2
  <2> QED
    BY <2>1, <2>2, <2>4, <2>7, <2>8, <2>9, StillWoken DEF RulesCore
<1>5. ASSUME NEW t \in Task, caller[t] = None, Return, cur = t,
             NEW D \in SUBSET Task, DropBreach(D) = {},
             frame'[t] \in {"final", "destroyed"},
             \A y \in Task \ {t} : frame'[y] = Destroyed(D)[y],
             Pending' \cap Op = Pending \cap Op, InRing' \cap Op = InRing \cap Op,
             UNCHANGED <<caller, awaits, handle, frameOf>>
      PROVE  WakeInv'
  <2>1. \A y \in Task \ {t} : /\ frame'[y] \in {frame[y], "destroyed"}
                              /\ Started(y) => frame'[y] = frame[y]
    BY <1>5, DestroyKeeps
  <2>2. \A x \in Task : Started(x) /\ caller[x] # None => Started(x)'
    BY <1>5, <2>1 DEF Started
  <2> QED
    BY <1>5, <2>1, <2>2, StillWoken DEF RulesCore
<1>6. ASSUME NEW t \in Task, NEW out \in Out, FinishDaemon(t, out)
      PROVE  WakeInv'
  <2> DEFINE D == Locals(t)
  <2>1. /\ cur = t /\ caller[t] = None /\ Return /\ DropBreach(D) = {}
        /\ frame' = [Destroyed(D) EXCEPT ![t] = "final"]
        /\ UNCHANGED <<ringVars, caller, awaits, awaiterVars, loopVars>>
    BY <1>6 DEF FinishDaemon, EndBody, Executes
  <2>2. Pending' = Pending /\ InRing' = InRing
    BY <2>1, SamePending DEF InRing, Completed
  <2>3. D \in SUBSET Task
    BY LocalsType
  <2> HIDE DEF D
  <2>4. /\ frame'[t] = "final"
        /\ \A y \in Task \ {t} : frame'[y] = Destroyed(D)[y]
    BY <2>1 DEF Destroyed
  <2> QED
    BY <1>5, <2>1, <2>2, <2>3, <2>4
<1>7. ASSUME NEW t \in Task, NEW out \in Out, FinishRoot(t, out)
      PROVE  WakeInv'
  <2> DEFINE D == Locals(t)
  <2>1. /\ cur = t /\ caller[t] = None /\ ~daemon[t] /\ Return
        /\ DropBreach(D) = {} /\ frame' = Destroyed(Doomed(t))
        /\ UNCHANGED <<caller, context, daemon, awaits, awaiterVars, loopVars>>
    BY <1>7 DEF FinishRoot, EndBody, Executes
  <2>2. context[t]
    BY <2>1 DEF RulesCore, ControlInv, LinkCore, RootInv, Started
  <2>3. flight' \in {flight \cup {Stop}} /\ cq' = cq /\ sq' = {}
    <3>1. PICK taken \in Takes(sq \cup {Stop}) :
            /\ Submit(sq \cup {Stop}, taken)
            /\ breach' = breach \cup DropBreach(Locals(t))
                           \cup SubmitBreach(sq \cup {Stop}, taken)
      BY <1>7, <2>2, EmptySqNotFull DEF FinishRoot, RulesCore
    <3> QED
      BY <3>1, SubmitAll DEF RulesCore
  <2>4. Pending' \cap Op = Pending \cap Op /\ InRing' \cap Op = InRing \cap Op
    BY <2>1, <2>3, UringAssumption DEF Pending, InRing, Completed, RulesCore
  <2>5. D \in SUBSET Task
    BY LocalsType
  <2>6. /\ frame'[t] = "destroyed"
        /\ \A y \in Task \ {t} : frame'[y] = Destroyed(D)[y]
    BY <2>1 DEF Doomed, Locals, Destroyed
  <2> HIDE DEF D
  <2> QED
    BY <1>5, <2>1, <2>4, <2>5, <2>6
<1> QED
  BY <1>1, <1>2, <1>3, <1>4, <1>6, <1>7, NoPreparedAwait DEF Yield

(* Steps of the loop and of the kernel.                                    *)
LEMMA LoopWake ==
  ASSUME TypeOK, RulesCore, breach' = {}, fault' = "none",
         LoopStep \/ \E r \in Request : Complete(r)
  PROVE  WakeInv'
<1> USE DEF ringVars, promiseVars, awaiterVars, loopVars
<1>1. ASSUME UNCHANGED <<frame, caller, awaits, handle, frameOf>>,
             Pending' \cap Op = Pending \cap Op, InRing' \subseteq InRing
      PROVE  WakeInv'
  BY <1>1, StillWoken DEF RulesCore, Started
<1>2. CASE LoopRun
  <2>1. Pending' = Pending /\ InRing' = InRing
    BY <1>2, SamePending DEF LoopRun, InRing, Completed
  <2> QED
    BY <1>1, <1>2, <2>1 DEF LoopRun
<1>3. CASE ResumeStop
  <2>1. /\ cq # <<>> /\ cq[1] = Stop /\ loop = "waiting" /\ loop' = "resuming"
        /\ UNCHANGED <<ringVars, frame, caller, awaits, handle, frameOf>>
    BY <1>3 DEF ResumeStop, Waits, TypeOK, RingTypeOK
  <2>2. Pending' \cap Op = Pending \cap Op
    BY <2>1, UringAssumption DEF Pending
  <2> QED
    BY <1>1, <2>1, <2>2 DEF InRing, Completed
<1>4. ASSUME NEW o \in Op, Resume(o) PROVE WakeInv'
  <2>1. /\ cq # <<>> /\ cq[1] = o /\ loop = "waiting" /\ loop' = "resuming"
        /\ UNCHANGED <<ringVars, caller, handle, frameOf>>
    BY <1>4 DEF Resume, Waits, TypeOK, RingTypeOK
  <2>2. PICK t \in Task :
          /\ t = handle[o] /\ frame[t] = "suspended" /\ awaits[t] = o
          /\ frame' = [frame EXCEPT ![t] = "running"]
          /\ awaits' = [awaits EXCEPT ![t] = None]
    BY <1>4 DEF Resume, TypeOK
  <2>3. /\ Pending \ {o} \subseteq Pending' /\ InRing' = InRing
    BY <2>1 DEF Pending, InRing, Completed
  <2>4. /\ frame'[t] = "running"
        /\ \A y \in Task \ {t} : frame'[y] = frame[y] /\ awaits'[y] = awaits[y]
    BY <2>2 DEF TypeOK
  <2>5. \A x \in Task : Started(x) => Started(x)'
    BY <2>4 DEF Started
  <2> QED
    BY <2>1, <2>2, <2>3, <2>4, <2>5, StillWoken DEF RulesCore
<1>5. CASE CqeSeen
  <2>1. InRing' \subseteq InRing
    BY <1>5, CqeSeenPending DEF CqeSeen, MarkSeen, InRing, Completed
  <2> QED
    BY <1>1, <1>5, <2>1, CqeSeenPending DEF CqeSeen
<1>6. ASSUME NEW r \in Request, Complete(r) PROVE WakeInv'
  BY <1>1, <1>6, CompletePending DEF Complete, RulesCore, LinkCore
<1> QED
  BY <1>2, <1>3, <1>4, <1>5, <1>6 DEF LoopStep

(* Every step that keeps the rules keeps the invariant.                    *)
LEMMA RulesStep ==
  ASSUME TypeOK, RulesInv, [Next]_vars, TypeOK',
         SqInv', ThreadInv', LinkInv', FaultHasCause'
  PROVE  RulesInv'
<1> SUFFICES ASSUME breach' = {} PROVE RulesCore'
  BY DEF RulesInv
<1>1. breach = {} /\ RulesCore
  BY BreachGrows DEF RulesInv
<1>2. fault' = "none" /\ sq' = {}
  BY DEF FaultHasCause, SqInv, TypeOK, Faults
<1>3. ControlInv' /\ OrderInv' /\ LinkCore'
  BY <1>2 DEF ThreadInv, LinkInv
<1>4. WakeInv'
  <2>1. CASE UNCHANGED vars
    BY <1>1, <2>1, SamePending, StillWoken
       DEF vars, ringVars, promiseVars, awaiterVars, loopVars, InRing,
           Completed, RulesCore, Started
  <2> QED
    BY <1>1, <1>2, <2>1, UserWake, YieldWake, LoopWake DEF Next
<1> QED
  BY <1>2, <1>3, <1>4 DEF RulesCore

(* Nothing has been broken at the start.                                   *)
LEMMA RulesInit == Init => RulesInv
<1> SUFFICES ASSUME Init PROVE RulesCore
  BY DEF RulesInv
<1>1. WakeInv
  BY DEF Init, RingInit, WakeInv, InRing, Completed
<1>2. ControlInv /\ OrderInv /\ LinkCore
  BY ThreadInit, LinkInit DEF Init, ThreadInv, LinkInv
<1> QED
  BY <1>1, <1>2 DEF Init, RingInit, RulesCore

(* The inductive invariant: it says nothing once a rule is broken, and no  *)
(* step that keeps the rules leaves it.                                    *)
THEOREM RulesInvariant == Spec => []RulesInv
BY RulesInit, RulesStep, TypeCorrect, SqAlways, ThreadAlways, LinkAlways,
   FaultsHaveCauses, PTL DEF Spec

(* A program that keeps the rules never reaches undefined behaviour.       *)
THEOREM RulesPreventFaults == Spec => [](breach = {} => fault = "none")
<1>1. RulesInv => (breach = {} => fault = "none")
  BY DEF RulesInv, RulesCore
<1> QED
  BY <1>1, RulesInvariant, PTL

(* A program that keeps the rules loses no wake-up: whatever a suspended   *)
(* coroutine waits for is still under way and leads back to it.            *)
THEOREM NoWakeupIsLost == Spec => []NoLostWakeup
<1>1. RulesInv => NoLostWakeup
  <2>1. Pending \subseteq InRing
    BY DEF Pending, InRing, Completed
  <2> QED
    BY <2>1 DEF RulesInv, RulesCore, WakeInv, NoLostWakeup, WokenByIo,
       WokenByPending
<1> QED
  BY <1>1, RulesInvariant, PTL

-----------------------------------------------------------------------------
(* The runtime implements TaskFuture, step by step.                        *)

(* Whoever is not suspended waits for nothing.  With RulesInv this makes   *)
(* waits of TaskFuture exact: a coroutine that waits for x is suspended    *)
(* and is the caller of x.                                                 *)
AwaitInv ==
  breach = {} => \A t \in Task : frame[t] # "suspended" => awaits[t] = None

(* Whom a task keeps waiting, and whom nobody awaits.                      *)
LEMMA AwaitedIs ==
  ASSUME TypeOK, RulesCore, AwaitInv, breach = {},
         NEW t \in Task, NEW x \in Task, awaits[t] = x
  PROVE  Started(x) /\ caller[x] = t
<1>1. frame[t] = "suspended"
  BY RuntimeAssumption DEF AwaitInv
<1>2. awaits[t] \notin Op
  BY RuntimeAssumption
<1> QED
  BY <1>1, <1>2 DEF RulesCore, WakeInv, WokenByPending, WokenByTask

-----------------------------------------------------------------------------
(* The refinement mapping.                                                 *)

(* FutureState as a function of the state of the frame.                    *)
Phase(f) ==
  CASE f = "none"      -> "unused"
    [] f = "initial"   -> "created"
    [] f \in {"running", "suspended"} -> "running"
    [] f = "final"     -> "done"
    [] f = "destroyed" -> "gone"

PhaseMap(f) == [x \in Task |-> Phase(f[x])]

WaitMap(f) == [t \in Task |-> IF f[t] \in Task THEN f[t] ELSE None]

LEMMA PhaseIs ==
  /\ Phase("none") = "unused" /\ Phase("initial") = "created"
  /\ Phase("running") = "running" /\ Phase("suspended") = "running"
  /\ Phase("final") = "done" /\ Phase("destroyed") = "gone"
BY DEF Phase

LEMMA MappingIs ==
  /\ [x \in Task |-> FutureState(x)] = PhaseMap(frame)
  /\ [x \in Task |-> FutureState(x)]' = PhaseMap(frame')
  /\ [t \in Task |-> IF awaits[t] \in Task THEN awaits[t] ELSE None]
       = WaitMap(awaits)
  /\ [t \in Task |-> IF awaits[t] \in Task THEN awaits[t] ELSE None]'
       = WaitMap(awaits')
BY DEF FutureState, PhaseMap, Phase, WaitMap

(* What the mapped state of one task says, and how it changes with the     *)
(* frames and with awaits.                                                 *)
LEMMA MapValues ==
  ASSUME NEW f, NEW g, NEW x \in Task
  PROVE  /\ PhaseMap(f)[x] = Phase(f[x])
         /\ WaitMap(g)[x] = IF g[x] \in Task THEN g[x] ELSE None
BY DEF PhaseMap, WaitMap

(* A coroutine in control can go on.                                       *)
LEMMA CurIsFree ==
  ASSUME TypeOK, RulesCore, AwaitInv, breach = {}, NEW t \in Task, cur = t
  PROVE  Future!Free(t)
<1>1. frame[t] = "running" /\ awaits[t] = None
  BY DEF RulesCore, ControlInv, AwaitInv
<1>2. PhaseMap(frame)[t] = "running" /\ WaitMap(awaits)[t] = None
  BY <1>1, MapValues, PhaseIs
<1> QED
  BY <1>2, MappingIs DEF Future!Free

(* Whom nobody awaits in TaskFuture.                                       *)
LEMMA FutureAwaited ==
  ASSUME TypeOK, RulesCore, AwaitInv, breach = {}, NEW x \in Task
  PROVE  Future!Awaited(x) => Started(x) /\ caller[x] # None
<1> SUFFICES ASSUME Future!Awaited(x) PROVE Started(x) /\ caller[x] # None
  OBVIOUS
<1>1. PICK t \in Task : WaitMap(awaits)[t] = x
  BY MappingIs DEF Future!Awaited
<1>2. awaits[t] = x
  BY <1>1, MapValues, RuntimeAssumption
<1> QED
  BY <1>2, AwaitedIs, RuntimeAssumption

-----------------------------------------------------------------------------
(* The steps.                                                              *)

(* A step that changes neither phases, outcomes, waits nor received.       *)
LEMMA Stutters ==
  ASSUME PhaseMap(frame') = PhaseMap(frame),
         WaitMap(awaits') = WaitMap(awaits),
         UNCHANGED <<outcome, received>>
  PROVE  UNCHANGED Future!vars
BY MappingIs DEF Future!vars

LEMMA CreateFuture ==
  ASSUME TypeOK, NEW a \in Actor, NEW x \in Task, Create(a, x)
  PROVE  Future!Create(x)
<1>1. /\ frame[x] = "none" /\ frame' = [frame EXCEPT ![x] = "initial"]
      /\ UNCHANGED <<outcome, awaits, received>>
  BY DEF Create, promiseVars
<1>2. PhaseMap(frame') = [PhaseMap(frame) EXCEPT ![x] = "created"]
  BY <1>1, PhaseIs DEF PhaseMap, TypeOK
<1>3. PhaseMap(frame)[x] = "unused"
  BY <1>1, MapValues, PhaseIs
<1> QED
  BY <1>1, <1>2, <1>3, MappingIs DEF Future!Create

(* Frames that are freed without breaking a rule hold what TaskFuture lets *)
(* its callers throw away.                                                 *)
LEMMA DestroyedPhase ==
  ASSUME TypeOK, NoDanglingTask, NEW x \in Task, NEW D \in SUBSET Doomed(x),
         DropBreach(D) = {}, x \in D => holder[x] # None
  PROVE  /\ \A y \in D : PhaseMap(frame)[y] \in {"created", "done"}
         /\ PhaseMap(Destroyed(D)) =
              [y \in Task |-> IF y \in D THEN "gone" ELSE PhaseMap(frame)[y]]
<1>1. D \subseteq Task
  BY DoomedType
<1>2. ASSUME NEW y \in D PROVE PhaseMap(frame)[y] \in {"created", "done"}
  <2>1. y \in Task /\ holder[y] # None
    BY <1>1, DoomedHeld
  <2>2. frame[y] \notin {"none", "destroyed"} /\ ~Started(y)
    BY <2>1 DEF NoDanglingTask, DropBreach
  <2>3. frame[y] \in {"initial", "final"}
    BY <2>1, <2>2 DEF Started, TypeOK
  <2> QED
    BY <2>1, <2>3, MapValues, PhaseIs
<1>3. PhaseMap(Destroyed(D)) =
        [y \in Task |-> IF y \in D THEN "gone" ELSE PhaseMap(frame)[y]]
  BY PhaseIs DEF PhaseMap, Destroyed
<1> QED
  BY <1>2, <1>3

LEMMA DropFuture ==
  ASSUME TypeOK, NoDanglingTask, NEW a \in Actor, NEW x \in Task, Drop(a, x),
         breach' = {}
  PROVE  Future!Discard(Doomed(x))
<1>1. /\ frame' = Destroyed(Doomed(x)) /\ DropBreach(Doomed(x)) = {}
      /\ holder[x] = a
      /\ UNCHANGED <<outcome, awaits, received>>
  BY DEF Drop, promiseVars
<1>2. holder[x] # None
  BY <1>1, RuntimeAssumption DEF Actor
<1>3. /\ \A y \in Doomed(x) : PhaseMap(frame)[y] \in {"created", "done"}
      /\ PhaseMap(frame') =
           [y \in Task |-> IF y \in Doomed(x) THEN "gone"
                           ELSE PhaseMap(frame)[y]]
  BY <1>1, <1>2, DestroyedPhase
<1> QED
  BY <1>1, <1>3, MappingIs DEF Future!Discard

LEMMA StartFuture ==
  ASSUME TypeOK, NEW a \in Actor, NEW x \in Task, NEW isDaemon,
         Start(a, x, isDaemon)
  PROVE  Future!Launch(x)
<1>1. /\ frame[x] = "initial" /\ frame' = [frame EXCEPT ![x] = "running"]
      /\ UNCHANGED <<outcome, awaits, received>>
  BY DEF Start
<1>2. PhaseMap(frame') = [PhaseMap(frame) EXCEPT ![x] = "running"]
  BY <1>1, PhaseIs DEF PhaseMap, TypeOK
<1>3. PhaseMap(frame)[x] = "created"
  BY <1>1, MapValues, PhaseIs
<1> QED
  BY <1>1, <1>2, <1>3, MappingIs DEF Future!Launch

LEMMA AwaitReadyFuture ==
  ASSUME TypeOK, RulesCore, AwaitInv, breach = {}, NEW t \in Task,
         NEW x \in Task, AwaitReady(t, x)
  PROVE  Future!Collect(t, x)
<1>1. /\ cur = t /\ frame[x] = "final"
      /\ received' = [received EXCEPT ![t] = outcome[x]]
      /\ UNCHANGED <<frame, outcome, awaits>>
  BY DEF AwaitReady, MayAwait, Executes, promiseVars
<1>2. PhaseMap(frame)[x] = "done"
  BY <1>1, MapValues, PhaseIs
<1>3. PhaseMap(frame') = PhaseMap(frame) /\ WaitMap(awaits') = WaitMap(awaits)
  BY <1>1
<1> QED
  BY <1>1, <1>2, <1>3, CurIsFree, MappingIs DEF Future!Collect

(* Both branches of await_suspend.                                         *)
LEMMA LinkFuture ==
  ASSUME TypeOK, RulesCore, AwaitInv, breach = {}, NEW t \in Task,
         NEW x \in Task, t # x, cur = t, LinkCaller(t, x),
         UNCHANGED <<outcome, received>>,
         frame[x] = "initial" \/ (Started(x) /\ caller[x] = None),
         \A y \in Task \ {t, x} : frame'[y] = frame[y],
         frame'[t] = "suspended", Started(x)'
  PROVE  Future!Await(t, x)
<1>1. awaits' = [awaits EXCEPT ![t] = x]
  BY DEF LinkCaller
<1>2. ~Future!Awaited(x)
  BY FutureAwaited DEF Started
<1>3. PhaseMap(frame)[x] \in {"created", "running"}
  <2>1. frame[x] \in {"initial", "running", "suspended"}
    BY DEF Started
  <2> QED
    BY ONLY <2>1, x \in Task, MapValues, PhaseIs
<1>4. PhaseMap(frame)[t] = "running"
  <2>1. frame[t] = "running"
    BY DEF RulesCore, ControlInv
  <2> QED
    BY <2>1, MapValues, PhaseIs
<1>5. PhaseMap(frame') = [PhaseMap(frame) EXCEPT ![x] = "running"]
  <2>1. PhaseMap(frame')[x] = "running" /\ PhaseMap(frame')[t] = "running"
    BY MapValues, PhaseIs DEF Started
  <2>2. \A y \in Task \ {t, x} : PhaseMap(frame')[y] = PhaseMap(frame)[y]
    BY MapValues
  <2> QED
    BY <1>4, <2>1, <2>2 DEF PhaseMap
<1>6. WaitMap(awaits') = [WaitMap(awaits) EXCEPT ![t] = x]
  BY <1>1 DEF WaitMap, TypeOK
<1> QED
  BY <1>2, <1>3, <1>5, <1>6, CurIsFree, MappingIs DEF Future!Await

LEMMA AwaitStartFuture ==
  ASSUME TypeOK, RulesCore, AwaitInv, breach = {}, NEW t \in Task,
         NEW x \in Task, AwaitStart(t, x)
  PROVE  Future!Await(t, x)
<1>1. /\ t # x /\ cur = t /\ LinkCaller(t, x) /\ frame[x] = "initial"
      /\ UNCHANGED <<outcome, received>>
      /\ frame' = [frame EXCEPT ![t] = "suspended", ![x] = "running"]
  BY DEF AwaitStart, MayAwait, Executes
<1>2. /\ frame'[t] = "suspended" /\ frame'[x] = "running"
      /\ \A y \in Task \ {t, x} : frame'[y] = frame[y]
  BY <1>1 DEF TypeOK
<1> QED
  BY <1>1, <1>2, LinkFuture DEF Started

LEMMA AwaitDaemonFuture ==
  ASSUME TypeOK, RulesCore, AwaitInv, breach = {}, NEW t \in Task,
         NEW x \in Task, AwaitDaemon(t, x), breach' = {}
  PROVE  Future!Await(t, x)
<1>1. /\ t # x /\ cur = t /\ LinkCaller(t, x)
      /\ Started(x) /\ caller[x] = None
      /\ UNCHANGED <<outcome, received>>
      /\ frame' = [frame EXCEPT ![t] = "suspended"]
  BY DEF AwaitDaemon, MayAwait, Executes
<1>2. /\ frame'[t] = "suspended" /\ frame'[x] = frame[x]
      /\ \A y \in Task \ {t, x} : frame'[y] = frame[y]
  BY <1>1 DEF TypeOK
<1> QED
  BY <1>1, <1>2, LinkFuture DEF Started

(* The end of a task with its locals, whatever becomes of its own frame.   *)
LEMMA FinishFuture ==
  ASSUME TypeOK, RulesCore, AwaitInv, NoDanglingTask, breach = {},
         NEW t \in Task, NEW out \in Out, NEW last \in {"done", "gone"},
         cur = t, caller[t] # None => last = "done",
         DropBreach(Locals(t)) = {},
         PhaseMap(frame') = [PhaseMap(Destroyed(Locals(t))) EXCEPT ![t] = last],
         outcome' = [outcome EXCEPT ![t] = out],
         awaits' = [y \in Task |-> IF awaits[y] = t THEN None ELSE awaits[y]],
         received' = [y \in Task |-> IF awaits[y] = t THEN out ELSE received[y]]
  PROVE  Future!Finish(t, out, Locals(t), last)
<1> DEFINE D == Locals(t)
<1>1. t \notin D /\ D \in SUBSET Doomed(t) /\ D \subseteq Task
  BY LocalsType DEF Locals
<1>2. /\ \A y \in D : PhaseMap(frame)[y] \in {"created", "done"}
      /\ PhaseMap(Destroyed(D)) =
           [y \in Task |-> IF y \in D THEN "gone" ELSE PhaseMap(frame)[y]]
  BY <1>1, DestroyedPhase
<1> HIDE DEF D
<1>3. PhaseMap(frame') = [y \in Task |-> IF y \in D THEN "gone" ELSE
                            IF y = t THEN last ELSE PhaseMap(frame)[y]]
  BY <1>1, <1>2 DEF D
<1>4. Future!Awaited(t) => last = "done"
  BY FutureAwaited
<1>5. ASSUME NEW y \in Task PROVE WaitMap(awaits)[y] = t <=> awaits[y] = t
  <2>1. WaitMap(awaits)[y] = IF awaits[y] \in Task THEN awaits[y] ELSE None
    BY MapValues
  <2> QED
    BY ONLY <2>1, t \in Task, RuntimeAssumption
<1>6. WaitMap(awaits') = [y \in Task |-> IF WaitMap(awaits)[y] = t THEN None
                                         ELSE WaitMap(awaits)[y]]
  <2>1. ASSUME NEW y \in Task
        PROVE  WaitMap(awaits')[y] = IF WaitMap(awaits)[y] = t THEN None
                                     ELSE WaitMap(awaits)[y]
    <3>1. WaitMap(awaits)[y] = IF awaits[y] \in Task THEN awaits[y] ELSE None
      BY MapValues
    <3>2. WaitMap(awaits')[y] = IF awaits'[y] \in Task THEN awaits'[y] ELSE None
      BY MapValues
    <3>3. awaits'[y] = IF awaits[y] = t THEN None ELSE awaits[y]
      OBVIOUS
    <3> QED
      BY ONLY <1>5, <3>1, <3>2, <3>3, RuntimeAssumption
  <2> QED
    BY <2>1 DEF WaitMap
<1>7. received' = [y \in Task |-> IF WaitMap(awaits)[y] = t THEN out
                                  ELSE received[y]]
  BY <1>5
<1> QED
  BY <1>1, <1>2, <1>3, <1>4, <1>6, <1>7, CurIsFree, MappingIs
     DEF Future!Finish, D

(* Nobody waits for a task without a caller.                               *)
LEMMA FinishAlone ==
  ASSUME TypeOK, RulesCore, AwaitInv, breach = {}, NEW t \in Task,
         NEW out \in Out, caller[t] = None, UNCHANGED <<awaits, received>>
  PROVE  /\ awaits' = [y \in Task |-> IF awaits[y] = t THEN None ELSE awaits[y]]
         /\ received' = [y \in Task |-> IF awaits[y] = t THEN out
                                         ELSE received[y]]
<1>1. \A y \in Task : awaits[y] # t
  BY AwaitedIs, RuntimeAssumption
<1> QED
  BY <1>1 DEF TypeOK

LEMMA FinishDaemonFuture ==
  ASSUME TypeOK, RulesCore, AwaitInv, NoDanglingTask, breach = {},
         NEW t \in Task, NEW out \in Out, FinishDaemon(t, out), breach' = {}
  PROVE  Future!Finish(t, out, Locals(t), "done")
<1>1. /\ cur = t /\ caller[t] = None /\ DropBreach(Locals(t)) = {}
      /\ frame' = [Destroyed(Locals(t)) EXCEPT ![t] = "final"]
      /\ outcome' = [outcome EXCEPT ![t] = out]
      /\ UNCHANGED <<awaits, received>>
  BY DEF FinishDaemon, EndBody, Executes
<1>2. PhaseMap(frame') = [PhaseMap(Destroyed(Locals(t))) EXCEPT ![t] = "done"]
  BY <1>1, PhaseIs DEF PhaseMap, Destroyed
<1> QED
  BY <1>1, <1>2, FinishAlone, FinishFuture

LEMMA FinishRootFuture ==
  ASSUME TypeOK, RulesCore, AwaitInv, NoDanglingTask, breach = {},
         NEW t \in Task, NEW out \in Out, FinishRoot(t, out), breach' = {}
  PROVE  Future!Finish(t, out, Locals(t), "gone")
<1>1. /\ cur = t /\ caller[t] = None /\ DropBreach(Locals(t)) = {}
      /\ frame' = Destroyed(Doomed(t))
      /\ outcome' = [outcome EXCEPT ![t] = out]
      /\ UNCHANGED <<awaits, received>>
  BY DEF FinishRoot, EndBody, Executes
<1>2. PhaseMap(frame') = [PhaseMap(Destroyed(Locals(t))) EXCEPT ![t] = "gone"]
  <2>1. Doomed(t) = Locals(t) \cup {t}
    BY DoomedSelf DEF Locals
  <2> QED
    BY <1>1, <2>1, PhaseIs DEF PhaseMap, Destroyed
<1> QED
  BY <1>1, <1>2, FinishAlone, FinishFuture

LEMMA FinishToCallerFuture ==
  ASSUME TypeOK, RulesCore, AwaitInv, NoDanglingTask, breach = {},
         NEW t \in Task, NEW out \in Out, FinishToCaller(t, out), breach' = {}
  PROVE  Future!Finish(t, out, Locals(t), "done")
<1> DEFINE D == Locals(t)
           c == caller[t]
<1>1. /\ cur = t /\ c \in Task /\ DropBreach(D) = {}
      /\ outcome' = [outcome EXCEPT ![t] = out]
  BY DEF FinishToCaller, EndBody, Executes, TypeOK
<1>2. frame[t] = "running"
  BY <1>1 DEF RulesCore, ControlInv
<1>3. frame[c] = "suspended" /\ awaits[c] = t /\ c # t
  BY <1>1, <1>2, CallerWaits DEF FinishToCaller, Started
<1>4. Destroyed(D)[c] = "suspended"
  BY <1>1, <1>3, LocalsType, DestroyKeeps DEF Started
<1>5. /\ frame' = [Destroyed(D) EXCEPT ![t] = "final", ![c] = "running"]
      /\ awaits' = [awaits EXCEPT ![c] = None]
      /\ received' = [received EXCEPT ![c] = out]
  BY <1>3, <1>4 DEF FinishToCaller
<1>6. PhaseMap(frame') = [PhaseMap(Destroyed(D)) EXCEPT ![t] = "done"]
  <2>0. Destroyed(D) \in [Task -> {"none", "initial", "running", "suspended",
                                   "final", "destroyed"}]
    BY LocalsType, DestroyType
  <2> HIDE DEF D, c
  <2>1. PhaseMap(Destroyed(D))[c] = "running"
    BY <1>1, <1>4, MapValues, PhaseIs
  <2>2. frame'[t] = "final" /\ frame'[c] = "running"
        /\ \A y \in Task \ {t, c} : frame'[y] = Destroyed(D)[y]
    BY <1>1, <1>3, <1>5, <2>0
  <2>3. ASSUME NEW y \in Task
        PROVE  PhaseMap(frame')[y] = IF y = t THEN "done"
                                     ELSE PhaseMap(Destroyed(D))[y]
    <3>1. /\ PhaseMap(frame')[y] = Phase(frame'[y])
          /\ PhaseMap(Destroyed(D))[y] = Phase(Destroyed(D)[y])
      BY MapValues
    <3> QED
      BY <1>1, <2>1, <2>2, <3>1, PhaseIs
  <2> QED
    BY <2>3 DEF PhaseMap
<1>7. \A y \in Task : awaits[y] = t <=> y = c
  BY <1>1, <1>3, AwaitedIs
<1>8. /\ awaits' = [y \in Task |-> IF awaits[y] = t THEN None ELSE awaits[y]]
      /\ received' = [y \in Task |-> IF awaits[y] = t THEN out ELSE received[y]]
  BY <1>1, <1>5, <1>7 DEF TypeOK
<1> QED
  BY <1>1, <1>6, <1>8, FinishFuture

(* The completion of an awaiter of the ring.                               *)
LEMMA ResumeFuture ==
  ASSUME TypeOK, RulesCore, AwaitInv, breach = {}, NEW o \in Op, Resume(o),
         RulesCore'
  PROVE  \E t \in Task : Future!Other(t, "value")
<1> DEFINE t == handle[o]
<1>1. /\ t # None /\ frame[t] = "suspended" /\ awaits[t] = o
      /\ frame' = [frame EXCEPT ![t] = "running"]
      /\ awaits' = [awaits EXCEPT ![t] = None]
      /\ received' = [received EXCEPT ![t] = "value"]
      /\ outcome' = outcome
  BY DEF Resume, RulesCore, promiseVars
<1>2. t \in Task
  BY <1>1 DEF TypeOK
<1> HIDE DEF t
<1>3. PhaseMap(frame') = PhaseMap(frame)
  BY <1>1, <1>2, PhaseIs DEF PhaseMap, TypeOK
<1>4. WaitMap(awaits') = WaitMap(awaits) /\ WaitMap(awaits)[t] = None
  BY <1>1, <1>2, RuntimeAssumption DEF WaitMap, TypeOK
<1>5. PhaseMap(frame)[t] = "running"
  BY <1>1, <1>2, MapValues, PhaseIs
<1>6. Future!Other(t, "value")
  BY <1>1, <1>3, <1>4, <1>5, MappingIs DEF Future!Other, Future!Free
<1> QED
  BY <1>2, <1>6

(* A coroutine that begins to wait for the ring waits for no task.         *)
LEMMA IoAwaitFuture ==
  ASSUME TypeOK, RulesCore, AwaitInv, breach = {}, NEW t \in Task,
         NEW o \in Op, IoAwait(t, o)
  PROVE  UNCHANGED Future!vars
<1>1. /\ cur = t /\ UNCHANGED <<outcome, received>>
      /\ frame' = [frame EXCEPT ![t] = "suspended"]
      /\ awaits' = [awaits EXCEPT ![t] = o]
  BY DEF IoAwait, SuspendOnIo, Executes, promiseVars
<1>2. frame[t] = "running" /\ awaits[t] = None
  BY <1>1 DEF RulesCore, ControlInv, AwaitInv
<1>3. PhaseMap(frame') = PhaseMap(frame)
  BY <1>1, <1>2, PhaseIs DEF PhaseMap, TypeOK
<1>4. WaitMap(awaits') = WaitMap(awaits)
  BY <1>1, <1>2, RuntimeAssumption DEF WaitMap, TypeOK
<1> QED
  BY <1>1, <1>3, <1>4, Stutters

-----------------------------------------------------------------------------
(* AwaitInv is inductive together with RulesInv.                           *)
LEMMA AwaitStep ==
  ASSUME TypeOK, RulesInv, AwaitInv, [Next]_vars PROVE AwaitInv'
<1> SUFFICES ASSUME breach' = {}
             PROVE  \A t \in Task : frame'[t] # "suspended" => awaits'[t] = None
  BY DEF AwaitInv
<1>1. breach = {} /\ RulesCore
  BY BreachGrows DEF RulesInv
<1>2. /\ \A t \in Task : frame[t] # "suspended" => awaits[t] = None
      /\ frame \in [Task -> {"none", "initial", "running", "suspended",
                             "final", "destroyed"}]
      /\ awaits \in [Task -> Task \cup Op \cup {None}]
  BY <1>1 DEF AwaitInv, TypeOK
<1>3. ASSUME NEW D \in SUBSET Task, DropBreach(D) = {}
      PROVE  \A y \in Task : Destroyed(D)[y] # "suspended"
                              => frame[y] # "suspended"
  BY <1>3, DestroyKeeps DEF Started
<1>4. CASE UNCHANGED vars
  BY <1>2, <1>4 DEF vars
<1>5. ASSUME NEW a \in Actor, NEW x \in Task,
             Create(a, x) \/ Launch(a, x) \/ LaunchDetached(a, x)
                          \/ BlockRun(x)
      PROVE  \A t \in Task : frame'[t] # "suspended" => awaits'[t] = None
  BY <1>2, <1>5 DEF Create, Launch, LaunchDetached, BlockRun, Start
<1>6. ASSUME NEW a \in Actor, NEW x \in Task, Drop(a, x)
      PROVE  \A t \in Task : frame'[t] # "suspended" => awaits'[t] = None
  <2>1. /\ frame' = Destroyed(Doomed(x)) /\ DropBreach(Doomed(x)) = {}
        /\ UNCHANGED awaits
    BY <1>6 DEF Drop
  <2> QED
    BY <1>2, <1>3, <2>1, DoomedType
<1>7. ASSUME NEW t \in Task, NEW x \in Task, AwaitReady(t, x)
      PROVE  \A y \in Task : frame'[y] # "suspended" => awaits'[y] = None
  BY <1>2, <1>7 DEF AwaitReady
<1>8. ASSUME NEW t \in Task, NEW x \in Task, AwaitStart(t, x)
      PROVE  \A y \in Task : frame'[y] # "suspended" => awaits'[y] = None
  BY <1>2, <1>8 DEF AwaitStart, MayAwait, LinkCaller
<1>9. ASSUME NEW t \in Task, NEW x \in Task, AwaitDaemon(t, x)
      PROVE  \A y \in Task : frame'[y] # "suspended" => awaits'[y] = None
  BY <1>2, <1>9 DEF AwaitDaemon, LinkCaller
<1>10. ASSUME NEW t \in Task, NEW o \in Op,
              IoAwait(t, o) \/ IoAwaitPrepared(t, o)
       PROVE  \A y \in Task : frame'[y] # "suspended" => awaits'[y] = None
  BY <1>2, <1>10 DEF IoAwait, IoAwaitPrepared, SuspendOnIo
<1>11. ASSUME NEW t \in Task, NEW out \in Out, FinishToCaller(t, out)
       PROVE  \A y \in Task : frame'[y] # "suspended" => awaits'[y] = None
  <2> DEFINE D == Locals(t)
             c == caller[t]
  <2>1. /\ c \in Task /\ DropBreach(D) = {} /\ cur = t
    BY <1>11 DEF FinishToCaller, EndBody, Executes, TypeOK
  <2>2. frame[t] = "running"
    BY <1>1, <2>1 DEF RulesCore, ControlInv
  <2>3. frame[c] = "suspended"
    BY <1>1, <1>11, <2>1, <2>2, CallerWaits DEF FinishToCaller, Started
  <2>4. Destroyed(D)[c] = "suspended"
    BY <2>1, <2>3, LocalsType, DestroyKeeps DEF Started
  <2>5. /\ frame' = [Destroyed(D) EXCEPT ![t] = "final", ![c] = "running"]
        /\ awaits' = [awaits EXCEPT ![c] = None]
    BY <1>11, <2>4 DEF FinishToCaller
  <2>6. \A y \in Task : Destroyed(D)[y] # "suspended"
                          => frame[y] # "suspended"
    BY <1>3, <2>1, LocalsType
  <2>7. Destroyed(D) \in [Task -> {"none", "initial", "running", "suspended",
                                   "final", "destroyed"}]
    BY LocalsType, DestroyType
  <2> HIDE DEF D, c
  <2> QED
    BY <1>2, <2>1, <2>2, <2>5, <2>6, <2>7
<1>12. ASSUME NEW t \in Task, NEW out \in Out, FinishDaemon(t, out)
       PROVE  \A y \in Task : frame'[y] # "suspended" => awaits'[y] = None
  <2> DEFINE D == Locals(t)
  <2>1. /\ frame' = [Destroyed(D) EXCEPT ![t] = "final"]
        /\ DropBreach(D) = {} /\ UNCHANGED awaits /\ cur = t
    BY <1>12 DEF FinishDaemon, EndBody, Executes
  <2>2. frame[t] = "running"
    BY <1>1, <2>1 DEF RulesCore, ControlInv
  <2>3. \A y \in Task : Destroyed(D)[y] # "suspended"
                          => frame[y] # "suspended"
    BY <1>3, <2>1, LocalsType
  <2>4. Destroyed(D) \in [Task -> {"none", "initial", "running", "suspended",
                                   "final", "destroyed"}]
    BY LocalsType, DestroyType
  <2> HIDE DEF D
  <2> QED
    BY <1>2, <2>1, <2>2, <2>3, <2>4
<1>13. ASSUME NEW t \in Task, NEW out \in Out, FinishRoot(t, out)
       PROVE  \A y \in Task : frame'[y] # "suspended" => awaits'[y] = None
  <2>1. /\ frame' = Destroyed(Doomed(t)) /\ cur = t
        /\ DropBreach(Locals(t)) = {} /\ UNCHANGED awaits
    BY <1>13 DEF FinishRoot, EndBody, Executes
  <2>2. frame[t] = "running"
    BY <1>1, <2>1 DEF RulesCore, ControlInv
  <2>3. \A y \in Task : Destroyed(Doomed(t))[y] # "suspended"
                          => frame[y] # "suspended"
    BY <2>1, <2>2 DEF Destroyed, DropBreach, Locals, Started
  <2> QED
    BY <1>2, <2>1, <2>3
<1>14. ASSUME NEW o \in Op, Resume(o)
       PROVE  \A y \in Task : frame'[y] # "suspended" => awaits'[y] = None
  BY <1>2, <1>14 DEF Resume
<1>15. CASE LoopRun \/ ResumeStop \/ CqeSeen
  BY <1>2, <1>15 DEF LoopRun, ResumeStop, CqeSeen
<1>16. ASSUME NEW r \in Request, Complete(r)
       PROVE  \A y \in Task : frame'[y] # "suspended" => awaits'[y] = None
  BY <1>2, <1>16 DEF Complete
<1>17. CASE UserStep
  <2>1. ASSUME NEW t \in Task,
               IoRejected(t) \/ \E o \in Op : IoPrepare(t, o)
        PROVE  \A y \in Task : frame'[y] # "suspended" => awaits'[y] = None
    BY <1>2, <2>1 DEF IoRejected, IoPrepare
  <2> QED
    BY <1>5, <1>6, <1>7, <1>8, <1>17, <2>1 DEF UserStep, Actor
<1>18. CASE Yield
  <2>1. ASSUME NEW t \in Task, NEW x \in Task, AwaitStarted(t, x) PROVE FALSE
    BY <2>1 DEF AwaitStarted
  <2> QED
    BY <1>9, <1>10, <1>11, <1>12, <1>13, <1>18, <2>1 DEF Yield
<1> QED
  BY <1>4, <1>14, <1>15, <1>16, <1>17, <1>18 DEF Next, LoopStep

LEMMA AwaitAlways == Spec => []AwaitInv
<1>1. Init => AwaitInv
  BY DEF Init, AwaitInv
<1> QED
  BY <1>1, AwaitStep, TypeCorrect, RulesInvariant, PTL DEF Spec

(* Every step that keeps the rules.                                        *)
LEMMA FutureStep ==
  ASSUME TypeOK, RulesInv, RulesInv', AwaitInv, NoDanglingTask, [Next]_vars,
         breach' = {}
  PROVE  [Future!Next]_(Future!vars)
<1>1. breach = {} /\ RulesCore /\ RulesCore'
  BY BreachGrows DEF RulesInv
<1>2. ASSUME UNCHANGED <<outcome, received, awaits, frame>>
      PROVE  UNCHANGED Future!vars
  <2>1. PhaseMap(frame') = PhaseMap(frame) /\ WaitMap(awaits') = WaitMap(awaits)
    BY <1>2
  <2> QED
    BY <1>2, <2>1, Stutters
<1>3. CASE UNCHANGED vars
  BY <1>2, <1>3 DEF vars, promiseVars
<1>4. CASE UserStep
  <2>1. ASSUME NEW a \in Actor, NEW x \in Task, Create(a, x)
        PROVE  Future!Next
    BY <2>1, CreateFuture DEF Future!Next
  <2>2. ASSUME NEW a \in Actor, NEW x \in Task, Drop(a, x)
        PROVE  Future!Next
    <3>1. Future!Discard(Doomed(x)) /\ Doomed(x) \in SUBSET Task
      BY <2>2, DropFuture, DoomedType
    <3> QED
      BY <3>1 DEF Future!Next
  <2>3. ASSUME NEW a \in Actor, NEW x \in Task,
               Launch(a, x) \/ LaunchDetached(a, x)
        PROVE  Future!Next
    BY <2>3, StartFuture DEF Launch, LaunchDetached, Future!Next
  <2>4. ASSUME NEW x \in Task, BlockRun(x) PROVE Future!Next
    BY <2>4, StartFuture DEF BlockRun, Actor, Future!Next
  <2>5. ASSUME NEW t \in Task, NEW x \in Task, AwaitReady(t, x)
        PROVE  Future!Next
    BY <1>1, <2>5, AwaitReadyFuture DEF Future!Next
  <2>6. ASSUME NEW t \in Task, NEW x \in Task, AwaitStart(t, x)
        PROVE  Future!Next
    BY <1>1, <2>6, AwaitStartFuture DEF Future!Next
  <2>7. ASSUME NEW t \in Task, IoRejected(t) PROVE FALSE
    BY <1>1, <2>7, EmptySqNotFull DEF IoRejected, RulesCore
  <2>8. ASSUME NEW t \in Task, NEW o \in Op, IoPrepare(t, o) PROVE FALSE
    BY <2>8 DEF IoPrepare
  <2> QED
    BY <1>4, <2>1, <2>2, <2>3, <2>4, <2>5, <2>6, <2>7, <2>8 DEF UserStep
<1>5. CASE Yield
  <2>1. ASSUME NEW t \in Task, NEW x \in Task, AwaitDaemon(t, x)
        PROVE  Future!Next
    BY <1>1, <2>1, AwaitDaemonFuture DEF Future!Next
  <2>2. ASSUME NEW t \in Task, NEW x \in Task, AwaitStarted(t, x) PROVE FALSE
    BY <2>2 DEF AwaitStarted
  <2>3. ASSUME NEW t \in Task, NEW o \in Op, IoAwait(t, o)
        PROVE  UNCHANGED Future!vars
    BY <1>1, <2>3, IoAwaitFuture
  <2>4. ASSUME NEW t \in Task, NEW o \in Op, IoAwaitPrepared(t, o) PROVE FALSE
    BY <1>1, <2>4, NoPreparedAwait
  <2>5. ASSUME NEW t \in Task, NEW out \in Out,
               FinishToCaller(t, out) \/ FinishDaemon(t, out)
                                      \/ FinishRoot(t, out)
        PROVE  Future!Next
    <3>1. \E last \in {"done", "gone"} :
            Future!Finish(t, out, Locals(t), last)
      BY <1>1, <2>5, FinishToCallerFuture, FinishDaemonFuture, FinishRootFuture
    <3> QED
      BY <3>1, LocalsType DEF Future!Next
  <2> QED
    BY <1>5, <2>1, <2>2, <2>3, <2>4, <2>5 DEF Yield
<1>6. CASE LoopStep
  <2>1. ASSUME NEW o \in Op, Resume(o) PROVE Future!Next
    <3>1. \E t \in Task : Future!Other(t, "value")
      BY <1>1, <2>1, ResumeFuture
    <3> QED
      BY <3>1 DEF Future!Next
  <2>2. CASE LoopRun \/ ResumeStop \/ CqeSeen
    BY <1>2, <2>2 DEF LoopRun, ResumeStop, CqeSeen, promiseVars
  <2> QED
    BY <1>6, <2>1, <2>2 DEF LoopStep
<1>7. ASSUME NEW r \in Request, Complete(r) PROVE UNCHANGED Future!vars
  BY <1>2, <1>7 DEF Complete, promiseVars
<1> QED
  BY <1>3, <1>4, <1>5, <1>6, <1>7 DEF Next

(* The initial states.                                                     *)
LEMMA FutureInit == Init => Future!Init
<1> SUFFICES ASSUME Init PROVE Future!Init
  OBVIOUS
<1>1. /\ PhaseMap(frame) = [x \in Task |-> "unused"]
      /\ WaitMap(awaits) = [t \in Task |-> None]
  BY PhaseIs, RuntimeAssumption DEF Init, PhaseMap, WaitMap
<1> QED
  BY <1>1, MappingIs DEF Init, Future!Init

(* ImplementsFuture, for task.hpp with the loop and the ring under it: as  *)
(* long as the callers keep the rules every step of the runtime is one the *)
(* task promises: launched or awaited once, one awaiting coroutine, one    *)
(* outcome that reaches it, nothing thrown away while it runs.             *)
THEOREM RuntimeImplementsFuture == Spec => ImplementsFuture
<1>1. Init => Future!Init
  BY FutureInit
<1>2. TypeOK /\ RulesInv /\ RulesInv' /\ AwaitInv /\ NoDanglingTask
        /\ [Next]_vars
        => [breach' = {} => [Future!Next]_(Future!vars)]_vars
  BY FutureStep
<1> QED
  BY <1>1, <1>2, TypeCorrect, RulesInvariant, AwaitAlways, NoTaskDangles, PTL
     DEF Spec, ImplementsFuture
=============================================================================
