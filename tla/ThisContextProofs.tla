------------------------- MODULE ThisContextProofs -------------------------
(***************************************************************************)
(* For any number of threads and coroutines: without overlapping lookups   *)
(* contexts and rings stay with their threads.                             *)
(***************************************************************************)
EXTENDS ThisContext, TLAPS

(* As long as no two lookups overlap there is one at most, of a coroutine  *)
(* that has begun, and memory holds what it has stored.                    *)
LookupInv ==
  ~overlap =>
    \A c \in between : /\ on[c] # None
                       /\ global = context[c]
                       /\ \A d \in between : d = c

ContextInv == TypeOK /\ OwnRingOnly /\ LookupInv

LEMMA ContextInit == Init => ContextInv
BY ContextAssumption DEF Init, ContextInv, TypeOK, OwnRingOnly, LookupInv

(* A coroutine begins in the thread its context belongs to.                *)
LEMMA BeginKeeps ==
  ASSUME ContextInv, NEW d \in Coro, NEW th \in Thread,
         NEW ctx \in Thread \cup {None}, Begin(d, th, ctx), ~overlap => ctx = th
  PROVE  ContextInv'
<1>1. TypeOK'
  BY ContextAssumption DEF ContextInv, TypeOK, Begin
<1>2. OwnRingOnly'
  BY ContextAssumption DEF ContextInv, TypeOK, OwnRingOnly, Begin
<1>3. LookupInv'
  BY ContextAssumption DEF ContextInv, TypeOK, LookupInv, Begin
<1> QED  BY <1>1, <1>2, <1>3 DEF ContextInv

LEMMA ContextStep == ContextInv /\ [Next]_vars => ContextInv'
<1> SUFFICES ASSUME ContextInv, [Next]_vars
             PROVE  ContextInv'
  OBVIOUS
<1>1. ASSUME NEW th \in Thread, NEW c \in Coro, BlockRun(th, c)
      PROVE  ContextInv'
  BY <1>1, BeginKeeps DEF BlockRun
<1>2. ASSUME NEW c \in Coro, NEW d \in Coro, Launch(c, d)
      PROVE  ContextInv'
  BY <1>2, BeginKeeps DEF Launch, Runs, ContextInv, TypeOK, OwnRingOnly
<1>3. ASSUME NEW c \in Coro, NEW d \in Coro, Await(c, d)
      PROVE  ContextInv'
  BY <1>3, BeginKeeps DEF Await, Runs, ContextInv, TypeOK, OwnRingOnly
<1>4. ASSUME NEW c \in Coro, Store(c)
      PROVE  ContextInv'
  BY <1>4 DEF Store, Runs, ContextInv, TypeOK, OwnRingOnly, LookupInv
<1>5. ASSUME NEW c \in Coro, Load(c)
      PROVE  ContextInv'
  BY <1>5 DEF Load, ContextInv, TypeOK, OwnRingOnly, LookupInv
<1>6. ASSUME NEW c \in Coro, UseRing(c)
      PROVE  ContextInv'
  BY <1>6 DEF UseRing, Runs, ContextInv, TypeOK, OwnRingOnly, LookupInv
<1>7. CASE UNCHANGED vars
  BY <1>7 DEF vars, ContextInv, TypeOK, OwnRingOnly, LookupInv
<1> QED  BY <1>1, <1>2, <1>3, <1>4, <1>5, <1>6, <1>7 DEF Next

(* The invariant: overlapping lookups are the only way a context gets      *)
(* astray.                                                                 *)
THEOREM ContextAlways == Spec => []ContextInv
BY ContextInit, ContextStep, PTL DEF Spec

(* As long as no two lookups of this_context overlap, every coroutine runs *)
(* in the thread of its context and every ring is used by its own thread,  *)
(* for any number of threads and coroutines (task.hpp:33, :38).            *)
THEOREM RingsArePrivate == Spec => []OwnRingOnly
<1>1. ContextInv => OwnRingOnly
  BY DEF ContextInv
<1> QED  BY <1>1, ContextAlways, PTL
=============================================================================
