---------------------------- MODULE ThisContext ----------------------------
(***************************************************************************)
(* co_await this_context in programs with several threads, each of which   *)
(* runs an io_context of its own: one global awaiter (coro/task.hpp)       *)
(* carries the context from await_suspend, which stores it, to             *)
(* await_resume, which reads it back.  What socket::open, file::of, delay  *)
(* and the callers of launch do with the result follows.                   *)
(*                                                                         *)
(* Store and load race.  The load yields what is in memory or, where the   *)
(* compiler forwards the store, the value just stored.  A coroutine goes   *)
(* on in the thread that reaps the ring it has used.  Which coroutine of a *)
(* thread is in control is left open, and coroutines do not end here.      *)
(***************************************************************************)
CONSTANTS
  Thread,        \* each names its io_context and ring as well
  Coro,          \* coroutines
  None           \* null pointer, not started

ASSUME ContextAssumption == None \notin Thread

VARIABLES
  on,            \* the thread that executes the coroutine
  context,       \* promise.context_
  global,        \* this_context.context_
  between,       \* coroutines between await_suspend and await_resume
  found,         \* what the last co_await this_context returned
  users,         \* threads that have submitted to a ring
  overlap        \* have two lookups overlapped?

vars == <<on, context, global, between, found, users, overlap>>

TypeOK ==
  /\ on \in [Coro -> Thread \cup {None}]
  /\ context \in [Coro -> Thread \cup {None}]
  /\ found \in [Coro -> Thread \cup {None}]
  /\ global \in Thread \cup {None}
  /\ between \subseteq Coro
  /\ users \in [Thread -> SUBSET Thread]
  /\ overlap \in BOOLEAN

Init ==
  /\ on = [c \in Coro |-> None]
  /\ context = [c \in Coro |-> None]
  /\ found = [c \in Coro |-> None]
  /\ global = None
  /\ between = {}
  /\ users = [r \in Thread |-> {}]
  /\ overlap = FALSE

-----------------------------------------------------------------------------
Begin(d, th, ctx) ==
  /\ on[d] = None
  /\ on' = [on EXCEPT ![d] = th]
  /\ context' = [context EXCEPT ![d] = ctx]
  /\ UNCHANGED <<global, between, found, users, overlap>>

(* A thread is at one place: a coroutine that looks up the context goes on *)
(* without giving up control.                                              *)
Runs(c) ==
  /\ on[c] # None
  /\ \A d \in between : on[d] = on[c] => d = c

BlockRun(th, c) ==
  /\ \A d \in Coro : on[d] # th
  /\ Begin(c, th, th)

(* found->launch(d), on the thread of the caller.                          *)
Launch(c, d) ==
  /\ Runs(c) /\ c \notin between /\ found[c] # None
  /\ Begin(d, on[c], found[c])

(* co_await d: the callee gets the context of its caller.                  *)
Await(c, d) ==
  /\ Runs(c) /\ c \notin between
  /\ Begin(d, on[c], context[c])

(* Variant with a bug: the context is stored once.                         *)
StoreOnce(c) ==
  /\ Runs(c) /\ c \notin between
  /\ global' = IF global = None THEN context[c] ELSE global
  /\ between' = between \cup {c}
  /\ overlap' = (overlap \/ between # {})
  /\ UNCHANGED <<on, context, found, users>>

(* context_awaiter::await_suspend.                                         *)
Store(c) ==
  /\ Runs(c) /\ c \notin between
  /\ global' = context[c]
  /\ between' = between \cup {c}
  /\ overlap' = (overlap \/ between # {})
  /\ UNCHANGED <<on, context, found, users>>

(* context_awaiter::await_resume.                                          *)
Load(c) ==
  /\ c \in between
  /\ \E ctx \in {global, context[c]} : found' = [found EXCEPT ![c] = ctx]
  /\ between' = between \ {c}
  /\ UNCHANGED <<on, context, global, users, overlap>>

(* An operation on a socket, a file or a timer made with the ring of what  *)
(* was found; the loop of that ring resumes the coroutine.                 *)
UseRing(c) ==
  /\ Runs(c) /\ c \notin between /\ found[c] # None
  /\ users' = [users EXCEPT ![found[c]] = @ \cup {on[c]}]
  /\ on' = [on EXCEPT ![c] = found[c]]
  /\ UNCHANGED <<context, global, between, found, overlap>>

Next ==
  \/ \E th \in Thread, c \in Coro : BlockRun(th, c)
  \/ \E c, d \in Coro : Launch(c, d) \/ Await(c, d)
  \/ \E c \in Coro : Store(c) \/ Load(c) \/ UseRing(c)

Spec == Init /\ [][Next]_vars

-----------------------------------------------------------------------------
(* As long as no two lookups overlap, contexts stay with their threads,    *)
(* through any tree of launched and awaited coroutines, and a ring, which  *)
(* has no lock, is used by its own thread only (task.hpp:33, :38).         *)
OwnRingOnly ==
  ~overlap =>
    /\ \A c \in Coro : context[c] = on[c]
    /\ \A c \in Coro : found[c] \in {None, on[c]}
    /\ \A r \in Thread : users[r] \subseteq {r}
=============================================================================
