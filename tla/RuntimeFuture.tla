--------------------------- MODULE RuntimeFuture ---------------------------
(***************************************************************************)
(* Runtime, as long as nobody breaks a rule, implements TaskFuture.        *)
(***************************************************************************)
EXTENDS Runtime, TLC

Symmetry == Permutations(Task) \cup Permutations(Op)

FutureState(x) ==
  CASE frame[x] = "none"      -> "unused"
    [] frame[x] = "initial"   -> "created"
    [] frame[x] \in {"running", "suspended"} -> "running"
    [] frame[x] = "final"     -> "done"
    [] frame[x] = "destroyed" -> "gone"

Future ==
  INSTANCE TaskFuture WITH
    state   <- [x \in Task |-> FutureState(x)],
    outcome <- outcome,
    waits   <- [t \in Task |-> IF awaits[t] \in Task THEN awaits[t] ELSE None],
    got     <- received,
    IoOut   <- {"value", "sqfull"}

(* As long as no rule is broken every step of the runtime is a step of the *)
(* task promises, or changes nothing of them: task.hpp with the loop and   *)
(* the ring under it implements TaskFuture.                                *)
ImplementsFuture ==
  Future!Init /\ [][breach' = {} => [Future!Next]_(Future!vars)]_vars
=============================================================================
