----------------------------- MODULE MCRuntime -----------------------------
(***************************************************************************)
(* Runtime on a small program: three coroutine frames, two awaiter         *)
(* objects.                                                                *)
(***************************************************************************)
EXTENDS Runtime, TLC

(* Frames and awaiters are interchangeable: no action and no invariant     *)
(* tells one from another.                                                 *)
Symmetry == Permutations(Task) \cup Permutations(Op)
=============================================================================
