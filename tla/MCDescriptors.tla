--------------------------- MODULE MCDescriptors ---------------------------
(***************************************************************************)
(* Descriptors with a few objects on a table that is often full.           *)
(***************************************************************************)
EXTENDS Descriptors, TLC

(* Storage locations are interchangeable, and so are open files.           *)
Symmetry == Permutations(Obj) \cup Permutations(File)
=============================================================================
