------------------------------ MODULE MCSorted ------------------------------
(* Sorted on containers of at most MaxLen elements. *)
EXTENDS Sorted, TLC
Symmetric == Permutations(Views)
============================================================================
