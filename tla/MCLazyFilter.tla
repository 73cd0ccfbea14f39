--------------------------- MODULE MCLazyFilter ----------------------------
(* The five filtering tools on inputs of at most MaxLen elements. *)
EXTENDS LazyFilter, TLC
Symmetric == Permutations(Its) \cup Permutations(Elems)
============================================================================
