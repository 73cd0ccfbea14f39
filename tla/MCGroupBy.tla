----------------------------- MODULE MCGroupBy -----------------------------
(* GroupBy on inputs of at most MaxLen elements with two keys. *)
EXTENDS GroupBy, TLC
Symmetric == Permutations(Its) \cup Permutations(Grps) \cup Permutations(Curs)
             \cup Permutations(Keys)
============================================================================
