-------------------------- MODULE MCSharedBuffer ---------------------------
(* chunked, batched and sliding_window on inputs of at most MaxLen elements. *)
EXTENDS SharedBuffer, TLC
Symmetric == Permutations(Its) \cup Permutations(Bufs)
============================================================================
