---------------------------- MODULE MCHeldChain ----------------------------
(* HeldChain over at most MaxLen containers of at most MaxSize elements. *)
EXTENDS HeldChain, TLC
Symmetric == Permutations(Its)
============================================================================
