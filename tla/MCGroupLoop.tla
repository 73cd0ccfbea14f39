---------------------------- MODULE MCGroupLoop ----------------------------
(* The loop over inputs of at most MaxLen elements. *)
EXTENDS GroupLoop
============================================================================
