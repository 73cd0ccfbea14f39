------------------------- MODULE PartialFunctions -------------------------
(* Stores whose domain is the set of objects that exist at the moment:    *)
(* an object of the program is constructed by Put and destroyed by Drop.  *)

Put(f, x, v) == [y \in DOMAIN f \cup {x} |-> IF y = x THEN v ELSE f[y]]

Drop(f, x) == [y \in DOMAIN f \ {x} |-> f[y]]

(* f without the entries that refer to v *)
Forget(f, v) == [y \in {z \in DOMAIN f : f[z] # v} |-> f[y]]

===========================================================================
