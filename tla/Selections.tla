----------------------------- MODULE Selections -----------------------------
(***************************************************************************)
(* combinations, combinations_with_replacement, powerset, permutations and *)
(* product: iterators that hold one iterator of the input per element of   *)
(* the selection. These are positions: 1 to n in an input of n elements,   *)
(* n + 1 for its end and 0 for one that was never set.                     *)
(*                                                                         *)
(* A source has the fields tool and n (the input's length), k (length_ of  *)
(* the first two), elems (the input of permutations) or sizes (the lengths *)
(* of product's inputs).                                                   *)
(*                                                                         *)
(* An operator named Wrong... is a plausible mistake in the definition     *)
(* that follows it; nothing uses it.                                       *)
(***************************************************************************)
EXTENDS Integers, SequencesExt, FiniteSetsExt

COMPLETE == -1

----------------------------------------------------------------------------
(* combinations: indices_ and steps_; reach is the furthest position an     *)
(* iterator of the input was moved to (history)                             *)

CombBegin(n, k) ==
    [indices |-> [x \in 1 .. k |-> IF x <= n THEN x ELSE 0],
     steps |-> IF k = 0 \/ k > n THEN COMPLETE ELSE 0,
     reach |-> Min({k, n + 1})]

(* zero_length_end or an Iterator of length 0 *)
CombEnd(n, k) ==
    IF k = 0 THEN [CombBegin(n, 0) EXCEPT !.steps = 0] ELSE CombBegin(n, 0)

Counted(it) == IF it.steps = COMPLETE THEN it ELSE [it EXCEPT !.steps = @ + 1]

(* operator++: the passes stop at the last index that has room to move, and *)
(* put those after it next to it; at each they look as far ahead as the      *)
(* last index would then be                                                 *)
CombStep(n, it) ==
    LET k == Len(it.indices)
        ahead == [j \in 1 .. k |-> it.indices[j] + 1 + k - j]
        room == {j \in 1 .. k : ahead[j] <= n}
        from == IF room = {} THEN 1 ELSE Max(room)
    IN  IF k = 0 THEN [it EXCEPT !.steps = @ + 1]
        ELSE Counted([it EXCEPT
                !.steps = IF room = {} THEN COMPLETE ELSE @,
                !.indices = [x \in 1 .. k |-> IF x < from THEN @[x] ELSE @[from] + 1 + x - from],
                !.reach = Max({@} \cup {ahead[j] : j \in from .. k})])

----------------------------------------------------------------------------
(* combinations_with_replacement *)

ReplBegin(n, k) ==
    [indices |-> [x \in 1 .. k |-> 1],
     steps |-> IF n # 0 /\ k # 0 THEN 0 ELSE COMPLETE,
     reach |-> 1]

ReplEnd(n, k) ==
    IF k = 0 THEN [ReplBegin(n, 0) EXCEPT !.steps = 0] ELSE ReplBegin(n, 0)

(* operator++: the passes stop at the last index that is not the last       *)
(* element's, and set it and those after it to the element that follows     *)
ReplStep(n, it) ==
    LET k == Len(it.indices)
        stop == {j \in 1 .. k : it.indices[j] < n}
        from == IF stop = {} THEN 1 ELSE Max(stop)
    IN  IF k = 0 THEN [it EXCEPT !.steps = @ + 1]
        ELSE Counted([it EXCEPT
                !.steps = IF stop = {} THEN COMPLETE ELSE @,
                !.indices = [x \in 1 .. k |-> IF x < from THEN @[x] ELSE @[from] + 1],
                !.reach = Max({@, it.indices[from] + 1, n + (IF from < k THEN 1 ELSE 0)})])

----------------------------------------------------------------------------
(* powerset: the combinations of each length in turn *)

PowerAt(n, k) ==
    [set_size |-> k, comb_iter |-> CombBegin(n, k), comb_end |-> CombEnd(n, k)]

(* operator++ *)
PowerStep(n, it) ==
    LET next == CombStep(n, it.comb_iter)
    IN  IF next.steps = it.comb_end.steps THEN PowerAt(n, it.set_size + 1)
        ELSE [it EXCEPT !.comb_iter = next]

----------------------------------------------------------------------------
(* permutations, of elements that may be equal *)

(* s comes before t, which is as long *)
Less(s, t) ==
    \E x \in DOMAIN s : s[x] < t[x] /\ \A y \in 1 .. x - 1 : s[y] = t[y]

Rearrangements(s) ==
    {[x \in DOMAIN s |-> s[f[x]]] :
        f \in {g \in [DOMAIN s -> DOMAIN s] : \A x, y \in DOMAIN s : g[x] = g[y] => x = y}}

(* std::sort *)
Sorted(s) == CHOOSE t \in Rearrangements(s) : \A u \in Rearrangements(s) : ~Less(u, t)

PermAt(elems) ==
    [working_set |-> Sorted(elems), steps |-> IF elems # << >> THEN 0 ELSE COMPLETE]

(* std::next_permutation: the permutations that come after s *)
Later(s) == {t \in Rearrangements(s) : Less(s, t)}

(* the end is not seen *)
WrongPermStep(it) ==
    [working_set |-> IF Later(it.working_set) = {} THEN Sorted(it.working_set)
                     ELSE CHOOSE t \in Later(it.working_set) :
                              \A u \in Later(it.working_set) : ~Less(u, t),
     steps |-> it.steps + 1]

(* operator++ *)
PermStep(it) ==
    IF Later(it.working_set) = {}
    THEN [working_set |-> Sorted(it.working_set), steps |-> COMPLETE]
    ELSE [working_set |-> CHOOSE t \in Later(it.working_set) :
                              \A u \in Later(it.working_set) : ~Less(u, t),
          steps |-> it.steps + 1]

----------------------------------------------------------------------------
(* product: iters_, of one or more inputs of the given sizes *)

ProductBegin(sizes) == [x \in DOMAIN sizes |-> 1]
ProductEnd(sizes) == [x \in DOMAIN sizes |-> sizes[x] + 1]

(* get_and_increment_with_wraparound, of one input: where it goes from p; an *)
(* empty one stays at its end                                               *)
Increment(p, size) == IF p = size + 1 THEN p ELSE IF p = size THEN 1 ELSE p + 1

(* operator++: from the last input on, up to one that does not wrap around  *)
ProductStep(sizes, it) ==
    LET more == {x \in DOMAIN sizes : it[x] < sizes[x]}
    IN  IF more = {} THEN ProductEnd(sizes)
        ELSE [x \in DOMAIN sizes |->
                IF x < Max(more) THEN it[x] ELSE Increment(it[x], sizes[x])]

(* operator!= is true when all of the inputs' iterators differ, which is    *)
(* enough to tell any iterator from end()                                   *)
ProductSame(it, other) ==
    \E x \in DOMAIN it : it[x] = other[x]

----------------------------------------------------------------------------
(* The five as one *)

Selecting == {"combinations", "with_replacement", "powerset", "permutations", "product"}

Begin(s) ==
    CASE s.tool = "combinations" -> CombBegin(s.n, s.k)
      [] s.tool = "with_replacement" -> ReplBegin(s.n, s.k)
      [] s.tool = "powerset" -> PowerAt(s.n, 0)
      [] s.tool = "permutations" -> PermAt(s.elems)
      [] s.tool = "product" -> ProductBegin(s.sizes)

Finish(s) ==
    CASE s.tool = "combinations" -> CombEnd(s.n, s.k)
      [] s.tool = "with_replacement" -> ReplEnd(s.n, s.k)
      [] s.tool = "powerset" -> PowerAt(s.n, s.n + 1)
      [] s.tool = "permutations" -> PermAt(<< >>)
      [] s.tool = "product" -> ProductEnd(s.sizes)

Step(s, it) ==
    CASE s.tool = "combinations" -> CombStep(s.n, it)
      [] s.tool = "with_replacement" -> ReplStep(s.n, it)
      [] s.tool = "powerset" -> PowerStep(s.n, it)
      [] s.tool = "permutations" -> PermStep(it)
      [] s.tool = "product" -> ProductStep(s.sizes, it)

Value(s, it) ==
    CASE s.tool \in {"combinations", "with_replacement"} -> it.indices
      [] s.tool = "powerset" -> it.comb_iter.indices
      [] s.tool = "permutations" -> it.working_set
      [] s.tool = "product" -> it

PowerSame(it, other) ==
    it.set_size = other.set_size /\ it.comb_iter.steps = other.comb_iter.steps

Same(s, it, other) ==
    CASE s.tool = "powerset" -> PowerSame(it, other)
      [] s.tool = "product" -> ProductSame(it, other)
      [] OTHER -> it.steps = other.steps

----------------------------------------------------------------------------
(* What the tools yield, defined on the whole input at once: the selections, *)
(* shorter ones first and those of a length in lexicographic order          *)

Increasing(n, k) ==
    {t \in [1 .. k -> 1 .. n] : \A x \in 1 .. k - 1 : t[x] < t[x + 1]}

NonDecreasing(n, k) ==
    {t \in [1 .. k -> 1 .. n] : \A x \in 1 .. k - 1 : t[x] <= t[x + 1]}

Tuples(sizes) ==
    {t \in [DOMAIN sizes -> 1 .. Max({0} \cup Range(sizes))] :
        \A x \in DOMAIN sizes : t[x] <= sizes[x]}

Precedes(s, t) ==
    \/ Len(s) < Len(t)
    \/ Len(s) = Len(t) /\ Less(s, t)

InOrder(T) ==
    [k \in 1 .. Cardinality(T) |->
        CHOOSE t \in T : Cardinality({u \in T : Precedes(u, t)}) = k - 1]

Yields(s) ==
    CASE s.tool = "combinations" -> InOrder(Increasing(s.n, s.k))
      [] s.tool = "with_replacement" -> InOrder(NonDecreasing(s.n, s.k))
      [] s.tool = "powerset" -> InOrder(UNION {Increasing(s.n, k) : k \in 0 .. s.n})
      [] s.tool = "permutations" ->
           IF s.elems = << >> THEN << >> ELSE InOrder(Rearrangements(s.elems))
      [] s.tool = "product" ->
           InOrder(Tuples(s.sizes))

(* No iterator of the input is moved past its end, where it must not be     *)
(* incremented, although operator++ of combinations moves them before it    *)
(* compares them.                                                           *)
Inside(s, it) ==
    CASE s.tool \in {"combinations", "with_replacement"} -> it.reach <= s.n + 1
      [] s.tool = "powerset" -> it.comb_iter.reach <= s.n + 1
      [] s.tool = "permutations" -> TRUE
      [] s.tool = "product" -> \A x \in DOMAIN it : it[x] <= s.sizes[x] + 1

============================================================================
