------------------------------- MODULE Sorted -------------------------------
(***************************************************************************)
(* sorted: views that keep a vector of iterators of their container in     *)
(* sorted order, from the first begin() or end() on, and another for const  *)
(* views; and the IteratorIterators that go through a vector.               *)
(*                                                                         *)
(* A container is a store of elements. The client has one, and a view may   *)
(* own a copy of it. Their type is chosen at first: whether it has a const  *)
(* begin(), without which a view is sorted by its constructor, and whether   *)
(* its elements are inline, in the container itself, and do not stay where   *)
(* they are when it is moved. A vector is a sequence of cells, each a store  *)
(* and a position in it.                                                    *)
(*                                                                         *)
(* An operator named Wrong... is a plausible mistake in the definition     *)
(* that follows it; nothing uses it.                                       *)
(***************************************************************************)
EXTENDS Integers, SequencesExt, FiniteSetsExt, PartialFunctions

CONSTANTS
    MaxLen,     \* bound: the longest container
    Values,     \* the elements, integers
    Stores,     \* names of containers, numbers
    Views,      \* the client's view objects
    Vectors,    \* names of vectors, numbers above 0
    Its,        \* the client's iterator objects
    Throwing    \* whether comparators and the container's iterators may throw

ASSUME ValuesAssumption == Values \subseteq Int /\ MaxLen \in Nat
ASSUME ThrowingAssumption == Throwing \in BOOLEAN
ASSUME StoresAssumption ==
    0 \in Stores /\ Stores \subseteq Nat /\ Cardinality(Stores) > Cardinality(Views)
ASSUME VectorsAssumption ==
    Vectors \subseteq Nat \ {0} /\ Cardinality(Vectors) >= 2 * Cardinality(Views)

(* the client's container, and a vector that is empty *)
Client == 0
NoVector == 0

VARIABLES
    type,      \* whether containers are const_iterable, and whether inline
    store,     \* the elements of each container
    partial,   \* what the object sorted(compare) holds, when there is one
    view,      \* live views: container_, whose it is, compare_func_, the
               \* comparator the client asked for (history), and the vectors
               \* sorted_iters_ and const_sorted_iters_
    cells,     \* the cells of each vector that is not empty
    iter       \* live IteratorIterators: sub_iter, a vector and a place in it

vars == <<type, store, partial, view, cells, iter>>

Kinds == {"sorted_iters", "const_sorted_iters"}
Containers == UNION {[1 .. n -> Values] : n \in 0 .. MaxLen}

(* a name for one more object *)
Free(names, f) == IF names \subseteq DOMAIN f THEN {} ELSE {Min(names \ DOMAIN f)}

Filled(v) == {view[v][kind] : kind \in Kinds} \ {NoVector}
Usable(v) == v \in DOMAIN view /\ view[v].owner # "moved"

----------------------------------------------------------------------------
(* what compare_func_(x, y) says; one that was moved out tells nothing apart *)
Before(compare, x, y) ==
    \/ compare = "less" /\ x < y
    \/ compare = "greater" /\ x > y

(* std::sort, which is not stable: any order that compare allows *)
Orders(s, elems, compare) ==
    LET n == Len(elems)
    IN  {[k \in 1 .. n |-> [in |-> s, at |-> f[k]]] :
            f \in {g \in [1 .. n -> 1 .. n] :
                      /\ \A k, m \in 1 .. n : g[k] = g[m] => k = m
                      /\ \A k \in 1 .. n - 1 : ~Before(compare, elems[g[k + 1]], elems[g[k]])}}

(* what becomes of a view and the vectors when the vector kind has the      *)
(* cells of sorted, after name was given to it                               *)
Filling(rec, kind, name, sorted, throws) ==
    [view |-> [rec EXCEPT ![kind] = name], cells |-> Put(cells, name, sorted), throws |-> throws]

Unfilled(rec) == [view |-> rec, cells |-> cells, throws |-> FALSE]

(* it is not seen that the vector was filled before *)
WrongPopulated(rec, kind, elems) ==
    IF elems = << >> THEN {Unfilled(rec)}
    ELSE {Filling(rec, kind, b, (IF b \in DOMAIN cells THEN cells[b] ELSE << >>) \o order, FALSE) :
              b \in IF rec[kind] = NoVector THEN Free(Vectors, cells) ELSE {rec[kind]},
              order \in Orders(rec.container, elems, rec.compare)}

(* the vector is sorted anew by every begin() *)
WrongPopulatedAnew(rec, kind, elems) ==
    IF elems = << >> THEN {Unfilled(rec)}
    ELSE {Filling(rec, kind, b, order, FALSE) :
              b \in IF rec[kind] = NoVector THEN Free(Vectors, cells) ELSE {rec[kind]},
              order \in Orders(rec.container, elems, rec.compare)}

(* populate_sorted_iters, of either vector of a view whose container has    *)
(* the elements elems. When the container's operator++ throws, the vector    *)
(* keeps the cells pushed by then; when compare_func_ does, the first time   *)
(* it is called, it keeps all of them as they were pushed.                  *)
Populated(rec, kind, elems) ==
    LET n == Len(elems)
        Pushed(k) == [m \in 1 .. k |-> [in |-> rec.container, at |-> m]]
    IN  IF rec[kind] # NoVector \/ elems = << >> THEN {Unfilled(rec)}
        ELSE UNION {
            {Filling(rec, kind, b, order, FALSE) : order \in Orders(rec.container, elems, rec.compare)}
            \cup {Filling(rec, kind, b, Pushed(k), TRUE) : k \in 1 .. IF Throwing THEN n ELSE 0} :
                b \in Free(Vectors, cells)}

----------------------------------------------------------------------------
Init ==
    /\ type \in [const_iterable : BOOLEAN, inline : BOOLEAN]
    /\ \E elems \in Containers : store = Put(<< >>, Client, elems)
    /\ partial = << >> /\ view = << >> /\ cells = << >> /\ iter = << >>

(* sorted(compare) *)
Bind(compare) ==
    /\ partial = << >>
    /\ partial' = [stored |-> compare, bound |-> compare]
    /\ UNCHANGED <<type, store, view, cells, iter>>

(* the constructor of SortedView *)
Construct(v, container, owner, compare, asked) ==
    LET rec == [container |-> container, owner |-> owner, compare |-> compare,
                asked |-> asked, sorted_iters |-> NoVector, const_sorted_iters |-> NoVector]
    IN  IF type.const_iterable THEN view' = Put(view, v, rec) /\ UNCHANGED cells
        ELSE \E made \in Populated(rec, "sorted_iters", store'[container]) :
                 ~made.throws /\ view' = Put(view, v, made.view) /\ cells' = made.cells

(* a view of the client's container, or of a temporary copy of it *)
Make(v, compare, asked) ==
    /\ v \notin DOMAIN view
    /\ \/ UNCHANGED store /\ Construct(v, Client, "client", compare, asked)
       \/ \E s \in Free(Stores, store) :
             store' = Put(store, s, store[Client]) /\ Construct(v, s, "view", compare, asked)
    /\ UNCHANGED <<type, iter>>

(* sorted(container, compare), or without compare, which is then "less" *)
Call(v, compare) == Make(v, compare, compare) /\ UNCHANGED partial

(* stored_arg, which is mutable, is moved out of a partial that is used again *)
WrongApply(v) ==
    /\ partial # << >> /\ Make(v, partial.stored, partial.bound)
    /\ partial' = [partial EXCEPT !.stored = "moved out"]

(* container | partial, of a named partial *)
Apply(v) ==
    /\ partial # << >> /\ Make(v, partial.stored, partial.bound)
    /\ UNCHANGED partial

(* container | std::move(partial), which is then no longer used *)
ApplyMoved(v) ==
    /\ partial # << >> /\ Make(v, partial.stored, partial.bound)
    /\ partial' = << >>

(* begin() or end(), or that of a const view; when there is an i already,    *)
(* the result is a temporary                                                *)
BeginOrEnd(v, i, kind) ==
    /\ Usable(v)
    /\ kind = "const_sorted_iters" => type.const_iterable
    /\ \E made \in Populated(view[v], kind, store[view[v].container]) :
          LET b == made.view[kind]
              last == IF b = NoVector THEN 1 ELSE Len(made.cells[b]) + 1
          IN  /\ view' = [view EXCEPT ![v] = made.view] /\ cells' = made.cells
              /\ IF made.throws \/ i \in DOMAIN iter THEN UNCHANGED iter
                 ELSE \E at \in {1, last} : iter' = Put(iter, i, [vector |-> b, at |-> at])
    /\ UNCHANGED <<type, store, partial>>

(* the vectors are copied *)
WrongMoved(rec) == [rec EXCEPT !.owner = "moved"]

Moved(rec) ==
    [rec EXCEPT !.owner = "moved", !.sorted_iters = NoVector, !.const_sorted_iters = NoVector]

(* w = std::move(v), a constructor. The client's rule: a view that owns an   *)
(* inline container is moved before its first begin() only, as its vectors   *)
(* would go on referring to the container in v.                             *)
Move(v, w) ==
    /\ Usable(v) /\ w \notin DOMAIN view
    /\ IF type.inline /\ view[v].owner = "view"
       THEN /\ Filled(v) = {}
            /\ \E s \in Free(Stores, store) :
                  /\ store' = Put(Drop(store, view[v].container), s, store[view[v].container])
                  /\ view' = [Put(view, w, [view[v] EXCEPT !.container = s])
                                 EXCEPT ![v] = Moved(@)]
       ELSE /\ view' = [Put(view, w, view[v]) EXCEPT ![v] = Moved(@)]
            /\ UNCHANGED store
    /\ UNCHANGED <<type, partial, cells, iter>>

(* the iterators of a view's vectors do not outlive it *)
DestroyView(v) ==
    /\ v \in DOMAIN view
    /\ \A i \in DOMAIN iter : iter[i].vector \notin Filled(v)
    /\ view' = Drop(view, v)
    /\ cells' = [b \in DOMAIN cells \ Filled(v) |-> cells[b]]
    /\ store' = IF view[v].owner = "view" THEN Drop(store, view[v].container)
                ELSE store
    /\ UNCHANGED <<type, partial, iter>>

(* The client's container grows. Its rule: not when it has been sorted.      *)
Grow(x) ==
    /\ Len(store[Client]) < MaxLen
    /\ \A v \in DOMAIN view : view[v].container = Client => type.const_iterable /\ Filled(v) = {}
    /\ store' = [store EXCEPT ![Client] = Append(@, x)]
    /\ UNCHANGED <<type, partial, view, cells, iter>>

----------------------------------------------------------------------------
(* IteratorIterator *)

(* i's copy n places on as j; with j = i it is ++, --, += and -=             *)
Advance(i, j, n) ==
    /\ i \in DOMAIN iter /\ iter[i].vector # NoVector
    /\ j \notin DOMAIN iter \/ j = i
    /\ iter[i].at + n \in 1 .. Len(cells[iter[i].vector]) + 1
    /\ iter' = Put(iter, j, [iter[i] EXCEPT !.at = @ + n])
    /\ UNCHANGED <<type, store, partial, view, cells>>

DestroyIterator(i) ==
    /\ i \in DOMAIN iter
    /\ iter' = Drop(iter, i)
    /\ UNCHANGED <<type, store, partial, view, cells>>

Next ==
    \/ \E compare \in {"less", "greater"} : Bind(compare) \/ \E v \in Views : Call(v, compare)
    \/ \E v \in Views : Apply(v) \/ ApplyMoved(v) \/ DestroyView(v)
    \/ \E v, w \in Views : Move(v, w)
    \/ \E v \in Views, i \in Its, kind \in Kinds : BeginOrEnd(v, i, kind)
    \/ \E x \in Values : Grow(x)
    \/ \E i, j \in Its, n \in -MaxLen .. MaxLen : Advance(i, j, n)
    \/ \E i \in Its : DestroyIterator(i)

Spec == Init /\ [][Next]_vars

----------------------------------------------------------------------------
(* Every vector is one view's, and every iterator is at a place of one. *)
TypeOK ==
    /\ DOMAIN view \subseteq Views /\ DOMAIN store \subseteq Stores
    /\ DOMAIN cells = UNION {Filled(v) : v \in DOMAIN view}
    /\ \A v, w \in DOMAIN view : v # w => Filled(v) \cap Filled(w) = {}
    /\ \A v \in DOMAIN view : Usable(v) => view[v].container \in DOMAIN store
    /\ \A i \in DOMAIN iter :
          IF iter[i].vector = NoVector THEN iter[i].at = 1
          ELSE iter[i].vector \in DOMAIN cells /\ iter[i].at \in 1 .. Len(cells[iter[i].vector]) + 1

(* A loop over a view meets each element of the view's container as it is   *)
(* now, once, in whichever order views were made, moved and begun.          *)
EachElementOnce ==
    \A v \in DOMAIN view : Usable(v) =>
        LET elems == store[view[v].container]
        IN  \A b \in Filled(v) :
                /\ Len(cells[b]) = Len(elems)
                /\ {cells[b][k] : k \in DOMAIN cells[b]}
                       = {[in |-> view[v].container, at |-> p] : p \in DOMAIN elems}

(* README.md:678, "Allows iteration over a sequence in sorted order": in     *)
(* that of the comparator asked for, also when a partial is applied more     *)
(* than once.                                                               *)
SortedAsAsked ==
    \A i \in DOMAIN iter, v \in DOMAIN view : iter[i].vector \in Filled(v) =>
        LET through == cells[iter[i].vector]
            Element(k) == store[through[k].in][through[k].at]
        IN  \A k, m \in DOMAIN through : k < m => ~Before(view[v].asked, Element(m), Element(k))

(* Another begin(), a const one or a move of the view leaves the iterators   *)
(* of before where they are, in the order they were in.                     *)
IteratorsStay ==
    [][\A i \in DOMAIN iter : i \in DOMAIN iter' /\ iter[i].vector # NoVector =>
           /\ iter'[i].vector = iter[i].vector
           /\ iter[i].vector \in DOMAIN cells'
           /\ cells'[iter[i].vector] = cells[iter[i].vector]]_vars

============================================================================
