----------------------------- MODULE HeldChain -----------------------------
(***************************************************************************)
(* chain.from_iterable over an input that yields its containers by value.  *)
(* Each Iterator keeps the container it is in, in sub_iterable_, and its    *)
(* two iterators of it; a copy of the Iterator has a container of its own    *)
(* but copies of the two iterators, which still point into the container of  *)
(* the Iterator it was copied from.                                         *)
(*                                                                         *)
(* sizes[x] is the length of the x-th container the input yields. The       *)
(* element at position p of it is <<x, p>>.                                 *)
(*                                                                         *)
(* An operator named Wrong... is a plausible mistake in the definition     *)
(* that follows it; nothing uses it.                                       *)
(***************************************************************************)
EXTENDS Naturals, FiniteSets, Sequences, FiniteSetsExt, PartialFunctions

CONSTANTS
    MaxLen,    \* bound: the most containers
    MaxSize,   \* bound: the longest container
    Its,       \* the client's Iterator objects
    Freed      \* in place of the Iterator whose container a position is in,
               \* when that container is no more

ASSUME FreedAssumption == Freed \notin Its
ASSUME BoundsAssumption == MaxLen \in Nat /\ MaxSize \in Nat

VARIABLES
    sizes,   \* the input, never changed
    iter,    \* live Iterators: top_level_iter_, which container sub_iterable_
             \* holds (0: none), sub_iter_p_, sub_end_p_, and the number of
             \* the element they have come to (history)
    got      \* what the last dereference yielded, if there was one (history)

vars == <<sizes, iter, got>>

End == Len(sizes) + 1

(* an iterator of the container that Iterator i holds; and an empty optional *)
In(i, p) == [of |-> i, at |-> p]
NoValue == In(Freed, 0)

Lost(i) == iter[i].sub # NoValue /\ iter[i].sub.of = Freed

(* the iterators of i's container, once that is replaced or destroyed *)
Without(f, i) ==
    LET Off(p) == IF p.of = i THEN [p EXCEPT !.of = Freed] ELSE p
    IN  [j \in DOMAIN f |-> [f[j] EXCEPT !.sub = Off(@), !.last = Off(@)]]

----------------------------------------------------------------------------
(* the empty containers are not passed *)
WrongNextSub(i, it) ==
    IF it.top = End THEN [it EXCEPT !.sub = NoValue, !.last = NoValue]
    ELSE [it EXCEPT !.held = it.top, !.sub = In(i, 1), !.last = In(i, sizes[it.top] + 1)]

(* next_sub_iterable: Iterator i takes the first container from top on that  *)
(* is not empty; every container passed has been in sub_iterable_, and the   *)
(* last of them stays there when the end is reached                          *)
NextSub(i, it) ==
    LET left == {x \in it.top .. Len(sizes) : sizes[x] # 0}
        to == Min(left)
    IN  IF left # {}
        THEN [it EXCEPT !.top = to, !.held = to, !.sub = In(i, 1), !.last = In(i, sizes[to] + 1)]
        ELSE [it EXCEPT !.top = End, !.held = IF it.top = End THEN @ ELSE Len(sizes),
                        !.sub = NoValue, !.last = NoValue]

(* the constructor *)
IteratorAt(i, top, place) ==
    NextSub(i, [top |-> top, held |-> 0, sub |-> NoValue, last |-> NoValue, place |-> place])

(* Where operator++ takes i in its container; Leaves when that was its last  *)
(* element. *)
Leaves(i) == iter[i].sub.at + 1 = iter[i].last.at

WithinStep(i) ==
    LET next == [iter[i] EXCEPT !.sub = In(@.of, @.at + 1), !.place = @ + 1]
    IN  [iter EXCEPT ![i] = next]

LeavingStep(i) ==
    LET next == [iter[i] EXCEPT !.top = @ + 1, !.place = @ + 1]
        rest == IF next.top = End THEN iter ELSE Without(iter, i)
    IN  [rest EXCEPT ![i] = NextSub(i, next)]

(* it is not seen that a container has ended *)
WrongStepped(i) == WithinStep(i)

Stepped(i) == IF Leaves(i) THEN LeavingStep(i) ELSE WithinStep(i)

(* operator==; the iterators of the containers are compared as they are *)
WrongEqual(i, j) == iter[i].top = iter[j].top

Equal(i, j) == iter[i].top = iter[j].top /\ iter[i].sub = iter[j].sub

----------------------------------------------------------------------------
(* The elements of the containers, in the order of the containers: the      *)
(* number of each, and of the end.                                          *)
Elements == {e \in (1 .. Len(sizes)) \X (1 .. MaxSize) : e[2] <= sizes[e[1]]}

Before(e, f) ==
    \/ e[1] < f[1]
    \/ e[1] = f[1] /\ e[2] < f[2]

Rank(e) == 1 + Cardinality({f \in Elements : Before(f, e)})
Past == 1 + Cardinality(Elements)

(* The client's rule: an Iterator whose container is gone is only assigned   *)
(* to or destroyed.                                                          *)
CanUse(i) == i \in DOMAIN iter /\ ~Lost(i)
AtElement(i) == CanUse(i) /\ iter[i].top # End

Init ==
    /\ sizes \in UNION {[1 .. n -> 0 .. MaxSize] : n \in 0 .. MaxLen}
    /\ iter = << >>
    /\ got = << >>

Begin(i) ==
    /\ i \notin DOMAIN iter
    /\ iter' = Put(iter, i, IteratorAt(i, 1, 1))
    /\ UNCHANGED <<sizes, got>>

Finish(i) ==
    /\ i \notin DOMAIN iter
    /\ iter' = Put(iter, i, IteratorAt(i, End, Past))
    /\ UNCHANGED <<sizes, got>>

Copy(i, j) ==
    /\ CanUse(i) /\ j \notin DOMAIN iter
    /\ iter' = Put(iter, j, iter[i])
    /\ UNCHANGED <<sizes, got>>

(* i's own container is assigned to, so that no iterator of it is valid *)
Assign(i, j) ==
    /\ i \in DOMAIN iter /\ CanUse(j) /\ i # j
    /\ LET rest == Without(iter, i)
       IN  iter' = [rest EXCEPT ![i] = rest[j]]
    /\ UNCHANGED <<sizes, got>>

(* the element is one of the container that the position is in *)
Deref(i) ==
    /\ AtElement(i)
    /\ got' = <<iter[iter[i].sub.of].held, iter[i].sub.at>>
    /\ UNCHANGED <<sizes, iter>>

PreIncrement(i) ==
    /\ AtElement(i)
    /\ iter' = Stepped(i)
    /\ UNCHANGED <<sizes, got>>

(* j = i++: j is copied before i is incremented *)
PostIncrement(i, j) ==
    /\ AtElement(i) /\ j \notin DOMAIN iter
    /\ LET after == Stepped(i)
           copied == Put(after, j, iter[i])
       IN  iter' = IF Leaves(i) /\ iter[i].top + 1 # End
                   THEN Put(after, j, Without(copied, i)[j]) ELSE copied
    /\ UNCHANGED <<sizes, got>>

Destroy(i) ==
    /\ i \in DOMAIN iter
    /\ iter' = Without(Drop(iter, i), i)
    /\ UNCHANGED <<sizes, got>>

Next ==
    \/ \E i, j \in Its : Copy(i, j) \/ Assign(i, j) \/ PostIncrement(i, j)
    \/ \E i \in Its : Begin(i) \/ Finish(i) \/ Deref(i) \/ PreIncrement(i) \/ Destroy(i)

Spec == Init /\ [][Next]_vars

----------------------------------------------------------------------------
(* An iterator that has a position is in a container that exists. *)
TypeOK ==
    /\ DOMAIN iter \subseteq Its
    /\ \A i \in DOMAIN iter :
          /\ iter[i].top \in 1 .. End /\ iter[i].held \in 0 .. Len(sizes)
          /\ iter[i].place \in 1 .. Past
          /\ iter[i].sub.of \in DOMAIN iter \cup {Freed}

(* The position of an Iterator that may be used is in the container it says *)
(* it is in, whichever Iterator holds that container and however many       *)
(* copies, increments and assignments lie between; and its end is that of   *)
(* the same container, so that ++ stops there.                              *)
PointsIntoItsContainer ==
    \A i \in DOMAIN iter : AtElement(i) =>
        LET sub == iter[i].sub
        IN  /\ iter[sub.of].held = iter[i].top
            /\ sub.at \in 1 .. sizes[iter[i].top]
            /\ iter[i].last = In(sub.of, sizes[iter[i].top] + 1)

(* "it takes an iterable of iterables and chains the contained iterables     *)
(* together" (README.md:717): the elements come in the order of the          *)
(* containers, with no gap and no repetition where containers are empty; an  *)
(* Iterator equals end() after the last one and only then, and another one   *)
(* in the same container only at the same element.                          *)
YieldsAllInOrder ==
    \A i \in DOMAIN iter : CanUse(i) =>
        /\ iter[i].top # End => iter[i].place = Rank(<<iter[i].top, iter[i].sub.at>>)
        /\ \A j \in DOMAIN iter :
              CanUse(j) /\ (iter[j].place = Past \/ iter[j].sub.of = iter[i].sub.of) =>
                  (Equal(i, j) <=> iter[i].place = iter[j].place)

(* A copy is an iterator of its own (README.md:98, "All iterators that work  *)
(* over another iterable are tagged as InputIterators and behave as such"):  *)
(* it may be used after the Iterator it was copied from is destroyed.        *)
CopiesLast ==
    [][\A i, j \in Its : Destroy(i) /\ i # j /\ CanUse(j) => ~Lost(j)']_vars

============================================================================
