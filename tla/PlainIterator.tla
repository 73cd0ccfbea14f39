--------------------------- MODULE PlainIterator ---------------------------
(***************************************************************************)
(* A client of a tool whose iterators are plain values: a copy shares       *)
(* nothing with its original. What the tool's iterators are, and what their *)
(* operators compute, are the parameters; the modules that instantiate this *)
(* one take them from the code. Each of the client's actions calls one      *)
(* operator of the iterator; it asks operator== whether an iterator is at   *)
(* the end, as a range-for loop does.                                       *)
(***************************************************************************)
EXTENDS Naturals, Sequences, PartialFunctions

CONSTANTS
    Sources,       \* the objects: a tool and its arguments
    Its,           \* the client's iterator objects
    MaxPlace,      \* bound: an iterator is incremented fewer times
    Begin(_),      \* begin() of a source
    Finish(_),     \* end()
    Step(_, _),    \* operator++ of an iterator of a source
    Value(_, _),   \* operator*
    Same(_, _, _), \* operator== of two iterators
    Yields(_),     \* what a source promises, as a sequence
    HasEnd(_)      \* whether its end() may be used other than to compare with

VARIABLES
    source,   \* the object iterated over
    yields,   \* Yields(source)
    iter,     \* live iterators, each with its place in yields (history)
    got       \* what the last dereference yielded, if there was one (history)

vars == <<source, yields, iter, got>>

Past == Len(yields) + 1

AtEnd(i) == Same(source, iter[i].it, Finish(source))

Init ==
    /\ source \in Sources
    /\ yields = Yields(source)
    /\ iter = << >>
    /\ got = << >>

ConstructBegin(i) ==
    /\ i \notin DOMAIN iter
    /\ iter' = Put(iter, i, [it |-> Begin(source), place |-> 1])
    /\ UNCHANGED <<source, yields, got>>

ConstructEnd(i) ==
    /\ i \notin DOMAIN iter /\ HasEnd(source)
    /\ iter' = Put(iter, i, [it |-> Finish(source), place |-> Past])
    /\ UNCHANGED <<source, yields, got>>

Copy(i, j) ==
    /\ i \in DOMAIN iter /\ j \notin DOMAIN iter
    /\ iter' = Put(iter, j, iter[i])
    /\ UNCHANGED <<source, yields, got>>

Assign(i, j) ==
    /\ i \in DOMAIN iter /\ j \in DOMAIN iter
    /\ iter' = [iter EXCEPT ![i] = iter[j]]
    /\ UNCHANGED <<source, yields, got>>

Deref(i) ==
    /\ i \in DOMAIN iter /\ ~AtEnd(i)
    /\ got' = <<Value(source, iter[i].it)>>
    /\ UNCHANGED <<source, yields, iter>>

Stepped(i) == [it |-> Step(source, iter[i].it), place |-> iter[i].place + 1]

MayStep(i) == i \in DOMAIN iter /\ ~AtEnd(i) /\ iter[i].place < MaxPlace

PreIncrement(i) ==
    /\ MayStep(i)
    /\ iter' = [iter EXCEPT ![i] = Stepped(i)]
    /\ UNCHANGED <<source, yields, got>>

(* j = i++ *)
PostIncrement(i, j) ==
    /\ MayStep(i) /\ j \notin DOMAIN iter
    /\ iter' = Put([iter EXCEPT ![i] = Stepped(i)], j, iter[i])
    /\ UNCHANGED <<source, yields, got>>

Destroy(i) ==
    /\ i \in DOMAIN iter
    /\ iter' = Drop(iter, i)
    /\ UNCHANGED <<source, yields, got>>

Next ==
    \/ \E i, j \in Its : Copy(i, j) \/ Assign(i, j) \/ PostIncrement(i, j)
    \/ \E i \in Its : ConstructBegin(i) \/ ConstructEnd(i)
    \/ \E i \in Its : Deref(i) \/ PreIncrement(i) \/ Destroy(i)

Spec == Init /\ [][Next]_vars

----------------------------------------------------------------------------
(* Iterators never go past the place after the last element. *)
TypeOK ==
    /\ DOMAIN iter \subseteq Its
    /\ \A i \in DOMAIN iter : iter[i].place \in 1 .. Past

(* A loop that compares with end() stops after the last element, no sooner  *)
(* and no later, whichever side of the comparison end() is on.              *)
EndFoundAtPast ==
    \A i \in DOMAIN iter :
        /\ AtEnd(i) <=> iter[i].place = Past
        /\ AtEnd(i) <=> Same(source, Finish(source), iter[i].it)

(* Iterators other than end() compare equal when they are at the same place *)
(* and only then.                                                           *)
EqualIffSamePlace ==
    \A i, j \in DOMAIN iter :
        Same(source, iter[i].it, iter[j].it) <=> iter[i].place = iter[j].place

Promise == INSTANCE InputIterator
    WITH yields <- [k \in DOMAIN yields |-> <<yields[k]>>],
         at <- [i \in DOMAIN iter |-> iter[i].place]

(* README.md:98: the tool's iterators behave as InputIterators over what    *)
(* Yields defines.                                                          *)
ImplementsInputIterator == Promise!Spec

============================================================================
