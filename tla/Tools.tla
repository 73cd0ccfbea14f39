-------------------------------- MODULE Tools --------------------------------
(***************************************************************************)
(* The tools whose iterators are plain values, and a client of any of them. *)
(* A tool's operators are in the module of its kind; source.tool says which *)
(* tool the client uses.                                                   *)
(***************************************************************************)
EXTENDS Integers, Sequences

CONSTANTS
    CountingWidth, \* bits of the numbers of ranges
    SliceWidth,    \* bits of slice's DifferenceType
    Sources,       \* the objects: a tool and its arguments
    Its,           \* the client's iterator objects
    MaxPlace       \* bound: an iterator is incremented fewer times

VARIABLES source, yields, iter, got

ASSUME WidthAssumption == CountingWidth \in Nat \ {0} /\ SliceWidth \in Nat \ {0}
ASSUME BoundAssumption == MaxPlace \in Nat \ {0}

S == INSTANCE Selections
C == INSTANCE Counting WITH Width <- CountingWidth
A == INSTANCE Adaptors WITH Width <- SliceWidth

Begin(s) ==
    CASE s.tool \in S!Selecting -> S!Begin(s)
      [] s.tool \in C!Counted -> C!Begin(s)
      [] s.tool \in A!Adapting -> A!Begin(s)

Finish(s) ==
    CASE s.tool \in S!Selecting -> S!Finish(s)
      [] s.tool \in C!Counted -> C!Finish(s)
      [] s.tool \in A!Adapting -> A!Finish(s)

Step(s, it) ==
    CASE s.tool \in S!Selecting -> S!Step(s, it)
      [] s.tool \in C!Counted -> C!Step(s, it)
      [] s.tool \in A!Adapting -> A!Step(s, it)

Value(s, it) ==
    CASE s.tool \in S!Selecting -> S!Value(s, it)
      [] s.tool \in C!Counted -> C!Value(s, it)
      [] s.tool \in A!Adapting -> A!Value(s, it)

Same(s, it, other) ==
    CASE s.tool \in S!Selecting -> S!Same(s, it, other)
      [] s.tool \in C!Counted -> C!Same(s, it, other)
      [] s.tool \in A!Adapting -> A!Same(s, it, other)

Yields(s) ==
    CASE s.tool \in S!Selecting -> S!Yields(s)
      [] s.tool \in C!Counted -> C!Yields(s)
      [] s.tool \in A!Adapting -> A!Yields(s)

(* end() of repeat without a count holds a null pointer *)
HasEnd(s) == s.tool # "endless"

(* The sources a client can have: any number of inputs of any lengths, and  *)
(* arguments of the tool's types that keep its rules (Fits).                *)
Allowed(s) ==
    \/ s.tool \in {"zip", "imap", "zip_longest", "from_iterable"} /\ s.sizes \in Seq(Nat)
    \/ s.tool \in {"product", "chain"} /\ s.sizes \in Seq(Nat) \ {<< >>}
    \/ s.tool \in {"combinations", "with_replacement"} /\ s.n \in Nat /\ s.k \in Nat
    \/ s.tool = "permutations" /\ s.elems \in Seq(Int)
    \/ s.tool \in {"powerset", "accumulate", "reversed", "starmap", "tuple_starmap",
                   "cycle", "wrapped"} /\ s.n \in Nat
    \/ s.tool = "enumerate" /\ s.n \in Nat /\ s.start \in Int
    \/ s.tool = "compress" /\ s.n \in Nat /\ s.selectors \in Seq(BOOLEAN)
    \/ /\ s.tool = "slice" /\ s.n \in Nat /\ s.random \in BOOLEAN
       /\ {s.start, s.stop, s.step} \subseteq Int
       /\ s.start = s.stop \/ (s.start < s.stop /\ s.step > 0)
       /\ A!Fits(s)
    \/ /\ s.tool = "range" /\ s.kind \in {"unsigned", "narrow", "int", "float"}
       /\ {s.start, s.stop, s.step} \subseteq IF s.kind = "float" THEN Int ELSE C!Values(s.kind)
       /\ s.step # 0 /\ C!Fits(s)
    \/ s.tool = "repeat" /\ s.count \in Nat
    \/ s.tool = "endless"

ASSUME SourcesAssumption == \A s \in Sources : Allowed(s)

INSTANCE PlainIterator

----------------------------------------------------------------------------
(* No iterator of an input is moved past its end, where the inputs' lengths  *)
(* differ, whatever the steps are and although some tools move their         *)
(* iterators before they compare them.                                      *)
StaysInside ==
    \A i \in DOMAIN iter :
        /\ source.tool \in S!Selecting => S!Inside(source, iter[i].it)
        /\ source.tool \in A!Adapting => A!Inside(source, iter[i].it)

(* Equality of iterators other than end() is that of places. The exceptions  *)
(* are product, whose operator!= asks that all iterators differ; a floating  *)
(* range with a negative step and repeat without a count, of which no two   *)
(* are equal, not even a copy and its original; and cycle, whose iterators   *)
(* are equal again a whole turn later.                                      *)
EqualIffSamePlaceOrTurn ==
    \/ source.tool \in {"product", "endless"}
    \/ source.tool = "range" /\ source.kind = "float" /\ source.step < 0
    \/ source.tool # "cycle" /\ EqualIffSamePlace
    \/ /\ source.tool = "cycle"
       /\ \A i, j \in DOMAIN iter :
            Same(source, iter[i].it, iter[j].it) <=>
                \/ iter[i].place = iter[j].place
                \/ /\ iter[i].place # Past /\ iter[j].place # Past
                   /\ (iter[i].place - iter[j].place) % source.n = 0

Integral == source.tool = "range" /\ source.kind # "float"

(* "`.size()` to get the number of elements in the range" (README.md:259):  *)
(* a loop makes so many steps.                                              *)
SizeCountsElements ==
    Integral => \A i \in DOMAIN iter :
        \/ iter[i].it.is_end
        \/ ~AtEnd(i) /\ iter[i].place <= C!Size(source)
        \/ AtEnd(i) /\ iter[i].place = C!Size(source) + 1

(* "`r[n]` is the `n`th element in the range" (README.md:262). *)
IndexIsNth ==
    Integral => \A i \in DOMAIN iter :
        ~AtEnd(i) => iter[i].it.value = C!Index(source, iter[i].place - 1)

============================================================================
