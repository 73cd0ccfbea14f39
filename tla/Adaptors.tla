------------------------------ MODULE Adaptors ------------------------------
(***************************************************************************)
(* zip, zip_longest, imap, starmap, compress, enumerate, accumulate,       *)
(* reversed, slice, chain, chain.from_iterable and cycle, and the iterator  *)
(* that stands for an input whose end() is of another type: iterators that  *)
(* hold iterators of their inputs. These are positions, as in Selections:  *)
(* 1 to n in an input of n elements, n + 1 for its end and, for reversed,   *)
(* 0 for its rend. The element at a position stands for itself.            *)
(*                                                                         *)
(* A source has the field tool and, by tool, sizes (the lengths of several *)
(* inputs), n (the length of the only one), selectors, start, stop, step,  *)
(* and random: whether the input's iterators are random access iterators.  *)
(* The inputs of from_iterable are lvalues of its container.               *)
(*                                                                         *)
(* An operator named Wrong... is a plausible mistake in the definition     *)
(* that follows it; nothing uses it.                                       *)
(***************************************************************************)
EXTENDS Integers, SequencesExt, FiniteSetsExt

CONSTANTS
    Width,     \* bits of slice's DifferenceType, a signed one
    MaxPlace   \* how much of what cycle yields is looked at

(* begin() and end() of each input *)
Begins(sizes) == [x \in DOMAIN sizes |-> 1]
Ends(sizes) == [x \in DOMAIN sizes |-> sizes[x] + 1]

----------------------------------------------------------------------------
(* zip, and imap, which maps f over what it yields *)

ZipStep(it) == [x \in DOMAIN it |-> it[x] + 1]

(* operator!= asks that all of the iterators differ; of none, that is false *)
ZipSame(it, other) == it = << >> \/ \E x \in DOMAIN it : it[x] = other[x]

(* the result of the user's function for the arguments args *)
Call(args) == <<"f", args>>

----------------------------------------------------------------------------
(* starmap, which maps f over an input's elements, and over a tuple's, where *)
(* the iterator is index_                                                   *)

StarStep(it) == it + 1
StarValue(it) == Call(it)

TupleStep(index) == index + 1
TupleValue(index) == Call(index + 1)

----------------------------------------------------------------------------
(* zip_longest: iters_; ends_ is Ends(sizes) *)

WrongLongestStep(sizes, it) == [x \in DOMAIN it |-> it[x] + 1]

LongestStep(sizes, it) ==
    [x \in DOMAIN it |-> IF it[x] # sizes[x] + 1 THEN it[x] + 1 ELSE it[x]]

LongestSame(it, other) == \A x \in DOMAIN it : it[x] = other[x]

(* the optionals, of which 0 is the empty one *)
LongestValue(sizes, it) ==
    [x \in DOMAIN it |-> IF it[x] # sizes[x] + 1 THEN it[x] ELSE 0]

----------------------------------------------------------------------------
(* compress *)

Both(it) == [sub |-> it.sub + 1, selector |-> it.selector + 1]

(* the positions skip_failures passes over, from it on *)
SkipFailures(s, it) ==
    LET steps == CHOOSE k \in 0 .. s.n :
            /\ \A m \in 0 .. k - 1 :
                 it.sub + m <= s.n /\ it.selector + m <= Len(s.selectors)
                   /\ ~s.selectors[it.selector + m]
            /\ \/ it.sub + k = s.n + 1
               \/ it.selector + k = Len(s.selectors) + 1
               \/ s.selectors[it.selector + k]
    IN  [sub |-> it.sub + steps, selector |-> it.selector + steps]

CompressBegin(s) == SkipFailures(s, [sub |-> 1, selector |-> 1])
CompressEnd(s) ==
    SkipFailures(s, [sub |-> s.n + 1, selector |-> Len(s.selectors) + 1])
CompressStep(s, it) == SkipFailures(s, Both(it))
CompressSame(it, other) == it.sub = other.sub \/ it.selector = other.selector

----------------------------------------------------------------------------
(* enumerate *)

EnumerateAt(s, p) == [sub |-> p, index |-> s.start]
EnumerateValue(it) == <<it.index, it.sub>>
EnumerateStep(it) == [sub |-> it.sub + 1, index |-> it.index + 1]
EnumerateSame(it, other) == it.sub = other.sub

----------------------------------------------------------------------------
(* accumulate; acc_val_ is the sequence of elements the function has been   *)
(* applied to, from left to right, which tells all such functions' results  *)

AccumulateAt(s, p) == [sub |-> p, acc |-> IF p = s.n + 1 THEN << >> ELSE <<p>>]

AccumulateStep(s, it) ==
    LET next == it.sub + 1
    IN  [sub |-> next, acc |-> IF next = s.n + 1 THEN it.acc ELSE Append(it.acc, next)]

AccumulateSame(it, other) == it.sub = other.sub

----------------------------------------------------------------------------
(* reversed *)

ReverseStep(it) == it - 1

----------------------------------------------------------------------------
(* slice *)

(* what DifferenceType stores v as *)
Stored(v) == ((v + 2 ^ (Width - 1)) % 2 ^ Width) - 2 ^ (Width - 1)

(* dumb_advance of a position; only this one of random access iterators     *)
(* goes backwards                                                           *)
Advance(s, p, distance) ==
    IF s.random
    THEN IF Stored(s.n + 1 - p) < distance THEN s.n + 1 ELSE p + distance
    ELSE IF distance <= 0 THEN p ELSE Min({p + distance, s.n + 1})

(* the constructor of Sliced *)
Slice(n, random, start, stop, step) ==
    [tool |-> "slice", n |-> n, random |-> random,
     start |-> IF start < stop /\ step > 0 THEN start ELSE stop,
     stop |-> stop, step |-> step]

SliceBegin(s) == [sub |-> Advance(s, 1, s.start), current |-> s.start]
SliceEnd(s) == [sub |-> s.n + 1, current |-> s.stop]

(* current_ is left past the stop *)
WrongSliceStep(s, it) ==
    [sub |-> Advance(s, it.sub, s.step), current |-> Stored(it.current + s.step)]

SliceStep(s, it) ==
    LET up == Stored(it.current + s.step)
    IN  [sub |-> Advance(s, it.sub, s.step), current |-> IF s.stop < up THEN s.stop ELSE up]

SliceSame(it, other) == it.sub = other.sub \/ it.current = other.current

----------------------------------------------------------------------------
(* chain: index_, counted from 1, and iters_; ends_ is Ends(sizes) *)

(* check_for_end_and_adjust: index_ moves to an input that is not at its end *)
Adjust(sizes, it) ==
    LET left == {x \in DOMAIN sizes : x >= it.index /\ it.iters[x] # sizes[x] + 1}
    IN  [it EXCEPT !.index = IF left = {} THEN Len(sizes) + 1 ELSE Min(left)]

ChainBegin(sizes) == Adjust(sizes, [index |-> 1, iters |-> Begins(sizes)])
ChainEnd(sizes) ==
    Adjust(sizes, [index |-> Len(sizes) + 1, iters |-> Ends(sizes)])
ChainValue(it) == <<it.index, it.iters[it.index]>>
ChainStep(sizes, it) == Adjust(sizes, [it EXCEPT !.iters[it.index] = @ + 1])

(* where the iterators are in the input is not looked at *)
WrongChainSame(sizes, it, other) == it.index = other.index

ChainSame(sizes, it, other) ==
    /\ it.index = other.index
    /\ it.index # Len(sizes) + 1 => it.iters[it.index] = other.iters[it.index]

----------------------------------------------------------------------------
(* chain.from_iterable: top_level_iter_ and sub_iter_p_, 0 for no value *)

(* next_sub_iterable, with advance_while_empty_sub_iterable *)
NextSub(sizes, top) ==
    LET left == {x \in DOMAIN sizes : x >= top /\ sizes[x] # 0}
    IN  IF left = {} THEN [top |-> Len(sizes) + 1, sub |-> 0]
        ELSE [top |-> Min(left), sub |-> 1]

FromBegin(sizes) == NextSub(sizes, 1)
FromEnd(sizes) == NextSub(sizes, Len(sizes) + 1)

FromValue(it) == <<it.top, it.sub>>
FromSame(it, other) == it.top = other.top /\ it.sub = other.sub

FromStep(sizes, it) ==
    IF it.sub + 1 = sizes[it.top] + 1 THEN NextSub(sizes, it.top + 1)
    ELSE [it EXCEPT !.sub = @ + 1]

----------------------------------------------------------------------------
(* cycle, of which sub_begin_ is 1 where it is read *)

CycleStep(s, p) == IF p + 1 = s.n + 1 THEN 1 ELSE p + 1

----------------------------------------------------------------------------
(* IteratorWrapper: sub_iter_or_end_, a position or the sentinel *)

Sentinel(s) == [holds |-> "SubEnd", at |-> s.n + 1]
WrappedStep(it) == [it EXCEPT !.at = @ + 1]

(* operator!=; the sentinels are not compared with each other *)
WrappedSame(it, other) ==
    (it.holds = "SubEnd" /\ other.holds = "SubEnd") \/ it.at = other.at

----------------------------------------------------------------------------
(* All of them as one *)

Straight ==
    {"zip", "imap", "enumerate", "accumulate", "reversed", "starmap", "tuple_starmap", "wrapped"}
Adapting ==
    Straight \cup {"zip_longest", "compress", "slice", "chain", "from_iterable", "cycle"}

Begin(s) ==
    CASE s.tool \in {"zip", "imap", "zip_longest"} -> Begins(s.sizes)
      [] s.tool = "compress" -> CompressBegin(s)
      [] s.tool = "enumerate" -> EnumerateAt(s, 1)
      [] s.tool = "accumulate" -> AccumulateAt(s, 1)
      [] s.tool = "slice" -> SliceBegin(s)
      [] s.tool = "chain" -> ChainBegin(s.sizes)
      [] s.tool = "from_iterable" -> FromBegin(s.sizes)
      [] s.tool = "reversed" -> s.n
      [] s.tool = "tuple_starmap" -> 0
      [] s.tool = "wrapped" -> [holds |-> "SubIter", at |-> 1]
      [] s.tool \in {"starmap", "cycle"} -> 1

Finish(s) ==
    CASE s.tool \in {"zip", "imap", "zip_longest"} -> Ends(s.sizes)
      [] s.tool = "compress" -> CompressEnd(s)
      [] s.tool = "enumerate" -> EnumerateAt(s, s.n + 1)
      [] s.tool = "accumulate" -> AccumulateAt(s, s.n + 1)
      [] s.tool = "slice" -> SliceEnd(s)
      [] s.tool = "chain" -> ChainEnd(s.sizes)
      [] s.tool = "from_iterable" -> FromEnd(s.sizes)
      [] s.tool = "reversed" -> 0
      [] s.tool = "tuple_starmap" -> s.n
      [] s.tool = "wrapped" -> Sentinel(s)
      [] s.tool \in {"starmap", "cycle"} -> s.n + 1

Step(s, it) ==
    CASE s.tool \in {"zip", "imap"} -> ZipStep(it)
      [] s.tool = "zip_longest" -> LongestStep(s.sizes, it)
      [] s.tool = "compress" -> CompressStep(s, it)
      [] s.tool = "enumerate" -> EnumerateStep(it)
      [] s.tool = "accumulate" -> AccumulateStep(s, it)
      [] s.tool = "slice" -> SliceStep(s, it)
      [] s.tool = "chain" -> ChainStep(s.sizes, it)
      [] s.tool = "from_iterable" -> FromStep(s.sizes, it)
      [] s.tool = "reversed" -> ReverseStep(it)
      [] s.tool = "starmap" -> StarStep(it)
      [] s.tool = "tuple_starmap" -> TupleStep(it)
      [] s.tool = "wrapped" -> WrappedStep(it)
      [] s.tool = "cycle" -> CycleStep(s, it)

Value(s, it) ==
    CASE s.tool = "zip" -> it
      [] s.tool = "imap" -> Call(it)
      [] s.tool = "zip_longest" -> LongestValue(s.sizes, it)
      [] s.tool \in {"compress", "slice"} -> it.sub
      [] s.tool = "enumerate" -> EnumerateValue(it)
      [] s.tool = "accumulate" -> it.acc
      [] s.tool = "chain" -> ChainValue(it)
      [] s.tool = "from_iterable" -> FromValue(it)
      [] s.tool = "wrapped" -> it.at
      [] s.tool \in {"reversed", "cycle"} -> it
      [] s.tool = "starmap" -> StarValue(it)
      [] s.tool = "tuple_starmap" -> TupleValue(it)

Same(s, it, other) ==
    CASE s.tool \in {"zip", "imap"} -> ZipSame(it, other)
      [] s.tool = "compress" -> CompressSame(it, other)
      [] s.tool = "enumerate" -> EnumerateSame(it, other)
      [] s.tool = "accumulate" -> AccumulateSame(it, other)
      [] s.tool = "slice" -> SliceSame(it, other)
      [] s.tool = "chain" -> ChainSame(s.sizes, it, other)
      [] s.tool = "from_iterable" -> FromSame(it, other)
      [] s.tool = "zip_longest" -> LongestSame(it, other)
      [] s.tool = "wrapped" -> WrappedSame(it, other)
      [] OTHER -> it = other

----------------------------------------------------------------------------
(* What the tools yield, defined on the whole inputs at once *)

Shortest(sizes) == IF sizes = << >> THEN 0 ELSE Min(Range(sizes))
Longest(sizes) == Max({0} \cup Range(sizes))

(* the positions of S, from the first to the last *)
Ascending(S) ==
    [k \in 1 .. Cardinality(S) |->
        CHOOSE p \in S : Cardinality({q \in S : q < p}) = k - 1]

(* the elements of several inputs, and the order of the inputs *)
Elements(sizes) == {e \in (DOMAIN sizes) \X (1 .. Longest(sizes)) : e[2] <= sizes[e[1]]}

Before(e, f) ==
    \/ e[1] < f[1]
    \/ e[1] = f[1] /\ e[2] < f[2]

Chained(sizes) ==
    [k \in 1 .. Cardinality(Elements(sizes)) |->
        CHOOSE e \in Elements(sizes) :
            Cardinality({f \in Elements(sizes) : Before(f, e)}) = k - 1]

Yields(s) ==
    CASE s.tool = "zip" ->
           [k \in 1 .. Shortest(s.sizes) |-> [x \in DOMAIN s.sizes |-> k]]
      [] s.tool = "imap" ->
           [k \in 1 .. Shortest(s.sizes) |-> Call([x \in DOMAIN s.sizes |-> k])]
      [] s.tool = "zip_longest" ->
           [k \in 1 .. Longest(s.sizes) |->
                [x \in DOMAIN s.sizes |-> IF k <= s.sizes[x] THEN k ELSE 0]]
      [] s.tool = "compress" ->
           Ascending({p \in 1 .. Min({s.n, Len(s.selectors)}) : s.selectors[p]})
      [] s.tool = "enumerate" -> [k \in 1 .. s.n |-> <<s.start + k - 1, k>>]
      [] s.tool = "accumulate" -> [k \in 1 .. s.n |-> [p \in 1 .. k |-> p]]
      [] s.tool = "slice" ->
           Ascending({p \in 1 .. s.n : /\ p - 1 >= s.start
                                       /\ p - 1 < s.stop
                                       /\ (p - 1 - s.start) % s.step = 0})
      [] s.tool \in {"chain", "from_iterable"} -> Chained(s.sizes)
      [] s.tool = "reversed" -> [k \in 1 .. s.n |-> s.n + 1 - k]
      [] s.tool \in {"starmap", "tuple_starmap"} -> [k \in 1 .. s.n |-> Call(k)]
      [] s.tool = "wrapped" -> [k \in 1 .. s.n |-> k]
      [] s.tool = "cycle" ->
           IF s.n = 0 THEN << >> ELSE [k \in 1 .. MaxPlace |-> ((k - 1) % s.n) + 1]

(* The client's rule for slice: its numbers, the last increment and the     *)
(* distances in the input are of DifferenceType, and a start below 0, which *)
(* would count places before begin() or move a random access iterator       *)
(* there, is only given to an empty slice of other iterators.               *)
Fits(s) ==
    s.tool = "slice" =>
        /\ s.stop + s.step = Stored(s.stop + s.step)
        /\ s.n = Stored(s.n)
        /\ s.start < 0 => ~s.random /\ s.start = s.stop

(* No iterator of an input is moved past its end, or reversed's past rend,  *)
(* no sentinel is moved, and slice's, whose start may be negative, does not *)
(* go before the first element.                                             *)
Inside(s, it) ==
    CASE s.tool \in {"zip", "imap", "zip_longest"} ->
             \A x \in DOMAIN it : it[x] <= s.sizes[x] + 1
      [] s.tool = "compress" -> it.sub <= s.n + 1 /\ it.selector <= Len(s.selectors) + 1
      [] s.tool \in {"enumerate", "accumulate"} -> it.sub <= s.n + 1
      [] s.tool = "slice" -> it.sub \in 1 .. s.n + 1
      [] s.tool = "chain" -> \A x \in DOMAIN s.sizes : it.iters[x] <= s.sizes[x] + 1
      [] s.tool = "from_iterable" -> it.top <= Len(s.sizes) + 1
      [] s.tool = "wrapped" -> it.at <= s.n + 1
      [] OTHER -> it \in 0 .. s.n + 1

============================================================================
