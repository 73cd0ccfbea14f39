------------------------------ MODULE Counting ------------------------------
(***************************************************************************)
(* range, count and repeat: iterators that hold a number, or only where the  *)
(* one element is.                                                          *)
(*                                                                         *)
(* A range's numbers are those of its type: Width bits, "unsigned",        *)
(* "narrow" (signed and narrower than int, so that int computes),          *)
(* "int" (signed, computing in itself) or "float", which has no bound      *)
(* and, as its values are multiples of one unit, no rounding. A source has  *)
(* the fields kind, start, stop and step, or for repeat a count, or none.   *)
(*                                                                         *)
(* An operator named Wrong... is a plausible mistake in the definition     *)
(* that follows it; nothing uses it.                                       *)
(***************************************************************************)
EXTENDS Integers, Sequences, FiniteSetsExt

CONSTANTS
    Width,     \* bits of a range's numbers
    MaxPlace   \* how much of what never ends is looked at

Lowest(kind) == IF kind = "unsigned" THEN 0 ELSE -(2 ^ (Width - 1))
Highest(kind) == Lowest(kind) + 2 ^ Width - 1
Values(kind) == Lowest(kind) .. Highest(kind)

(* the value of kind that v is stored as; for "int" it is what the machine  *)
(* makes of an overflow the language leaves undefined                       *)
Stored(kind, v) ==
    IF kind = "float" THEN v
    ELSE ((v - Lowest(kind)) % 2 ^ Width) + Lowest(kind)

(* what int computes for operands of kind *)
Computed(kind, v) == IF kind = "narrow" THEN v ELSE Stored(kind, v)

----------------------------------------------------------------------------
(* range *)

(* range(start, stop, step) *)
Range3(kind, start, stop, step) ==
    IF step = 0 THEN [tool |-> "range", kind |-> kind, start |-> 0, stop |-> 0, step |-> 1]
    ELSE [tool |-> "range", kind |-> kind, start |-> start, stop |-> stop, step |-> step]

(* range(stop) and range(start, stop) *)
Range1(kind, stop) == Range3(kind, 0, stop, 1)
Range2(kind, start, stop) == Range3(kind, start, stop, 1)

(* count(start, step) *)
Count(kind, start, step) ==
    Range3(kind, start, IF step < 0 THEN Lowest(kind) ELSE Highest(kind), step)

(* a step below 0 is forgotten *)
WrongWithin(kind, val, stop, step) == val < stop

(* is_within_range *)
Within(kind, val, stop, step) ==
    IF kind = "unsigned" THEN val < stop
    ELSE ~(step > 0 /\ val >= stop) /\ ~(step < 0 /\ val <= stop)

(* / and % of integers, which cut towards 0 *)
Quotient(a, b) ==
    LET abs(x) == IF x < 0 THEN -x ELSE x
        q == abs(a) \div abs(b)
    IN  IF (a < 0) = (b < 0) THEN q ELSE -q

(* the rest is not counted *)
WrongSize(s) ==
    IF ~Within(s.kind, s.start, s.stop, s.step) THEN 0
    ELSE Quotient(Computed(s.kind, s.stop - s.start), s.step)

(* size(), which is negative where the code's assertion fails *)
Size(s) ==
    LET diff == Computed(s.kind, s.stop - s.start)
        res == Quotient(diff, s.step)
    IN  IF ~Within(s.kind, s.start, s.stop, s.step) THEN 0
        ELSE IF diff # res * s.step THEN res + 1 ELSE res

(* counted from 1 *)
WrongIndex(s, index) == Stored(s.kind, s.start + s.step * (index + 1))

(* operator[], computed in size_t *)
Index(s, index) == Stored(s.kind, s.start + s.step * index)

RangeBegin(s) == [value |-> s.start, is_end |-> FALSE, steps_taken |-> 0]
RangeEnd(s) == [value |-> s.stop, is_end |-> TRUE, steps_taken |-> 0]

(* inc of RangeIterData; only that of floats has steps_taken_ *)
RangeStep(s, it) ==
    IF s.kind = "float"
    THEN [it EXCEPT !.steps_taken = @ + 1, !.value = s.start + s.step * (it.steps_taken + 1)]
    ELSE [it EXCEPT !.value = Stored(s.kind, @ + s.step)]

(* operator== of RangeIterData *)
DataEqual(s, a, b) ==
    IF s.kind = "float"
    THEN (IF a < b THEN b - a ELSE a - b) < s.step
    ELSE a = b

(* operator== *)
RangeSame(s, it, other) ==
    IF it.is_end /\ other.is_end THEN TRUE
    ELSE IF ~it.is_end /\ ~other.is_end THEN DataEqual(s, it.value, other.value)
    ELSE LET last == IF it.is_end THEN it ELSE other
             this == IF it.is_end THEN other ELSE it
         IN  ~Within(s.kind, this.value, last.value, s.step)

----------------------------------------------------------------------------
(* repeat(elem, count); the iterator is its count_ *)

Repeat(count) == [tool |-> "repeat", count |-> IF count < 0 THEN 0 ELSE count]

RepeatStep(it) == it - 1
RepeatSame(it, other) == it = other

(* repeat(elem): elem_, of which the one of end() is null. No two iterators  *)
(* are equal.                                                               *)
Endless == [tool |-> "endless"]

EndlessBegin == "elem_"
EndlessEnd == "nullptr"
EndlessStep(it) == it
EndlessSame(it, other) == FALSE

----------------------------------------------------------------------------
(* All of them as one *)

Counted == {"range", "repeat", "endless"}

Begin(s) ==
    CASE s.tool = "range" -> RangeBegin(s)
      [] s.tool = "repeat" -> s.count
      [] s.tool = "endless" -> EndlessBegin

Finish(s) ==
    CASE s.tool = "range" -> RangeEnd(s)
      [] s.tool = "repeat" -> 0
      [] s.tool = "endless" -> EndlessEnd

Step(s, it) ==
    CASE s.tool = "range" -> RangeStep(s, it)
      [] s.tool = "repeat" -> RepeatStep(it)
      [] s.tool = "endless" -> EndlessStep(it)

Value(s, it) == IF s.tool = "range" THEN it.value ELSE "elem"

Same(s, it, other) ==
    CASE s.tool = "range" -> RangeSame(s, it, other)
      [] s.tool = "repeat" -> RepeatSame(it, other)
      [] s.tool = "endless" -> EndlessSame(it, other)

(* how many multiples of step lie from start up to stop, or down to it;     *)
(* there are no more than there are numbers in between                      *)
Steps(s) ==
    Cardinality({n \in 0 .. Max({s.stop - s.start, s.start - s.stop}) :
        IF s.step > 0 THEN s.start + n * s.step < s.stop ELSE s.start + n * s.step > s.stop})

Yields(s) ==
    CASE s.tool = "range" -> [k \in 1 .. Steps(s) |-> s.start + (k - 1) * s.step]
      [] s.tool = "repeat" -> [k \in 1 .. s.count |-> "elem"]
      [] s.tool = "endless" -> [k \in 1 .. MaxPlace |-> "elem"]

(* The client's rule: the last increment, and the distance where size()     *)
(* computes it, are numbers of the range's type.                            *)
Fits(s) ==
    s.tool = "range" /\ s.kind # "float" =>
        /\ s.start + Steps(s) * s.step \in Values(s.kind)
        /\ Within(s.kind, s.start, s.stop, s.step) =>
               Computed(s.kind, s.stop - s.start) = s.stop - s.start

============================================================================
