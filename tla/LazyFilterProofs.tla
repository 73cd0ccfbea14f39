-------------------------- MODULE LazyFilterProofs --------------------------
(***************************************************************************)
(* For inputs of any length and any number of iterators: each element is   *)
(* read and tested once, an iterator in use stands on an element its tool  *)
(* yields, and the tools implement InputIterator, laziness and all.        *)
(***************************************************************************)
EXTENDS LazyFilter, FiniteSetTheorems, WellFoundedInduction, TLAPS

IterRec == [sub : 1 .. End, item : 0 .. Len(input), reads : Nat, tests : Nat]

(* an iterator has read the elements up to item_, which is the current one, *)
(* and the predicate was asked of each of them at most once                 *)
Placed(it) ==
    /\ it \in IterRec
    /\ it.item = 0 => it.sub \in {1, End}
    /\ it.item # 0 /\ it.sub # End => it.item = it.sub
    /\ it.reads = it.item /\ it.tests <= it.reads

Core == TypeOK /\ \A i \in DOMAIN iter : Placed(iter[i])

(* what unique_everseen's predicate has seen when elements up to p were read *)
SeenUpTo(p, s) == tool = "unique_everseen" => s = {input[r] : r \in 1 .. p}

OnlyOneInside ==
    tool = "unique_everseen" =>
        \A i, j \in DOMAIN iter : iter[i].sub # End /\ iter[j].sub # End => i = j

(* an iterator that may be there when unique_everseen's predicate has seen s *)
StandsAt(it, s) ==
    it.sub # End => SeenUpTo(it.item, s) /\ (it.item # 0 => Yielded(it.sub))

Inside == OnlyOneInside /\ \A i \in DOMAIN iter : StandsAt(iter[i], seen)

----------------------------------------------------------------------------
(* What the members do to one iterator *)

(* it has just read the element at sub_iter_, and has not tested it *)
JustRead(it) ==
    /\ it \in IterRec /\ it.sub # End
    /\ it.item = it.sub /\ it.reads = it.item /\ it.tests < it.item

(* the result of a member: an iterator in use *)
InUse(r) ==
    /\ Placed(r.it) /\ r.it.item # 0
    /\ r.seen \subseteq Elems

LEMMA SkipLoopPlaced ==
    ASSUME input \in Seq(Elems), NEW it, JustRead(it), NEW s \in SUBSET Elems,
           NEW r \in SkipLoop(it, s)
    PROVE  InUse(r)
<1>1. Len(input) \in Nat /\ End = Len(input) + 1
  BY DEF End
<1> DEFINE last(q) == IF q = End THEN Len(input) ELSE q
<1>2. PICK q \in it.sub .. End :
         r = [it |-> [sub |-> q,
                      item |-> IF last(q) > it.sub THEN last(q) ELSE it.item,
                      reads |-> it.reads + (last(q) - it.sub),
                      tests |-> it.tests + (last(q) - it.sub) + 1],
              seen |-> IF q # End THEN s \cup {input[q]} ELSE s]
  BY DEF SkipLoop
<1>3. /\ it.sub \in 1 .. Len(input) /\ it.item = it.sub /\ it.reads = it.sub
      /\ it.tests \in Nat /\ it.tests < it.sub
  BY <1>1 DEF JustRead, IterRec
<1>4. last(q) \in it.sub .. Len(input) /\ (q # End => last(q) = q)
  BY <1>1, <1>3
<1> HIDE DEF last
<1>5. r.it = [sub |-> q, item |-> last(q), reads |-> last(q),
              tests |-> it.tests + (last(q) - it.sub) + 1]
  BY <1>2, <1>3, <1>4
<1>6. Placed(r.it) /\ r.it.item # 0
  BY <1>1, <1>3, <1>4, <1>5 DEF Placed, IterRec
<1>7. q # End => input[q] \in Elems
  BY <1>1, <1>3
<1> QED
  BY <1>2, <1>6, <1>7 DEF InUse

LEMMA SettledPlaced ==
    ASSUME input \in Seq(Elems), NEW it, JustRead(it), NEW s \in SUBSET Elems,
           NEW r \in Settled(it, s)
    PROVE  InUse(r)
<1>1. CASE tool = "takewhile"
  <2>1. Len(input) \in Nat /\ End = Len(input) + 1
    BY DEF End
  <2>2. /\ r.seen = s
        /\ r.it = [it EXCEPT !.tests = @ + 1,
                             !.sub = IF Holds(input[it.item], s) THEN @ ELSE End]
    BY <1>1 DEF Settled, CheckCurrent, JustRead
  <2>3. PICK q \in {it.sub, End} :
           r.it = [sub |-> q, item |-> it.item, reads |-> it.reads, tests |-> it.tests + 1]
    BY <2>2 DEF JustRead, IterRec
  <2> QED
    BY <2>1, <2>2, <2>3 DEF JustRead, IterRec, InUse, Placed
<1>2. CASE tool # "takewhile"
  BY <1>2, SkipLoopPlaced DEF Settled, JustRead
<1> QED
  BY <1>1, <1>2

LEMMA ReadEffect ==
    ASSUME NEW it, NEW p, NEW k, NEW m, NEW n,
           it = [sub |-> p, item |-> k, reads |-> m, tests |-> n]
    PROVE  Read(it) = [sub |-> p, item |-> p, reads |-> m + 1, tests |-> n]
<1>1. [it EXCEPT !.item = it.sub] = [sub |-> p, item |-> p, reads |-> m, tests |-> n]
  OBVIOUS
<1>2. Read(it) = [[it EXCEPT !.item = it.sub] EXCEPT !.reads = m + 1]
  BY DEF Read
<1> QED
  BY <1>1, <1>2

LEMMA ReadNext ==
    ASSUME input \in Seq(Elems), NEW it, Placed(it), it.sub # End
    PROVE  /\ it.item = 0 => JustRead(Read(it)) /\ Read(it).sub = 1 /\ Read(it).item = 1
           /\ it.item # 0 /\ it.sub + 1 # End =>
                  JustRead(Stepped(it)) /\ Stepped(it).sub = it.sub + 1
           /\ it.item # 0 /\ it.sub + 1 = End =>
                  Placed(Stepped(it)) /\ Stepped(it).sub = End /\ Stepped(it).item # 0
<1>1. Len(input) \in Nat /\ End = Len(input) + 1
  BY DEF End
<1>2. it.sub \in 1 .. End /\ it.item \in 0 .. Len(input) /\ it.reads \in Nat /\ it.tests \in Nat
  BY DEF Placed, IterRec
<1>3. ASSUME it.item = 0
      PROVE  Read(it) = [sub |-> 1, item |-> 1, reads |-> 1, tests |-> 0]
  <2>1. it.sub = 1 /\ it.reads = 0 /\ it.tests = 0
    BY <1>2, <1>3 DEF Placed
  <2>2. it = [sub |-> 1, item |-> 0, reads |-> 0, tests |-> 0]
    BY <1>3, <2>1 DEF Placed, IterRec
  <2> QED
    BY <2>2, ReadEffect
<1>4. ASSUME it.item # 0
      PROVE  Stepped(it) = [sub |-> it.sub + 1,
                            item |-> it.sub + (IF it.sub + 1 # End THEN 1 ELSE 0),
                            reads |-> it.sub + (IF it.sub + 1 # End THEN 1 ELSE 0),
                            tests |-> it.tests]
  <2>1. it.item = it.sub /\ it.reads = it.sub
    BY <1>4 DEF Placed
  <2>2. [it EXCEPT !.sub = @ + 1] = [sub |-> it.sub + 1, item |-> it.sub, reads |-> it.sub, tests |-> it.tests]
    BY <2>1 DEF Placed, IterRec
  <2>3. Read([it EXCEPT !.sub = @ + 1])
        = [sub |-> it.sub + 1, item |-> it.sub + 1, reads |-> it.sub + 1, tests |-> it.tests]
    BY <2>2, ReadEffect
  <2> QED
    BY <1>2, <2>2, <2>3 DEF Stepped
<1>5. it.item = 0 => JustRead(Read(it)) /\ Read(it).sub = 1 /\ Read(it).item = 1
  BY <1>1, <1>2, <1>3 DEF JustRead, IterRec
<1>6. it.item # 0 => it.tests <= it.sub
  BY DEF Placed
<1> QED
  BY <1>1, <1>2, <1>4, <1>5, <1>6 DEF JustRead, Placed, IterRec

LEMMA InitialisedPlaced ==
    ASSUME input \in Seq(Elems), NEW it, Placed(it), NEW s \in SUBSET Elems,
           NEW r \in Initialised(it, s)
    PROVE  Placed(r.it) /\ r.seen \subseteq Elems /\ (r.it.sub # End => InUse(r))
<1>1. CASE it.item = 0 /\ it.sub # End
  BY <1>1, ReadNext, SettledPlaced DEF Initialised, InUse
<1>2. CASE ~(it.item = 0 /\ it.sub # End)
  BY <1>2 DEF Initialised, InUse
<1> QED
  BY <1>1, <1>2

LEMMA AdvancedPlaced ==
    ASSUME input \in Seq(Elems), NEW it, Placed(it), it.item # 0, it.sub # End,
           NEW s \in SUBSET Elems, NEW a \in Advanced(it, s)
    PROVE  InUse(a)
<1>1. CASE it.sub + 1 = End
  <2>1. a.it = Stepped(it) /\ a.seen = s
    BY <1>1, ReadNext DEF Advanced, Settled
  <2> QED
    BY <1>1, <2>1, ReadNext DEF InUse
<1>2. CASE it.sub + 1 # End
  <2>1. JustRead(Stepped(it))
    BY <1>2, ReadNext
  <2>2. CASE tool = "dropwhile"
    <3>1. a.it = Stepped(it) /\ a.seen = s
      BY <2>2 DEF Advanced
    <3> QED
      BY <2>1, <3>1 DEF JustRead, InUse, Placed, IterRec
  <2>3. CASE tool # "dropwhile"
    BY <2>1, <2>3, SettledPlaced DEF Advanced
  <2> QED
    BY <2>2, <2>3
<1> QED
  BY <1>1, <1>2

----------------------------------------------------------------------------
(* Types, and reading once *)

LEMMA CoreInit == Init => Core
<1> SUFFICES ASSUME Init PROVE Core
  OBVIOUS
<1>1. input \in Seq(Elems) /\ Len(input) \in Nat
  BY DEF Init
<1>2. tool \in AllTools /\ pass \subseteq Elems
  BY ToolsAssumption DEF Init
<1> QED
  BY <1>1, <1>2 DEF Init, Core, TypeOK

LEMMA CoreFrom ==
    ASSUME Core, UNCHANGED fixed, iter' = [k \in DOMAIN iter' |-> iter'[k]],
           DOMAIN iter' \subseteq Its, \A k \in DOMAIN iter' : Placed(iter'[k]),
           seen' \subseteq Elems, got' \in 0 .. Len(input)
    PROVE  Core'
<1>1. UNCHANGED <<tool, input, pass>>
  BY DEF fixed
<1>2. End' = End
  BY <1>1 DEF End
<1>3. (\A k \in DOMAIN iter : Placed(iter[k]))'
  BY <1>1, <1>2 DEF Placed, IterRec
<1>4. TypeOK'
  BY <1>1, <1>2 DEF Core, TypeOK, Placed, IterRec
<1> QED
  BY <1>3, <1>4 DEF Core

LEMMA NewIterator ==
    ASSUME Core, NEW p \in {1, End}
    PROVE  Placed([sub |-> p, item |-> 0, reads |-> 0, tests |-> 0])
<1>1. Len(input) \in Nat /\ End = Len(input) + 1
  BY DEF Core, TypeOK, End
<1> QED
  BY <1>1 DEF Placed, IterRec

(* every step replaces iterators by ones that are placed *)
LEMMA CoreNext == ASSUME Core, Next PROVE Core'
<1>1. input \in Seq(Elems) /\ Len(input) \in Nat /\ seen \in SUBSET Elems
  BY DEF Core, TypeOK
<1>2. /\ DOMAIN iter \subseteq Its /\ got \in 0 .. Len(input)
      /\ iter = [k \in DOMAIN iter |-> iter[k]]
      /\ \A k \in DOMAIN iter : Placed(iter[k])
  BY DEF Core, TypeOK
<1>3. ASSUME NEW i \in Its, NEW p \in {1, End}, Construct(i, p) PROVE Core'
  BY <1>1, <1>2, <1>3, NewIterator, CoreFrom DEF Construct, Put
<1>4. ASSUME NEW i \in Its, NEW j \in Its, Copy(i, j) PROVE Core'
  BY <1>1, <1>2, <1>4, CoreFrom DEF Copy, Put
<1>5. ASSUME NEW i \in Its, NEW j \in Its, Assign(i, j) PROVE Core'
  BY <1>1, <1>2, <1>5, CoreFrom DEF Assign
<1>6. ASSUME NEW i \in Its, Destroy(i) PROVE Core'
  BY <1>1, <1>2, <1>6, CoreFrom DEF Destroy, Drop
<1>7. ASSUME NEW i \in Its, Deref(i) PROVE Core'
  <2>1. PICK r \in Initialised(iter[i], seen) :
           /\ r.it.sub # End /\ iter' = [iter EXCEPT ![i] = r.it]
           /\ seen' = r.seen /\ got' = r.it.item
    BY <1>7 DEF Deref
  <2>2. InUse(r)
    BY <1>1, <1>2, <1>7, <2>1, InitialisedPlaced DEF Deref
  <2> QED
    BY <1>2, <1>7, <2>1, <2>2, CoreFrom DEF Deref, InUse, Placed, IterRec
<1>8. ASSUME NEW i \in Its, PreIncrement(i) PROVE Core'
  <2>1. PICK r \in Initialised(iter[i], seen) :
           /\ r.it.sub # End
           /\ \E a \in Advanced(r.it, r.seen) :
                  iter' = [iter EXCEPT ![i] = a.it] /\ seen' = a.seen
    BY <1>8 DEF PreIncrement
  <2>2. InUse(r)
    BY <1>1, <1>2, <1>8, <2>1, InitialisedPlaced DEF PreIncrement
  <2>3. PICK a \in Advanced(r.it, r.seen) : iter' = [iter EXCEPT ![i] = a.it] /\ seen' = a.seen
    BY <2>1
  <2>4. InUse(a)
    BY <1>1, <2>1, <2>2, <2>3, AdvancedPlaced DEF InUse
  <2> QED
    BY <1>2, <1>8, <2>3, <2>4, CoreFrom DEF PreIncrement, InUse
<1>9. ASSUME NEW i \in Its, DerefPostIncrement(i) PROVE Core'
  <2>1. PICK r \in Initialised(iter[i], seen) :
           /\ r.it.sub # End
           /\ \E a \in Advanced(r.it, r.seen) :
                  /\ iter' = [iter EXCEPT ![i] = a.it]
                  /\ \E ret \in Initialised(iter[i], a.seen) :
                         /\ got' = ret.it.item
                         /\ seen' = ret.seen
    BY <1>9 DEF DerefPostIncrement
  <2>2. InUse(r)
    BY <1>1, <1>2, <1>9, <2>1, InitialisedPlaced DEF DerefPostIncrement
  <2>3. PICK a \in Advanced(r.it, r.seen) :
           /\ iter' = [iter EXCEPT ![i] = a.it]
           /\ \E ret \in Initialised(iter[i], a.seen) : got' = ret.it.item /\ seen' = ret.seen
    BY <2>1
  <2>4. InUse(a)
    BY <1>1, <2>1, <2>2, <2>3, AdvancedPlaced DEF InUse
  <2>5. PICK ret \in Initialised(iter[i], a.seen) : got' = ret.it.item /\ seen' = ret.seen
    BY <2>3
  <2>6. Placed(ret.it) /\ ret.seen \subseteq Elems
    BY <1>1, <1>2, <1>9, <2>4, <2>5, InitialisedPlaced DEF DerefPostIncrement, InUse
  <2> QED
    BY <1>2, <1>9, <2>3, <2>4, <2>5, <2>6, CoreFrom
       DEF DerefPostIncrement, InUse, Placed, IterRec
<1>10. ASSUME NEW i \in Its, NEW j \in Its, Compare(i, j) PROVE Core'
  <2>1. PICK r \in Initialised(iter[i], seen) :
           \E t \in Initialised(iter[j], r.seen) :
               iter' = [iter EXCEPT ![i] = r.it, ![j] = t.it] /\ seen' = t.seen
    BY <1>10 DEF Compare
  <2>2. PICK t \in Initialised(iter[j], r.seen) :
           iter' = [iter EXCEPT ![i] = r.it, ![j] = t.it] /\ seen' = t.seen
    BY <2>1
  <2>3. Placed(r.it) /\ r.seen \in SUBSET Elems
    BY <1>1, <1>2, <1>10, InitialisedPlaced DEF Compare
  <2>4. Placed(t.it) /\ t.seen \subseteq Elems
    BY <1>1, <1>2, <1>10, <2>3, InitialisedPlaced DEF Compare
  <2> QED
    BY <1>2, <1>10, <2>2, <2>3, <2>4, CoreFrom DEF Compare
<1> QED
  BY <1>3, <1>4, <1>5, <1>6, <1>7, <1>8, <1>9, <1>10 DEF Next

LEMMA CoreHolds == Spec => []Core
<1>1. Core /\ UNCHANGED vars => Core'
  BY CoreFrom DEF vars, fixed, Core, TypeOK
<1> QED
  BY <1>1, CoreInit, CoreNext, PTL DEF Spec

(* Whatever the client does, sharing unique_everseen's predicate included,  *)
(* no iterator leaves the input and only elements of it are remembered.     *)
THEOREM TypeCorrect == Spec => []TypeOK
  BY CoreHolds, PTL DEF Core

(* However iterators are copied, compared, dereferenced and incremented,    *)
(* each reads an element once and asks the predicate at most once about it. *)
THEOREM ElementsReadOnce == Spec => []ReadsOnce
<1>1. Core => ReadsOnce
  BY DEF Core, Placed, ReadsOnce
<1> QED
  BY <1>1, CoreHolds, PTL

----------------------------------------------------------------------------
(* Where the members find the next element *)

(* p is the first place from b on that the tool yields, or the end *)
NextYielded(b, p) ==
    /\ p \in b .. End
    /\ \A x \in b .. p - 1 : ~Yielded(x)
    /\ p # End => Yielded(p)

(* what is known when the element at p is going to be tested *)
Reached(p, s) ==
    /\ SeenUpTo(p - 1, s)
    /\ tool \in {"dropwhile", "takewhile"} => \A x \in 1 .. p - 1 : input[x] \in pass

LEMMA SkipLoopStops ==
    ASSUME NEW it, NEW s, NEW r \in SkipLoop(it, s)
    PROVE  /\ r.it.sub \in it.sub .. End
           /\ \A x \in it.sub .. r.it.sub - 1 : Skipped(input[x], s)
           /\ r.it.sub # End =>
                  ~Skipped(input[r.it.sub], s) /\ r.seen = s \cup {input[r.it.sub]}
BY DEF SkipLoop

LEMMA SettledFinds ==
    ASSUME input \in Seq(Elems), tool \in AllTools, NEW it, JustRead(it), NEW s,
           Reached(it.sub, s), NEW r \in Settled(it, s)
    PROVE  /\ NextYielded(it.sub, r.it.sub)
           /\ r.it.sub # End => SeenUpTo(r.it.sub, r.seen)
<1> DEFINE b == it.sub
           p == r.it.sub
<1>1. Len(input) \in Nat /\ End = Len(input) + 1 /\ b \in 1 .. Len(input)
  BY DEF End, JustRead, IterRec
<1>2. CASE tool = "takewhile"
  <2>1. r.it = [it EXCEPT !.tests = @ + 1,
                          !.sub = IF Holds(input[it.item], s) THEN @ ELSE End]
    BY <1>2 DEF Settled, CheckCurrent, JustRead
  <2>2. p = IF input[b] \in pass THEN b ELSE End
    BY <1>2, <2>1 DEF Holds, JustRead, IterRec
  <2>3. \A x \in b .. End : Yielded(x) => input[b] \in pass
    BY <1>1, <1>2 DEF Yielded
  <2>4. input[b] \in pass => Yielded(b)
    BY <1>1, <1>2 DEF Yielded, Reached
  <2> HIDE DEF b, p
  <2>5. NextYielded(b, p)
    BY <1>1, <2>2, <2>3, <2>4 DEF NextYielded
  <2> QED
    BY <1>2, <2>5 DEF SeenUpTo, b, p
<1>3. CASE tool # "takewhile"
  <2>1. r \in SkipLoop(it, s)
    BY <1>3 DEF Settled, JustRead
  <2>2. /\ p \in b .. End
        /\ \A x \in b .. p - 1 : Skipped(input[x], s)
        /\ p # End => ~Skipped(input[p], s) /\ r.seen = s \cup {input[p]}
    BY <2>1, SkipLoopStops
  <2> HIDE DEF b, p
  <2>3. CASE tool = "filter" \/ tool = "filterfalse"
    BY <2>2, <2>3 DEF NextYielded, SeenUpTo, Skipped, Holds, Flipped, Yielded, b, p
  <2>4. CASE tool = "dropwhile"
    <3>1. \A x \in 1 .. p - 1 : input[x] \in pass
      <4>1. \A x \in b .. p - 1 : input[x] \in pass
        BY <2>2, <2>4 DEF Skipped, Holds
      <4>2. \A x \in 1 .. b - 1 : input[x] \in pass
        BY <2>4 DEF Reached, b
      <4> QED
        BY <1>1, <2>2, <4>1, <4>2
    <3>2. p # End => input[p] \notin pass /\ p \in 1 .. p
      BY <1>1, <2>2, <2>4 DEF Skipped, Holds
    <3>3. \A x \in b .. p - 1 : ~Yielded(x)
      BY <1>1, <2>2, <2>4, <3>1 DEF Yielded
    <3>4. p # End => Yielded(p)
      BY <2>4, <3>2 DEF Yielded
    <3> QED
      BY <2>2, <2>4, <3>3, <3>4 DEF NextYielded, SeenUpTo, b, p
  <2>5. CASE tool = "unique_everseen"
    <3>1. s = {input[x] : x \in 1 .. b - 1}
      BY <2>5 DEF Reached, SeenUpTo, b
    <3>2. \A x \in b .. p - 1 : \E y \in 1 .. b - 1 : input[x] = input[y]
      BY <2>2, <2>5, <3>1 DEF Skipped, Holds, NewlySeen
    <3>3. \A x \in b .. p - 1 : ~Yielded(x)
      <4> TAKE x \in b .. p - 1
      <4>1. PICK y \in 1 .. b - 1 : input[x] = input[y]
        BY <3>2
      <4>2. y \in 1 .. x - 1
        BY <1>1, <2>2, <4>1
      <4> QED
        BY <2>5, <4>1, <4>2 DEF Yielded
    <3>4. ASSUME p # End PROVE Yielded(p) /\ SeenUpTo(p, r.seen)
      <4>1. input[p] \notin s
        BY <2>2, <2>5, <3>4 DEF Skipped, Holds, NewlySeen
      <4>2. \A x \in 1 .. p - 1 : input[x] \in s
        <5> TAKE x \in 1 .. p - 1
        <5>1. x \in 1 .. b - 1 \/ x \in b .. p - 1
          BY <1>1, <2>2
        <5> QED
          BY <3>1, <3>2, <5>1
      <4>3. Yielded(p)
        BY <2>5, <4>1, <4>2 DEF Yielded
      <4>4. 1 .. p = (1 .. p - 1) \cup {p} /\ \A x \in 1 .. b - 1 : x \in 1 .. p - 1
        BY <1>1, <2>2
      <4>5. s \cup {input[p]} \subseteq {input[x] : x \in 1 .. p}
        BY <3>1, <4>4
      <4>6. {input[x] : x \in 1 .. p} \subseteq s \cup {input[p]}
        BY <4>2, <4>4
      <4>7. r.seen = {input[x] : x \in 1 .. p}
        BY <2>2, <3>4, <4>5, <4>6
      <4> QED
        BY <4>3, <4>7 DEF SeenUpTo
    <3> QED
      BY <2>2, <3>3, <3>4 DEF NextYielded, b, p
  <2> QED
    BY <1>3, <2>3, <2>4, <2>5 DEF AllTools
<1> QED
  BY <1>2, <1>3

(* where an iterator is found when it is looked at *)
FoundAt(it, p) ==
    IF it.item = 0 /\ it.sub # End THEN NextYielded(1, p) ELSE p = it.sub

LEMMA InitialisedFinds ==
    ASSUME input \in Seq(Elems), tool \in AllTools, NEW it, Placed(it),
           NEW s \in SUBSET Elems, StandsAt(it, s), NEW r \in Initialised(it, s)
    PROVE  FoundAt(it, r.it.sub) /\ StandsAt(r.it, r.seen)
<1>1. CASE it.item = 0 /\ it.sub # End
  <2>1. /\ JustRead(Read(it)) /\ Read(it).sub = 1 /\ r \in Settled(Read(it), s)
    BY <1>1, ReadNext DEF Initialised
  <2>2. Reached(1, s)
    <3>1. SeenUpTo(1 - 1, s)
      BY <1>1 DEF StandsAt, SeenUpTo
    <3> QED
      BY <3>1 DEF Reached
  <2>3. NextYielded(1, r.it.sub) /\ (r.it.sub # End => SeenUpTo(r.it.sub, r.seen))
    BY <2>1, <2>2, SettledFinds
  <2>4. r.it.sub # End => r.it.item = r.it.sub
    BY <2>1, SettledPlaced DEF InUse, Placed
  <2> QED
    BY <1>1, <2>3, <2>4 DEF FoundAt, StandsAt, NextYielded
<1>2. CASE ~(it.item = 0 /\ it.sub # End)
  BY <1>2 DEF Initialised, FoundAt
<1> QED
  BY <1>1, <1>2

LEMMA AdvancedFinds ==
    ASSUME input \in Seq(Elems), tool \in AllTools, NEW it, Placed(it),
           it.item # 0, it.sub # End,
           NEW s \in SUBSET Elems, StandsAt(it, s), NEW a \in Advanced(it, s)
    PROVE  NextYielded(it.sub + 1, a.it.sub) /\ StandsAt(a.it, a.seen)
<1>1. Len(input) \in Nat /\ End = Len(input) + 1 /\ it.sub \in 1 .. Len(input)
  BY DEF End, Placed, IterRec
<1>2. it.item = it.sub /\ Yielded(it.sub) /\ SeenUpTo(it.sub, s)
  BY DEF Placed, StandsAt
<1>3. CASE it.sub + 1 = End
  <2>1. a.it = Stepped(it) /\ Stepped(it).sub = End
    BY <1>3, ReadNext DEF Advanced, Settled
  <2> QED
    BY <1>1, <1>3, <2>1 DEF NextYielded, StandsAt
<1>4. CASE it.sub + 1 # End
  <2>1. JustRead(Stepped(it)) /\ Stepped(it).sub = it.sub + 1
    BY <1>4, ReadNext
  <2>2. CASE tool = "dropwhile"
    <3>1. a.it = Stepped(it)
      BY <2>2 DEF Advanced
    <3>2. Yielded(it.sub + 1)
      BY <1>1, <1>2, <2>2 DEF Yielded
    <3> QED
      BY <1>1, <1>4, <2>1, <2>2, <3>1, <3>2 DEF NextYielded, StandsAt, SeenUpTo
  <2>3. CASE tool # "dropwhile"
    <3>1. a \in Settled(Stepped(it), s)
      BY <2>3 DEF Advanced
    <3>2. Reached(it.sub + 1, s)
      <4> DEFINE p == it.sub + 1
      <4>1. p - 1 = it.sub
        BY <1>1
      <4> HIDE DEF p
      <4>2. tool = "takewhile" => \A x \in 1 .. p - 1 : input[x] \in pass
        BY <1>2, <4>1 DEF Yielded
      <4>3. Reached(p, s)
        BY <1>2, <2>3, <4>1, <4>2 DEF Reached
      <4> QED
        BY <4>3 DEF p
    <3>3. /\ NextYielded(it.sub + 1, a.it.sub)
          /\ a.it.sub # End => SeenUpTo(a.it.sub, a.seen)
      BY <2>1, <3>1, <3>2, SettledFinds
    <3>4. a.it.sub # End => a.it.item = a.it.sub
      BY <2>1, <3>1, SettledPlaced DEF InUse, Placed
    <3> QED
      BY <3>3, <3>4 DEF StandsAt, NextYielded
  <2> QED
    BY <2>2, <2>3
<1> QED
  BY <1>3, <1>4

----------------------------------------------------------------------------
(* Clients that keep to unique_everseen's rule *)

LEMMA InsideInit == Init => Inside
BY DEF Init, Inside, OnlyOneInside

LEMMA YieldedSame ==
    ASSUME UNCHANGED fixed
    PROVE  /\ End' = End /\ Positions' = Positions
           /\ \A p : Yielded(p)' = Yielded(p)
           /\ \A p, s : SeenUpTo(p, s)' = SeenUpTo(p, s)
           /\ \A it, s : StandsAt(it, s)' = StandsAt(it, s)
           /\ \A b, p : NextYielded(b, p)' = NextYielded(b, p)
           /\ \A it, p : FoundAt(it, p)' = FoundAt(it, p)
<1>1. tool' = tool /\ input' = input /\ pass' = pass
  BY DEF fixed
<1>2. End' = End /\ Positions' = Positions
  BY <1>1 DEF End, Positions
<1>3. \A p : Yielded(p)' = Yielded(p)
  BY <1>1 DEF Yielded
<1>4. \A p, s : SeenUpTo(p, s)' = SeenUpTo(p, s)
  BY <1>1 DEF SeenUpTo
<1>5. \A it, s : StandsAt(it, s)' = StandsAt(it, s)
  BY <1>2, <1>3, <1>4 DEF StandsAt
<1>6. \A b, p : NextYielded(b, p)' = NextYielded(b, p)
  BY <1>2, <1>3 DEF NextYielded
<1>7. \A it, p : FoundAt(it, p)' = FoundAt(it, p)
  BY <1>2, <1>6 DEF FoundAt
<1> QED
  BY <1>2, <1>3, <1>4, <1>5, <1>6, <1>7

LEMMA InsideFrom ==
    ASSUME UNCHANGED fixed, \A k \in DOMAIN iter' : StandsAt(iter'[k], seen'),
           tool = "unique_everseen" =>
               \A i, j \in DOMAIN iter' : iter'[i].sub # End /\ iter'[j].sub # End => i = j
    PROVE  Inside'
<1>1. tool' = tool /\ End' = End
  BY YieldedSame DEF fixed
<1>2. (\A k \in DOMAIN iter : StandsAt(iter[k], seen))'
  BY YieldedSame
<1> QED
  BY <1>1, <1>2 DEF Inside, OnlyOneInside

(* the others do not depend on what unique_everseen's iterator has seen *)
LEMMA OneMoves ==
    ASSUME Inside, UNCHANGED fixed, NEW i \in DOMAIN iter, iter[i].sub # End,
           NEW it, iter' = [iter EXCEPT ![i] = it], StandsAt(it, seen')
    PROVE  Inside'
<1>1. \A k \in DOMAIN iter : k # i => StandsAt(iter[k], seen')
  BY DEF Inside, OnlyOneInside, StandsAt, SeenUpTo
<1>2. DOMAIN iter' = DOMAIN iter /\ iter'[i] = it /\ \A k \in DOMAIN iter : k # i => iter'[k] = iter[k]
  OBVIOUS
<1>3. tool = "unique_everseen" => \A k \in DOMAIN iter : k # i => iter[k].sub = End
  BY DEF Inside, OnlyOneInside
<1> QED
  BY <1>1, <1>2, <1>3, InsideFrom

LEMMA AtEndStays ==
    ASSUME NEW it, it.sub = End, NEW s, NEW r \in Initialised(it, s)
    PROVE  r.it = it /\ r.seen = s
BY DEF Initialised

(* The facts of a step that starts with init_if_first_use, as Deref, ++ and  *)
(* the comparisons do                                                       *)
LEMMA LookedAt ==
    ASSUME Core, Inside, NEW i \in DOMAIN iter, NEW r \in Initialised(iter[i], seen)
    PROVE  /\ Placed(r.it) /\ r.seen \in SUBSET Elems
           /\ FoundAt(iter[i], r.it.sub) /\ StandsAt(r.it, r.seen)
           /\ r.it.sub # End => iter[i].sub # End /\ r.it.item = r.it.sub /\ r.it.item # 0
<1>1. /\ input \in Seq(Elems) /\ tool \in AllTools /\ seen \in SUBSET Elems
      /\ Placed(iter[i]) /\ StandsAt(iter[i], seen)
  BY DEF Core, TypeOK, Inside
<1>2. Placed(r.it) /\ r.seen \in SUBSET Elems /\ (r.it.sub # End => r.it.item # 0)
  BY <1>1, InitialisedPlaced DEF InUse
<1> QED
  BY <1>1, <1>2, InitialisedFinds, AtEndStays DEF Placed

(* and of what ++ does after that *)
LEMMA MovedOn ==
    ASSUME Core, NEW it, Placed(it), it.item # 0, it.sub # End,
           NEW s \in SUBSET Elems, StandsAt(it, s), NEW a \in Advanced(it, s)
    PROVE  /\ Placed(a.it) /\ a.it.item # 0 /\ a.seen \in SUBSET Elems
           /\ NextYielded(it.sub + 1, a.it.sub) /\ StandsAt(a.it, a.seen)
<1>1. input \in Seq(Elems) /\ tool \in AllTools
  BY DEF Core, TypeOK
<1> QED
  BY <1>1, AdvancedPlaced, AdvancedFinds DEF InUse

LEMMA InsideNext ==
    ASSUME Habits = {}, Core, Inside, Next PROVE Inside'
<1>1. MayShare <=> tool # "unique_everseen"
  BY DEF MayShare
<1>2. \A k \in DOMAIN iter : StandsAt(iter[k], seen)
  BY DEF Inside
<1>3. ASSUME NEW i \in Its, NEW p \in {1, End}, Construct(i, p) PROVE Inside'
  <2> DEFINE new == [sub |-> p, item |-> 0, reads |-> 0, tests |-> 0]
  <2>1. StandsAt(new, seen)
    BY <1>1, <1>3 DEF Construct, StandsAt, SeenUpTo
  <2>2. /\ iter' = Put(iter, i, new) /\ UNCHANGED <<fixed, seen>> /\ i \notin DOMAIN iter
        /\ p = End \/ tool # "unique_everseen" \/ \A j \in DOMAIN iter : iter[j].sub = End
    BY <1>1, <1>3 DEF Construct
  <2>3. new.sub = p
    OBVIOUS
  <2> HIDE DEF new
  <2>4. /\ DOMAIN iter' = DOMAIN iter \cup {i} /\ iter'[i] = new
        /\ \A k \in DOMAIN iter : iter'[k] = iter[k]
    BY <2>2 DEF Put
  <2> QED
    BY <1>2, <2>1, <2>2, <2>3, <2>4, InsideFrom DEF Inside, OnlyOneInside
<1>4. ASSUME NEW i \in Its, NEW j \in Its, Copy(i, j) \/ Assign(i, j) PROVE Inside'
  <2>1. tool # "unique_everseen" /\ UNCHANGED <<fixed, seen>>
    BY <1>1, <1>4 DEF Copy, Assign
  <2>2. \A k \in DOMAIN iter' : \E n \in DOMAIN iter : iter'[k] = iter[n]
    BY <1>4 DEF Copy, Assign, Put
  <2> QED
    BY <1>2, <2>1, <2>2, InsideFrom
<1>5. ASSUME NEW i \in Its, Destroy(i) PROVE Inside'
  <2>1. /\ UNCHANGED <<fixed, seen>> /\ DOMAIN iter' \subseteq DOMAIN iter
        /\ \A k \in DOMAIN iter' : iter'[k] = iter[k]
    BY <1>5 DEF Destroy, Drop
  <2> QED
    BY <1>2, <2>1, InsideFrom DEF Inside, OnlyOneInside
<1>6. ASSUME NEW i \in Its, Deref(i) PROVE Inside'
  <2>1. PICK r \in Initialised(iter[i], seen) :
           r.it.sub # End /\ iter' = [iter EXCEPT ![i] = r.it] /\ seen' = r.seen
    BY <1>6 DEF Deref
  <2>2. i \in DOMAIN iter /\ UNCHANGED fixed
    BY <1>6 DEF Deref
  <2>3. StandsAt(r.it, r.seen) /\ iter[i].sub # End
    BY <2>1, <2>2, LookedAt
  <2> QED
    BY <2>1, <2>2, <2>3, OneMoves
<1>7. ASSUME NEW i \in Its, PreIncrement(i) PROVE Inside'
  <2>1. PICK r \in Initialised(iter[i], seen) :
           /\ r.it.sub # End
           /\ \E a \in Advanced(r.it, r.seen) :
                  iter' = [iter EXCEPT ![i] = a.it] /\ seen' = a.seen
    BY <1>7 DEF PreIncrement
  <2>2. i \in DOMAIN iter /\ UNCHANGED fixed
    BY <1>7 DEF PreIncrement
  <2>3. PICK a \in Advanced(r.it, r.seen) : iter' = [iter EXCEPT ![i] = a.it] /\ seen' = a.seen
    BY <2>1
  <2>4. /\ Placed(r.it) /\ r.it.item # 0 /\ r.seen \in SUBSET Elems
        /\ StandsAt(r.it, r.seen) /\ iter[i].sub # End
    BY <2>1, <2>2, LookedAt
  <2>5. StandsAt(a.it, a.seen)
    BY <2>1, <2>3, <2>4, MovedOn
  <2> QED
    BY <2>2, <2>3, <2>4, <2>5, OneMoves
<1>8. ASSUME NEW i \in Its, DerefPostIncrement(i) PROVE Inside'
  <2>1. PICK r \in Initialised(iter[i], seen) :
           /\ r.it.sub # End
           /\ \E a \in Advanced(r.it, r.seen) :
                  /\ iter' = [iter EXCEPT ![i] = a.it]
                  /\ \E ret \in Initialised(iter[i], a.seen) : seen' = ret.seen
    BY <1>8 DEF DerefPostIncrement
  <2>2. i \in DOMAIN iter /\ UNCHANGED fixed /\ (iter[i].item # 0 \/ tool # "unique_everseen")
    BY <1>1, <1>8 DEF DerefPostIncrement, NotBeforeFirstUse
  <2>3. PICK a \in Advanced(r.it, r.seen) :
           /\ iter' = [iter EXCEPT ![i] = a.it]
           /\ \E ret \in Initialised(iter[i], a.seen) : seen' = ret.seen
    BY <2>1
  <2>4. /\ Placed(r.it) /\ r.it.item # 0 /\ r.seen \in SUBSET Elems
        /\ StandsAt(r.it, r.seen) /\ iter[i].sub # End
    BY <2>1, <2>2, LookedAt
  <2>5. StandsAt(a.it, a.seen)
    BY <2>1, <2>3, <2>4, MovedOn
  <2>6. iter[i].item # 0 => seen' = a.seen
    BY <2>3 DEF Initialised
  <2>7. StandsAt(a.it, seen')
    BY <2>2, <2>5, <2>6 DEF StandsAt, SeenUpTo
  <2> QED
    BY <2>2, <2>3, <2>4, <2>7, OneMoves
<1>9. ASSUME NEW i \in Its, NEW j \in Its, Compare(i, j) PROVE Inside'
  <2>1. PICK r \in Initialised(iter[i], seen) :
           \E t \in Initialised(iter[j], r.seen) :
               iter' = [iter EXCEPT ![i] = r.it, ![j] = t.it] /\ seen' = t.seen
    BY <1>9 DEF Compare
  <2>2. PICK t \in Initialised(iter[j], r.seen) :
           iter' = [iter EXCEPT ![i] = r.it, ![j] = t.it] /\ seen' = t.seen
    BY <2>1
  <2>3. i \in DOMAIN iter /\ j \in DOMAIN iter /\ i # j /\ UNCHANGED fixed
    BY <1>9 DEF Compare
  <2>4. /\ DOMAIN iter' = DOMAIN iter /\ iter'[i] = r.it /\ iter'[j] = t.it
        /\ \A k \in DOMAIN iter : k \notin {i, j} => iter'[k] = iter[k]
    BY <2>2, <2>3
  <2>5. StandsAt(r.it, r.seen) /\ r.seen \in SUBSET Elems
    BY <2>3, LookedAt
  <2>6. CASE tool # "unique_everseen"
    <3>1. Placed(iter[j]) /\ StandsAt(iter[j], r.seen) /\ input \in Seq(Elems) /\ tool \in AllTools
      BY <1>2, <2>3, <2>6 DEF Core, TypeOK, StandsAt, SeenUpTo
    <3>2. StandsAt(t.it, t.seen)
      BY <2>5, <3>1, InitialisedFinds
    <3>3. \A k \in DOMAIN iter' : StandsAt(iter'[k], seen')
      BY <1>2, <2>4, <2>5, <2>6, <3>2 DEF StandsAt, SeenUpTo
    <3> QED
      BY <2>3, <2>6, <3>3, InsideFrom
  <2>7. CASE iter[j].sub = End
    <3>1. t.it = iter[j] /\ t.seen = r.seen
      BY <2>7, AtEndStays
    <3>2. iter' = [iter EXCEPT ![i] = r.it] /\ seen' = r.seen
      BY <2>2, <2>3, <3>1
    <3>3. CASE iter[i].sub = End
      <4>1. r.it = iter[i] /\ r.seen = seen
        BY <3>3, AtEndStays
      <4>2. DOMAIN iter' = DOMAIN iter /\ seen' = seen /\ \A k \in DOMAIN iter : iter'[k] = iter[k]
        BY <2>3, <3>2, <4>1
      <4> QED
        BY <1>2, <2>3, <4>2, InsideFrom DEF Inside, OnlyOneInside
    <3>4. CASE iter[i].sub # End
      BY <2>3, <2>5, <3>2, <3>4, OneMoves
    <3> QED
      BY <3>3, <3>4
  <2>8. CASE tool = "unique_everseen" /\ iter[j].sub # End
    <3>1. iter[i].sub = End
      BY <2>3, <2>8 DEF Inside, OnlyOneInside
    <3>2. r.it = iter[i] /\ r.seen = seen
      BY <3>1, AtEndStays
    <3>3. iter' = [iter EXCEPT ![j] = t.it] /\ seen' = t.seen /\ t \in Initialised(iter[j], seen)
      BY <2>2, <2>3, <3>2
    <3>4. StandsAt(t.it, t.seen)
      BY <2>3, <3>3, LookedAt
    <3> QED
      BY <2>3, <2>8, <3>3, <3>4, OneMoves
  <2> QED
    BY <2>6, <2>7, <2>8
<1> QED
  BY <1>3, <1>4, <1>5, <1>6, <1>7, <1>8, <1>9 DEF Next

LEMMA InsideHolds == ASSUME Habits = {} PROVE Spec => [](Core /\ Inside)
<1>1. Core /\ Inside /\ UNCHANGED vars => Inside'
  BY InsideFrom DEF vars, Inside, OnlyOneInside, fixed
<1> QED
  BY <1>1, CoreHolds, InsideInit, InsideNext, PTL DEF Spec

(* An iterator that has been looked at stands on an element its tool yields, *)
(* the one it holds in item_, or at the end.                                *)
THEOREM OnYielded == ASSUME Habits = {} PROVE Spec => []StandsOnYielded
<1>1. Core /\ Inside => StandsOnYielded
  BY DEF Core, Placed, Inside, StandsAt, StandsOnYielded
<1> QED
  BY <1>1, InsideHolds, PTL

----------------------------------------------------------------------------
(* The place of an iterator *)

LEMMA FoundUnique ==
    ASSUME input \in Seq(Elems), NEW it, NEW p, NEW q, FoundAt(it, p), FoundAt(it, q)
    PROVE  p = q
<1>1. Len(input) \in Nat /\ End = Len(input) + 1
  BY DEF End
<1>2. ASSUME NextYielded(1, p), NextYielded(1, q), p < q PROVE FALSE
  BY <1>1, <1>2 DEF NextYielded
<1>3. ASSUME NextYielded(1, p), NextYielded(1, q), q < p PROVE FALSE
  BY <1>1, <1>3 DEF NextYielded
<1>4. NextYielded(1, p) /\ NextYielded(1, q) => p \in Nat /\ q \in Nat
  BY <1>1 DEF NextYielded
<1> QED
  BY <1>2, <1>3, <1>4 DEF FoundAt

(* a set of natural numbers has a least one *)
LEMMA Least ==
    ASSUME NEW R \in SUBSET Nat, R # {}
    PROVE  \E v \in R : \A u \in R : v <= u
<1> DEFINE Before == {ss \in Nat \X Nat : ss[1] < ss[2]}
<1>1. IsWellFoundedOn(Before, Nat)
  BY NatLessThanWellFounded DEF OpToRel
<1>2. \A u, v \in Nat : u < v => <<u, v>> \in Before
  OBVIOUS
<1> HIDE DEF Before
<1>3. PICK v \in R : \A u \in R : ~(<<u, v>> \in Before)
  BY <1>1, WFMin
<1>4. \A u \in R : v <= u
  <2> TAKE u \in R
  <2>1. u \in Nat /\ v \in Nat /\ ~(u < v)
    BY <1>2, <1>3
  <2> QED
    BY <2>1
<1> QED
  BY <1>4

(* the loops of skip_failures and skip_passes end *)
LEMMA SkipLoopEnds ==
    ASSUME input \in Seq(Elems), NEW it, JustRead(it), NEW s
    PROVE  SkipLoop(it, s) # {}
<1>1. Len(input) \in Nat /\ End = Len(input) + 1 /\ it.sub \in 1 .. Len(input)
  BY DEF End, JustRead, IterRec
<1> DEFINE R == {q \in it.sub .. End : q # End => ~Skipped(input[q], s)}
<1>2. R \in SUBSET Nat /\ End \in R
  BY <1>1
<1>3. PICK q \in R : \A u \in R : q <= u
  BY <1>2, Least
<1>4. /\ q \in it.sub .. End /\ (q # End => ~Skipped(input[q], s))
      /\ \A x \in it.sub .. q - 1 : Skipped(input[x], s)
  BY <1>1, <1>3
<1> DEFINE stops == {x \in it.sub .. End :
                        /\ \A y \in it.sub .. x - 1 : Skipped(input[y], s)
                        /\ x # End => ~Skipped(input[x], s)}
           last(x) == IF x = End THEN Len(input) ELSE x
           result(x) == [it |-> [sub |-> x,
                                 item |-> IF last(x) > it.sub THEN last(x) ELSE it.item,
                                 reads |-> it.reads + (last(x) - it.sub),
                                 tests |-> it.tests + (last(x) - it.sub) + 1],
                         seen |-> IF x # End THEN s \cup {input[x]} ELSE s]
<1>5. q \in stops
  BY <1>4
<1>6. SkipLoop(it, s) = {result(x) : x \in stops}
  BY DEF SkipLoop
<1> HIDE DEF stops, result
<1> QED
  BY <1>5, <1>6

FoundOK == \A i \in DOMAIN iter : FoundAt(iter[i], Found(i))

LEMMA FoundIs == Core /\ Inside => FoundOK
<1> SUFFICES ASSUME Core, Inside, NEW i \in DOMAIN iter
             PROVE  FoundAt(iter[i], Found(i))
  BY DEF FoundOK
<1>1. input \in Seq(Elems) /\ Placed(iter[i])
  BY DEF Core, TypeOK
<1>2. Initialised(iter[i], seen) # {}
  <2>1. CASE iter[i].item = 0 /\ iter[i].sub # End
    <3>1. JustRead(Read(iter[i]))
      BY <1>1, <2>1, ReadNext
    <3>2. Settled(Read(iter[i]), seen) # {}
      BY <1>1, <3>1, SkipLoopEnds DEF Settled, CheckCurrent, JustRead
    <3> QED
      BY <2>1, <3>2 DEF Initialised
  <2>2. CASE ~(iter[i].item = 0 /\ iter[i].sub # End)
    BY <2>2 DEF Initialised
  <2> QED
    BY <2>1, <2>2
<1>3. Found(i) \in Standing(i)
  BY <1>2 DEF Found, Standing
<1>4. PICK r \in Initialised(iter[i], seen) : Found(i) = r.it.sub
  BY <1>3 DEF Standing
<1> QED
  BY <1>4, LookedAt

(* and how many elements come before it *)
LEMMA RankType ==
    ASSUME input \in Seq(Elems), NEW p, NEW q,
           \A x \in Positions : x < p /\ Yielded(x) => x < q
    PROVE  /\ IsFiniteSet({x \in Positions : x < p /\ Yielded(x)})
           /\ Rank(p) \in Nat \ {0} /\ Rank(q) \in Nat \ {0}
           /\ Rank(p) <= Rank(q)
<1> DEFINE S(y) == {x \in Positions : x < y /\ Yielded(x)}
<1>1. IsFiniteSet(Positions)
  BY FS_Interval DEF Positions
<1>2. S(p) \subseteq S(q) /\ S(q) \subseteq Positions
  OBVIOUS
<1>3. IsFiniteSet(S(q))
  BY <1>1, <1>2, FS_Subset
<1>4. IsFiniteSet(S(p)) /\ Cardinality(S(p)) <= Cardinality(S(q))
  BY <1>2, <1>3, FS_Subset
<1>5. Cardinality(S(p)) \in Nat /\ Cardinality(S(q)) \in Nat
  BY <1>3, <1>4, FS_CardinalityType
<1>6. Rank(p) = Cardinality(S(p)) + 1 /\ Rank(q) = Cardinality(S(q)) + 1
  BY DEF Rank
<1> HIDE DEF S
<1>7. /\ Rank(p) \in Nat \ {0} /\ Rank(q) \in Nat \ {0}
      /\ Rank(p) <= Rank(q)
  BY <1>4, <1>5, <1>6
<1> QED
  BY <1>4, <1>7 DEF S

LEMMA RankOfFirst == ASSUME input \in Seq(Elems) PROVE Rank(1) = 1
<1>1. {x \in Positions : x < 1 /\ Yielded(x)} = {}
  BY DEF Positions
<1> QED
  BY <1>1, FS_EmptySet DEF Rank

LEMMA RankOfNext ==
    ASSUME input \in Seq(Elems), NEW b \in 1 .. End, NEW p, NextYielded(b, p)
    PROVE  Rank(p) = Rank(b)
<1>1. Len(input) \in Nat /\ End = Len(input) + 1
  BY DEF End
<1>2. p \in b .. End /\ \A x \in b .. p - 1 : ~Yielded(x)
  BY DEF NextYielded
<1>3. {x \in Positions : x < p /\ Yielded(x)} = {x \in Positions : x < b /\ Yielded(x)}
  <2>1. \A x \in Positions : Yielded(x) => (x < p <=> x < b)
    BY <1>1, <1>2 DEF Positions
  <2> QED
    BY <2>1
<1> QED
  BY <1>3 DEF Rank

LEMMA RankAfter ==
    ASSUME input \in Seq(Elems), NEW p \in Positions, Yielded(p)
    PROVE  Rank(p + 1) = Rank(p) + 1
<1> DEFINE S == {x \in Positions : x < p /\ Yielded(x)}
<1>1. {x \in Positions : x < p + 1 /\ Yielded(x)} = S \cup {p}
  BY DEF Positions
<1>2. IsFiniteSet(S) /\ p \notin S
  <2>1. \A x \in Positions : x < p /\ Yielded(x) => x < p
    OBVIOUS
  <2>2. IsFiniteSet(S)
    BY <2>1, RankType, Zenon
  <2>3. p \notin S
    BY DEF Positions
  <2> QED
    BY <2>2, <2>3
<1>3. Cardinality(S \cup {p}) = Cardinality(S) + 1
  BY <1>2, FS_AddElement
<1> QED
  BY <1>1, <1>3 DEF Rank

LEMMA RankGrows ==
    ASSUME input \in Seq(Elems), NEW p \in Positions, Yielded(p), NEW q \in 1 .. End, p < q
    PROVE  Rank(p) < Rank(q) /\ Rank(p) \in Nat \ {0} /\ Rank(q) \in Nat \ {0}
<1>1. Len(input) \in Nat /\ End = Len(input) + 1
  BY DEF End
<1>2. \A x \in Positions : x < p + 1 /\ Yielded(x) => x < q
  BY <1>1 DEF Positions
<1>3. Rank(p + 1) <= Rank(q) /\ Rank(p + 1) \in Nat /\ Rank(q) \in Nat \ {0}
  BY <1>2, RankType
<1>4. Rank(p) \in Nat \ {0}
  BY RankType
<1> QED
  BY <1>3, <1>4, RankAfter

----------------------------------------------------------------------------
(* The refinement *)

Yields == [k \in 1 .. Rank(End) - 1 |->
              CHOOSE p \in Positions : Yielded(p) /\ Rank(p) = k]
At == [i \in DOMAIN iter |-> Rank(Found(i))]

LEMMA YieldsWhatIsYielded ==
    ASSUME input \in Seq(Elems)
    PROVE  /\ Len(Yields) + 1 = Rank(End)
           /\ \A p \in Positions : Yielded(p) =>
                  Rank(p) \in DOMAIN Yields /\ Yields[Rank(p)] = p
<1>1. Len(input) \in Nat /\ End = Len(input) + 1 /\ End \in 1 .. End
  BY DEF End
<1>2. Rank(End) \in Nat \ {0}
  <2>1. \A x \in Positions : x < End /\ Yielded(x) => x < End
    OBVIOUS
  <2> QED
    BY <2>1, RankType
<1>3. Len(Yields) = Rank(End) - 1
  BY <1>2 DEF Yields
<1>4. ASSUME NEW p \in Positions, Yielded(p)
      PROVE  Rank(p) \in DOMAIN Yields /\ Yields[Rank(p)] = p
  <2>1. p \in 1 .. End /\ p < End /\ p \in Int
    BY <1>1 DEF Positions
  <2>2. Rank(p) \in 1 .. Rank(End) - 1
    BY <1>1, <1>2, <1>4, <2>1, RankGrows
  <2>3. \A q \in Positions : Yielded(q) /\ Rank(q) = Rank(p) => q = p
    <3> TAKE q \in Positions
    <3> SUFFICES ASSUME Yielded(q), Rank(q) = Rank(p), q # p PROVE FALSE
      OBVIOUS
    <3>1. q \in 1 .. End /\ q \in Int
      BY <1>1 DEF Positions
    <3>2. CASE p < q
      BY <1>4, <3>1, <3>2, RankGrows
    <3>3. CASE q < p
      BY <2>1, <3>3, RankGrows
    <3> QED
      BY <2>1, <3>1, <3>2, <3>3
  <2>4. (CHOOSE q \in Positions : Yielded(q) /\ Rank(q) = Rank(p)) = p
    BY <1>4, <2>3
  <2> QED
    BY <2>2, <2>4 DEF Yields
<1> QED
  BY <1>2, <1>3, <1>4

LEMMA RankSame ==
    ASSUME UNCHANGED fixed
    PROVE  (\A p : Rank(p)' = Rank(p)) /\ Yields' = Yields
<1>1. End' = End /\ Positions' = Positions /\ \A p : Yielded(p)' = Yielded(p)
  BY YieldedSame
<1>2. \A p : Rank(p)' = Rank(p)
  BY <1>1 DEF Rank
<1>3. Yields' = Yields
  BY <1>1, <1>2 DEF Yields
<1> QED
  BY <1>2, <1>3

LEMMA AtNow ==
    ASSUME Core, Inside, NEW k \in DOMAIN iter, NEW p, FoundAt(iter[k], p)
    PROVE  At[k] = Rank(p)
<1>1. FoundAt(iter[k], Found(k)) /\ input \in Seq(Elems)
  BY FoundIs DEF FoundOK, Core, TypeOK
<1>2. Found(k) = p
  BY <1>1, FoundUnique
<1> QED
  BY <1>2 DEF At

LEMMA AtNext ==
    ASSUME Core, UNCHANGED fixed, FoundOK',
           NEW k \in DOMAIN iter', NEW p, FoundAt(iter'[k], p)
    PROVE  At'[k] = Rank(p)
<1>1. FoundAt(iter'[k], Found(k)') /\ input \in Seq(Elems)
  BY YieldedSame DEF FoundOK, Core, TypeOK
<1>2. Found(k)' = p
  BY <1>1, FoundUnique
<1>3. At'[k] = Rank(Found(k))'
  BY DEF At
<1> QED
  BY <1>2, <1>3, RankSame

LEMMA AtKept ==
    ASSUME Core, Inside, UNCHANGED fixed, FoundOK',
           NEW k \in DOMAIN iter', NEW n \in DOMAIN iter, iter'[k] = iter[n]
    PROVE  At'[k] = At[n]
<1>1. FoundAt(iter[n], Found(n))
  BY FoundIs DEF FoundOK
<1> QED
  BY <1>1, AtNow, AtNext

(* looking at an iterator leaves it where it would be found *)
LEMMA LookStays ==
    ASSUME Core, Inside, NEW i \in DOMAIN iter, NEW r \in Initialised(iter[i], seen)
    PROVE  FoundAt(iter[i], r.it.sub) /\ FoundAt(r.it, r.it.sub)
<1>1. FoundAt(iter[i], r.it.sub) /\ (r.it.sub # End => r.it.item # 0)
  BY LookedAt
<1> QED
  BY <1>1 DEF FoundAt

(* an element that is found is one that InputIterator lets be used *)
LEMMA Usable ==
    ASSUME Core, Inside, NEW i \in DOMAIN iter, NEW r \in Initialised(iter[i], seen),
           r.it.sub # End
    PROVE  /\ r.it.sub \in Positions /\ Yielded(r.it.sub) /\ r.it.item = r.it.sub
           /\ At[i] = Rank(r.it.sub) /\ Promise!CanUse(i) /\ Yields[At[i]] = r.it.item
<1>1. input \in Seq(Elems) /\ Len(input) \in Nat /\ End = Len(input) + 1
  BY DEF Core, TypeOK, End
<1>2. /\ Placed(r.it) /\ StandsAt(r.it, r.seen) /\ FoundAt(iter[i], r.it.sub)
      /\ r.it.item = r.it.sub /\ r.it.item # 0
  BY LookedAt
<1>3. r.it.sub \in Positions /\ Yielded(r.it.sub)
  BY <1>1, <1>2 DEF Placed, IterRec, StandsAt, Positions
<1>4. At[i] = Rank(r.it.sub)
  BY <1>2, AtNow
<1>5. Rank(r.it.sub) \in DOMAIN Yields /\ Yields[Rank(r.it.sub)] = r.it.sub
  BY <1>1, <1>3, YieldsWhatIsYielded
<1>6. i \in DOMAIN At
  BY DEF At
<1>7. Promise!CanUse(i) <=> i \in DOMAIN At /\ At[i] \in DOMAIN Yields
  BY DEF Promise!CanUse, At, Yields
<1> QED
  BY <1>2, <1>3, <1>4, <1>5, <1>6, <1>7

LEMMA ConstructBar ==
    ASSUME Core, Inside, FoundOK', NEW i \in Its, NEW p \in {1, End}, Construct(i, p)
    PROVE  \E q \in {1, Promise!Past} : Promise!Construct(i, q)
<1> DEFINE new == [sub |-> p, item |-> 0, reads |-> 0, tests |-> 0]
<1>1. /\ i \notin DOMAIN iter /\ iter' = Put(iter, i, new) /\ UNCHANGED <<fixed, got>>
      /\ input \in Seq(Elems)
  BY DEF Construct, Core, TypeOK
<1>2. new.sub = p /\ new.item = 0
  OBVIOUS
<1> HIDE DEF new
<1>3. /\ DOMAIN iter' = DOMAIN iter \cup {i} /\ iter'[i] = new
      /\ \A k \in DOMAIN iter : iter'[k] = iter[k]
  BY <1>1 DEF Put
<1>4. \A k \in DOMAIN iter : At'[k] = At[k]
  BY <1>1, <1>3, AtKept
<1>5. At'[i] \in {1, Rank(End)}
  <2>1. FoundAt(new, Found(i)')
    BY <1>1, <1>3, YieldedSame DEF FoundOK
  <2>2. At'[i] = Rank(Found(i)')
    BY <1>1, <1>3, <2>1, AtNext
  <2>3. CASE p = End
    BY <1>2, <2>1, <2>2, <2>3 DEF FoundAt
  <2>4. CASE p # End
    <3>1. NextYielded(1, Found(i)') /\ 1 \in 1 .. End
      BY <1>1, <1>2, <2>1, <2>4 DEF FoundAt, End
    <3> QED
      BY <1>1, <2>2, <3>1, RankOfNext, RankOfFirst
  <2> QED
    BY <2>3, <2>4
<1>6. At' = Put(At, i, At'[i])
  BY <1>3, <1>4 DEF At, Put
<1>7. Promise!Past = Rank(End)
  BY <1>1, YieldsWhatIsYielded DEF Promise!Past, Yields
<1>8. Promise!Construct(i, At'[i])
  BY <1>1, <1>6, RankSame DEF Promise!Construct, Put, Promise!Put, At, Yields
<1> QED
  BY <1>5, <1>7, <1>8

LEMMA CopyBar ==
    ASSUME Core, Inside, FoundOK', NEW i \in Its, NEW j \in Its, Copy(i, j)
    PROVE  Promise!Copy(i, j)
<1>1. /\ i \in DOMAIN iter /\ j \notin DOMAIN iter /\ iter' = Put(iter, j, iter[i])
      /\ UNCHANGED <<fixed, got>>
  BY DEF Copy
<1>2. /\ DOMAIN iter' = DOMAIN iter \cup {j} /\ iter'[j] = iter[i]
      /\ \A k \in DOMAIN iter : iter'[k] = iter[k]
  BY <1>1 DEF Put
<1>3. At'[j] = At[i] /\ \A k \in DOMAIN iter : At'[k] = At[k]
  BY <1>1, <1>2, AtKept
<1>4. At' = Put(At, j, At[i])
  BY <1>1, <1>2, <1>3 DEF At, Put
<1> QED
  BY <1>1, <1>4, RankSame DEF Promise!Copy, Put, Promise!Put, At, Yields

LEMMA AssignBar ==
    ASSUME Core, Inside, FoundOK', NEW i \in Its, NEW j \in Its, Assign(i, j)
    PROVE  Promise!Assign(i, j)
<1>1. /\ i \in DOMAIN iter /\ j \in DOMAIN iter /\ iter' = [iter EXCEPT ![i] = iter[j]]
      /\ UNCHANGED <<fixed, got>>
  BY DEF Assign
<1>2. /\ DOMAIN iter' = DOMAIN iter /\ iter'[i] = iter[j]
      /\ \A k \in DOMAIN iter : k # i => iter'[k] = iter[k]
  BY <1>1
<1>3. At'[i] = At[j] /\ \A k \in DOMAIN iter : k # i => At'[k] = At[k]
  BY <1>1, <1>2, AtKept
<1>4. At' = [At EXCEPT ![i] = At[j]]
  BY <1>1, <1>2, <1>3 DEF At
<1> QED
  BY <1>1, <1>4, RankSame DEF Promise!Assign, At, Yields

LEMMA DestroyBar ==
    ASSUME Core, Inside, FoundOK', NEW i \in Its, Destroy(i)
    PROVE  Promise!Destroy(i)
<1>1. i \in DOMAIN iter /\ iter' = Drop(iter, i) /\ UNCHANGED <<fixed, got>>
  BY DEF Destroy
<1>2. DOMAIN iter' = DOMAIN iter \ {i} /\ \A k \in DOMAIN iter' : iter'[k] = iter[k]
  BY <1>1 DEF Drop
<1>3. \A k \in DOMAIN iter' : At'[k] = At[k]
  BY <1>1, <1>2, AtKept
<1>4. At' = Drop(At, i)
  BY <1>2, <1>3 DEF At, Drop
<1> QED
  BY <1>1, <1>4, RankSame DEF Promise!Destroy, Drop, Promise!Drop, At, Yields

LEMMA DerefBar ==
    ASSUME Core, Inside, FoundOK', NEW i \in Its, Deref(i)
    PROVE  Promise!Deref(i)
<1>1. PICK r \in Initialised(iter[i], seen) :
         r.it.sub # End /\ iter' = [iter EXCEPT ![i] = r.it] /\ got' = r.it.item
  BY DEF Deref
<1>2. i \in DOMAIN iter /\ UNCHANGED fixed
  BY DEF Deref
<1>3. Promise!CanUse(i) /\ got' = Yields[At[i]]
  BY <1>1, <1>2, Usable
<1>4. /\ DOMAIN iter' = DOMAIN iter /\ iter'[i] = r.it
      /\ \A k \in DOMAIN iter : k # i => iter'[k] = iter[k]
  BY <1>1, <1>2
<1>5. At'[i] = At[i]
  BY <1>2, <1>4, LookStays, AtNow, AtNext
<1>6. \A k \in DOMAIN iter : At'[k] = At[k]
  BY <1>2, <1>4, <1>5, AtKept
<1>7. At' = At
  BY <1>4, <1>6 DEF At
<1> QED
  BY <1>2, <1>3, <1>7, RankSame DEF Promise!Deref, At, Yields

LEMMA CompareBar ==
    ASSUME Core, Inside, FoundOK', NEW i \in Its, NEW j \in Its, Compare(i, j)
    PROVE  UNCHANGED Promise!vars
<1>1. PICK r \in Initialised(iter[i], seen) :
         \E t \in Initialised(iter[j], r.seen) : iter' = [iter EXCEPT ![i] = r.it, ![j] = t.it]
  BY DEF Compare
<1>2. PICK t \in Initialised(iter[j], r.seen) : iter' = [iter EXCEPT ![i] = r.it, ![j] = t.it]
  BY <1>1
<1>3. i \in DOMAIN iter /\ j \in DOMAIN iter /\ i # j /\ UNCHANGED <<fixed, got>>
  BY DEF Compare
<1>4. /\ DOMAIN iter' = DOMAIN iter /\ iter'[i] = r.it /\ iter'[j] = t.it
      /\ \A k \in DOMAIN iter : k \notin {i, j} => iter'[k] = iter[k]
  BY <1>2, <1>3
<1>5. At'[i] = At[i]
  BY <1>3, <1>4, LookStays, AtNow, AtNext
<1>6. At'[j] = At[j]
  <2>1. FoundAt(iter[j], t.it.sub) /\ FoundAt(t.it, t.it.sub)
    <3>1. CASE iter[j].sub = End \/ iter[j].item # 0
      BY <3>1 DEF Initialised, FoundAt
    <3>2. CASE iter[j].sub # End /\ iter[j].item = 0
      <4>1. /\ input \in Seq(Elems) /\ tool \in AllTools /\ Placed(iter[j])
            /\ StandsAt(iter[j], seen) /\ r.seen \in SUBSET Elems
        BY <1>3, LookedAt DEF Core, TypeOK, Inside
      <4>2. StandsAt(iter[j], r.seen)
        <5>1. CASE tool # "unique_everseen"
          BY <4>1, <5>1 DEF StandsAt, SeenUpTo
        <5>2. CASE tool = "unique_everseen"
          <6>1. iter[i].sub = End
            BY <1>3, <3>2, <5>2 DEF Inside, OnlyOneInside
          <6> QED
            BY <4>1, <6>1, AtEndStays
        <5> QED
          BY <5>1, <5>2
      <4>3. FoundAt(iter[j], t.it.sub)
        BY <4>1, <4>2, InitialisedFinds
      <4>4. t.it.sub # End => t.it.item # 0
        BY <4>1, InitialisedPlaced DEF InUse
      <4> QED
        BY <4>3, <4>4 DEF FoundAt
    <3> QED
      BY <3>1, <3>2
  <2> QED
    BY <1>3, <1>4, <2>1, AtNow, AtNext
<1>7. \A k \in DOMAIN iter : At'[k] = At[k]
  BY <1>3, <1>4, <1>5, <1>6, AtKept
<1>8. At' = At
  BY <1>4, <1>7 DEF At
<1> QED
  BY <1>3, <1>8, RankSame DEF Promise!vars, At, Yields

(* what ++ does, with and without the dereference of what it returns *)
LEMMA MoveBar ==
    ASSUME Core, Inside, FoundOK', UNCHANGED fixed, NEW i \in DOMAIN iter,
           NEW r \in Initialised(iter[i], seen), r.it.sub # End,
           NEW a \in Advanced(r.it, r.seen), iter' = [iter EXCEPT ![i] = a.it]
    PROVE  \E stale \in SUBSET Promise!Equals(i) : At' = Promise!Moved(i, stale)
<1>1. /\ DOMAIN iter' = DOMAIN iter /\ iter'[i] = a.it
      /\ \A k \in DOMAIN iter : k # i => iter'[k] = iter[k]
  OBVIOUS
<1>2. input \in Seq(Elems) /\ Len(input) \in Nat /\ End = Len(input) + 1
  BY DEF Core, TypeOK, End
<1>3. r.it.sub \in Positions /\ Yielded(r.it.sub) /\ At[i] = Rank(r.it.sub)
  BY Usable
<1>4. NextYielded(r.it.sub + 1, a.it.sub) /\ a.it.item # 0
  BY LookedAt, MovedOn
<1>5. At'[i] = At[i] + 1
  <2>1. FoundAt(a.it, a.it.sub)
    BY <1>4 DEF FoundAt
  <2>2. At'[i] = Rank(a.it.sub)
    BY <1>1, <2>1, AtNext
  <2>3. r.it.sub + 1 \in 1 .. End
    BY <1>2, <1>3 DEF Positions
  <2>4. Rank(a.it.sub) = Rank(r.it.sub + 1)
    BY <1>2, <1>4, <2>3, RankOfNext
  <2> QED
    BY <1>2, <1>3, <2>2, <2>4, RankAfter
<1>6. \A k \in DOMAIN iter : k # i => At'[k] = At[k]
  BY <1>1, AtKept
<1>7. At' = [k \in DOMAIN At |-> IF k = i THEN At[i] + 1 ELSE At[k]]
  BY <1>1, <1>5, <1>6 DEF At
<1>8. Promise!Moved(i, {}) = [k \in DOMAIN At |-> IF k = i THEN At[i] + 1 ELSE At[k]]
  BY DEF Promise!Moved, At
<1> QED
  BY <1>7, <1>8

LEMMA PreIncrementBar ==
    ASSUME Core, Inside, FoundOK', NEW i \in Its, PreIncrement(i)
    PROVE  Promise!PreIncrement(i)
<1>1. PICK r \in Initialised(iter[i], seen) :
         /\ r.it.sub # End
         /\ \E a \in Advanced(r.it, r.seen) : iter' = [iter EXCEPT ![i] = a.it]
  BY DEF PreIncrement
<1>2. PICK a \in Advanced(r.it, r.seen) : iter' = [iter EXCEPT ![i] = a.it]
  BY <1>1
<1>3. i \in DOMAIN iter /\ UNCHANGED <<fixed, got>>
  BY DEF PreIncrement
<1>4. \E stale \in SUBSET Promise!Equals(i) : At' = Promise!Moved(i, stale)
  BY <1>1, <1>2, <1>3, MoveBar
<1>5. Promise!CanUse(i)
  BY <1>1, <1>3, Usable
<1> QED
  BY <1>3, <1>4, <1>5, RankSame DEF Promise!PreIncrement, At, Yields

(* the copy that it++ returns, looked at after it has moved on, is where it was *)
LEMMA PostIncrementReads ==
    ASSUME Habits = {}, Core, Inside, NEW i \in DOMAIN iter, DerefPostIncrement(i)
    PROVE  \E r \in Initialised(iter[i], seen) :
               /\ r.it.sub # End /\ got' = r.it.item
               /\ \E a \in Advanced(r.it, r.seen) : iter' = [iter EXCEPT ![i] = a.it]
<1>1. PICK r \in Initialised(iter[i], seen) :
         /\ r.it.sub # End
         /\ \E a \in Advanced(r.it, r.seen) :
                /\ iter' = [iter EXCEPT ![i] = a.it]
                /\ \E ret \in Initialised(iter[i], a.seen) : got' = ret.it.item
  BY DEF DerefPostIncrement
<1>2. PICK a \in Advanced(r.it, r.seen) :
         /\ iter' = [iter EXCEPT ![i] = a.it]
         /\ \E ret \in Initialised(iter[i], a.seen) : got' = ret.it.item
  BY <1>1
<1>3. PICK ret \in Initialised(iter[i], a.seen) : got' = ret.it.item
  BY <1>2
<1>4. ret.it.item = r.it.item
  <2>1. CASE iter[i].item # 0
    BY <2>1 DEF Initialised
  <2>2. CASE iter[i].item = 0
    <3>1. tool # "unique_everseen"
      BY <2>2 DEF DerefPostIncrement, NotBeforeFirstUse, MayShare
    <3>2. /\ input \in Seq(Elems) /\ tool \in AllTools /\ Placed(iter[i])
          /\ StandsAt(iter[i], a.seen)
      BY <3>1 DEF Core, TypeOK, Inside, StandsAt, SeenUpTo
    <3>3. /\ Placed(r.it) /\ r.it.item # 0 /\ r.seen \in SUBSET Elems
          /\ StandsAt(r.it, r.seen) /\ FoundAt(iter[i], r.it.sub) /\ r.it.item = r.it.sub
      BY <1>1, LookedAt
    <3>4. a.seen \in SUBSET Elems
      BY <1>1, <1>2, <3>3, MovedOn
    <3>5. FoundAt(iter[i], ret.it.sub) /\ Placed(ret.it) /\ (ret.it.sub # End => ret.it.item # 0)
      BY <1>3, <3>2, <3>4, InitialisedFinds, InitialisedPlaced DEF InUse
    <3>6. ret.it.sub = r.it.sub
      BY <3>2, <3>3, <3>5, FoundUnique
    <3> QED
      BY <1>1, <3>3, <3>5, <3>6 DEF Placed
  <2> QED
    BY <2>1, <2>2
<1> QED
  BY <1>1, <1>2, <1>3, <1>4

LEMMA DerefPostIncrementBar ==
    ASSUME Habits = {}, Core, Inside, FoundOK', NEW i \in Its, DerefPostIncrement(i)
    PROVE  Promise!DerefPostIncrement(i)
<1>1. i \in DOMAIN iter /\ UNCHANGED fixed
  BY DEF DerefPostIncrement
<1>2. PICK r \in Initialised(iter[i], seen) :
         /\ r.it.sub # End /\ got' = r.it.item
         /\ \E a \in Advanced(r.it, r.seen) : iter' = [iter EXCEPT ![i] = a.it]
  BY <1>1, PostIncrementReads
<1>3. Promise!CanUse(i) /\ got' = Yields[At[i]]
  BY <1>1, <1>2, Usable
<1>4. \E stale \in SUBSET Promise!Equals(i) : At' = Promise!Moved(i, stale)
  BY <1>1, <1>2, MoveBar
<1> QED
  BY <1>1, <1>3, <1>4, RankSame DEF Promise!DerefPostIncrement, At, Yields

LEMMA NextBar ==
    ASSUME Habits = {}, Core, Inside, FoundOK', [Next]_vars
    PROVE  [Promise!Next]_(Promise!vars)
<1>1. CASE UNCHANGED vars
  <2>1. UNCHANGED fixed /\ iter' = iter /\ got' = got
    BY <1>1 DEF vars, fixed
  <2>2. At' = At
    BY <2>1, AtKept DEF At
  <2> QED
    BY <2>1, <2>2, RankSame DEF Promise!vars, At, Yields
<1>2. ASSUME NEW i \in Its, NEW p \in {1, End}, Construct(i, p)
      PROVE  Promise!Next
  BY <1>2, ConstructBar DEF Promise!Next
<1>3. ASSUME NEW i \in Its, NEW j \in Its, Copy(i, j) \/ Assign(i, j)
      PROVE  Promise!Next
  BY <1>3, CopyBar, AssignBar DEF Promise!Next
<1>4. ASSUME NEW i \in Its, Deref(i) \/ PreIncrement(i) \/ DerefPostIncrement(i) \/ Destroy(i)
      PROVE  Promise!Next
  BY <1>4, DerefBar, PreIncrementBar, DerefPostIncrementBar, DestroyBar DEF Promise!Next
<1> QED
  BY <1>1, <1>2, <1>3, <1>4, CompareBar DEF Next

(* filter, filterfalse, dropwhile, takewhile and unique_everseen implement   *)
(* InputIterator: that the first element is looked for at first use, from    *)
(* whichever member and however often, cannot be told by a client.           *)
THEOREM FiltersImplement == ASSUME Habits = {} PROVE Spec => ImplementsInputIterator
<1>1. Init => Promise!Init
  BY DEF Init, Promise!Init
<1>2. Core /\ Inside /\ FoundOK' /\ [Next]_vars => [Promise!Next]_(Promise!vars)
  BY NextBar
<1> QED
  BY <1>1, <1>2, InsideHolds, FoundIs, PTL DEF Spec, ImplementsInputIterator, Promise!Spec

(* Dereferencing what it++ returns yields the element that it was at, also   *)
(* when neither had been looked at before.                                  *)
THEOREM PostIncrementYields == ASSUME Habits = {} PROVE Spec => PostIncrementYieldsCurrent
<1>1. ASSUME Core, Inside, [Next]_vars
      PROVE  [\A i \in DOMAIN iter : DerefPostIncrement(i) => got' \in Standing(i)]_vars
  <2>1. ASSUME NEW i \in DOMAIN iter, DerefPostIncrement(i) PROVE got' \in Standing(i)
    <3>1. PICK r \in Initialised(iter[i], seen) : r.it.sub # End /\ got' = r.it.item
      BY <1>1, <2>1, PostIncrementReads
    <3>2. r.it.item = r.it.sub
      BY <1>1, <3>1, LookedAt
    <3> QED
      BY <3>1, <3>2 DEF Standing
  <2> QED
    BY <2>1
<1> QED
  BY <1>1, InsideHolds, PTL DEF Spec, PostIncrementYieldsCurrent

============================================================================
