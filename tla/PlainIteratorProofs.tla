------------------------ MODULE PlainIteratorProofs ------------------------
(***************************************************************************)
(* When a client of a tool's iterators gets what PlainIterator promises:   *)
(* conditions on the tool's five operators alone, with no client in them,   *)
(* that are enough whatever clients do with however many iterators.        *)
(***************************************************************************)
EXTENDS PlainIterator, TLAPS

----------------------------------------------------------------------------
(* The conditions on a source s. Its walk w is begin() and what ++ makes of  *)
(* it, once for each element, and no further than clients go.               *)

Many(s) == Len(Yields(s))

YieldsSequence(s) == Many(s) \in Nat /\ DOMAIN Yields(s) = 1 .. Many(s)

IsWalk(s, w) ==
    /\ w[1] = Begin(s)
    /\ \A p \in 1 .. Many(s) : p < MaxPlace => w[p + 1] = Step(s, w[p])

(* the places of begin() and of what a client may increment *)
Reached(p) == p = 1 \/ p - 1 < MaxPlace

(* an iterator that may be at place p: of the walk, or end() *)
Stands(s, w, it, p) ==
    \/ Reached(p) /\ it = w[p]
    \/ HasEnd(s) /\ p = Many(s) + 1 /\ it = Finish(s)

(* the elements come in order, and only the last iterator equals end() *)
Faithful(s, w) ==
    /\ YieldsSequence(s)
    /\ IsWalk(s, w)
    /\ \A p \in 1 .. Many(s) : Reached(p) => Value(s, w[p]) = Yields(s)[p]
    /\ \A p \in 1 .. Many(s) + 1 : \A it : Stands(s, w, it, p) =>
          /\ Same(s, it, Finish(s)) <=> p = Many(s) + 1
          /\ Same(s, Finish(s), it) <=> p = Many(s) + 1

(* and equality tells all places from each other *)
Tells(s, w) ==
    \A p, q \in 1 .. Many(s) + 1 : \A it, other :
        Stands(s, w, it, p) /\ Stands(s, w, other, q) => (Same(s, it, other) <=> p = q)

----------------------------------------------------------------------------
(* The inductive invariant, for a walk of each source: every iterator is    *)
(* one that may be at its place.                                            *)
Placed(walk) ==
    /\ source \in Sources
    /\ yields = Yields(source)
    /\ DOMAIN iter \subseteq Its
    /\ \A i \in DOMAIN iter :
          /\ iter[i] = [it |-> iter[i].it, place |-> iter[i].place]
          /\ iter[i].place \in 1 .. Past
          /\ Stands(source, walk[source], iter[i].it, iter[i].place)

LEMMA EndAtPast ==
    ASSUME NEW walk, \A s \in Sources : Faithful(s, walk[s]), Placed(walk), NEW i \in DOMAIN iter
    PROVE  /\ Past \in Nat
           /\ AtEnd(i) <=> iter[i].place = Past
           /\ Same(source, Finish(source), iter[i].it) <=> iter[i].place = Past
BY DEF Placed, Faithful, YieldsSequence, Many, Past, AtEnd

(* an iterator that is not at the end is one of the walk, at an element     *)
LEMMA AtElement ==
    ASSUME NEW walk, \A s \in Sources : Faithful(s, walk[s]), Placed(walk), NEW i \in DOMAIN iter, ~AtEnd(i)
    PROVE  /\ iter[i].place \in 1 .. Many(source)
           /\ Many(source) = Len(yields) /\ Many(source) \in Nat
           /\ Reached(iter[i].place)
           /\ iter[i].it = walk[source][iter[i].place]
<1>1. /\ iter[i].place \in 1 .. Past /\ iter[i].place # Past
      /\ Past \in Nat /\ Past = Many(source) + 1 /\ Len(yields) = Many(source)
      /\ Many(source) \in Nat
  BY EndAtPast DEF Placed, Past, Many, Faithful, YieldsSequence
<1>2. Stands(source, walk[source], iter[i].it, iter[i].place)
  BY DEF Placed
<1> QED
  BY <1>1, <1>2 DEF Stands

(* and what it is incremented to stands at the next place *)
LEMMA SteppedStands ==
    ASSUME NEW walk, \A s \in Sources : Faithful(s, walk[s]), Placed(walk),
           NEW i \in DOMAIN iter, ~AtEnd(i), iter[i].place < MaxPlace
    PROVE  /\ Stepped(i) = [it |-> Stepped(i).it, place |-> Stepped(i).place]
           /\ Stepped(i).place = iter[i].place + 1
           /\ iter[i].place \in 1 .. Len(yields)
           /\ Stepped(i).place \in 1 .. Past
           /\ Stands(source, walk[source], Stepped(i).it, Stepped(i).place)
<1>1. /\ iter[i].place \in 1 .. Many(source)
      /\ Many(source) = Len(yields) /\ Many(source) \in Nat
      /\ iter[i].it = walk[source][iter[i].place]
  BY AtElement
<1>2. Step(source, iter[i].it) = walk[source][iter[i].place + 1]
  BY <1>1 DEF Placed, Faithful, IsWalk
<1>3. Reached(iter[i].place + 1)
  <2>1. (iter[i].place + 1) - 1 = iter[i].place
    BY <1>1
  <2> QED
    BY <2>1 DEF Reached
<1> QED
  BY <1>1, <1>2, <1>3 DEF Stepped, Stands, Past

LEMMA ValueThere ==
    ASSUME NEW walk, \A s \in Sources : Faithful(s, walk[s]), Placed(walk), NEW i \in DOMAIN iter, ~AtEnd(i)
    PROVE  /\ iter[i].place \in 1 .. Len(yields)
           /\ Value(source, iter[i].it) = yields[iter[i].place]
BY AtElement DEF Placed, Faithful

LEMMA PlacedInit ==
    ASSUME NEW walk, Init
    PROVE  Placed(walk)
BY DEF Init, Placed

LEMMA PlacedStep ==
    ASSUME NEW walk, \A s \in Sources : Faithful(s, walk[s]), Placed(walk), [Next]_vars
    PROVE  Placed(walk)'
<1>0. /\ Faithful(source, walk[source]) /\ Past \in Nat \ {0} /\ Past = Many(source) + 1
  BY DEF Placed, Past, Many, Faithful, YieldsSequence
<1>1. ASSUME NEW i \in Its, ConstructBegin(i)
      PROVE  Placed(walk)'
  <2>1. Stands(source, walk[source], Begin(source), 1)
    BY <1>0 DEF Faithful, IsWalk, Stands, Reached
  <2> QED
    BY <1>0, <1>1, <2>1 DEF ConstructBegin, Placed, Put, Past
<1>2. ASSUME NEW i \in Its, ConstructEnd(i)
      PROVE  Placed(walk)'
  <2>1. Stands(source, walk[source], Finish(source), Past)
    BY <1>0, <1>2 DEF ConstructEnd, Stands
  <2> QED
    BY <1>0, <1>2, <2>1 DEF ConstructEnd, Placed, Put, Past
<1>3. ASSUME NEW i \in Its, NEW j \in Its, Copy(i, j)
      PROVE  Placed(walk)'
  BY <1>3 DEF Copy, Placed, Put, Past
<1>4. ASSUME NEW i \in Its, NEW j \in Its, Assign(i, j)
      PROVE  Placed(walk)'
  BY <1>4 DEF Assign, Placed, Past
<1>5. ASSUME NEW i \in Its, Deref(i)
      PROVE  Placed(walk)'
  BY <1>5 DEF Deref, Placed, Past
<1>6. ASSUME NEW i \in Its, PreIncrement(i)
      PROVE  Placed(walk)'
  BY <1>6, SteppedStands DEF PreIncrement, MayStep, Placed, Past
<1>7. ASSUME NEW i \in Its, NEW j \in Its, PostIncrement(i, j)
      PROVE  Placed(walk)'
  BY <1>7, SteppedStands DEF PostIncrement, MayStep, Placed, Past, Put
<1>8. ASSUME NEW i \in Its, Destroy(i)
      PROVE  Placed(walk)'
  BY <1>8 DEF Destroy, Placed, Past, Drop
<1>9. CASE UNCHANGED vars
  BY <1>9 DEF vars, Placed, Past
<1> QED
  BY <1>1, <1>2, <1>3, <1>4, <1>5, <1>6, <1>7, <1>8, <1>9 DEF Next

(* Every iterator of a faithful tool keeps standing at its place.           *)
THEOREM StaysPlaced ==
    ASSUME NEW walk, \A s \in Sources : Faithful(s, walk[s])
    PROVE  Spec => []Placed(walk)
BY PlacedInit, PlacedStep, PTL DEF Spec

----------------------------------------------------------------------------
(* Type correctness: no iterator of a faithful tool goes past the place     *)
(* after the last element, for any sources, clients and numbers of          *)
(* iterators.                                                               *)
THEOREM TypeCorrect ==
    ASSUME NEW walk, \A s \in Sources : Faithful(s, walk[s])
    PROVE  Spec => []TypeOK
<1>1. Placed(walk) => TypeOK
  BY DEF Placed, TypeOK
<1> QED
  BY <1>1, StaysPlaced, PTL

(* A range-for loop over a faithful tool ends after its last element, no    *)
(* sooner and no later, also where end() is on the left.                    *)
THEOREM LoopsEnd ==
    ASSUME NEW walk, \A s \in Sources : Faithful(s, walk[s])
    PROVE  Spec => []EndFoundAtPast
<1>1. Placed(walk) => EndFoundAtPast
  BY EndAtPast DEF EndFoundAtPast
<1> QED
  BY <1>1, StaysPlaced, PTL

(* Where equality also tells the places of the walk, it is equality of      *)
(* places among any iterators a client can make, copies and end() included. *)
THEOREM EqualityIsPlace ==
    ASSUME NEW walk, \A s \in Sources : Faithful(s, walk[s]) /\ Tells(s, walk[s])
    PROVE  Spec => []EqualIffSamePlace
<1>1. Placed(walk) => EqualIffSamePlace
  BY DEF Placed, EqualIffSamePlace, Tells, Past, Many
<1>2. Spec => []Placed(walk)
  BY StaysPlaced
<1> QED
  BY <1>1, <1>2, PTL

----------------------------------------------------------------------------
(* Refinement *)

At == [i \in DOMAIN iter |-> iter[i].place]
Shown == [k \in DOMAIN yields |-> <<yields[k]>>]

LEMMA ShownPast ==
    ASSUME NEW walk, \A s \in Sources : Faithful(s, walk[s]), Placed(walk)
    PROVE  Promise!Past = Past /\ DOMAIN Shown = 1 .. Len(yields) /\ Len(yields) \in Nat
<1>1. Len(yields) \in Nat /\ DOMAIN yields = 1 .. Len(yields)
  BY DEF Placed, Faithful, YieldsSequence, Many
<1>2. Shown \in Seq({<<yields[k]>> : k \in 1 .. Len(yields)})
  BY <1>1 DEF Shown
<1>3. Len(Shown) = Len(yields)
  BY <1>1, <1>2 DEF Shown
<1> QED
  BY <1>1, <1>3 DEF Promise!Past, Past, Shown

LEMMA StepPromised ==
    ASSUME NEW walk, \A s \in Sources : Faithful(s, walk[s]), Placed(walk), [Next]_vars
    PROVE  Promise!Next \/ UNCHANGED <<Shown, At, got>>
<1>0. /\ Promise!Past = Past
      /\ DOMAIN Shown = 1 .. Len(yields)
      /\ DOMAIN At = DOMAIN iter
      /\ \A i \in DOMAIN iter : At[i] = iter[i].place
  BY ShownPast DEF At
<1>1. ASSUME NEW i \in Its, ConstructBegin(i) \/ ConstructEnd(i)
      PROVE  \E p \in {1, Promise!Past} : Promise!Construct(i, p)
  BY <1>0, <1>1 DEF ConstructBegin, ConstructEnd, Put, Promise!Construct, Promise!Put, At
<1>2. ASSUME NEW i \in Its, NEW j \in Its, Copy(i, j)
      PROVE  Promise!Copy(i, j)
  BY <1>0, <1>2 DEF Copy, Put, Promise!Copy, Promise!Put, At
<1>3. ASSUME NEW i \in Its, NEW j \in Its, Assign(i, j)
      PROVE  Promise!Assign(i, j)
  BY <1>0, <1>3 DEF Assign, Promise!Assign, At
<1>4. ASSUME NEW i \in Its, Deref(i)
      PROVE  Promise!Deref(i)
  <2>1. /\ i \in DOMAIN iter /\ iter[i].place \in DOMAIN Shown
        /\ got' = Shown[iter[i].place]
    BY <1>0, <1>4, ValueThere DEF Deref, Shown
  <2> QED
    BY <1>0, <1>4, <2>1 DEF Deref, Promise!Deref, Promise!CanUse, At, Shown
<1>5. ASSUME NEW i \in Its, PreIncrement(i)
      PROVE  Promise!PreIncrement(i)
  <2>1. /\ i \in DOMAIN iter
        /\ iter' = [iter EXCEPT ![i] = Stepped(i)]
        /\ Stepped(i).place = At[i] + 1
        /\ At[i] \in DOMAIN Shown
    BY <1>0, <1>5, SteppedStands DEF PreIncrement, MayStep
  <2>2. At' = Promise!Moved(i, {})
    BY <1>0, <2>1 DEF Promise!Moved, At
  <2> QED
    BY <1>0, <1>5, <2>1, <2>2 DEF PreIncrement, Promise!PreIncrement, Promise!CanUse, At, Shown
<1>6. ASSUME NEW i \in Its, NEW j \in Its, PostIncrement(i, j)
      PROVE  Promise!PostIncrement(i, j)
  <2>1. /\ i \in DOMAIN iter /\ j \notin DOMAIN iter
        /\ iter' = Put([iter EXCEPT ![i] = Stepped(i)], j, iter[i])
        /\ Stepped(i).place = At[i] + 1
        /\ At[i] \in DOMAIN Shown
    BY <1>0, <1>6, SteppedStands DEF PostIncrement, MayStep
  <2>2. At' = Promise!Put(Promise!Moved(i, {}), j, At[i])
    BY <1>0, <2>1 DEF Put, Promise!Put, Promise!Moved, At
  <2> QED
    BY <1>0, <1>6, <2>1, <2>2 DEF PostIncrement, Promise!PostIncrement, Promise!CanUse, At, Shown
<1>7. ASSUME NEW i \in Its, Destroy(i)
      PROVE  Promise!Destroy(i)
  BY <1>0, <1>7 DEF Destroy, Drop, Promise!Destroy, Promise!Drop, At
<1>8. CASE UNCHANGED vars
  BY <1>8 DEF vars, At, Shown
<1> QED
  BY <1>1, <1>2, <1>3, <1>4, <1>5, <1>6, <1>7, <1>8 DEF Next, Promise!Next

(* A faithful tool's iterators are input iterators over what it promises to *)
(* yield, whatever a client does: README.md:98 for every tool without       *)
(* shared state, from its five operators alone.                             *)
THEOREM FaithfulImplements ==
    ASSUME NEW walk, \A s \in Sources : Faithful(s, walk[s])
    PROVE  Spec => ImplementsInputIterator
<1>1. Init => Promise!Init
  BY DEF Init, Promise!Init
<1>2. Placed(walk) /\ [Next]_vars => [Promise!Next]_(Promise!vars)
  BY StepPromised DEF Promise!vars, At, Shown
<1> QED
  BY <1>1, <1>2, StaysPlaced, PTL DEF Spec, ImplementsInputIterator, Promise!Spec

============================================================================
