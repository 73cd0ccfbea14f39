--------------------------- MODULE HeldChainProofs ---------------------------
(***************************************************************************)
(* HeldChain, for any number of containers of any sizes and any number of   *)
(* Iterators: a position that may be used is one of the container it is     *)
(* taken for. An Iterator's container is in another object as soon as it    *)
(* has been copied, so the invariant follows each position to its holder.   *)
(***************************************************************************)
EXTENDS HeldChain, FiniteSetTheorems, WellFoundedInduction, TLAPS

SizesOK == sizes \in Seq(Nat) /\ \A x \in 1 .. Len(sizes) : sizes[x] <= MaxSize

Positions == [of : Its \cup {Freed}, at : Nat]
IterRec == [top : Nat, held : Nat, sub : Positions, last : Positions, place : Nat]

(* an Iterator of f stands in a container that exists, or at the end, or is *)
(* lost                                                                     *)
Stands(f, it) ==
    IF it.sub.of = Freed THEN it.top # End => it.sub.at # 0
    ELSE /\ it.sub.of \in DOMAIN f
         /\ f[it.sub.of].held = it.top
         /\ it.top \in 1 .. Len(sizes)
         /\ it.sub.at \in 1 .. sizes[it.top]
         /\ it.last = In(it.sub.of, sizes[it.top] + 1)

Held(f) ==
    /\ DOMAIN f \subseteq Its
    /\ f \in [DOMAIN f -> IterRec]
    /\ \A i \in DOMAIN f : Stands(f, f[i])

Inv == SizesOK /\ Held(iter)

(* no Iterator but i, unless keep, is in i's container *)
Nobody(f, i) == \A j \in DOMAIN f : f[j].sub.of # i

----------------------------------------------------------------------------
(* Every set of natural numbers has a least one. *)
LEMMA Least ==
    ASSUME NEW R \in SUBSET Nat, R # {}
    PROVE  Min(R) \in R /\ \A u \in R : Min(R) <= u
<1> DEFINE Smaller == {ss \in Nat \X Nat : ss[1] < ss[2]}
<1>1. IsWellFoundedOn(Smaller, Nat)
  BY NatLessThanWellFounded DEF OpToRel
<1>2. \A u, v \in Nat : u < v => <<u, v>> \in Smaller
  OBVIOUS
<1> HIDE DEF Smaller
<1>3. PICK v \in R : \A u \in R : ~(<<u, v>> \in Smaller)
  BY <1>1, WFMin
<1>4. \A u \in R : v <= u
  <2> TAKE u \in R
  <2>1. u \in Nat /\ v \in Nat /\ ~(u < v)
    BY <1>2, <1>3
  <2> QED
    BY <2>1
<1> QED
  BY <1>4 DEF Min

(* next_sub_iterable stops at the first element of a container that has one, *)
(* or at the end                                                            *)
LEMMA NextSubStops ==
    ASSUME SizesOK, NEW i \in Its, NEW it \in IterRec, it.top \in 1 .. End
    PROVE  /\ NextSub(i, it) \in IterRec
           /\ \/ /\ it.top # End
                 /\ NextSub(i, it).top \in 1 .. Len(sizes)
                 /\ sizes[NextSub(i, it).top] # 0
                 /\ NextSub(i, it).held = NextSub(i, it).top
                 /\ NextSub(i, it).sub = In(i, 1)
                 /\ NextSub(i, it).last = In(i, sizes[NextSub(i, it).top] + 1)
              \/ /\ NextSub(i, it).top = End
                 /\ it.top = End => NextSub(i, it).held = it.held
                 /\ NextSub(i, it).sub = NoValue
<1> DEFINE left == {x \in it.top .. Len(sizes) : sizes[x] # 0}
<1>1. Len(sizes) \in Nat /\ \A x \in 1 .. Len(sizes) : sizes[x] \in Nat
  BY DEF SizesOK
<1>2. it.top \in Nat /\ it.top >= 1
  BY <1>1 DEF IterRec, End
<1>3. End \in Nat /\ NoValue \in Positions
  BY <1>1 DEF End, NoValue, In, Positions
<1>4. CASE left # {}
  <2>1. left \in SUBSET Nat
    BY <1>1, <1>2
  <2> DEFINE to == Min(left)
  <2>2. to \in left
    BY <1>4, <2>1, Least
  <2>3. to \in 1 .. Len(sizes) /\ sizes[to] # 0 /\ sizes[to] \in Nat /\ to \in Nat
    BY <1>1, <1>2, <2>2
  <2>4. NextSub(i, it) = [it EXCEPT !.top = to, !.held = to,
                                    !.sub = In(i, 1), !.last = In(i, sizes[to] + 1)]
    BY <1>4 DEF NextSub
  <2> HIDE DEF to
  <2>5. In(i, 1) \in Positions /\ In(i, sizes[to] + 1) \in Positions
    BY <2>3 DEF In, Positions
  <2>6. it.top # End
    BY <1>1, <1>2, <2>2 DEF End
  <2> HIDE DEF left
  <2> QED
    BY <2>3, <2>4, <2>5, <2>6 DEF IterRec
<1>5. CASE left = {}
  <2>1. NextSub(i, it) = [it EXCEPT !.top = End,
                                    !.held = IF it.top = End THEN @ ELSE Len(sizes),
                                    !.sub = NoValue, !.last = NoValue]
    BY <1>5 DEF NextSub
  <2> HIDE DEF left
  <2> QED
    BY <1>1, <1>3, <2>1 DEF IterRec
<1> QED
  BY <1>4, <1>5

(* what next_sub_iterable returns stands in i's own container, or at the end *)
LEMMA NextSubStands ==
    ASSUME SizesOK, NEW i \in Its, NEW it \in IterRec, it.top \in 1 .. End,
           NEW f, i \in DOMAIN f, f[i] = NextSub(i, it)
    PROVE  Stands(f, NextSub(i, it))
<1> DEFINE n == NextSub(i, it)
<1>1. n \in IterRec
  BY NextSubStops
<1>2. CASE /\ n.top \in 1 .. Len(sizes)
           /\ sizes[n.top] # 0
           /\ n.held = n.top
           /\ n.sub = In(i, 1)
           /\ n.last = In(i, sizes[n.top] + 1)
  <2>1. n.sub.of = i /\ n.sub.at = 1 /\ i # Freed
    BY <1>2, FreedAssumption DEF In
  <2>2. 1 \in 1 .. sizes[n.top]
    BY <1>2 DEF SizesOK
  <2> HIDE DEF n
  <2>3. Stands(f, n)
    BY <1>2, <2>1, <2>2 DEF Stands, n
  <2> QED
    BY <2>3 DEF n
<1>3. CASE n.top = End /\ n.sub = NoValue
  BY <1>3 DEF Stands, NoValue, In
<1> QED
  BY <1>2, <1>3, NextSubStops

(* Without frees the positions in i's container and changes nothing else *)
LEMMA WithoutHeld ==
    ASSUME NEW f, Held(f), NEW i \in Its
    PROVE  /\ Held(Without(f, i)) /\ Nobody(Without(f, i), i)
           /\ DOMAIN Without(f, i) = DOMAIN f
           /\ \A j \in DOMAIN f : /\ Without(f, i)[j].held = f[j].held
                                  /\ Without(f, i)[j].top = f[j].top
<1> DEFINE Off(p) == IF p.of = i THEN [p EXCEPT !.of = Freed] ELSE p
           w == Without(f, i)
<1>1. \A p \in Positions : /\ Off(p) \in Positions
                           /\ Off(p).at = p.at
                           /\ Off(p).of = (IF p.of = i THEN Freed ELSE p.of)
                           /\ p.of # i => Off(p) = p
  BY DEF Positions
<1>2. /\ DOMAIN w = DOMAIN f
      /\ \A j \in DOMAIN f : w[j] = [f[j] EXCEPT !.sub = Off(@), !.last = Off(@)]
  BY DEF Without
<1>3. DOMAIN f \subseteq Its /\ f \in [DOMAIN f -> IterRec]
      /\ \A j \in DOMAIN f : Stands(f, f[j])
  BY DEF Held
<1>f. w = [j \in DOMAIN f |-> [f[j] EXCEPT !.sub = Off(@), !.last = Off(@)]]
  BY DEF Without
<1> HIDE DEF w, Off
<1>4. ASSUME NEW j \in DOMAIN f
      PROVE  /\ w[j] \in IterRec
             /\ w[j].held = f[j].held /\ w[j].top = f[j].top
             /\ w[j].sub = Off(f[j].sub) /\ w[j].last = Off(f[j].last)
  <2>1. f[j] \in IterRec /\ Off(f[j].sub) \in Positions /\ Off(f[j].last) \in Positions
    BY <1>1, <1>3 DEF IterRec
  <2> QED
    BY <1>2, <2>1 DEF IterRec
<1>5. ASSUME NEW j \in DOMAIN f
      PROVE  Stands(w, w[j]) /\ w[j].sub.of # i
  <2>1. f[j].sub \in Positions /\ f[j].last \in Positions /\ Stands(f, f[j]) /\ i # Freed
    BY <1>3, FreedAssumption DEF IterRec
  <2>2. CASE f[j].sub.of = Freed
    <3>1. w[j].sub = f[j].sub /\ w[j].top = f[j].top
      BY <1>1, <1>4, <2>1, <2>2
    <3> QED
      BY <2>1, <2>2, <3>1 DEF Stands
  <2>3. CASE f[j].sub.of = i
    <3>1. w[j].sub.of = Freed /\ w[j].sub.at = f[j].sub.at
      BY <1>1, <1>4, <2>1, <2>3
    <3>2. f[j].sub.at \in 1 .. sizes[f[j].top]
      BY <2>1, <2>3 DEF Stands
    <3> QED
      BY <2>1, <3>1, <3>2 DEF Stands
  <2>4. CASE f[j].sub.of # Freed /\ f[j].sub.of # i
    <3>1. f[j].last.of = f[j].sub.of
      BY <2>1, <2>4 DEF Stands, In
    <3>2. w[j].sub = f[j].sub /\ w[j].last = f[j].last /\ w[j].top = f[j].top
      BY <1>1, <1>4, <2>1, <2>4, <3>1
    <3>3. w[f[j].sub.of].held = f[f[j].sub.of].held /\ f[j].sub.of \in DOMAIN w
      BY <1>2, <1>4, <2>1, <2>4 DEF Stands
    <3> QED
      BY <2>1, <2>4, <3>2, <3>3 DEF Stands
  <2> QED
    BY <2>2, <2>3, <2>4
<1>6. w \in [DOMAIN w -> IterRec]
  BY <1>2, <1>4, <1>f
<1>7. Held(w) /\ Nobody(w, i)
  BY <1>2, <1>3, <1>5, <1>6 DEF Held, Nobody
<1> QED
  BY <1>2, <1>4, <1>7 DEF w

(* One Iterator is replaced or added, in whose container nobody is unless it *)
(* stays as it was.                                                         *)
LEMMA ReplaceHeld ==
    ASSUME NEW f, Held(f), NEW i \in Its, NEW it \in IterRec, NEW g,
           g = Put(f, i, it),
           Nobody(f, i) \/ (i \in DOMAIN f /\ it.held = f[i].held),
           Stands(g, it)
    PROVE  Held(g)
<1>1. /\ DOMAIN g = DOMAIN f \cup {i} /\ g[i] = it
      /\ \A j \in DOMAIN f : j # i => g[j] = f[j]
  BY DEF Put
<1>2. g \in [DOMAIN g -> IterRec]
  BY DEF Put, Held
<1>3. ASSUME NEW j \in DOMAIN g
      PROVE  Stands(g, g[j])
  <2>1. CASE j = i
    BY <1>1, <2>1
  <2>2. CASE j # i
    <3>1. j \in DOMAIN f /\ g[j] = f[j] /\ Stands(f, f[j])
      BY <1>1, <2>2 DEF Held
    <3>2. f[j].sub.of # Freed => g[f[j].sub.of].held = f[f[j].sub.of].held
      BY <1>1, <3>1 DEF Stands, Nobody
    <3> QED
      BY <1>1, <3>1, <3>2 DEF Stands
  <2> QED
    BY <2>1, <2>2
<1> QED
  BY <1>1, <1>2, <1>3 DEF Held

LEMMA FinitelyMany ==
    ASSUME SizesOK
    PROVE  /\ IsFiniteSet(Elements)
           /\ \A S \in SUBSET Elements : IsFiniteSet(S) /\ Cardinality(S) \in Nat
<1> DEFINE all == (1 .. Len(sizes)) \X (1 .. MaxSize)
<1>1. IsFiniteSet(1 .. Len(sizes)) /\ IsFiniteSet(1 .. MaxSize)
  BY FS_Interval, BoundsAssumption DEF SizesOK
<1>2. IsFiniteSet(all)
  BY <1>1, FS_Product
<1>3. Elements \subseteq all
  BY DEF Elements
<1> HIDE DEF all
<1>4. IsFiniteSet(Elements)
  BY <1>2, <1>3, FS_Subset
<1>5. \A S \in SUBSET Elements : IsFiniteSet(S) /\ Cardinality(S) \in Nat
  BY <1>4, FS_Subset, FS_CardinalityType
<1> QED
  BY <1>4, <1>5

LEMMA PastIsNat ==
    ASSUME SizesOK
    PROVE  Past \in Nat
BY FinitelyMany DEF Past

LEMMA StandsAgain ==
    ASSUME NEW f, NEW g, NEW it, Stands(f, it), DOMAIN f \subseteq DOMAIN g,
           it.sub.of # Freed => g[it.sub.of].held = f[it.sub.of].held
    PROVE  Stands(g, it)
BY DEF Stands

(* An Iterator that may be dereferenced is in a container that exists. *)
LEMMA AtElementStands ==
    ASSUME Inv, NEW i, AtElement(i)
    PROVE  /\ i \in DOMAIN iter /\ i \in Its
           /\ iter[i] \in IterRec
           /\ iter[i].sub.of \in DOMAIN iter /\ iter[i].sub.of # Freed
           /\ iter[iter[i].sub.of].held = iter[i].top
           /\ iter[i].top \in 1 .. Len(sizes)
           /\ iter[i].sub.at \in 1 .. sizes[iter[i].top]
           /\ iter[i].last = In(iter[i].sub.of, sizes[iter[i].top] + 1)
<1>1. i \in DOMAIN iter /\ i \in Its /\ iter[i] \in IterRec /\ Stands(iter, iter[i])
  BY DEF AtElement, CanUse, Inv, Held
<1>2. ~(iter[i].sub.of = Freed /\ iter[i].sub # NoValue) /\ iter[i].top # End
  BY DEF AtElement, CanUse, Lost
<1>3. iter[i].sub.of # Freed
  BY <1>1, <1>2 DEF Stands, NoValue, In
<1> QED
  BY <1>1, <1>3 DEF Stands

----------------------------------------------------------------------------
LEMMA MovedWithin ==
    ASSUME NEW it \in IterRec, NEW new, NEW sub \in Positions,
           new = [it EXCEPT !.sub = sub, !.place = @ + 1]
    PROVE  /\ new \in IterRec /\ new.held = it.held /\ new.top = it.top
           /\ new.sub = sub /\ new.last = it.last
<1>1. it = [top |-> it.top, held |-> it.held, sub |-> it.sub, last |-> it.last,
            place |-> it.place]
      /\ it.place + 1 \in Nat
  BY DEF IterRec
<1>2. new = [top |-> it.top, held |-> it.held, sub |-> sub, last |-> it.last,
             place |-> it.place + 1]
  BY <1>1
<1> QED
  BY <1>1, <1>2 DEF IterRec

LEMMA MovedOn ==
    ASSUME NEW it \in IterRec, NEW new, new = [it EXCEPT !.top = @ + 1, !.place = @ + 1]
    PROVE  new \in IterRec /\ new.top = it.top + 1 /\ new.held = it.held
<1>1. it = [top |-> it.top, held |-> it.held, sub |-> it.sub, last |-> it.last,
            place |-> it.place]
      /\ it.place + 1 \in Nat /\ it.top + 1 \in Nat
  BY DEF IterRec
<1>2. new = [top |-> it.top + 1, held |-> it.held, sub |-> it.sub, last |-> it.last,
             place |-> it.place + 1]
  BY <1>1
<1> QED
  BY <1>1, <1>2 DEF IterRec

LEMMA WithinStepHeld ==
    ASSUME Inv, NEW i, AtElement(i), ~Leaves(i)
    PROVE  /\ Held(WithinStep(i)) /\ DOMAIN WithinStep(i) = DOMAIN iter
           /\ \A k \in DOMAIN iter : WithinStep(i)[k].held = iter[k].held
<1> DEFINE sub == In(iter[i].sub.of, iter[i].sub.at + 1)
           it == [iter[i] EXCEPT !.sub = sub, !.place = @ + 1]
           g == WithinStep(i)
<1>1. /\ i \in DOMAIN iter /\ iter[i] \in IterRec
      /\ iter[i].sub \in Positions
      /\ iter[i].sub.of \in DOMAIN iter /\ iter[i].sub.of # Freed
      /\ iter[iter[i].sub.of].held = iter[i].top
      /\ iter[i].top \in 1 .. Len(sizes)
      /\ iter[i].sub.at \in 1 .. sizes[iter[i].top]
      /\ iter[i].last = In(iter[i].sub.of, sizes[iter[i].top] + 1)
  BY AtElementStands DEF IterRec
<1>2. sizes[iter[i].top] \in Nat /\ iter[i].sub.at \in Nat
  BY <1>1 DEF Inv, SizesOK
<1>3. iter[i].sub.at + 1 # sizes[iter[i].top] + 1
  BY <1>1 DEF Leaves, In
<1>4. iter[i].sub.at + 1 \in 1 .. sizes[iter[i].top]
  BY <1>1, <1>2, <1>3
<1>5. sub \in Positions
  BY <1>1, <1>2 DEF Positions, In
<1>6. /\ it \in IterRec /\ it.held = iter[i].held /\ it.top = iter[i].top
      /\ it.sub.of = iter[i].sub.of /\ it.sub.at = iter[i].sub.at + 1
      /\ it.last = iter[i].last
  <2>1. sub.of = iter[i].sub.of /\ sub.at = iter[i].sub.at + 1
    BY DEF In
  <2> HIDE DEF sub
  <2>2. it \in IterRec /\ it.held = iter[i].held /\ it.top = iter[i].top
        /\ it.sub = sub /\ it.last = iter[i].last
    BY <1>1, <1>5, MovedWithin
  <2> QED
    BY <2>1, <2>2
<1>7. g = Put(iter, i, it)
  BY <1>1 DEF WithinStep, Put, Inv, Held
<1> HIDE DEF it, g
<1>8. /\ DOMAIN g = DOMAIN iter
      /\ \A k \in DOMAIN iter : g[k].held = iter[k].held
  BY <1>1, <1>6, <1>7 DEF Put
<1>9. Stands(g, it)
  BY <1>1, <1>4, <1>6, <1>8 DEF Stands
<1>10. Held(g)
  BY <1>1, <1>6, <1>7, <1>9, ReplaceHeld, AtElementStands DEF Inv
<1> QED
  BY <1>8, <1>10 DEF g

LEMMA LeavingStepHeld ==
    ASSUME Inv, NEW i, AtElement(i)
    PROVE  /\ Held(LeavingStep(i)) /\ DOMAIN LeavingStep(i) = DOMAIN iter
           /\ \A k \in DOMAIN iter :
                 k # i \/ iter[i].top + 1 = End => LeavingStep(i)[k].held = iter[k].held
<1> DEFINE next == [iter[i] EXCEPT !.top = @ + 1, !.place = @ + 1]
           rest == IF next.top = End THEN iter ELSE Without(iter, i)
           it == NextSub(i, next)
           g == LeavingStep(i)
<1>1. /\ i \in DOMAIN iter /\ i \in Its /\ iter[i] \in IterRec
      /\ iter[i].top \in 1 .. Len(sizes) /\ Len(sizes) \in Nat
      /\ Held(iter) /\ SizesOK
  BY AtElementStands DEF Inv, SizesOK
<1>2. /\ next \in IterRec /\ next.top = iter[i].top + 1 /\ next.held = iter[i].held
      /\ next.top \in 1 .. End
  <2>1. next \in IterRec /\ next.top = iter[i].top + 1 /\ next.held = iter[i].held
    BY <1>1, MovedOn
  <2> HIDE DEF next
  <2> QED
    BY <1>1, <2>1 DEF End
<1>3. /\ Held(rest) /\ DOMAIN rest = DOMAIN iter
      /\ next.top = End \/ Nobody(rest, i)
      /\ \A k \in DOMAIN iter : rest[k].held = iter[k].held
  BY <1>1, WithoutHeld
<1>4. g = [rest EXCEPT ![i] = it]
  BY DEF LeavingStep
<1> HIDE DEF next, rest, g
<1>5. it \in IterRec /\ (next.top = End => it.held = iter[i].held)
  <2>1. it \in IterRec /\ (next.top = End => it.held = next.held)
    BY <1>1, <1>2, NextSubStops
  <2> QED
    BY <1>2, <2>1
<1>6. g = Put(rest, i, it) /\ DOMAIN g = DOMAIN iter /\ g[i] = it
  BY <1>1, <1>3, <1>4 DEF Put, Held
<1>7. Stands(g, it)
  BY <1>1, <1>2, <1>6, NextSubStands
<1> HIDE DEF it
<1>8. Nobody(rest, i) \/ (i \in DOMAIN rest /\ it.held = rest[i].held)
  BY <1>1, <1>3, <1>5
<1>9. Held(g)
  BY <1>1, <1>3, <1>5, <1>6, <1>7, <1>8, ReplaceHeld
<1>10. \A k \in DOMAIN iter : k # i \/ next.top = End => g[k].held = iter[k].held
  BY <1>1, <1>3, <1>5, <1>6 DEF Put
<1> QED
  BY <1>2, <1>6, <1>9, <1>10 DEF g

(* an increment keeps the invariant, and only the Iterator that leaves its  *)
(* container for another has another in its place                          *)
LEMMA SteppedHeld ==
    ASSUME Inv, NEW i, AtElement(i)
    PROVE  /\ Held(Stepped(i)) /\ DOMAIN Stepped(i) = DOMAIN iter
           /\ \A k \in DOMAIN iter :
                 k # i \/ ~Leaves(i) \/ iter[i].top + 1 = End =>
                     Stepped(i)[k].held = iter[k].held
BY WithinStepHeld, LeavingStepHeld DEF Stepped

(* a new Iterator *)
LEMMA NewHeld ==
    ASSUME Held(iter), NEW j \in Its, j \notin DOMAIN iter
    PROVE  Nobody(iter, j)
BY FreedAssumption DEF Nobody, Held, Stands

----------------------------------------------------------------------------
LEMMA ConstructedHeld ==
    ASSUME Inv, NEW i \in Its, i \notin DOMAIN iter, NEW top \in 1 .. End,
           NEW place \in Nat, iter' = Put(iter, i, IteratorAt(i, top, place))
    PROVE  Held(iter')
<1> DEFINE it == [top |-> top, held |-> 0, sub |-> NoValue, last |-> NoValue, place |-> place]
<1>1. it \in IterRec /\ it.top = top
  BY DEF IterRec, Positions, NoValue, In, Inv, SizesOK, End
<1>2. IteratorAt(i, top, place) = NextSub(i, it)
  BY DEF IteratorAt
<1> HIDE DEF it
<1>3. i \in DOMAIN iter' /\ iter'[i] = NextSub(i, it)
  BY <1>2 DEF Put
<1>4. Stands(iter', NextSub(i, it)) /\ NextSub(i, it) \in IterRec
  BY <1>1, <1>3, NextSubStands, NextSubStops DEF Inv
<1> QED
  BY <1>2, <1>4, ReplaceHeld, NewHeld DEF Inv

LEMMA CopyHeld ==
    ASSUME Inv, NEW i \in Its, NEW j \in Its, Copy(i, j)
    PROVE  Held(iter')
<1>1. /\ i \in DOMAIN iter /\ j \notin DOMAIN iter /\ iter' = Put(iter, j, iter[i])
      /\ iter[i] \in IterRec /\ Stands(iter, iter[i]) /\ Held(iter)
  BY DEF Copy, CanUse, Inv, Held
<1>2. /\ DOMAIN iter \subseteq DOMAIN iter'
      /\ \A k \in DOMAIN iter : iter'[k] = iter[k]
  BY <1>1 DEF Put
<1>3. Stands(iter', iter[i])
  <2>1. iter[i].sub.of # Freed => iter[i].sub.of \in DOMAIN iter
    BY <1>1 DEF Stands
  <2> QED
    BY <1>1, <1>2, <2>1, StandsAgain
<1> QED
  BY <1>1, <1>3, NewHeld, ReplaceHeld

LEMMA AssignHeld ==
    ASSUME Inv, NEW i \in Its, NEW j \in Its, Assign(i, j)
    PROVE  Held(iter')
<1> DEFINE rest == Without(iter, i)
<1>1. /\ i \in DOMAIN iter /\ j \in DOMAIN iter /\ i # j /\ Held(iter)
      /\ iter' = [rest EXCEPT ![i] = rest[j]]
  BY DEF Assign, CanUse, Inv
<1>2. Held(rest) /\ Nobody(rest, i) /\ DOMAIN rest = DOMAIN iter
  BY <1>1, WithoutHeld
<1> HIDE DEF rest
<1>3. /\ iter' = Put(rest, i, rest[j])
      /\ rest[j] \in IterRec /\ Stands(rest, rest[j]) /\ rest[j].sub.of # i
  BY <1>1, <1>2 DEF Put, Held, Nobody
<1>4. /\ DOMAIN rest \subseteq DOMAIN iter'
      /\ \A k \in DOMAIN rest : k # i => iter'[k] = rest[k]
  BY <1>3 DEF Put
<1>5. Stands(iter', rest[j])
  <2>1. rest[j].sub.of # Freed => rest[j].sub.of \in DOMAIN rest
    BY <1>3 DEF Stands
  <2> QED
    BY <1>3, <1>4, <2>1, StandsAgain
<1> QED
  BY <1>2, <1>3, <1>5, ReplaceHeld

LEMMA PostIncrementHeld ==
    ASSUME Inv, NEW i \in Its, NEW j \in Its, PostIncrement(i, j)
    PROVE  Held(iter')
<1> DEFINE after == Stepped(i)
           copied == Put(after, j, iter[i])
<1>1. /\ AtElement(i) /\ j \notin DOMAIN iter /\ j # i /\ i \in DOMAIN iter
      /\ Held(iter) /\ iter[i] \in IterRec /\ Stands(iter, iter[i])
      /\ iter' = IF Leaves(i) /\ iter[i].top + 1 # End
                 THEN Put(after, j, Without(copied, i)[j]) ELSE copied
  BY DEF PostIncrement, AtElement, CanUse, Inv, Held
<1>2. /\ Held(after) /\ DOMAIN after = DOMAIN iter
      /\ \A k \in DOMAIN iter :
            k # i \/ ~Leaves(i) \/ iter[i].top + 1 = End => after[k].held = iter[k].held
  BY <1>1, SteppedHeld
<1> HIDE DEF after
<1>3. Nobody(after, j)
  BY <1>1, <1>2, FreedAssumption DEF Nobody, Held, Stands
<1>4. CASE Leaves(i) /\ iter[i].top + 1 # End
  <2> DEFINE w == Without(iter, i)
             it == w[i]
  <2>1. Held(w) /\ Nobody(w, i) /\ DOMAIN w = DOMAIN iter
        /\ \A k \in DOMAIN iter : w[k].held = iter[k].held
    BY <1>1, WithoutHeld
  <2>2. Without(copied, i)[j] = it
    BY <1>1 DEF Without, Put
  <2>3. iter' = Put(after, j, it)
    BY <1>1, <1>4, <2>2
  <2> HIDE DEF w
  <2>4. it \in IterRec /\ Stands(w, it) /\ it.sub.of # i
    BY <1>1, <2>1 DEF Held, Nobody
  <2>5. /\ DOMAIN w \subseteq DOMAIN iter'
        /\ \A k \in DOMAIN iter : k # i => iter'[k].held = w[k].held
    BY <1>1, <1>2, <2>1, <2>3 DEF Put
  <2> HIDE DEF it
  <2>6. Stands(iter', it)
    <3>1. it.sub.of # Freed => it.sub.of \in DOMAIN iter
      BY <2>1, <2>4 DEF Stands
    <3> QED
      BY <2>4, <2>5, <3>1, StandsAgain
  <2> QED
    BY <1>2, <1>3, <2>3, <2>4, <2>6, ReplaceHeld
<1>5. CASE ~(Leaves(i) /\ iter[i].top + 1 # End)
  <2>1. iter' = Put(after, j, iter[i])
    BY <1>1, <1>5
  <2>2. /\ DOMAIN iter \subseteq DOMAIN iter'
        /\ \A k \in DOMAIN iter : iter'[k].held = iter[k].held
    BY <1>1, <1>2, <1>5, <2>1 DEF Put
  <2>3. Stands(iter', iter[i])
    <3>1. iter[i].sub.of # Freed => iter[i].sub.of \in DOMAIN iter
      BY <1>1 DEF Stands
    <3> QED
      BY <1>1, <2>2, <3>1, StandsAgain
  <2> QED
    BY <1>1, <1>2, <1>3, <2>1, <2>3, ReplaceHeld
<1> QED
  BY <1>4, <1>5

(* Drop(iter, i), whose positions in i's container are freed, is part of     *)
(* Without(iter, i)                                                         *)
LEMMA DestroyHeld ==
    ASSUME Inv, NEW i \in Its, Destroy(i)
    PROVE  Held(iter')
<1> DEFINE w == Without(iter, i)
<1>1. i \in DOMAIN iter /\ Held(iter) /\ iter' = Without(Drop(iter, i), i)
  BY DEF Destroy, Inv
<1>2. Held(w) /\ Nobody(w, i) /\ DOMAIN w = DOMAIN iter
  BY <1>1, WithoutHeld
<1>3. /\ DOMAIN iter' = DOMAIN iter \ {i}
      /\ \A k \in DOMAIN iter' : iter'[k] = w[k]
      /\ iter' = [k \in DOMAIN iter \ {i} |-> iter'[k]]
  BY <1>1 DEF Without, Drop
<1> HIDE DEF w
<1>4. iter' \in [DOMAIN iter' -> IterRec] /\ DOMAIN iter' \subseteq Its
  BY <1>2, <1>3 DEF Held
<1>5. ASSUME NEW k \in DOMAIN iter'
      PROVE  Stands(iter', iter'[k])
  <2>1. iter'[k] = w[k] /\ Stands(w, w[k]) /\ w[k].sub.of # i
    BY <1>2, <1>3 DEF Held, Nobody
  <2>2. w[k].sub.of # Freed => /\ w[k].sub.of \in DOMAIN iter'
                               /\ iter'[w[k].sub.of] = w[w[k].sub.of]
    BY <1>2, <1>3, <2>1 DEF Stands
  <2> QED
    BY <2>1, <2>2 DEF Stands
<1> QED
  BY <1>4, <1>5 DEF Held

----------------------------------------------------------------------------
LEMMA NextInv ==
    ASSUME Inv, [Next]_vars
    PROVE  Inv'
<1>1. CASE UNCHANGED vars
  BY <1>1 DEF Inv, SizesOK, Held, Stands, End, vars
<1>2. CASE Next
  <2>1. sizes' = sizes
    BY <1>2 DEF Next, Copy, Assign, PostIncrement, Begin, Finish, Deref, PreIncrement, Destroy
  <2>2. Held(iter')
    <3>1. ASSUME NEW i \in Its, NEW j \in Its, Copy(i, j) PROVE Held(iter')
      BY <3>1, CopyHeld
    <3>2. ASSUME NEW i \in Its, NEW j \in Its, Assign(i, j) PROVE Held(iter')
      BY <3>2, AssignHeld
    <3>3. ASSUME NEW i \in Its, NEW j \in Its, PostIncrement(i, j) PROVE Held(iter')
      BY <3>3, PostIncrementHeld
    <3>4. ASSUME NEW i \in Its, Begin(i) PROVE Held(iter')
      <4>1. 1 \in 1 .. End /\ 1 \in Nat
        BY DEF Inv, SizesOK, End
      <4> QED
        BY <3>4, <4>1, ConstructedHeld DEF Begin
    <3>5. ASSUME NEW i \in Its, Finish(i) PROVE Held(iter')
      <4>1. End \in 1 .. End /\ Past \in Nat
        BY PastIsNat DEF Inv, SizesOK, End
      <4> QED
        BY <3>5, <4>1, ConstructedHeld DEF Finish
    <3>6. ASSUME NEW i \in Its, Deref(i) PROVE Held(iter')
      BY <3>6 DEF Deref, Inv
    <3>7. ASSUME NEW i \in Its, PreIncrement(i) PROVE Held(iter')
      BY <3>7, SteppedHeld DEF PreIncrement
    <3>8. ASSUME NEW i \in Its, Destroy(i) PROVE Held(iter')
      BY <3>8, DestroyHeld
    <3> QED
      BY <1>2, <3>1, <3>2, <3>3, <3>4, <3>5, <3>6, <3>7, <3>8 DEF Next
  <2> QED
    BY <2>1, <2>2 DEF Inv, SizesOK, Held, Stands, End
<1> QED
  BY <1>1, <1>2

LEMMA InvAlways == Spec => []Inv
<1>1. Init => Inv
  <2> SUFFICES ASSUME Init PROVE Inv
    OBVIOUS
  <2>1. SizesOK
    <3>1. PICK n \in 0 .. MaxLen : sizes \in [1 .. n -> 0 .. MaxSize]
      BY DEF Init
    <3>2. n \in Nat /\ sizes \in Seq(Nat) /\ Len(sizes) = n
      BY <3>1, BoundsAssumption
    <3> QED
      BY <3>1, <3>2 DEF SizesOK
  <2> QED
    BY <2>1 DEF Init, Inv, Held
<1>2. Inv /\ [Next]_vars => Inv'
  BY NextInv
<1> QED
  BY <1>1, <1>2, PTL DEF Spec

(* For any number of containers of any sizes, and any number of Iterators    *)
(* copied, assigned, incremented and destroyed in any order: a position that *)
(* may be used is in the container it is taken for, and its end is that      *)
(* container's.                                                             *)
THEOREM PositionsHold == Spec => []PointsIntoItsContainer
<1>1. Inv => PointsIntoItsContainer
  BY AtElementStands DEF PointsIntoItsContainer
<1> QED
  BY <1>1, InvAlways, PTL

----------------------------------------------------------------------------
(* The numbers of the elements *)

UpTo(top) == 1 + Cardinality({e \in Elements : e[1] < top})

Preds(e) == {f \in Elements : Before(f, e)}

LEMMA RankIs ==
    ASSUME SizesOK, NEW e
    PROVE  /\ Rank(e) = 1 + Cardinality(Preds(e)) /\ Rank(e) \in Nat \ {0}
           /\ IsFiniteSet(Preds(e)) /\ Preds(e) \in SUBSET Elements
           /\ Cardinality(Preds(e)) \in Nat
<1>1. Preds(e) \in SUBSET Elements
  BY DEF Preds
<1>2. IsFiniteSet(Preds(e)) /\ Cardinality(Preds(e)) \in Nat
  BY <1>1, FinitelyMany
<1>3. Rank(e) = 1 + Cardinality(Preds(e))
  BY DEF Rank, Preds
<1> QED
  BY <1>1, <1>2, <1>3

LEMMA ElementIs ==
    ASSUME SizesOK, NEW x \in 1 .. Len(sizes), NEW p \in 1 .. sizes[x]
    PROVE  <<x, p>> \in Elements
<1>1. Len(sizes) \in Nat /\ sizes[x] \in Nat /\ sizes[x] <= MaxSize /\ MaxSize \in Nat
  BY BoundsAssumption DEF SizesOK
<1>2. p \in 1 .. MaxSize
  BY <1>1
<1> QED
  BY <1>2 DEF Elements

LEMMA ElementsAre ==
    ASSUME SizesOK, NEW e \in Elements
    PROVE  /\ e = <<e[1], e[2]>> /\ e[1] \in 1 .. Len(sizes) /\ e[2] \in 1 .. sizes[e[1]]
           /\ e[1] \in Nat /\ e[2] \in Nat
<1>1. e \in (1 .. Len(sizes)) \X (1 .. MaxSize) /\ e[2] <= sizes[e[1]]
  BY DEF Elements
<1>2. Len(sizes) \in Nat /\ MaxSize \in Nat /\ sizes[e[1]] \in Nat
  BY <1>1, BoundsAssumption DEF SizesOK
<1> QED
  BY <1>1, <1>2

(* the next element of the same container *)
LEMMA RankAfter ==
    ASSUME SizesOK, NEW x \in 1 .. Len(sizes), NEW p \in 1 .. sizes[x]
    PROVE  Rank(<<x, p + 1>>) = Rank(<<x, p>>) + 1
<1>1. x \in Nat /\ p \in Nat
  BY DEF SizesOK
<1>2. <<x, p>> \in Elements /\ <<x, p>> \notin Preds(<<x, p>>)
  BY <1>1, ElementIs DEF Preds, Before
<1>3. Preds(<<x, p + 1>>) = Preds(<<x, p>>) \cup {<<x, p>>}
  <2>1. ASSUME NEW e \in Elements
        PROVE  Before(e, <<x, p + 1>>) <=> Before(e, <<x, p>>) \/ e = <<x, p>>
    BY <1>1, <2>1, ElementsAre DEF Before
  <2> QED
    BY <1>2, <2>1 DEF Preds
<1>4. Cardinality(Preds(<<x, p + 1>>)) = Cardinality(Preds(<<x, p>>)) + 1
  BY <1>2, <1>3, RankIs, FS_AddElement
<1> QED
  BY <1>4, RankIs

(* the last element of a container is the last of those up to it *)
LEMMA RankOfLast ==
    ASSUME SizesOK, NEW x \in 1 .. Len(sizes), sizes[x] # 0
    PROVE  UpTo(x + 1) = Rank(<<x, sizes[x]>>) + 1
<1>1. x \in Nat /\ sizes[x] \in 1 .. sizes[x] /\ sizes[x] \in Nat
  BY DEF SizesOK
<1> DEFINE last == <<x, sizes[x]>>
<1>2. last \in Elements /\ last \notin Preds(last)
  BY <1>1, ElementIs DEF Preds, Before
<1>3. {e \in Elements : e[1] < x + 1} = Preds(last) \cup {last}
  <2>1. ASSUME NEW e \in Elements
        PROVE  e[1] < x + 1 <=> Before(e, last) \/ e = last
    <3>1. /\ e = <<e[1], e[2]>> /\ e[1] \in Nat /\ e[2] \in Nat
          /\ e[1] = x => e[2] <= sizes[x]
      BY ElementsAre
    <3> QED
      BY <1>1, <3>1 DEF Before
  <2> QED
    BY <1>2, <2>1 DEF Preds
<1>4. Cardinality(Preds(last) \cup {last}) = Cardinality(Preds(last)) + 1
  BY <1>2, RankIs, FS_AddElement
<1>5. UpTo(x + 1) = 1 + Cardinality(Preds(last) \cup {last})
  BY <1>3 DEF UpTo
<1>6. Rank(last) = 1 + Cardinality(Preds(last)) /\ Cardinality(Preds(last)) \in Nat
  BY RankIs
<1> QED
  BY <1>4, <1>5, <1>6

(* the first element after containers that have none *)
LEMMA RankOfFirst ==
    ASSUME SizesOK, NEW x \in 1 .. End, NEW y \in x .. Len(sizes),
           \A z \in x .. y - 1 : sizes[z] = 0
    PROVE  Rank(<<y, 1>>) = UpTo(x)
<1>1. x \in Nat /\ y \in Nat /\ x <= y /\ Len(sizes) \in Nat
  BY DEF SizesOK, End
<1>2. ASSUME NEW e \in Elements
      PROVE  e[1] < x <=> Before(e, <<y, 1>>)
  <2>1. /\ e[1] \in 1 .. Len(sizes) /\ e[2] \in 1 .. sizes[e[1]]
        /\ e[1] \in Nat /\ e[2] \in Nat
    BY ElementsAre
  <2>2. e[1] \notin x .. y - 1
    BY <2>1
  <2> QED
    BY <1>1, <2>1, <2>2 DEF Before
<1>3. {e \in Elements : e[1] < x} = Preds(<<y, 1>>)
  BY <1>2 DEF Preds
<1> QED
  BY <1>3, RankIs DEF UpTo

LEMMA NoneLeft ==
    ASSUME SizesOK, NEW x \in 1 .. End, \A z \in x .. Len(sizes) : sizes[z] = 0
    PROVE  UpTo(x) = Past
<1>1. x \in Nat /\ Len(sizes) \in Nat
  BY DEF SizesOK, End
<1>2. ASSUME NEW e \in Elements
      PROVE  e[1] < x
  <2>1. e[1] \in 1 .. Len(sizes) /\ e[2] \in 1 .. sizes[e[1]] /\ e[1] \in Nat
    BY ElementsAre
  <2>2. e[1] \notin x .. Len(sizes)
    BY <2>1
  <2> QED
    BY <1>1, <2>1, <2>2
<1>3. {e \in Elements : e[1] < x} = Elements
  BY <1>2
<1> QED
  BY <1>3 DEF UpTo, Past

LEMMA FirstIsOne == ASSUME SizesOK PROVE UpTo(1) = 1
<1>1. {e \in Elements : e[1] < 1} = {}
  <2>1. \A e \in Elements : e[1] \in 1 .. Len(sizes)
    BY ElementsAre
  <2> QED
    BY <2>1 DEF SizesOK
<1>2. Cardinality({}) = 0
  BY FS_EmptySet
<1> QED
  BY <1>1, <1>2 DEF UpTo

(* every element has a number before the end's, and those of a container    *)
(* have different ones                                                      *)
LEMMA RankBelow ==
    ASSUME SizesOK, NEW e \in Elements
    PROVE  Rank(e) \in 1 .. Past - 1
<1>1. e \notin Preds(e) /\ IsFiniteSet(Preds(e)) /\ Preds(e) \in SUBSET Elements
  <2>1. e[1] \in Nat /\ e[2] \in Nat
    BY ElementsAre
  <2>2. e \notin Preds(e)
    BY <2>1 DEF Preds, Before
  <2> QED
    BY <2>2, RankIs
<1>2. Preds(e) \cup {e} \in SUBSET Elements
  BY <1>1
<1>3. /\ Cardinality(Preds(e) \cup {e}) = Cardinality(Preds(e)) + 1
      /\ Cardinality(Preds(e) \cup {e}) <= Cardinality(Elements)
  BY <1>1, <1>2, FS_AddElement, FS_Subset, FinitelyMany
<1>4. Cardinality(Elements) \in Nat
  BY FinitelyMany
<1> QED
  BY <1>3, <1>4, RankIs DEF Past

LEMMA RankApart ==
    ASSUME SizesOK, NEW x \in 1 .. Len(sizes), NEW p \in 1 .. sizes[x], NEW q \in 1 .. sizes[x],
           Rank(<<x, p>>) = Rank(<<x, q>>)
    PROVE  p = q
<1>1. ASSUME NEW m \in 1 .. sizes[x], NEW n \in 1 .. sizes[x], m < n
      PROVE  Rank(<<x, m>>) # Rank(<<x, n>>)
  <2>1. x \in Nat /\ m \in Nat /\ n \in Nat /\ <<x, m>> \in Elements
    BY ElementIs DEF SizesOK
  <2>2. Preds(<<x, m>>) \in SUBSET Preds(<<x, n>>)
    <3>1. ASSUME NEW e \in Elements, Before(e, <<x, m>>)
          PROVE  Before(e, <<x, n>>)
      <4>1. e[1] \in Nat /\ e[2] \in Nat
        BY ElementsAre
      <4> QED
        BY <1>1, <2>1, <3>1, <4>1 DEF Before
    <3> QED
      BY <3>1 DEF Preds
  <2>3. <<x, m>> \in Preds(<<x, n>>) /\ <<x, m>> \notin Preds(<<x, m>>)
    BY <1>1, <2>1 DEF Preds, Before
  <2>4. Cardinality(Preds(<<x, m>>)) # Cardinality(Preds(<<x, n>>))
    BY <2>2, <2>3, RankIs, FS_Subset
  <2>5. /\ Cardinality(Preds(<<x, m>>)) \in Nat /\ Cardinality(Preds(<<x, n>>)) \in Nat
    BY RankIs, FinitelyMany
  <2> QED
    BY <2>4, <2>5, RankIs
<1>2. p \in Nat /\ q \in Nat
  BY DEF SizesOK
<1> QED
  BY <1>1, <1>2

----------------------------------------------------------------------------
(* Every Iterator that may be used has come to the number of its element,   *)
(* and one that is lost is not beyond the end.                              *)

Counts(it) ==
    /\ it.top \in 1 .. End /\ it.held \in 0 .. Len(sizes) /\ it.place \in 1 .. Past
    /\ it.sub = NoValue => it.place = Past
    /\ it.sub.of # Freed => it.place = Rank(<<it.top, it.sub.at>>)

AllCount(f) == \A j \in DOMAIN f : Counts(f[j])

(* next_sub_iterable passes containers without elements only *)
LEMMA NextSubCounts ==
    ASSUME SizesOK, NEW i \in Its, NEW it \in IterRec, it.top \in 1 .. End,
           it.held \in 0 .. Len(sizes), it.place = UpTo(it.top)
    PROVE  Counts(NextSub(i, it))
<1> DEFINE left == {x \in it.top .. Len(sizes) : sizes[x] # 0}
<1>1. Len(sizes) \in Nat /\ End = Len(sizes) + 1 /\ it.top \in Nat
  BY DEF SizesOK, End
<1>2. CASE left # {}
  <2>1. left \in SUBSET Nat
    BY <1>1
  <2> DEFINE to == Min(left)
  <2>2. to \in left /\ \A x \in left : to <= x
    BY <1>2, <2>1, Least
  <2>3. /\ to \in it.top .. Len(sizes) /\ to \in 1 .. Len(sizes)
        /\ sizes[to] # 0 /\ sizes[to] \in Nat /\ to \in Nat
    BY <1>1, <2>2 DEF SizesOK
  <2>4. \A z \in it.top .. to - 1 : sizes[z] = 0
    <3> TAKE z \in it.top .. to - 1
    <3>1. z \in it.top .. Len(sizes) /\ ~(to <= z)
      BY <1>1, <2>3
    <3> QED
      BY <2>2, <3>1
  <2>5. NextSub(i, it) = [it EXCEPT !.top = to, !.held = to,
                                    !.sub = In(i, 1), !.last = In(i, sizes[to] + 1)]
    BY <1>2 DEF NextSub
  <2> HIDE DEF to, left
  <2>6. /\ NextSub(i, it).top = to /\ NextSub(i, it).held = to
        /\ NextSub(i, it).sub = In(i, 1) /\ NextSub(i, it).place = it.place
    BY <2>5 DEF IterRec
  <2>7. it.place = Rank(<<to, 1>>)
    BY <2>3, <2>4, RankOfFirst
  <2>8. it.place \in 1 .. Past
    <3>1. <<to, 1>> \in Elements
      BY <2>3, ElementIs
    <3>2. Rank(<<to, 1>>) \in 1 .. Past - 1 /\ Past \in Nat
      BY <3>1, RankBelow, PastIsNat
    <3> QED
      BY <2>7, <3>2
  <2>9. In(i, 1).of = i /\ In(i, 1).at = 1 /\ i # Freed /\ In(i, 1) # NoValue
    BY FreedAssumption DEF In, NoValue
  <2> QED
    BY <1>1, <2>3, <2>6, <2>7, <2>8, <2>9 DEF Counts
<1>3. CASE left = {}
  <2>1. NextSub(i, it) = [it EXCEPT !.top = End,
                                    !.held = IF it.top = End THEN @ ELSE Len(sizes),
                                    !.sub = NoValue, !.last = NoValue]
    BY <1>3 DEF NextSub
  <2>2. \A z \in it.top .. Len(sizes) : sizes[z] = 0
    BY <1>3
  <2> HIDE DEF left
  <2>3. /\ NextSub(i, it).top = End /\ NextSub(i, it).sub = NoValue
        /\ NextSub(i, it).place = it.place /\ NextSub(i, it).held \in 0 .. Len(sizes)
    BY <1>1, <2>1 DEF IterRec
  <2>4. it.place = Past /\ Past \in Nat \ {0}
    <3>1. Cardinality(Elements) \in Nat
      BY FinitelyMany
    <3> QED
      BY <2>2, <3>1, NoneLeft DEF Past
  <2>5. NoValue.of = Freed
    BY DEF NoValue, In
  <2> QED
    BY <1>1, <2>3, <2>4, <2>5 DEF Counts
<1> QED
  BY <1>2, <1>3

(* a position that is lost leaves the place as it was *)
LEMMA WithoutCounts ==
    ASSUME NEW f, Held(f), AllCount(f), NEW i \in Its
    PROVE  AllCount(Without(f, i))
<1> DEFINE Off(p) == IF p.of = i THEN [p EXCEPT !.of = Freed] ELSE p
           w == Without(f, i)
<1>1. /\ DOMAIN w = DOMAIN f
      /\ \A j \in DOMAIN f : w[j] = [f[j] EXCEPT !.sub = Off(@), !.last = Off(@)]
  BY DEF Without
<1>2. ASSUME NEW j \in DOMAIN f
      PROVE  Counts(w[j])
  <2>1. f[j] \in IterRec /\ f[j].sub \in Positions /\ Counts(f[j]) /\ Stands(f, f[j])
    BY DEF Held, IterRec, AllCount
  <2>2. /\ Off(f[j].sub).of = IF f[j].sub.of = i THEN Freed ELSE f[j].sub.of
        /\ Off(f[j].sub).at = f[j].sub.at
        /\ f[j].sub.of # i => Off(f[j].sub) = f[j].sub
    BY <2>1 DEF Positions
  <2>3. w[j] = [f[j] EXCEPT !.sub = Off(@), !.last = Off(@)]
    BY <1>1
  <2> HIDE DEF w, Off
  <2>4. /\ w[j].top = f[j].top /\ w[j].held = f[j].held /\ w[j].place = f[j].place
        /\ w[j].sub = Off(f[j].sub)
    BY <2>1, <2>3 DEF IterRec
  <2>5. CASE f[j].sub.of # i
    BY <2>1, <2>2, <2>4, <2>5 DEF Counts
  <2>6. CASE f[j].sub.of = i
    <3>1. f[j].sub.at # 0
      BY <2>1, <2>6, FreedAssumption DEF Stands
    <3>2. w[j].sub.of = Freed /\ w[j].sub # NoValue
      BY <2>2, <2>4, <2>6, <3>1 DEF NoValue, In
    <3> QED
      BY <2>1, <2>4, <3>2 DEF Counts
  <2> QED
    BY <2>5, <2>6
<1> QED
  BY <1>1, <1>2 DEF AllCount

LEMMA PutCounts ==
    ASSUME NEW f, AllCount(f), NEW i, NEW it, Counts(it)
    PROVE  AllCount(Put(f, i, it))
BY DEF AllCount, Put

LEMMA WithinStepCounts ==
    ASSUME Inv, AllCount(iter), NEW i, AtElement(i), ~Leaves(i)
    PROVE  AllCount(WithinStep(i))
<1> DEFINE sub == In(iter[i].sub.of, iter[i].sub.at + 1)
           it == [iter[i] EXCEPT !.sub = sub, !.place = @ + 1]
           x == iter[i].top
           p == iter[i].sub.at
<1>1. /\ i \in DOMAIN iter /\ iter[i] \in IterRec /\ Counts(iter[i]) /\ SizesOK
      /\ iter[i].sub.of # Freed /\ x \in 1 .. Len(sizes) /\ p \in 1 .. sizes[x]
      /\ iter[i].last = In(iter[i].sub.of, sizes[x] + 1)
  BY AtElementStands DEF AllCount, Inv
<1>2. sizes[x] \in Nat /\ p \in Nat /\ p + 1 # sizes[x] + 1
  BY <1>1 DEF SizesOK, Leaves, In
<1>3. p + 1 \in 1 .. sizes[x]
  BY <1>1, <1>2
<1>4. iter[i].place + 1 = Rank(<<x, p + 1>>)
  <2>1. iter[i].place = Rank(<<x, p>>) /\ Rank(<<x, p>>) \in Nat
    BY <1>1, RankIs DEF Counts
  <2> QED
    BY <1>1, <2>1, RankAfter
<1>5. Rank(<<x, p + 1>>) \in 1 .. Past
  <2>1. <<x, p + 1>> \in Elements
    BY <1>1, <1>3, ElementIs
  <2>2. Rank(<<x, p + 1>>) \in 1 .. Past - 1 /\ Past \in Nat
    BY <1>1, <2>1, RankBelow, PastIsNat
  <2> QED
    BY <2>2
<1>6. sub.of = iter[i].sub.of /\ sub.at = p + 1
  BY DEF In
<1>7. sub # NoValue
  BY <1>1, <1>6 DEF NoValue, In
<1>8. WithinStep(i) = Put(iter, i, it)
  BY <1>1 DEF WithinStep, Put, Inv, Held
<1> HIDE DEF sub
<1>9. /\ it.top = x /\ it.held = iter[i].held /\ it.sub = sub /\ it.place = iter[i].place + 1
  BY <1>1 DEF IterRec
<1> HIDE DEF it
<1>10. Counts(it)
  BY <1>1, <1>4, <1>5, <1>6, <1>7, <1>9 DEF Counts
<1> QED
  BY <1>8, <1>10, PutCounts

LEMMA LeavingStepCounts ==
    ASSUME Inv, AllCount(iter), NEW i, AtElement(i), Leaves(i)
    PROVE  AllCount(LeavingStep(i))
<1> DEFINE next == [iter[i] EXCEPT !.top = @ + 1, !.place = @ + 1]
           rest == IF next.top = End THEN iter ELSE Without(iter, i)
           x == iter[i].top
           p == iter[i].sub.at
<1>1. /\ i \in DOMAIN iter /\ i \in Its /\ iter[i] \in IterRec /\ Counts(iter[i])
      /\ SizesOK /\ Held(iter)
      /\ iter[i].sub.of # Freed /\ x \in 1 .. Len(sizes) /\ p \in 1 .. sizes[x]
      /\ iter[i].last = In(iter[i].sub.of, sizes[x] + 1)
  BY AtElementStands DEF AllCount, Inv
<1>2. sizes[x] \in Nat /\ p \in Nat /\ p + 1 = sizes[x] + 1 /\ Len(sizes) \in Nat
  BY <1>1 DEF SizesOK, Leaves, In
<1>3. p = sizes[x] /\ sizes[x] # 0
  BY <1>1, <1>2
<1>4. iter[i].place + 1 = UpTo(x + 1)
  BY <1>1, <1>3, RankOfLast DEF Counts
<1>5. AllCount(rest) /\ DOMAIN rest = DOMAIN iter
  BY <1>1, WithoutCounts, WithoutHeld
<1>6. /\ next \in IterRec /\ next.top = x + 1 /\ next.held = iter[i].held
      /\ next.place = iter[i].place + 1
  <2>1. next \in IterRec /\ next.top = x + 1 /\ next.held = iter[i].held
    BY <1>1, MovedOn
  <2>2. next.place = iter[i].place + 1
    BY <1>1 DEF IterRec
  <2> QED
    BY <2>1, <2>2
<1>7. LeavingStep(i) = [rest EXCEPT ![i] = NextSub(i, next)]
  BY DEF LeavingStep
<1> HIDE DEF next, rest
<1>8. Counts(NextSub(i, next))
  <2>1. next.top \in 1 .. End
    BY <1>1, <1>2, <1>6 DEF End
  <2>2. next.held \in 0 .. Len(sizes)
    BY <1>1, <1>6 DEF Counts
  <2>3. next.place = UpTo(next.top)
    BY <1>4, <1>6
  <2> QED
    BY <1>1, <1>6, <2>1, <2>2, <2>3, NextSubCounts
<1> QED
  BY <1>1, <1>5, <1>7, <1>8 DEF AllCount

LEMMA SteppedCounts ==
    ASSUME Inv, AllCount(iter), NEW i, AtElement(i)
    PROVE  AllCount(Stepped(i))
BY WithinStepCounts, LeavingStepCounts DEF Stepped

LEMMA ConstructedCounts ==
    ASSUME Inv, AllCount(iter), NEW i \in Its, NEW top \in 1 .. End, NEW place \in Nat,
           place = UpTo(top)
    PROVE  AllCount(Put(iter, i, IteratorAt(i, top, place)))
<1> DEFINE it == [top |-> top, held |-> 0, sub |-> NoValue, last |-> NoValue, place |-> place]
<1>1. /\ it \in IterRec /\ it.top = top /\ it.place = place /\ it.held = 0
      /\ SizesOK /\ 0 \in 0 .. Len(sizes)
  BY DEF IterRec, Positions, NoValue, In, Inv, SizesOK, End
<1>2. IteratorAt(i, top, place) = NextSub(i, it)
  BY DEF IteratorAt
<1> HIDE DEF it
<1>3. Counts(NextSub(i, it))
  BY <1>1, NextSubCounts
<1> QED
  BY <1>2, <1>3, PutCounts

LEMMA PostIncrementCounts ==
    ASSUME Inv, AllCount(iter), NEW i \in Its, NEW j \in Its, PostIncrement(i, j)
    PROVE  AllCount(iter')
<1> DEFINE after == Stepped(i)
           copied == Put(after, j, iter[i])
<1>1. /\ AtElement(i) /\ j \notin DOMAIN iter /\ i \in DOMAIN iter /\ Held(iter)
      /\ iter' = IF Leaves(i) /\ iter[i].top + 1 # End
                 THEN Put(after, j, Without(copied, i)[j]) ELSE copied
  BY DEF PostIncrement, AtElement, CanUse, Inv
<1>2. AllCount(after) /\ Counts(iter[i])
  BY <1>1, SteppedCounts DEF AllCount
<1> HIDE DEF after
<1>3. Counts(Without(copied, i)[j])
  <2>1. Without(copied, i)[j] = Without(iter, i)[i]
    BY <1>1 DEF Without, Put
  <2>2. AllCount(Without(iter, i)) /\ i \in DOMAIN Without(iter, i)
    BY <1>1, WithoutCounts, WithoutHeld
  <2> QED
    BY <2>1, <2>2 DEF AllCount
<1>4. AllCount(Put(after, j, Without(copied, i)[j])) /\ AllCount(copied)
  BY <1>2, <1>3, PutCounts
<1> QED
  BY <1>1, <1>4

LEMMA DestroyCounts ==
    ASSUME Inv, AllCount(iter), NEW i \in Its, Destroy(i)
    PROVE  AllCount(iter')
<1>1. AllCount(Without(iter, i)) /\ DOMAIN Without(iter, i) = DOMAIN iter
  BY WithoutCounts, WithoutHeld DEF Inv
<1>2. DOMAIN iter' \in SUBSET DOMAIN iter /\ \A k \in DOMAIN iter' : iter'[k] = Without(iter, i)[k]
  BY DEF Destroy, Without, Drop
<1> QED
  BY <1>1, <1>2 DEF AllCount

LEMMA NextCounts ==
    ASSUME Inv, AllCount(iter), [Next]_vars
    PROVE  AllCount(iter)'
<1>1. sizes' = sizes
  BY DEF Next, Copy, Assign, PostIncrement, Begin, Finish, Deref, PreIncrement, Destroy, vars
<1>2. AllCount(iter')
  <2>1. iter' = iter => AllCount(iter')
    OBVIOUS
  <2>2. UNCHANGED vars => iter' = iter
    BY DEF vars
  <2>3. ASSUME NEW i \in Its, NEW j \in Its, Copy(i, j) PROVE AllCount(iter')
    BY <2>3, PutCounts DEF Copy, CanUse, AllCount
  <2>4. ASSUME NEW i \in Its, NEW j \in Its, Assign(i, j) PROVE AllCount(iter')
    <3>1. /\ i \in DOMAIN iter /\ j \in DOMAIN iter
          /\ iter' = [Without(iter, i) EXCEPT ![i] = Without(iter, i)[j]]
      BY <2>4 DEF Assign, CanUse
    <3>2. AllCount(Without(iter, i)) /\ DOMAIN Without(iter, i) = DOMAIN iter
      BY WithoutCounts, WithoutHeld DEF Inv
    <3> QED
      BY <3>1, <3>2 DEF AllCount
  <2>5. ASSUME NEW i \in Its, Begin(i) PROVE AllCount(iter')
    <3>1. 1 \in 1 .. End /\ UpTo(1) = 1
      BY FirstIsOne DEF Inv, SizesOK, End
    <3> QED
      BY <2>5, <3>1, ConstructedCounts DEF Begin
  <2>6. ASSUME NEW i \in Its, Finish(i) PROVE AllCount(iter')
    <3>1. End \in 1 .. End /\ UpTo(End) = Past /\ Past \in Nat
      <4>1. /\ End \in 1 .. End /\ SizesOK /\ Past \in Nat
            /\ \A z \in End .. Len(sizes) : sizes[z] = 0
        BY PastIsNat DEF Inv, SizesOK, End
      <4> QED
        BY <4>1, NoneLeft
    <3> QED
      BY <2>6, <3>1, ConstructedCounts DEF Finish
  <2>7. ASSUME NEW i \in Its, Deref(i) PROVE iter' = iter
    BY <2>7 DEF Deref
  <2>8. ASSUME NEW i \in Its, PreIncrement(i) PROVE AllCount(iter')
    BY <2>8, SteppedCounts DEF PreIncrement
  <2>9. CASE \E i, j \in Its : Copy(i, j) \/ Assign(i, j) \/ PostIncrement(i, j)
    BY <2>3, <2>4, <2>9, PostIncrementCounts
  <2>10. CASE \E i \in Its : Begin(i) \/ Finish(i) \/ Deref(i) \/ PreIncrement(i) \/ Destroy(i)
    BY <2>1, <2>5, <2>6, <2>7, <2>8, <2>10, DestroyCounts
  <2> QED
    BY <2>1, <2>2, <2>9, <2>10 DEF Next
<1>3. Elements' = Elements /\ End' = End
  BY <1>1 DEF Elements, End
<1>4. Past' = Past /\ \A e : Rank(e)' = Rank(e)
  BY <1>3 DEF Past, Rank
<1> QED
  BY <1>1, <1>2, <1>3, <1>4 DEF AllCount, Counts

LEMMA CountsAlways == Spec => [](Inv /\ AllCount(iter))
<1>1. Init => AllCount(iter)
  BY DEF Init, AllCount
<1>2. Inv /\ AllCount(iter) /\ [Next]_vars => AllCount(iter)'
  BY NextCounts
<1> QED
  BY <1>1, <1>2, InvAlways, PTL DEF Spec

(* The position of an Iterator, lost or not, is an Iterator's that exists,   *)
(* and none is beyond the end, whatever containers are empty.               *)
THEOREM TypeCorrect == Spec => []TypeOK
<1>1. Inv /\ AllCount(iter) => TypeOK
  <2> SUFFICES ASSUME Inv, AllCount(iter) PROVE TypeOK
    OBVIOUS
  <2>1. DOMAIN iter \subseteq Its
    BY DEF Inv, Held
  <2>2. \A i \in DOMAIN iter : Counts(iter[i]) /\ Stands(iter, iter[i])
    BY DEF Inv, Held, AllCount
  <2> QED
    BY <2>1, <2>2 DEF TypeOK, Counts, Stands
<1> QED
  BY <1>1, CountsAlways, PTL

(* The elements come in the order of the containers, each once, with the     *)
(* containers that have none passed over; and Iterators in the same          *)
(* container, or at the end, are equal when they are at the same element     *)
(* and only then.                                                           *)
THEOREM AllInOrder == Spec => []YieldsAllInOrder
<1>1. Inv /\ AllCount(iter) => YieldsAllInOrder
  <2> SUFFICES ASSUME Inv, AllCount(iter), NEW i \in DOMAIN iter, CanUse(i)
               PROVE  /\ iter[i].top # End =>
                            iter[i].place = Rank(<<iter[i].top, iter[i].sub.at>>)
                      /\ \A j \in DOMAIN iter :
                            CanUse(j) /\ (iter[j].place = Past \/ iter[j].sub.of = iter[i].sub.of) =>
                                (Equal(i, j) <=> iter[i].place = iter[j].place)
    BY DEF YieldsAllInOrder
  (* an Iterator that may be used is at an element or at the end *)
  <2>1. ASSUME NEW k \in DOMAIN iter, CanUse(k)
        PROVE  \/ /\ iter[k].sub = NoValue /\ iter[k].sub.of = Freed
                  /\ iter[k].top = End /\ iter[k].place = Past
               \/ /\ iter[k].sub.of # Freed /\ iter[k].sub # NoValue
                  /\ iter[k].top \in 1 .. Len(sizes) /\ iter[k].top # End
                  /\ iter[k].sub.at \in 1 .. sizes[iter[k].top]
                  /\ iter[iter[k].sub.of].held = iter[k].top
                  /\ iter[k].place = Rank(<<iter[k].top, iter[k].sub.at>>)
                  /\ iter[k].place < Past
    <3>1. Counts(iter[k]) /\ Stands(iter, iter[k]) /\ SizesOK
      BY DEF Inv, Held, AllCount
    <3>2. NoValue.of = Freed /\ NoValue.at = 0
      BY DEF NoValue, In
    <3>3. CASE iter[k].sub.of = Freed
      <4>1. iter[k].sub = NoValue
        BY <2>1, <3>3 DEF CanUse, Lost
      <4> QED
        BY <3>1, <3>2, <4>1 DEF Counts, Stands
    <3>4. CASE iter[k].sub.of # Freed
      <4>1. /\ iter[k].top \in 1 .. Len(sizes) /\ iter[k].sub.at \in 1 .. sizes[iter[k].top]
            /\ iter[iter[k].sub.of].held = iter[k].top
            /\ iter[k].place = Rank(<<iter[k].top, iter[k].sub.at>>)
        BY <3>1, <3>4 DEF Counts, Stands
      <4>2. iter[k].top # End
        BY <3>1, <4>1 DEF End, SizesOK
      <4>3. iter[k].place < Past
        <5>1. <<iter[k].top, iter[k].sub.at>> \in Elements
          BY <3>1, <4>1, ElementIs
        <5>2. iter[k].place \in 1 .. Past - 1 /\ Past \in Nat
          BY <3>1, <4>1, <5>1, RankBelow, PastIsNat
        <5> QED
          BY <5>2
      <4> QED
        BY <3>2, <3>4, <4>1, <4>2, <4>3
    <3> QED
      BY <3>3, <3>4
  <2>2. iter[i].top # End => iter[i].place = Rank(<<iter[i].top, iter[i].sub.at>>)
    BY <2>1
  <2>3. ASSUME NEW j \in DOMAIN iter, CanUse(j),
               iter[j].place = Past \/ iter[j].sub.of = iter[i].sub.of
        PROVE  Equal(i, j) <=> iter[i].place = iter[j].place
    <3>1. Past \in Nat /\ SizesOK /\ iter[i].place \in Nat /\ iter[j].place \in Nat
      <4>1. SizesOK /\ Past \in Nat /\ Counts(iter[i]) /\ Counts(iter[j])
        BY PastIsNat DEF Inv, AllCount
      <4> QED
        BY <4>1 DEF Counts
    <3>2. CASE iter[j].top = End
      <4>1. iter[j].sub = NoValue /\ iter[j].sub.of = Freed /\ iter[j].place = Past
        BY <2>1, <2>3, <3>2
      <4>2. CASE iter[i].top = End
        <5>1. iter[i].sub = NoValue /\ iter[i].place = Past
          BY <2>1, <4>2
        <5> QED
          BY <3>2, <4>1, <4>2, <5>1 DEF Equal
      <4>3. CASE iter[i].top # End
        <5>1. iter[i].place < Past
          BY <2>1, <4>3
        <5> QED
          BY <3>1, <3>2, <4>1, <4>3, <5>1 DEF Equal
      <4> QED
        BY <4>2, <4>3
    <3>3. CASE iter[j].top # End
      <4>0. iter[j].place < Past /\ iter[j].sub.of # Freed
        BY <2>1, <2>3, <3>3
      <4>1. iter[j].place < Past /\ iter[j].sub.of = iter[i].sub.of /\ iter[i].sub.of # Freed
        BY <2>3, <3>1, <4>0
      <4>2. /\ iter[i].top = iter[j].top
            /\ iter[i].top \in 1 .. Len(sizes)
            /\ iter[i].sub.at \in 1 .. sizes[iter[i].top]
            /\ iter[j].sub.at \in 1 .. sizes[iter[i].top]
            /\ iter[i].place = Rank(<<iter[i].top, iter[i].sub.at>>)
            /\ iter[j].place = Rank(<<iter[i].top, iter[j].sub.at>>)
        BY <2>1, <2>3, <3>3, <4>1
      <4>3. iter[i].place = iter[j].place <=> iter[i].sub.at = iter[j].sub.at
        BY <3>1, <4>2, RankApart
      <4>4. iter[i].sub.at = iter[j].sub.at <=> iter[i].sub = iter[j].sub
        <5>1. iter[i].sub \in Positions /\ iter[j].sub \in Positions
          BY DEF Inv, Held, IterRec
        <5> QED
          BY <4>1, <5>1 DEF Positions
      <4> QED
        BY <4>2, <4>3, <4>4 DEF Equal
    <3> QED
      BY <3>2, <3>3
  <2> QED
    BY <2>2, <2>3
<1> QED
  BY <1>1, CountsAlways, PTL

============================================================================
