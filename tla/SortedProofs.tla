---------------------------- MODULE SortedProofs ----------------------------
(***************************************************************************)
(* For containers of any length and any number of views, vectors and       *)
(* iterators: every vector is one view's and stays as it is under the       *)
(* iterators that go through it, and if nothing throws it has each element  *)
(* of the view's container once, in the order that was asked for.           *)
(***************************************************************************)
EXTENDS Sorted, FiniteSetTheorems, WellFoundedInduction, TLAPS

Comparators == {"less", "greater"}
CellRec == [in : Stores, at : Nat]
VectorNames == Vectors \cup {NoVector}
ViewRec ==
    [container : Stores, owner : {"client", "view", "moved"},
     compare : Comparators, asked : Comparators,
     sorted_iters : VectorNames, const_sorted_iters : VectorNames]

StoresOK ==
    /\ DOMAIN store \subseteq Stores /\ Client \in DOMAIN store
    /\ \A s \in DOMAIN store : store[s] \in Seq(Values)

(* a partial, and every view, compares as it was asked to *)
AsksWhatWasAsked ==
    /\ partial # << >> => partial.stored = partial.bound /\ partial.bound \in Comparators
    /\ \A v \in DOMAIN view : view[v].compare = view[v].asked

ViewsOK ==
    /\ DOMAIN view \subseteq Views
    /\ \A v \in DOMAIN view : view[v] \in ViewRec

(* whose container a view refers to *)
Owned(v) == view[v].owner = "view"
Owners ==
    \A v \in DOMAIN view :
        /\ view[v].owner = "client" => view[v].container = Client
        /\ Owned(v) => view[v].container \in DOMAIN store \ {Client}
        /\ \A w \in DOMAIN view :
              Owned(v) /\ Owned(w) /\ v # w => view[v].container # view[w].container

(* each vector is one of one view's two *)
VectorsApart ==
    /\ DOMAIN cells = UNION {Filled(v) : v \in DOMAIN view}
    /\ \A v \in DOMAIN view :
          /\ view[v].owner = "moved" => Filled(v) = {}
          /\ \A kind \in Kinds, w \in DOMAIN view, other \in Kinds :
                view[v][kind] = view[w][other] /\ view[v][kind] # NoVector => v = w /\ kind = other
    /\ \A b \in DOMAIN cells : cells[b] \in Seq(CellRec)

ItersOK ==
    \A i \in DOMAIN iter :
        /\ iter[i] \in [vector : VectorNames, at : Nat]
        /\ IF iter[i].vector = NoVector THEN iter[i].at = 1
           ELSE iter[i].vector \in DOMAIN cells /\ iter[i].at \in 1 .. Len(cells[iter[i].vector]) + 1

Core == StoresOK /\ AsksWhatWasAsked /\ ViewsOK /\ Owners /\ VectorsApart /\ ItersOK

(* the cells of a view's vectors are its container's, in an order that its  *)
(* comparator allows                                                        *)
InOrder ==
    \A v \in DOMAIN view : \A b \in Filled(v) :
        cells[b] \in Orders(view[v].container, store[view[v].container], view[v].compare)

----------------------------------------------------------------------------
(* Names and orders *)

(* a set of natural numbers has a least one *)
LEMMA Least ==
    ASSUME NEW R \in SUBSET Nat, R # {}
    PROVE  Min(R) \in R /\ \A u \in R : Min(R) <= u
<1> DEFINE Less == {ss \in Nat \X Nat : ss[1] < ss[2]}
<1>1. IsWellFoundedOn(Less, Nat)
  BY NatLessThanWellFounded DEF OpToRel
<1>2. \A u, v \in Nat : u < v => <<u, v>> \in Less
  OBVIOUS
<1> HIDE DEF Less
<1>3. PICK v \in R : \A u \in R : ~(<<u, v>> \in Less)
  BY <1>1, WFMin
<1>4. \A u \in R : v <= u
  <2> TAKE u \in R
  <2>1. u \in Nat /\ v \in Nat /\ ~(u < v)
    BY <1>2, <1>3
  <2> QED
    BY <2>1
<1> QED
  BY <1>4 DEF Min

LEMMA FreeIsNew ==
    ASSUME NEW names \in SUBSET Nat, NEW f, NEW b \in Free(names, f)
    PROVE  b \in names /\ b \notin DOMAIN f
<1>1. ~(names \subseteq DOMAIN f) /\ b = Min(names \ DOMAIN f)
  BY DEF Free
<1>2. names \ DOMAIN f \in SUBSET Nat /\ names \ DOMAIN f # {}
  BY <1>1
<1> QED
  BY <1>1, <1>2, Least

(* std::sort moves cells about and loses none *)
LEMMA OrderHasEach ==
    ASSUME NEW s \in Stores, NEW elems \in Seq(Values), NEW compare,
           NEW order \in Orders(s, elems, compare)
    PROVE  /\ order \in Seq(CellRec) /\ Len(order) = Len(elems)
           /\ {order[k] : k \in DOMAIN order} = {[in |-> s, at |-> p] : p \in DOMAIN elems}
<1> DEFINE n == Len(elems)
<1>1. PICK g \in [1 .. n -> 1 .. n] :
         /\ \A k, m \in 1 .. n : g[k] = g[m] => k = m
         /\ order = [k \in 1 .. n |-> [in |-> s, at |-> g[k]]]
  BY DEF Orders
<1>2. n \in Nat
  OBVIOUS
<1> HIDE DEF n
<1>3. IsFiniteSet(1 .. n)
  BY <1>2, FS_Interval
<1>a. \A k, m \in 1 .. n : g[k] = g[m] => k = m
  BY <1>1
<1>b. g \in Injection(1 .. n, 1 .. n)
  BY <1>1, <1>a DEF Injection, IsInjective
<1>4. g \in Surjection(1 .. n, 1 .. n)
  BY <1>3, <1>b, FS_Injection
<1>5. \A p \in 1 .. n : \E k \in 1 .. n : g[k] = p
  BY <1>4 DEF Surjection
<1>6. DOMAIN elems = 1 .. n
  BY DEF n
<1>7. order \in Seq(CellRec) /\ Len(order) = n /\ DOMAIN order = 1 .. n
  BY <1>1, <1>2 DEF CellRec
<1>8. {order[k] : k \in DOMAIN order} = {[in |-> s, at |-> g[k]] : k \in 1 .. n}
  BY <1>1, <1>7
<1>9. {[in |-> s, at |-> g[k]] : k \in 1 .. n} = {[in |-> s, at |-> p] : p \in 1 .. n}
  <2>1. \A k \in 1 .. n : g[k] \in 1 .. n
    BY <1>1
  <2> DEFINE Cell(p) == [in |-> s, at |-> p]
  <2> HIDE DEF Cell
  <2>2. {Cell(g[k]) : k \in 1 .. n} = {Cell(p) : p \in 1 .. n}
    BY <1>5, <2>1
  <2> QED
    BY <2>2 DEF Cell
<1> QED
  BY <1>6, <1>7, <1>8, <1>9 DEF n

(* neighbours in order are enough, since both comparators are transitive    *)
LEMMA OrderIsSorted ==
    ASSUME Values \subseteq Int, NEW s, NEW elems \in Seq(Values), NEW compare \in Comparators,
           NEW order \in Orders(s, elems, compare),
           NEW k \in DOMAIN order, NEW m \in DOMAIN order, k < m
    PROVE  /\ order[k].in = s /\ order[m].in = s
           /\ ~Before(compare, elems[order[m].at], elems[order[k].at])
<1> DEFINE n == Len(elems)
<1>1. PICK g \in [1 .. n -> 1 .. n] :
         /\ \A x \in 1 .. n - 1 : ~Before(compare, elems[g[x + 1]], elems[g[x]])
         /\ order = [x \in 1 .. n |-> [in |-> s, at |-> g[x]]]
  BY DEF Orders
<1>a. n \in Nat /\ \A x \in 1 .. n : elems[x] \in Values
  OBVIOUS
<1> HIDE DEF n
<1>b. DOMAIN order = 1 .. n
  BY <1>1
<1>2. n \in Nat /\ k \in 1 .. n /\ m \in 1 .. n /\ \A x \in 1 .. n : elems[x] \in Int
  BY <1>a, <1>b
<1>3. \A x \in 1 .. n : order[x].in = s /\ order[x].at = g[x]
  BY <1>1
<1> DEFINE x(y) == elems[g[y]]
           Worse == {y \in k .. n : Before(compare, x(y), x(k))}
<1>4. \A y \in 1 .. n : x(y) \in Int
  BY <1>1, <1>2
<1>5. \A y \in k .. n : y \in 1 .. n /\ (y + 1 \in k .. n => y \in 1 .. n - 1)
  BY <1>2
<1>6. \A y \in k .. n : y + 1 \in k .. n => ~Before(compare, x(y + 1), x(y))
  BY <1>1, <1>5
<1> HIDE DEF x
<1>7. Worse = {}
  <2> SUFFICES ASSUME Worse # {} PROVE FALSE
    OBVIOUS
  <2>1. Worse \in SUBSET Nat
    BY <1>2
  <2> DEFINE w == Min(Worse)
  <2>2. w \in Worse /\ \A u \in Worse : w <= u
    BY <2>1, Least
  <2> HIDE DEF w
  <2>3. w \in k .. n /\ Before(compare, x(w), x(k)) /\ w # k
    BY <1>2, <1>4, <2>2 DEF Before
  <2>7. k \in Int /\ n \in Int /\ w \in Int
    BY <1>2, <2>3
  <2>8. PICK u \in Int : u = w - 1
    BY <2>7
  <2>9. u \in k .. n /\ u + 1 = w /\ ~(w <= u)
    BY <2>3, <2>7, <2>8
  <2>4. u \notin Worse
    BY <2>2, <2>9
  <2>10. ~Before(compare, x(u), x(k))
    BY <2>4, <2>9
  <2>5. ~Before(compare, x(w), x(u)) /\ ~Before(compare, x(u), x(k))
    BY <1>6, <2>3, <2>9, <2>10
  <2>6. x(w) \in Int /\ x(u) \in Int /\ x(k) \in Int
    BY <1>2, <1>4, <1>5, <2>3, <2>9
  <2> QED
    BY <2>3, <2>5, <2>6 DEF Before, Comparators
<1>8. m \in k .. n
  BY <1>2
<1>9. ~Before(compare, x(m), x(k))
  BY <1>7, <1>8
<1> QED
  BY <1>2, <1>3, <1>9 DEF x

----------------------------------------------------------------------------
(* A vector is filled *)

OtherKind(kind) == IF kind = "sorted_iters" THEN "const_sorted_iters" ELSE "sorted_iters"

(* rec's vector kind was empty, and is b now in r *)
NamedIn(r, rec, kind, b) ==
    /\ rec[kind] = NoVector /\ r[kind] = b /\ r[OtherKind(kind)] = rec[OtherKind(kind)]
    /\ r.container = rec.container /\ r.owner = rec.owner
    /\ r.compare = rec.compare /\ r.asked = rec.asked

(* populate_sorted_iters leaves a filled vector and that of an empty        *)
(* container alone; else it fills it under a name that no other has          *)
LEMMA PopulatedCases ==
    ASSUME NEW rec \in ViewRec, NEW kind \in Kinds, NEW elems \in Seq(Values),
           NEW made \in Populated(rec, kind, elems)
    PROVE  \/ /\ made.view = rec /\ made.cells = cells
              /\ rec[kind] # NoVector \/ elems = << >>
           \/ \E b \in Vectors \ DOMAIN cells, order \in Seq(CellRec) :
                 /\ made.view \in ViewRec /\ NamedIn(made.view, rec, kind, b)
                 /\ made.cells = Put(cells, b, order)
                 /\ ~Throwing => order \in Orders(rec.container, elems, rec.compare)
<1> DEFINE n == Len(elems)
           Pushed(k) == [m \in 1 .. k |-> [in |-> rec.container, at |-> m]]
<1>1. CASE rec[kind] # NoVector \/ elems = << >>
  <2>1. made = Unfilled(rec)
    BY <1>1 DEF Populated
  <2> QED
    BY <1>1, <2>1 DEF Unfilled
<1>2. CASE ~(rec[kind] # NoVector \/ elems = << >>)
  <2>1. PICK b \in Free(Vectors, cells) :
           \/ \E order \in Orders(rec.container, elems, rec.compare) :
                 made = Filling(rec, kind, b, order, FALSE)
           \/ \E k \in 1 .. IF Throwing THEN n ELSE 0 : made = Filling(rec, kind, b, Pushed(k), TRUE)
    BY <1>2 DEF Populated
  <2>2. b \in Vectors \ DOMAIN cells /\ b \in VectorNames
    BY VectorsAssumption, FreeIsNew DEF VectorNames
  <2>3. /\ [rec EXCEPT ![kind] = b] \in ViewRec
        /\ NamedIn([rec EXCEPT ![kind] = b], rec, kind, b)
    BY <1>2, <2>2 DEF ViewRec, NamedIn, OtherKind, Kinds
  <2>4. CASE \E order \in Orders(rec.container, elems, rec.compare) :
                made = Filling(rec, kind, b, order, FALSE)
    <3>1. PICK order \in Orders(rec.container, elems, rec.compare) :
             made = Filling(rec, kind, b, order, FALSE)
      BY <2>4
    <3>2. order \in Seq(CellRec)
      BY OrderHasEach DEF ViewRec
    <3>3. made.view = [rec EXCEPT ![kind] = b] /\ made.cells = Put(cells, b, order)
      BY <3>1 DEF Filling
    <3> QED
      BY <2>2, <2>3, <3>1, <3>2, <3>3
  <2>5. CASE \E k \in 1 .. IF Throwing THEN n ELSE 0 : made = Filling(rec, kind, b, Pushed(k), TRUE)
    <3>1. PICK k \in 1 .. IF Throwing THEN n ELSE 0 : made = Filling(rec, kind, b, Pushed(k), TRUE)
      BY <2>5
    <3>2. k \in Nat /\ Throwing
      BY <3>1
    <3>3. Pushed(k) \in Seq(CellRec)
      BY <3>2 DEF CellRec, ViewRec
    <3>4. made.view = [rec EXCEPT ![kind] = b] /\ made.cells = Put(cells, b, Pushed(k))
      BY <3>1 DEF Filling
    <3> HIDE DEF Pushed
    <3> QED
      BY <2>2, <2>3, <3>2, <3>3, <3>4
  <2> QED
    BY <2>1, <2>4, <2>5
<1> QED
  BY <1>1, <1>2

(* the vector that v has, if there is a v yet *)
Had(v, kind) == IF v \in DOMAIN view THEN view[v][kind] ELSE NoVector

(* a step in which v, which is there or is made now, becomes r *)
PlacedAs(v, r) ==
    /\ view' = Put(view, v, r) /\ r.owner # "moved" /\ r.compare = r.asked
    /\ \/ /\ v \in DOMAIN view /\ store' = store
          /\ r.container = view[v].container /\ r.owner = view[v].owner
          /\ r.compare = view[v].compare
       \/ /\ v \notin DOMAIN view /\ store' = store
          /\ r.container = Client /\ r.owner = "client"
       \/ /\ v \notin DOMAIN view /\ store' = Put(store, r.container, store[Client])
          /\ r.container \in Stores \ DOMAIN store /\ r.owner = "view"

(* and in which nothing is filled, or its vector kind is *)
FilledAs(v, r, kind) ==
    \/ cells' = cells /\ \A k \in Kinds : r[k] = Had(v, k)
    \/ \E b \in Vectors \ DOMAIN cells, order \in Seq(CellRec) :
          /\ cells' = Put(cells, b, order) /\ Had(v, kind) = NoVector /\ r[kind] = b
          /\ r[OtherKind(kind)] = Had(v, OtherKind(kind))
          /\ ~Throwing => order \in Orders(r.container, store'[r.container], r.compare)

LEMMA PlacedStores ==
    ASSUME NEW v \in Views, NEW r \in ViewRec, Core, PlacedAs(v, r)
    PROVE  /\ StoresOK' /\ ViewsOK' /\ Owners'
           /\ \A w \in DOMAIN view' : view'[w].compare = view'[w].asked
<1> USE DEF PlacedAs
<1>1. /\ DOMAIN view' = DOMAIN view \cup {v} /\ view'[v] = r
      /\ \A w \in DOMAIN view : w # v => view'[w] = view[w]
  BY DEF Put
<1>2. StoresOK'
  BY DEF Core, StoresOK, Put
<1>3. ViewsOK'
  BY <1>1 DEF Core, ViewsOK
<1>4. DOMAIN store \subseteq DOMAIN store' /\ Client \in DOMAIN store
  BY DEF Core, StoresOK, Put
<1>5. r.owner = "client" => r.container = Client
  BY DEF Core, Owners
<1>6. r.owner = "view" => r.container \in DOMAIN store' \ {Client}
  BY <1>4 DEF Core, Owners, Owned, Put
<1>7. ASSUME NEW w \in DOMAIN view, w # v, view[w].owner = "view", r.owner = "view"
      PROVE  view[w].container # r.container
  BY <1>7 DEF Core, Owners, Owned
<1>8. Owners'
  BY <1>1, <1>4, <1>5, <1>6, <1>7 DEF Core, Owners, Owned
<1> QED
  BY <1>1, <1>2, <1>3, <1>8 DEF Core, AsksWhatWasAsked

LEMMA PlacedVectors ==
    ASSUME NEW v \in Views, NEW r \in ViewRec, Core, NEW kind \in Kinds,
           PlacedAs(v, r), FilledAs(v, r, kind)
    PROVE  VectorsApart'
<1> USE DEF PlacedAs, FilledAs
<1>1. /\ DOMAIN view' = DOMAIN view \cup {v} /\ view'[v] = r
      /\ \A w \in DOMAIN view : w # v => view'[w] = view[w]
  BY DEF Put
<1>2. \A w \in DOMAIN view, k \in Kinds : view[w][k] # NoVector => view[w][k] \in DOMAIN cells
  BY DEF Core, VectorsApart, Filled
<1>3. \A b \in DOMAIN cells : \E w \in DOMAIN view, k \in Kinds :
         b = view[w][k] /\ b # NoVector
  BY DEF Core, VectorsApart, Filled
<1>4. \A k, w, m : k \in Kinds /\ w \in DOMAIN view /\ m \in Kinds /\ w # v /\ r[k] # NoVector
                     => r[k] # view[w][m]
  <2> TAKE k, w, m
  <2> HAVE k \in Kinds /\ w \in DOMAIN view /\ m \in Kinds /\ w # v /\ r[k] # NoVector
  <2>1. CASE r[k] = Had(v, k)
    BY <2>1 DEF Core, VectorsApart, Had
  <2>2. CASE r[k] \notin DOMAIN cells
    BY <1>2, <2>2
  <2>3. r[k] = Had(v, k) \/ r[k] \notin DOMAIN cells
    BY DEF OtherKind, Kinds
  <2> QED
    BY <2>1, <2>2, <2>3
<1>5. \A k, m \in Kinds : r[k] = r[m] /\ r[k] # NoVector => k = m
  <2>1. \A k, m \in Kinds : Had(v, k) = Had(v, m) /\ Had(v, k) # NoVector => k = m
    BY DEF Core, VectorsApart, Had
  <2>2. \A k \in Kinds : Had(v, k) # NoVector => Had(v, k) \in DOMAIN cells
    BY <1>2 DEF Had
  <2> QED
    BY <2>1, <2>2 DEF OtherKind, Kinds
<1>6. \A w \in DOMAIN view', k \in Kinds, x \in DOMAIN view', m \in Kinds :
         view'[w][k] = view'[x][m] /\ view'[w][k] # NoVector => w = x /\ k = m
  BY <1>1, <1>4, <1>5 DEF Core, VectorsApart
<1>7. \A b \in DOMAIN cells' : cells'[b] \in Seq(CellRec)
  BY DEF Core, VectorsApart, Put
<1>8. \A b : b \in DOMAIN cells' <=>
                \E w \in DOMAIN view', k \in Kinds : b = view'[w][k] /\ b # NoVector
  <2> TAKE b
  <2>1. \A w \in DOMAIN view', k \in Kinds : view'[w][k] # NoVector => view'[w][k] \in DOMAIN cells'
    <3>2. DOMAIN cells \subseteq DOMAIN cells'
      BY DEF Put
    <3>1. ASSUME NEW k \in Kinds, r[k] # NoVector
          PROVE  r[k] \in DOMAIN cells'
      <4>1. r[k] = Had(v, k) => r[k] \in DOMAIN cells
        BY <1>2, <3>1 DEF Had
      <4>2. r[k] = Had(v, k) \/ r[k] \in DOMAIN cells'
        <5>1. CASE \E c \in Vectors \ DOMAIN cells, order \in Seq(CellRec) :
                      /\ cells' = Put(cells, c, order) /\ r[kind] = c
                      /\ r[OtherKind(kind)] = Had(v, OtherKind(kind))
          <6>1. r[kind] \in DOMAIN cells' /\ r[OtherKind(kind)] = Had(v, OtherKind(kind))
            BY <5>1 DEF Put
          <6>2. k = kind \/ k = OtherKind(kind)
            BY DEF OtherKind, Kinds
          <6> QED
            BY <6>1, <6>2
        <5> QED
          BY <5>1
      <4> QED
        BY <3>2, <4>1, <4>2
    <3> QED
      BY <1>1, <1>2, <3>1, <3>2
  <2>2. ASSUME b \in DOMAIN cells'
        PROVE  \E w \in DOMAIN view', k \in Kinds : b = view'[w][k] /\ b # NoVector
    <3>1. CASE b \in DOMAIN cells
      <4>1. PICK w \in DOMAIN view, k \in Kinds : b = view[w][k] /\ b # NoVector
        BY <1>3, <3>1
      <4>2. w = v => Had(v, k) = b /\ r[k] = b
        BY <4>1 DEF Had, OtherKind, Kinds
      <4> QED
        BY <1>1, <4>1, <4>2
    <3>2. CASE b \notin DOMAIN cells
      <4>1. r[kind] = b /\ b \in Vectors
        <5>1. PICK c \in Vectors \ DOMAIN cells, order \in Seq(CellRec) :
                 cells' = Put(cells, c, order) /\ r[kind] = c
          BY <2>2, <3>2
        <5>2. DOMAIN cells' = DOMAIN cells \cup {c}
          BY <5>1 DEF Put
        <5> QED
          BY <2>2, <3>2, <5>1, <5>2
      <4>2. b # NoVector
        BY <4>1, VectorsAssumption DEF NoVector
      <4> QED
        BY <1>1, <4>1, <4>2
    <3> QED
      BY <3>1, <3>2
  <2> QED
    BY <2>1, <2>2
<1>9. DOMAIN cells' = UNION {{view'[w][k] : k \in Kinds} \ {NoVector} : w \in DOMAIN view'}
  <2> DEFINE Named(w) == {view'[w][k] : k \in Kinds} \ {NoVector}
  <2>1. \A b, w : b \in Named(w) <=> \E k \in Kinds : b = view'[w][k] /\ b # NoVector
    OBVIOUS
  <2>2. \A b : b \in DOMAIN cells' <=> \E w \in DOMAIN view' : b \in Named(w)
    BY <1>8, <2>1
  <2> HIDE DEF Named
  <2>3. DOMAIN cells' = UNION {Named(w) : w \in DOMAIN view'}
    BY <2>2
  <2> QED
    BY <2>3 DEF Named
<1>10. ASSUME NEW w \in DOMAIN view', view'[w].owner = "moved"
       PROVE  {view'[w][k] : k \in Kinds} \ {NoVector} = {}
  <2>1. w \in DOMAIN view /\ view'[w] = view[w]
    BY <1>1, <1>10
  <2>2. {view[w][k] : k \in Kinds} \ {NoVector} = {}
    BY <1>10, <2>1 DEF Core, VectorsApart, Filled
  <2> QED
    BY <2>1, <2>2
<1> QED
  BY <1>6, <1>7, <1>9, <1>10 DEF VectorsApart, Filled

(* no iterator notices *)
LEMMA PlacedCells ==
    ASSUME NEW v \in Views, NEW r \in ViewRec, NEW kind \in Kinds, FilledAs(v, r, kind)
    PROVE  /\ DOMAIN cells \subseteq DOMAIN cells'
           /\ \A b \in DOMAIN cells : cells'[b] = cells[b]
<1>1. CASE cells' = cells
  BY <1>1
<1>2. CASE \E b \in Vectors \ DOMAIN cells, order \in Seq(CellRec) : cells' = Put(cells, b, order)
  BY <1>2 DEF Put
<1> QED
  BY <1>1, <1>2 DEF FilledAs

LEMMA PlacedInOrder ==
    ASSUME NEW v \in Views, NEW r \in ViewRec, Core, InOrder, ~Throwing, NEW kind \in Kinds,
           PlacedAs(v, r), FilledAs(v, r, kind)
    PROVE  InOrder'
<1>1. /\ DOMAIN view' = DOMAIN view \cup {v} /\ view'[v] = r
      /\ \A w \in DOMAIN view : w # v => view'[w] = view[w]
  BY DEF PlacedAs, Put
<1>2. /\ DOMAIN cells \subseteq DOMAIN cells'
      /\ \A b \in DOMAIN cells : cells'[b] = cells[b]
  BY PlacedCells
<1>3. \A s \in DOMAIN store : store'[s] = store[s]
  BY DEF PlacedAs, Put
<1>4. ASSUME NEW w \in DOMAIN view, NEW k \in Kinds, view[w][k] # NoVector
      PROVE  /\ view[w].container \in DOMAIN store /\ view[w][k] \in DOMAIN cells
             /\ cells[view[w][k]] \in
                    Orders(view[w].container, store[view[w].container], view[w].compare)
  <2>1. view[w][k] \in Filled(w)
    BY <1>4 DEF Filled
  <2>2. view[w].owner # "moved" /\ view[w][k] \in DOMAIN cells
    BY <2>1 DEF Core, VectorsApart
  <2>3. view[w].owner \in {"client", "view", "moved"} /\ Client \in DOMAIN store
    BY DEF Core, ViewsOK, ViewRec, StoresOK
  <2> QED
    BY <2>1, <2>2, <2>3 DEF InOrder, Core, Owners, Owned
<1>5. ASSUME NEW w \in DOMAIN view, w # v, NEW k \in Kinds, view[w][k] # NoVector
      PROVE  cells'[view'[w][k]] \in
                 Orders(view'[w].container, store'[view'[w].container], view'[w].compare)
  BY <1>1, <1>2, <1>3, <1>4, <1>5
<1>6. ASSUME NEW k \in Kinds, r[k] # NoVector
      PROVE  cells'[r[k]] \in Orders(r.container, store'[r.container], r.compare)
  <2>1. CASE r[k] = Had(v, k)
    <3>1. v \in DOMAIN view /\ r[k] = view[v][k]
      BY <1>6, <2>1 DEF Had
    <3>2. r.container = view[v].container /\ r.compare = view[v].compare
      BY <3>1 DEF PlacedAs
    <3> QED
      BY <1>2, <1>3, <1>4, <1>6, <3>1, <3>2
  <2>2. CASE r[k] # Had(v, k)
    <3>1. PICK b \in Vectors \ DOMAIN cells, order \in Seq(CellRec) :
             /\ cells' = Put(cells, b, order) /\ r[kind] = b
             /\ r[OtherKind(kind)] = Had(v, OtherKind(kind))
             /\ order \in Orders(r.container, store'[r.container], r.compare)
      BY <2>2 DEF FilledAs
    <3>2. k = kind
      BY <2>2, <3>1 DEF OtherKind, Kinds
    <3> QED
      BY <3>1, <3>2 DEF Put
  <2> QED
    BY <2>1, <2>2
<1>7. ASSUME NEW w \in DOMAIN view', NEW k \in Kinds, view'[w][k] # NoVector
      PROVE  cells'[view'[w][k]] \in
                 Orders(view'[w].container, store'[view'[w].container], view'[w].compare)
  <2>1. CASE w = v
    BY <1>1, <1>6, <1>7, <2>1
  <2>2. CASE w # v
    <3>1. w \in DOMAIN view /\ view'[w] = view[w]
      BY <1>1, <2>2
    <3> QED
      BY <1>5, <1>7, <2>2, <3>1
  <2> QED
    BY <2>1, <2>2
<1> QED
  BY <1>7 DEF InOrder, Filled

----------------------------------------------------------------------------
(* What each operation does *)

LEMMA CoreInit == ASSUME Init PROVE Core /\ InOrder
<1>1. PICK elems \in Containers : store = Put(<< >>, Client, elems)
  BY DEF Init
<1>2. DOMAIN << >> = {}
  OBVIOUS
<1>3. elems \in Seq(Values)
  BY ValuesAssumption DEF Containers
<1>4. StoresOK
  BY <1>1, <1>2, <1>3, StoresAssumption DEF StoresOK, Put, Client
<1>5. DOMAIN view = {} /\ DOMAIN cells = {} /\ DOMAIN iter = {} /\ partial = << >>
  BY <1>2 DEF Init
<1> QED
  BY <1>4, <1>5
  DEF Core, AsksWhatWasAsked, ViewsOK, Owners, VectorsApart, ItersOK, InOrder, Filled

(* a new view, with the vector of a container that has no const begin()     *)
LEMMA Constructed ==
    ASSUME NEW v \in Views \ DOMAIN view, Core, NEW compare \in Comparators,
           NEW container \in Stores, NEW owner \in {"client", "view"},
           Construct(v, container, owner, compare, compare),
           \/ store' = store /\ container = Client /\ owner = "client"
           \/ /\ store' = Put(store, container, store[Client])
              /\ container \in Stores \ DOMAIN store /\ owner = "view"
    PROVE  \E r \in ViewRec : PlacedAs(v, r) /\ FilledAs(v, r, "sorted_iters")
<1> DEFINE rec == [container |-> container, owner |-> owner, compare |-> compare,
                   asked |-> compare, sorted_iters |-> NoVector, const_sorted_iters |-> NoVector]
<1>1. /\ rec \in ViewRec /\ rec.container = container /\ rec.owner = owner
      /\ rec.compare = compare /\ rec.asked = compare /\ \A k \in Kinds : rec[k] = NoVector
  BY DEF ViewRec, VectorNames, Kinds
<1>2. store'[container] \in Seq(Values) /\ Client \in DOMAIN store
  BY DEF Core, StoresOK, Put
<1>3. \A k \in Kinds : Had(v, k) = NoVector
  BY DEF Had
<1>4. \/ type.const_iterable /\ view' = Put(view, v, rec) /\ cells' = cells
      \/ \E made \in Populated(rec, "sorted_iters", store'[container]) :
            view' = Put(view, v, made.view) /\ cells' = made.cells
  BY DEF Construct
<1> HIDE DEF rec
<1>5. CASE view' = Put(view, v, rec) /\ cells' = cells
  <2>1. PlacedAs(v, rec)
    BY <1>1, <1>5 DEF PlacedAs
  <2>2. FilledAs(v, rec, "sorted_iters")
    BY <1>1, <1>3, <1>5 DEF FilledAs
  <2> QED
    BY <1>1, <2>1, <2>2
<1>6. ASSUME NEW made \in Populated(rec, "sorted_iters", store'[container]),
             view' = Put(view, v, made.view), cells' = made.cells
      PROVE  \E r \in ViewRec : PlacedAs(v, r) /\ FilledAs(v, r, "sorted_iters")
  <2> DEFINE r == made.view
  <2>1. "sorted_iters" \in Kinds
    BY DEF Kinds
  <2>2. CASE made.view = rec /\ made.cells = cells
    BY <1>5, <1>6, <2>2
  <2>3. CASE \E b \in Vectors \ DOMAIN cells, order \in Seq(CellRec) :
                /\ made.view \in ViewRec /\ NamedIn(made.view, rec, "sorted_iters", b)
                /\ made.cells = Put(cells, b, order)
                /\ ~Throwing => order \in Orders(rec.container, store'[container], rec.compare)
    <3>1. PICK b \in Vectors \ DOMAIN cells, order \in Seq(CellRec) :
             /\ r \in ViewRec /\ NamedIn(r, rec, "sorted_iters", b)
             /\ made.cells = Put(cells, b, order)
             /\ ~Throwing => order \in Orders(rec.container, store'[container], rec.compare)
      BY <2>3
    <3>3. OtherKind("sorted_iters") \in Kinds
      BY DEF OtherKind, Kinds
    <3> HIDE DEF r
    <3>4. view' = Put(view, v, r)
      BY <1>6 DEF r
    <3>5. PlacedAs(v, r)
      BY <1>1, <3>1, <3>4 DEF PlacedAs, NamedIn
    <3>6. FilledAs(v, r, "sorted_iters")
      BY <1>1, <1>3, <1>6, <2>1, <3>1, <3>3 DEF FilledAs, NamedIn
    <3> QED
      BY <3>1, <3>5, <3>6
  <2>4. \/ made.view = rec /\ made.cells = cells
        \/ \E b \in Vectors \ DOMAIN cells, order \in Seq(CellRec) :
              /\ made.view \in ViewRec /\ NamedIn(made.view, rec, "sorted_iters", b)
              /\ made.cells = Put(cells, b, order)
              /\ ~Throwing => order \in Orders(rec.container, store'[container], rec.compare)
    BY <1>1, <1>2, <1>6, <2>1, PopulatedCases
  <2> QED
    BY <2>2, <2>3, <2>4
<1> QED
  BY <1>4, <1>5, <1>6

(* begin() or end(): the view becomes what it was with one more vector or   *)
(* the same, and the iterator it returns is at a place of that               *)
LEMMA Begun ==
    ASSUME NEW v \in Views, NEW i \in Its, NEW kind \in Kinds, Core, BeginOrEnd(v, i, kind)
    PROVE  /\ \E r \in ViewRec : PlacedAs(v, r) /\ FilledAs(v, r, kind)
           /\ ItersOK'
<1> DEFINE rec == view[v]
<1>1. v \in DOMAIN view /\ rec.owner # "moved" /\ rec \in ViewRec
  BY DEF BeginOrEnd, Usable, Core, ViewsOK
<1>2. rec.container \in DOMAIN store /\ store' = store
  BY <1>1 DEF BeginOrEnd, Core, Owners, Owned, StoresOK, ViewRec
<1>3. store[rec.container] \in Seq(Values) /\ rec.compare = rec.asked
  BY <1>1, <1>2 DEF Core, StoresOK, AsksWhatWasAsked
<1>4. PICK made \in Populated(rec, kind, store[rec.container]) :
         LET b == made.view[kind]
             last == IF b = NoVector THEN 1 ELSE Len(made.cells[b]) + 1
         IN  /\ view' = [view EXCEPT ![v] = made.view] /\ cells' = made.cells
             /\ IF made.throws \/ i \in DOMAIN iter THEN UNCHANGED iter
                ELSE \E at \in {1, last} : iter' = Put(iter, i, [vector |-> b, at |-> at])
  BY DEF BeginOrEnd
<1>5. \/ made.view = rec /\ made.cells = cells
      \/ \E b \in Vectors \ DOMAIN cells, order \in Seq(CellRec) :
            /\ made.view \in ViewRec /\ NamedIn(made.view, rec, kind, b)
            /\ made.cells = Put(cells, b, order)
            /\ ~Throwing => order \in Orders(rec.container, store[rec.container], rec.compare)
  BY <1>1, <1>3, PopulatedCases
<1> DEFINE r == made.view
<1>6. view' = Put(view, v, r) /\ cells' = made.cells
  BY <1>1, <1>4 DEF Put
<1>7. \A k \in Kinds : Had(v, k) = rec[k]
  BY <1>1 DEF Had
<1>8. OtherKind(kind) \in Kinds
  BY DEF OtherKind, Kinds
<1>9. ASSUME made.view = rec, made.cells = cells
      PROVE  /\ r \in ViewRec /\ PlacedAs(v, r) /\ FilledAs(v, r, kind)
             /\ \/ r[kind] = NoVector
                \/ r[kind] \in DOMAIN cells' /\ cells'[r[kind]] \in Seq(CellRec)
  <2>1. r \in ViewRec /\ PlacedAs(v, r)
    BY <1>1, <1>2, <1>3, <1>6, <1>9 DEF PlacedAs
  <2>2. FilledAs(v, r, kind)
    BY <1>6, <1>7, <1>9 DEF FilledAs
  <2>3. \/ r[kind] = NoVector
        \/ r[kind] \in DOMAIN cells' /\ cells'[r[kind]] \in Seq(CellRec)
    <3>1. rec[kind] = NoVector \/ rec[kind] \in Filled(v)
      BY DEF Filled
    <3>2. rec[kind] \in Filled(v) => rec[kind] \in DOMAIN cells
      BY <1>1 DEF Core, VectorsApart
    <3>3. \A b \in DOMAIN cells : cells[b] \in Seq(CellRec)
      BY DEF Core, VectorsApart
    <3>4. r[kind] = rec[kind] /\ cells' = cells
      BY <1>6, <1>9
    <3> HIDE DEF r, rec
    <3> QED
      BY <3>1, <3>2, <3>3, <3>4
  <2> QED
    BY <2>1, <2>2, <2>3
<1>10. ASSUME NEW b \in Vectors \ DOMAIN cells, NEW order \in Seq(CellRec),
              r \in ViewRec, NamedIn(r, rec, kind, b), made.cells = Put(cells, b, order),
              ~Throwing => order \in Orders(rec.container, store[rec.container], rec.compare)
       PROVE  /\ r \in ViewRec /\ PlacedAs(v, r) /\ FilledAs(v, r, kind)
              /\ \/ r[kind] = NoVector
                 \/ r[kind] \in DOMAIN cells' /\ cells'[r[kind]] \in Seq(CellRec)
  <2> HIDE DEF r
  <2>2. PlacedAs(v, r)
    BY <1>1, <1>2, <1>3, <1>6, <1>10 DEF PlacedAs, NamedIn
  <2>3. FilledAs(v, r, kind)
    BY <1>2, <1>6, <1>7, <1>8, <1>10 DEF FilledAs, NamedIn
  <2>4. r[kind] \in DOMAIN cells' /\ cells'[r[kind]] \in Seq(CellRec)
    BY <1>6, <1>10 DEF NamedIn, Put
  <2> QED
    BY <1>10, <2>2, <2>3, <2>4
<1>11. /\ r \in ViewRec /\ PlacedAs(v, r) /\ FilledAs(v, r, kind)
       /\ \/ r[kind] = NoVector
          \/ r[kind] \in DOMAIN cells' /\ cells'[r[kind]] \in Seq(CellRec)
  BY <1>5, <1>9, <1>10
<1>12. \A j \in DOMAIN iter :
          /\ iter[j] \in [vector : VectorNames, at : Nat]
          /\ IF iter[j].vector = NoVector THEN iter[j].at = 1
             ELSE /\ iter[j].vector \in DOMAIN cells'
                  /\ iter[j].at \in 1 .. Len(cells'[iter[j].vector]) + 1
  <2>1. /\ DOMAIN cells \subseteq DOMAIN cells'
        /\ \A b \in DOMAIN cells : cells'[b] = cells[b]
    BY <1>11, PlacedCells
  <2> QED
    BY <2>1 DEF Core, ItersOK
<1>13. ItersOK'
  <2>1. CASE iter' = iter
    BY <1>12, <2>1 DEF ItersOK
  <2>2. ASSUME iter' # iter
        PROVE  ItersOK'
    <3> DEFINE b == r[kind]
               last == IF b = NoVector THEN 1 ELSE Len(cells'[b]) + 1
    <3>1. PICK at \in {1, last} : iter' = Put(iter, i, [vector |-> b, at |-> at])
      BY <1>4, <2>2
    <3>2. IF b = NoVector THEN at = 1
          ELSE b \in DOMAIN cells' /\ at \in 1 .. Len(cells'[b]) + 1
      BY <1>11, <3>1
    <3>4. b \in VectorNames /\ at \in Nat
      BY <1>11, <3>1 DEF ViewRec, Kinds
    <3> HIDE DEF b
    <3>5. [vector |-> b, at |-> at] \in [vector : VectorNames, at : Nat]
      BY <3>4
    <3>3. /\ DOMAIN iter' = DOMAIN iter \cup {i}
          /\ iter'[i] = [vector |-> b, at |-> at]
          /\ \A j \in DOMAIN iter : j # i => iter'[j] = iter[j]
      BY <3>1 DEF Put
    <3> QED
      BY <1>12, <3>2, <3>3, <3>5 DEF ItersOK
  <2> QED
    BY <2>1, <2>2
<1> QED
  BY <1>11, <1>13

(* sorted(container, compare), and a partial applied: a view of the client's *)
(* container or of a copy of it, of what was asked for                      *)
LEMMA Made ==
    ASSUME NEW v \in Views, NEW compare \in Comparators, Core, Make(v, compare, compare)
    PROVE  \E r \in ViewRec : PlacedAs(v, r) /\ FilledAs(v, r, "sorted_iters")
<1>1. v \in Views \ DOMAIN view
  BY DEF Make
<1>2. Client \in Stores
  BY StoresAssumption DEF Client
<1>3. CASE UNCHANGED store /\ Construct(v, Client, "client", compare, compare)
  <2>1. store' = store
    BY <1>3
  <2> QED
    BY <1>1, <1>2, <1>3, <2>1, Constructed
<1>4. ASSUME NEW s \in Free(Stores, store), store' = Put(store, s, store[Client]),
             Construct(v, s, "view", compare, compare)
      PROVE  \E r \in ViewRec : PlacedAs(v, r) /\ FilledAs(v, r, "sorted_iters")
  <2>1. s \in Stores \ DOMAIN store
    BY StoresAssumption, FreeIsNew
  <2> QED
    BY <1>1, <1>4, <2>1, Constructed
<1> QED
  BY <1>3, <1>4 DEF Make

LEMMA MadeKeeps ==
    ASSUME NEW v \in Views, NEW compare \in Comparators, Core, Make(v, compare, compare),
           partial' # << >> => partial'.stored = partial'.bound /\ partial'.bound \in Comparators
    PROVE  Core' /\ (InOrder /\ ~Throwing => InOrder')
<1>1. PICK r \in ViewRec : PlacedAs(v, r) /\ FilledAs(v, r, "sorted_iters")
  BY Made
<1>2. "sorted_iters" \in Kinds /\ iter' = iter
  BY DEF Kinds, Make
<1>3. StoresOK' /\ ViewsOK' /\ Owners' /\ \A w \in DOMAIN view' : view'[w].compare = view'[w].asked
  BY <1>1, PlacedStores
<1>4. VectorsApart'
  BY <1>1, <1>2, PlacedVectors
<1>5. ItersOK'
  BY <1>1, <1>2, PlacedCells DEF Core, ItersOK
<1>6. AsksWhatWasAsked'
  BY <1>3 DEF AsksWhatWasAsked
<1>7. InOrder /\ ~Throwing => InOrder'
  BY <1>1, <1>2, PlacedInOrder
<1> QED
  BY <1>3, <1>4, <1>5, <1>6, <1>7 DEF Core

LEMMA BegunKeeps ==
    ASSUME NEW v \in Views, NEW i \in Its, NEW kind \in Kinds, Core, BeginOrEnd(v, i, kind)
    PROVE  Core' /\ (InOrder /\ ~Throwing => InOrder')
<1>1. PICK r \in ViewRec : PlacedAs(v, r) /\ FilledAs(v, r, kind)
  BY Begun
<1>2. ItersOK' /\ partial' = partial
  BY Begun DEF BeginOrEnd
<1>3. StoresOK' /\ ViewsOK' /\ Owners' /\ \A w \in DOMAIN view' : view'[w].compare = view'[w].asked
  BY <1>1, PlacedStores
<1>4. VectorsApart'
  BY <1>1, PlacedVectors
<1>5. AsksWhatWasAsked'
  BY <1>2, <1>3 DEF Core, AsksWhatWasAsked
<1>6. InOrder /\ ~Throwing => InOrder'
  BY <1>1, PlacedInOrder
<1> QED
  BY <1>2, <1>3, <1>4, <1>5, <1>6 DEF Core

(* a view that has a vector is not moved from, and its container is there   *)
LEMMA FilledHasContainer ==
    ASSUME Core, NEW v \in DOMAIN view, view[v].owner # "moved" \/ Filled(v) # {}
    PROVE  view[v].owner # "moved" /\ view[v].container \in DOMAIN store
<1>1. view[v].owner # "moved" /\ view[v] \in ViewRec /\ Client \in DOMAIN store
  BY DEF Core, VectorsApart, ViewsOK, StoresOK
<1> QED
  BY <1>1 DEF Core, Owners, Owned, ViewRec

(* what Move does to the two views *)
MovedTo(v, w, s) ==
    /\ DOMAIN view' = DOMAIN view \cup {w}
    /\ view'[w] = [container |-> s, owner |-> view[v].owner,
                   compare |-> view[v].compare, asked |-> view[v].asked,
                   sorted_iters |-> view[v].sorted_iters,
                   const_sorted_iters |-> view[v].const_sorted_iters]
    /\ view'[v] = [container |-> view[v].container, owner |-> "moved",
                   compare |-> view[v].compare, asked |-> view[v].asked,
                   sorted_iters |-> NoVector, const_sorted_iters |-> NoVector]
    /\ \A x \in DOMAIN view : x # v => view'[x] = view[x]

LEMMA MoveCases ==
    ASSUME NEW v \in Views, NEW w \in Views, Core, Move(v, w)
    PROVE  /\ v \in DOMAIN view /\ view[v].owner # "moved" /\ w \notin DOMAIN view
           /\ cells' = cells /\ iter' = iter /\ partial' = partial
           /\ \/ MovedTo(v, w, view[v].container) /\ store' = store
              \/ \E s \in Stores \ DOMAIN store :
                    /\ MovedTo(v, w, s) /\ Filled(v) = {} /\ view[v].owner = "view"
                    /\ store' = Put(Drop(store, view[v].container), s, store[view[v].container])
<1>1. /\ v \in DOMAIN view /\ view[v].owner # "moved" /\ w \notin DOMAIN view /\ v # w
      /\ cells' = cells /\ iter' = iter /\ partial' = partial
  BY DEF Move, Usable
<1>2. view[v] \in ViewRec
  BY <1>1 DEF Core, ViewsOK
<1>3. Moved(view[v]) = [container |-> view[v].container, owner |-> "moved",
                        compare |-> view[v].compare, asked |-> view[v].asked,
                        sorted_iters |-> NoVector, const_sorted_iters |-> NoVector]
  <2> DEFINE rec == view[v]
             one == [rec EXCEPT !.owner = "moved"]
             two == [one EXCEPT !.sorted_iters = NoVector]
             three == [two EXCEPT !.const_sorted_iters = NoVector]
  <2>1. one = [container |-> rec.container, owner |-> "moved",
               compare |-> rec.compare, asked |-> rec.asked,
               sorted_iters |-> rec.sorted_iters, const_sorted_iters |-> rec.const_sorted_iters]
    BY <1>2 DEF ViewRec
  <2> HIDE DEF one
  <2>2. two = [container |-> rec.container, owner |-> "moved",
               compare |-> rec.compare, asked |-> rec.asked,
               sorted_iters |-> NoVector, const_sorted_iters |-> rec.const_sorted_iters]
    BY <2>1
  <2> HIDE DEF two
  <2>3. three = [container |-> rec.container, owner |-> "moved",
                 compare |-> rec.compare, asked |-> rec.asked,
                 sorted_iters |-> NoVector, const_sorted_iters |-> NoVector]
    BY <2>2
  <2>4. Moved(rec) = three
    BY Zenon DEF Moved, two, one
  <2> QED
    BY <2>3, <2>4
<1>4. \A s : [view[v] EXCEPT !.container = s]
                 = [container |-> s, owner |-> view[v].owner,
                    compare |-> view[v].compare, asked |-> view[v].asked,
                    sorted_iters |-> view[v].sorted_iters,
                    const_sorted_iters |-> view[v].const_sorted_iters]
  BY <1>2 DEF ViewRec
<1>5. view[v] = [container |-> view[v].container, owner |-> view[v].owner,
                 compare |-> view[v].compare, asked |-> view[v].asked,
                 sorted_iters |-> view[v].sorted_iters,
                 const_sorted_iters |-> view[v].const_sorted_iters]
  BY <1>2 DEF ViewRec
<1>6. ASSUME NEW rec, view' = [Put(view, w, rec) EXCEPT ![v] = Moved(@)]
      PROVE  /\ DOMAIN view' = DOMAIN view \cup {w}
             /\ view'[w] = rec /\ view'[v] = Moved(view[v])
             /\ \A x \in DOMAIN view : x # v => view'[x] = view[x]
  <2> HIDE <1>3
  <2>1. DOMAIN Put(view, w, rec) = DOMAIN view \cup {w} /\ Put(view, w, rec)[v] = view[v]
    BY <1>1 DEF Put
  <2>2. \A x \in DOMAIN view \cup {w} :
           Put(view, w, rec)[x] = IF x = w THEN rec ELSE view[x]
    BY DEF Put
  <2>3. \A x \in DOMAIN view \cup {w} :
           view'[x] = IF x = v THEN Moved(Put(view, w, rec)[v]) ELSE Put(view, w, rec)[x]
    BY <1>6, <2>1
  <2>4. DOMAIN view' = DOMAIN view \cup {w}
    BY <1>6, <2>1
  <2> QED
    BY <1>1, <2>1, <2>2, <2>3, <2>4
<1>7. CASE type.inline /\ view[v].owner = "view"
  <2>1. Filled(v) = {}
    BY <1>7 DEF Move
  <2>2. PICK s \in Free(Stores, store) :
           /\ store' = Put(Drop(store, view[v].container), s, store[view[v].container])
           /\ view' = [Put(view, w, [view[v] EXCEPT !.container = s]) EXCEPT ![v] = Moved(@)]
    BY <1>7 DEF Move
  <2>3. s \in Stores \ DOMAIN store
    BY StoresAssumption, FreeIsNew
  <2>4. MovedTo(v, w, s)
    BY <1>3, <1>4, <1>6, <2>2 DEF MovedTo
  <2> QED
    BY <1>1, <1>7, <2>1, <2>2, <2>3, <2>4
<1>8. CASE ~(type.inline /\ view[v].owner = "view")
  <2>1. view' = [Put(view, w, view[v]) EXCEPT ![v] = Moved(@)] /\ store' = store
    BY <1>8 DEF Move
  <2>2. MovedTo(v, w, view[v].container)
    BY <1>3, <1>5, <1>6, <2>1 DEF MovedTo
  <2> QED
    BY <1>1, <2>1, <2>2
<1> QED
  BY <1>7, <1>8

LEMMA MoveKeeps ==
    ASSUME NEW v \in Views, NEW w \in Views, Core, Move(v, w)
    PROVE  Core' /\ (InOrder => InOrder')
<1>1. /\ v \in DOMAIN view /\ view[v].owner # "moved" /\ w \notin DOMAIN view
      /\ cells' = cells /\ iter' = iter /\ partial' = partial
  BY MoveCases
<1>2. /\ view[v] \in ViewRec /\ DOMAIN view \subseteq Views
      /\ \A x \in DOMAIN view : view[x] \in ViewRec
  BY <1>1 DEF Core, ViewsOK
<1>3. PICK s \in Stores : /\ MovedTo(v, w, s)
                          /\ \/ s = view[v].container /\ store' = store
                             \/ /\ s \notin DOMAIN store /\ Filled(v) = {} /\ view[v].owner = "view"
                                /\ store' = Put(Drop(store, view[v].container), s,
                                                store[view[v].container])
  BY <1>2, MoveCases DEF ViewRec
<1>4. /\ DOMAIN view' = DOMAIN view \cup {w}
      /\ view'[w].container = s /\ view'[w].owner = view[v].owner
      /\ view'[w].compare = view[v].compare /\ view'[w].asked = view[v].asked
      /\ \A k \in Kinds : view'[w][k] = view[v][k] /\ view'[v][k] = NoVector
      /\ view'[v].owner = "moved" /\ view'[v].compare = view[v].compare
      /\ view'[v].asked = view[v].asked
      /\ \A x \in DOMAIN view : x # v => view'[x] = view[x]
  BY <1>3 DEF MovedTo, Kinds
<1>5. ViewsOK'
  <2>1. view'[v] \in ViewRec /\ view'[w] \in ViewRec
    BY <1>2, <1>3 DEF MovedTo, ViewRec, VectorNames
  <2> QED
    BY <1>2, <1>4, <2>1 DEF ViewsOK
<1>6. view[v].container \in DOMAIN store /\ Client \in DOMAIN store
  BY <1>1, FilledHasContainer DEF Core, StoresOK
<1>7. /\ StoresOK' /\ s \in DOMAIN store'
      /\ store'[s] = store[view[v].container]
      /\ \A c \in DOMAIN store : c # view[v].container => c \in DOMAIN store' /\ store'[c] = store[c]
  <2>1. CASE s = view[v].container /\ store' = store
    BY <1>6, <2>1 DEF Core, StoresOK
  <2>2. CASE /\ s \notin DOMAIN store /\ view[v].owner = "view"
             /\ store' = Put(Drop(store, view[v].container), s, store[view[v].container])
    <3>1. view[v].container # Client
      BY <1>1, <2>2 DEF Core, Owners, Owned
    <3>2. /\ DOMAIN store' = (DOMAIN store \ {view[v].container}) \cup {s}
          /\ \A c \in DOMAIN store' : store'[c] = IF c = s THEN store[view[v].container] ELSE store[c]
      BY <2>2 DEF Put, Drop
    <3> QED
      BY <1>6, <2>2, <3>1, <3>2 DEF Core, StoresOK
  <2> QED
    BY <1>3, <2>1, <2>2
<1>8. ASSUME NEW x \in DOMAIN view, x # v, view[x].owner # "moved"
      PROVE  /\ view[x].container \in DOMAIN store /\ view[x].container \in DOMAIN store'
             /\ store'[view[x].container] = store[view[x].container]
             /\ Owned(v) /\ Owned(x) => view[x].container # s
  <2>1. view[x].container \in DOMAIN store
    BY <1>8, FilledHasContainer
  <2>2. CASE s = view[v].container /\ store' = store
    BY <1>1, <1>8, <2>1, <2>2 DEF Core, Owners
  <2>3. CASE s \notin DOMAIN store /\ view[v].owner = "view"
    <3>1. view[x].container # view[v].container
      BY <1>1, <1>2, <1>8, <2>3 DEF Core, Owners, Owned, ViewRec
    <3> QED
      BY <1>7, <2>1, <2>3, <3>1
  <2> QED
    BY <1>3, <2>2, <2>3
<1>9. Owners'
  <2>1. view[v].owner = "client" => s = Client
    BY <1>1, <1>3 DEF Core, Owners
  <2>2. view[v].owner = "view" => s # Client
    BY <1>1, <1>3, <1>6 DEF Core, Owners, Owned
  <2>3. ASSUME NEW x \in DOMAIN view'
        PROVE  /\ view'[x].owner = "client" => view'[x].container = Client
               /\ view'[x].owner = "view" => view'[x].container \in DOMAIN store' \ {Client}
    <3>1. CASE x = w
      BY <1>4, <1>7, <2>1, <2>2, <3>1
    <3>2. CASE x = v
      BY <1>4, <3>2
    <3>3. CASE x # w /\ x # v
      <4>1. x \in DOMAIN view /\ view'[x] = view[x]
        BY <1>4, <3>3
      <4> QED
        BY <1>8, <3>3, <4>1 DEF Core, Owners, Owned
    <3> QED
      BY <3>1, <3>2, <3>3
  <2>4. ASSUME NEW x \in DOMAIN view', NEW y \in DOMAIN view', x # y,
               view'[x].owner = "view", view'[y].owner = "view"
        PROVE  view'[x].container # view'[y].container
    <3>1. x # v /\ y # v
      BY <1>4, <2>4
    <3>2. CASE x = w
      <4>1. y \in DOMAIN view /\ view'[y] = view[y] /\ Owned(y) /\ Owned(v)
        BY <1>4, <2>4, <3>1, <3>2 DEF Owned
      <4> QED
        BY <1>4, <1>8, <3>1, <3>2, <4>1 DEF Owned
    <3>3. CASE y = w
      <4>1. x \in DOMAIN view /\ view'[x] = view[x] /\ Owned(x) /\ Owned(v)
        BY <1>4, <2>4, <3>1, <3>3 DEF Owned
      <4> QED
        BY <1>4, <1>8, <3>1, <3>3, <4>1 DEF Owned
    <3>4. CASE x # w /\ y # w
      <4>1. /\ x \in DOMAIN view /\ view'[x] = view[x]
            /\ y \in DOMAIN view /\ view'[y] = view[y]
        BY <1>4, <3>1, <3>4
      <4> QED
        BY <2>4, <4>1 DEF Core, Owners, Owned
    <3> QED
      BY <3>2, <3>3, <3>4
  <2> QED
    BY <2>3, <2>4 DEF Owners, Owned
<1>10. VectorsApart'
  <2>1. \A x \in DOMAIN view' :
           {view'[x][k] : k \in Kinds} \ {NoVector}
               = IF x = w THEN Filled(v) ELSE IF x = v THEN {} ELSE Filled(x)
    BY <1>1, <1>4 DEF Filled
  <2>2. UNION {{view'[x][k] : k \in Kinds} \ {NoVector} : x \in DOMAIN view'}
            = UNION {Filled(x) : x \in DOMAIN view}
    <3> DEFINE Named(x) == {view'[x][k] : k \in Kinds} \ {NoVector}
    <3>1. /\ Named(w) = Filled(v) /\ Named(v) = {}
          /\ \A x \in DOMAIN view : x # v => Named(x) = Filled(x)
      BY <1>1, <1>4, <2>1
    <3> HIDE DEF Named
    <3>2. UNION {Named(x) : x \in DOMAIN view'} = UNION {Filled(x) : x \in DOMAIN view}
      BY <1>1, <1>4, <3>1
    <3> QED
      BY <3>2 DEF Named
  <2>3. \A x \in DOMAIN view' : view'[x].owner = "moved"
                                    => {view'[x][k] : k \in Kinds} \ {NoVector} = {}
    BY <1>1, <1>4, <2>1 DEF Core, VectorsApart
  <2>4. ASSUME NEW x \in DOMAIN view', NEW k \in Kinds, NEW y \in DOMAIN view', NEW m \in Kinds,
               view'[x][k] = view'[y][m], view'[x][k] # NoVector
        PROVE  x = y /\ k = m
    <3> DEFINE Was(z) == IF z = w THEN v ELSE z
    <3>1. \A z \in DOMAIN view', n \in Kinds :
             view'[z][n] # NoVector => Was(z) \in DOMAIN view /\ z # v /\ view'[z][n] = view[Was(z)][n]
      BY <1>1, <1>4
    <3>2. Was(x) = Was(y) /\ k = m
      BY <2>4, <3>1 DEF Core, VectorsApart
    <3> QED
      BY <2>4, <3>1, <3>2
  <2>5. DOMAIN cells' = UNION {{view'[x][k] : k \in Kinds} \ {NoVector} : x \in DOMAIN view'}
    BY <1>1, <2>2 DEF Core, VectorsApart
  <2>6. \A b \in DOMAIN cells' : cells'[b] \in Seq(CellRec)
    BY <1>1 DEF Core, VectorsApart
  <2> QED
    BY <2>3, <2>4, <2>5, <2>6 DEF VectorsApart, Filled
<1>11. InOrder => InOrder'
  <2> SUFFICES ASSUME InOrder, NEW x \in DOMAIN view', NEW k \in Kinds, view'[x][k] # NoVector
               PROVE  cells[view'[x][k]] \in
                          Orders(view'[x].container, store'[view'[x].container], view'[x].compare)
    BY <1>1 DEF InOrder, Filled
  <2>1. x # v
    BY <1>4
  <2>2. CASE x = w
    <3>1. view[v][k] \in Filled(v) /\ view'[w][k] = view[v][k]
      BY <1>4, <2>2 DEF Filled
    <3>2. s = view[v].container /\ store' = store
      BY <1>3, <3>1
    <3> QED
      BY <1>1, <1>4, <2>2, <3>1, <3>2 DEF InOrder
  <2>3. CASE x # w
    <3>1. x \in DOMAIN view /\ view'[x] = view[x] /\ view[x][k] \in Filled(x)
      BY <1>4, <2>1, <2>3 DEF Filled
    <3>2. store'[view[x].container] = store[view[x].container]
      BY <1>8, <2>1, <3>1, FilledHasContainer
    <3> QED
      BY <3>1, <3>2 DEF InOrder
  <2> QED
    BY <2>2, <2>3
<1>12. AsksWhatWasAsked'
  BY <1>1, <1>4 DEF Core, AsksWhatWasAsked
<1>13. ItersOK'
  BY <1>1 DEF Core, ItersOK
<1> QED
  BY <1>5, <1>7, <1>9, <1>10, <1>11, <1>12, <1>13 DEF Core

LEMMA DestroyViewKeeps ==
    ASSUME NEW v \in Views, Core, DestroyView(v)
    PROVE  Core' /\ (InOrder => InOrder')
<1>1. /\ v \in DOMAIN view /\ iter' = iter /\ partial' = partial
      /\ \A i \in DOMAIN iter : iter[i].vector \notin Filled(v)
      /\ DOMAIN view' = DOMAIN view \ {v} /\ \A x \in DOMAIN view' : view'[x] = view[x]
      /\ DOMAIN cells' = DOMAIN cells \ Filled(v) /\ \A b \in DOMAIN cells' : cells'[b] = cells[b]
  BY DEF DestroyView, Drop
<1>2. /\ DOMAIN store' = DOMAIN store \ (IF Owned(v) THEN {view[v].container} ELSE {})
      /\ \A s \in DOMAIN store' : store'[s] = store[s]
  BY DEF DestroyView, Drop, Owned
<1>3. Owned(v) => view[v].container # Client
  BY <1>1 DEF Core, Owners
<1>4. StoresOK'
  BY <1>2, <1>3 DEF Core, StoresOK
<1>5. ViewsOK' /\ AsksWhatWasAsked'
  BY <1>1 DEF Core, ViewsOK, AsksWhatWasAsked
<1>6. ASSUME NEW x \in DOMAIN view', view[x].owner # "moved"
      PROVE  view[x].container \in DOMAIN store'
  <2>1. x \in DOMAIN view /\ x # v /\ view[x].container \in DOMAIN store
    BY <1>1, <1>6, FilledHasContainer
  <2>2. view[x].owner \in {"client", "view"}
    BY <1>6, <2>1 DEF Core, ViewsOK, ViewRec
  <2>3. Owned(v) => view[x].container # view[v].container
    BY <1>1, <1>3, <2>1, <2>2 DEF Core, Owners, Owned
  <2> QED
    BY <1>2, <2>1, <2>3
<1>7. Owners'
  BY <1>1, <1>6 DEF Core, Owners, Owned
<1>8. VectorsApart'
  <2>1. \A x \in DOMAIN view' : {view'[x][k] : k \in Kinds} \ {NoVector} = Filled(x)
    BY <1>1 DEF Filled
  <2>2. \A x \in DOMAIN view' : Filled(x) \cap Filled(v) = {}
    BY <1>1 DEF Core, VectorsApart, Filled
  <2>3. DOMAIN cells' = UNION {Filled(x) : x \in DOMAIN view'}
    BY <1>1, <2>2 DEF Core, VectorsApart
  <2>4. DOMAIN cells' = UNION {{view'[x][k] : k \in Kinds} \ {NoVector} : x \in DOMAIN view'}
    <3> DEFINE Named(x) == {view'[x][k] : k \in Kinds} \ {NoVector}
    <3>1. \A x \in DOMAIN view' : Named(x) = Filled(x)
      BY <2>1
    <3> HIDE DEF Named
    <3>2. DOMAIN cells' = UNION {Named(x) : x \in DOMAIN view'}
      BY <2>3, <3>1
    <3> QED
      BY <3>2 DEF Named
  <2>5. \A x \in DOMAIN view' : view'[x].owner = "moved"
                                    => {view'[x][k] : k \in Kinds} \ {NoVector} = {}
    BY <1>1, <2>1 DEF Core, VectorsApart
  <2>6. \A x \in DOMAIN view', k \in Kinds, y \in DOMAIN view', m \in Kinds :
           view'[x][k] = view'[y][m] /\ view'[x][k] # NoVector => x = y /\ k = m
    BY <1>1 DEF Core, VectorsApart
  <2>7. \A b \in DOMAIN cells' : cells'[b] \in Seq(CellRec)
    BY <1>1 DEF Core, VectorsApart
  <2> QED
    BY <2>4, <2>5, <2>6, <2>7 DEF VectorsApart, Filled
<1>9. ItersOK'
  BY <1>1 DEF Core, ItersOK
<1>10. InOrder => InOrder'
  <2> SUFFICES ASSUME InOrder, NEW x \in DOMAIN view', NEW k \in Kinds, view'[x][k] # NoVector
               PROVE  cells'[view'[x][k]] \in
                          Orders(view'[x].container, store'[view'[x].container], view'[x].compare)
    BY DEF InOrder, Filled
  <2>1. x \in DOMAIN view /\ x # v /\ view'[x] = view[x] /\ view[x][k] \in Filled(x)
    BY <1>1 DEF Filled
  <2>2. view[x][k] \notin Filled(v) /\ view[x][k] \in DOMAIN cells
    BY <1>1, <2>1 DEF Core, VectorsApart, Filled
  <2>3. view[x].owner # "moved"
    BY <2>1, FilledHasContainer
  <2> QED
    BY <1>1, <1>2, <1>6, <2>1, <2>2, <2>3 DEF InOrder
<1> QED
  BY <1>4, <1>5, <1>7, <1>8, <1>9, <1>10 DEF Core

LEMMA SameObjects ==
    ASSUME Core, partial' = partial, view' = view, cells' = cells
    PROVE  AsksWhatWasAsked' /\ ViewsOK' /\ VectorsApart'
<1>1. AsksWhatWasAsked' /\ ViewsOK'
  BY DEF Core, AsksWhatWasAsked, ViewsOK
<1>2. VectorsApart'
  <2>1. \A v : Filled(v)' = Filled(v)
    BY DEF Filled
  <2> QED
    BY DEF Core, VectorsApart, Filled
<1> QED
  BY <1>1, <1>2

(* the client's container grows only while no view has sorted it *)
LEMMA GrowKeeps ==
    ASSUME NEW x \in Values, Core, Grow(x)
    PROVE  Core' /\ (InOrder => InOrder')
<1>1. /\ partial' = partial /\ view' = view /\ cells' = cells /\ iter' = iter
      /\ store' = [store EXCEPT ![Client] = Append(@, x)]
      /\ \A v \in DOMAIN view : view[v].container = Client => Filled(v) = {}
  BY DEF Grow
<1>2. DOMAIN store' = DOMAIN store /\ \A s \in DOMAIN store : s # Client => store'[s] = store[s]
  BY <1>1
<1>3. StoresOK'
  <2>1. store[Client] \in Seq(Values) /\ store'[Client] = Append(store[Client], x)
    BY <1>1 DEF Core, StoresOK
  <2>2. store'[Client] \in Seq(Values)
    BY <2>1
  <2> QED
    BY <1>2, <2>2 DEF Core, StoresOK
<1>4. AsksWhatWasAsked' /\ ViewsOK' /\ VectorsApart' /\ ItersOK'
  BY <1>1, SameObjects DEF Core, ItersOK
<1>6. Owners'
  BY <1>1, <1>2 DEF Core, Owners, Owned
<1>5. InOrder => InOrder'
  <2> SUFFICES ASSUME InOrder, NEW v \in DOMAIN view, NEW b \in Filled(v)
               PROVE  cells[b] \in
                          Orders(view[v].container, store'[view[v].container], view[v].compare)
    BY <1>1 DEF InOrder, Filled
  <2>1. view[v].container # Client /\ view[v].container \in DOMAIN store
    BY <1>1, FilledHasContainer
  <2> QED
    BY <1>2, <2>1 DEF InOrder
<1> QED
  BY <1>3, <1>4, <1>5, <1>6 DEF Core

LEMMA IteratorKeeps ==
    ASSUME Core, \/ \E i, j \in Its, n \in -MaxLen .. MaxLen : Advance(i, j, n)
                 \/ \E i \in Its : DestroyIterator(i)
    PROVE  Core' /\ (InOrder => InOrder')
<1>1. UNCHANGED <<store, partial, view, cells>>
  BY DEF Advance, DestroyIterator
<1>2. ItersOK'
  <2>1. ASSUME NEW i \in Its, NEW j \in Its, NEW n \in -MaxLen .. MaxLen, Advance(i, j, n)
        PROVE  ItersOK'
    <3> DEFINE next == [iter[i] EXCEPT !.at = @ + n]
    <3>1. /\ i \in DOMAIN iter /\ iter[i].vector # NoVector /\ iter' = Put(iter, j, next)
          /\ iter[i].at + n \in 1 .. Len(cells[iter[i].vector]) + 1 /\ cells' = cells
      BY <1>1, <2>1 DEF Advance
    <3>2. iter[i] \in [vector : VectorNames, at : Nat] /\ iter[i].vector \in DOMAIN cells
      BY <3>1 DEF Core, ItersOK
    <3>3. iter[i].at + n \in Nat
      BY <3>1
    <3>4. /\ next.vector = iter[i].vector /\ next.at = iter[i].at + n
          /\ next \in [vector : VectorNames, at : Nat]
      BY <3>2, <3>3
    <3> HIDE DEF next
    <3>5. /\ DOMAIN iter' = DOMAIN iter \cup {j} /\ iter'[j] = next
          /\ \A k \in DOMAIN iter : k # j => iter'[k] = iter[k]
      BY <3>1 DEF Put
    <3>6. next.vector \in DOMAIN cells /\ next.at \in 1 .. Len(cells[next.vector]) + 1
          /\ next.vector # NoVector
      BY <3>1, <3>2, <3>4
    <3> QED
      BY <3>1, <3>4, <3>5, <3>6 DEF Core, ItersOK
  <2>2. ASSUME NEW i \in Its, DestroyIterator(i)
        PROVE  ItersOK'
    BY <2>2, <1>1 DEF DestroyIterator, Drop, Core, ItersOK
  <2> QED
    BY <2>1, <2>2
<1>3. StoresOK' /\ Owners'
  BY <1>1 DEF Core, StoresOK, Owners, Owned
<1>5. AsksWhatWasAsked' /\ ViewsOK' /\ VectorsApart'
  BY <1>1, SameObjects
<1>4. InOrder => InOrder'
  BY <1>1 DEF InOrder, Filled
<1> QED
  BY <1>2, <1>3, <1>4, <1>5 DEF Core

(* one step of any kind *)
LEMMA CoreNext ==
    ASSUME Core, [Next]_vars
    PROVE  Core' /\ (InOrder /\ ~Throwing => InOrder')
<1>1. ASSUME NEW compare \in Comparators, Bind(compare)
      PROVE  Core' /\ (InOrder => InOrder')
  <2>1. /\ UNCHANGED <<store, view, cells, iter>>
        /\ partial'.stored = partial'.bound /\ partial'.bound \in Comparators
    BY <1>1 DEF Bind
  <2>2. StoresOK' /\ ViewsOK' /\ Owners' /\ ItersOK' /\ AsksWhatWasAsked'
    BY <2>1 DEF Core, StoresOK, ViewsOK, Owners, Owned, ItersOK, AsksWhatWasAsked
  <2>3. VectorsApart'
    <3>1. \A v : Filled(v)' = Filled(v)
      BY <2>1 DEF Filled
    <3> QED
      BY <2>1, <3>1 DEF Core, VectorsApart
  <2> QED
    BY <2>1, <2>2, <2>3 DEF Core, InOrder, Filled
<1>2. ASSUME NEW compare \in Comparators, NEW v \in Views, Call(v, compare)
      PROVE  Core' /\ (InOrder /\ ~Throwing => InOrder')
  <2>1. /\ Make(v, compare, compare)
        /\ partial' # << >> => partial'.stored = partial'.bound /\ partial'.bound \in Comparators
    BY <1>2 DEF Call, Core, AsksWhatWasAsked
  <2> QED
    BY <2>1, MadeKeeps
<1>3. ASSUME NEW v \in Views, Apply(v) \/ ApplyMoved(v)
      PROVE  Core' /\ (InOrder /\ ~Throwing => InOrder')
  <2>1. /\ Make(v, partial.stored, partial.bound) /\ partial # << >>
        /\ partial' = partial \/ partial' = << >>
    BY <1>3 DEF Apply, ApplyMoved
  <2>2. partial.stored = partial.bound /\ partial.bound \in Comparators
    BY <2>1 DEF Core, AsksWhatWasAsked
  <2>3. partial' # << >> => partial'.stored = partial'.bound /\ partial'.bound \in Comparators
    BY <2>1, <2>2
  <2> QED
    BY <2>1, <2>2, <2>3, MadeKeeps
<1>4. CASE UNCHANGED vars
  <2>1. UNCHANGED <<store, partial, view, cells, iter>>
    BY <1>4 DEF vars
  <2>2. StoresOK' /\ Owners' /\ ItersOK'
    BY <2>1 DEF Core, StoresOK, Owners, Owned, ItersOK
  <2>3. AsksWhatWasAsked' /\ ViewsOK' /\ VectorsApart'
    BY <2>1, SameObjects
  <2> QED
    BY <2>1, <2>2, <2>3 DEF Core, InOrder, Filled
<1>5. CASE \E v \in Views : DestroyView(v)
  BY <1>5, DestroyViewKeeps
<1>6. CASE \E v, w \in Views : Move(v, w)
  BY <1>6, MoveKeeps
<1>7. CASE \E v \in Views, i \in Its, kind \in Kinds : BeginOrEnd(v, i, kind)
  BY <1>7, BegunKeeps
<1>8. CASE \E x \in Values : Grow(x)
  BY <1>8, GrowKeeps
<1>9. CASE \/ \E i, j \in Its, n \in -MaxLen .. MaxLen : Advance(i, j, n)
           \/ \E i \in Its : DestroyIterator(i)
  BY <1>9, IteratorKeeps
<1> QED
  BY <1>1, <1>2, <1>3, <1>4, <1>5, <1>6, <1>7, <1>8, <1>9 DEF Next, Comparators

(* no step touches a vector that an iterator goes through, or turns the     *)
(* iterator to another                                                      *)
LEMMA NextLeavesIterators ==
    ASSUME Core, Next, NEW i \in DOMAIN iter, i \in DOMAIN iter', iter[i].vector # NoVector
    PROVE  /\ iter'[i].vector = iter[i].vector
           /\ iter[i].vector \in DOMAIN cells'
           /\ cells'[iter[i].vector] = cells[iter[i].vector]
<1> DEFINE b == iter[i].vector
           Stay == /\ iter'[i].vector = b /\ b \in DOMAIN cells' /\ cells'[b] = cells[b]
<1>0. b \in DOMAIN cells /\ iter[i] \in [vector : VectorNames, at : Nat]
  BY DEF Core, ItersOK
<1>1. CASE iter' = iter /\ cells' = cells
  BY <1>0, <1>1
<1>2. ASSUME NEW v \in Views, NEW compare \in Comparators, Make(v, compare, compare)
      PROVE  Stay
  <2>1. PICK r \in ViewRec : FilledAs(v, r, "sorted_iters")
    BY <1>2, Made
  <2>2. iter' = iter /\ "sorted_iters" \in Kinds
    BY <1>2 DEF Make, Kinds
  <2> QED
    BY <1>0, <2>1, <2>2, PlacedCells
<1>3. ASSUME NEW v \in Views, NEW j \in Its, NEW kind \in Kinds, BeginOrEnd(v, j, kind)
      PROVE  Stay
  <2>1. PICK r \in ViewRec : FilledAs(v, r, kind)
    BY <1>3, Begun
  <2>2. b \in DOMAIN cells' /\ cells'[b] = cells[b]
    BY <1>0, <2>1, PlacedCells
  <2>3. iter'[i] = iter[i]
    <3>1. \/ iter' = iter
          \/ j \notin DOMAIN iter /\ \E to : iter' = Put(iter, j, to)
      BY <1>3 DEF BeginOrEnd
    <3> QED
      BY <3>1 DEF Put
  <2> QED
    BY <2>2, <2>3
<1>4. ASSUME NEW v \in Views, Apply(v) \/ ApplyMoved(v)
      PROVE  Stay
  <2>1. /\ Make(v, partial.stored, partial.bound)
        /\ partial.stored = partial.bound /\ partial.bound \in Comparators
    BY <1>4 DEF Apply, ApplyMoved, Core, AsksWhatWasAsked
  <2> QED
    BY <1>2, <2>1
<1>5. ASSUME NEW v \in Views, DestroyView(v)
      PROVE  Stay
  <2>1. iter' = iter /\ cells' = [c \in DOMAIN cells \ Filled(v) |-> cells[c]] /\ b \notin Filled(v)
    BY <1>5 DEF DestroyView
  <2> QED
    BY <1>0, <2>1
<1>6. ASSUME NEW v \in Views, NEW w \in Views, Move(v, w)
      PROVE  Stay
  BY <1>1, <1>6, MoveCases
<1>8. CASE \/ \E compare \in Comparators : Bind(compare)
           \/ \E x \in Values : Grow(x)
  BY <1>1, <1>8 DEF Bind, Grow
<1>9. ASSUME NEW j \in Its, DestroyIterator(j)
      PROVE  Stay
  BY <1>0, <1>9 DEF DestroyIterator, Drop
<1>10. ASSUME NEW j \in Its, NEW k \in Its, NEW n \in -MaxLen .. MaxLen, Advance(j, k, n)
       PROVE  Stay
  <2> DEFINE next == [iter[j] EXCEPT !.at = @ + n]
  <2>1. cells' = cells /\ iter' = Put(iter, k, next) /\ (k \notin DOMAIN iter \/ k = j)
    BY <1>10 DEF Advance
  <2>2. iter'[i] = iter[i] \/ (i = j /\ iter'[i] = next)
    BY <2>1 DEF Put
  <2>3. i = j => next.vector = b
    BY <1>0
  <2> QED
    BY <1>0, <2>1, <2>2, <2>3
<1> QED
  BY <1>2, <1>3, <1>4, <1>5, <1>6, <1>8, <1>9, <1>10 DEF Next, Comparators, Call

----------------------------------------------------------------------------
(* Each vector is one of one view's two, in every view's life, and each      *)
(* iterator is at a place of one that is there, also when comparators and    *)
(* the container's iterators throw.                                         *)
LEMMA CoreAlways == Spec => []Core
<1>1. Init => Core
  BY CoreInit
<1>2. Core /\ [Next]_vars => Core'
  BY CoreNext
<1> QED
  BY <1>1, <1>2, PTL DEF Spec

(* Whatever throws, each vector is one view's, an iterator is in one that   *)
(* exists or in none, and the container of a view that may be used exists.  *)
THEOREM TypeCorrect == Spec => []TypeOK
<1>1. Core => TypeOK
  <2> SUFFICES ASSUME Core PROVE TypeOK
    OBVIOUS
  <2>1. \A v, w \in DOMAIN view : v # w => Filled(v) \cap Filled(w) = {}
    BY DEF Core, VectorsApart, Filled
  <2>2. \A v \in DOMAIN view : Usable(v) => view[v].container \in DOMAIN store
    BY FilledHasContainer DEF Usable
  <2> QED
    BY <2>1, <2>2 DEF TypeOK, Core, ViewsOK, StoresOK, VectorsApart, ItersOK
<1> QED
  BY <1>1, CoreAlways, PTL

(* Another begin(), a const one, a move or a begin() that throws leaves      *)
(* every iterator in its vector, and the vector in its order.               *)
THEOREM IteratorsKept == Spec => IteratorsStay
<1>1. Core /\ [Next]_vars =>
          [\A i \in DOMAIN iter : i \in DOMAIN iter' /\ iter[i].vector # NoVector =>
               /\ iter'[i].vector = iter[i].vector
               /\ iter[i].vector \in DOMAIN cells'
               /\ cells'[iter[i].vector] = cells[iter[i].vector]]_vars
  BY NextLeavesIterators
<1> QED
  BY <1>1, CoreAlways, PTL DEF Spec, IteratorsStay

LEMMA InOrderAlways == ASSUME Throwing = FALSE PROVE Spec => [](Core /\ InOrder)
<1>1. Init => Core /\ InOrder
  BY CoreInit
<1>2. Core /\ InOrder /\ [Next]_vars => Core' /\ InOrder'
  BY CoreNext
<1> QED
  BY <1>1, <1>2, PTL DEF Spec

(* Where nothing throws, the vector of any view has each element of the      *)
(* view's container as it is now once, whatever copies, moves and growth     *)
(* came before.                                                             *)
THEOREM EachOnce == ASSUME Throwing = FALSE PROVE Spec => []EachElementOnce
<1>1. Core /\ InOrder => EachElementOnce
  <2> SUFFICES ASSUME Core, InOrder, NEW v \in DOMAIN view, Usable(v), NEW b \in Filled(v)
               PROVE  LET elems == store[view[v].container]
                      IN  /\ Len(cells[b]) = Len(elems)
                          /\ {cells[b][k] : k \in DOMAIN cells[b]}
                                 = {[in |-> view[v].container, at |-> p] : p \in DOMAIN elems}
    BY DEF EachElementOnce
  <2>1. view[v].container \in DOMAIN store
    BY FilledHasContainer
  <2>2. store[view[v].container] \in Seq(Values) /\ view[v].container \in Stores
    BY <2>1 DEF Core, StoresOK
  <2>3. cells[b] \in Orders(view[v].container, store[view[v].container], view[v].compare)
    BY DEF InOrder
  <2> QED
    BY <2>2, <2>3, OrderHasEach
<1> QED
  BY <1>1, InOrderAlways, PTL

(* and an iterator goes through it in the order of the comparator that was   *)
(* asked for when the view was made, from a partial or not.                 *)
THEOREM AsAsked == ASSUME Throwing = FALSE PROVE Spec => []SortedAsAsked
<1>1. Core /\ InOrder => SortedAsAsked
  <2> SUFFICES ASSUME Core, InOrder, NEW i \in DOMAIN iter, NEW v \in DOMAIN view,
                      iter[i].vector \in Filled(v),
                      NEW k \in DOMAIN cells[iter[i].vector],
                      NEW m \in DOMAIN cells[iter[i].vector], k < m
               PROVE  LET through == cells[iter[i].vector]
                          Element(n) == store[through[n].in][through[n].at]
                      IN  ~Before(view[v].asked, Element(m), Element(k))
    BY DEF SortedAsAsked
  <2> DEFINE through == cells[iter[i].vector]
             s == view[v].container
  <2>1. s \in DOMAIN store
    BY FilledHasContainer
  <2>2. store[s] \in Seq(Values) /\ view[v].compare = view[v].asked
    BY <2>1 DEF Core, StoresOK, AsksWhatWasAsked
  <2>3. through \in Orders(s, store[s], view[v].asked)
    BY <2>2 DEF InOrder
  <2>4. view[v].asked \in Comparators
    BY DEF Core, ViewsOK, ViewRec
  <2>7. k \in DOMAIN through /\ m \in DOMAIN through /\ Values \subseteq Int
    BY ValuesAssumption
  <2> HIDE DEF through, s
  <2>5. /\ through[k].in = s /\ through[m].in = s
        /\ ~Before(view[v].asked, store[s][through[m].at], store[s][through[k].at])
    <3> DEFINE elems == store[s]
               asked == view[v].asked
    <3>1. elems \in Seq(Values) /\ asked \in Comparators /\ through \in Orders(s, elems, asked)
      BY <2>2, <2>3, <2>4
    <3>2. k < m
      OBVIOUS
    <3> HIDE DEF elems, asked
    <3>3. /\ through[k].in = s /\ through[m].in = s
          /\ ~Before(asked, elems[through[m].at], elems[through[k].at])
      BY <2>7, <3>1, <3>2, OrderIsSorted
    <3> QED
      BY <3>3 DEF elems, asked
  <2>6. ~Before(view[v].asked, store[through[m].in][through[m].at],
                store[through[k].in][through[k].at])
    <3>1. through[k].in = s /\ through[m].in = s
      BY <2>5
    <3>2. ~Before(view[v].asked, store[s][through[m].at], store[s][through[k].at])
      BY <2>5
    <3> QED
      BY <3>1, <3>2, Zenon
  <2> QED
    BY <2>6 DEF through
<1> QED
  BY <1>1, InOrderAlways, PTL

============================================================================
