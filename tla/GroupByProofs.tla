--------------------------- MODULE GroupByProofs ---------------------------
(***************************************************************************)
(* Proofs about GroupBy, for every input, key set and number of objects,   *)
(* and that it implements Grouping.                                        *)
(***************************************************************************)
EXTENDS GroupBy, TLAPS

IterRec == [sub : 1 .. End, item : 0 .. Len(keys), base : 1 .. End]
GroupRec == [owner : Its, key : Keys, completed : BOOLEAN, first : 1 .. Len(keys)]

Fresh(it) == it.sub # End => it.item = it.sub

(* A pair's Group was made by its iterator, and the owner_ of an unfinished *)
(* Group, which its destructor will use, still exists.                      *)
PairOwned == \A i \in DOMAIN pair : group[pair[i]].owner = i
OwnerAlive == \A g \in DOMAIN group : Open(g) => group[g].owner \in DOMAIN iter

IterOK ==
    /\ keys \in Seq(Keys)
    /\ DOMAIN iter \subseteq Its
    /\ iter \in [DOMAIN iter -> IterRec]
    /\ ItemFresh

StoreOK ==
    /\ pair \in [DOMAIN pair -> DOMAIN group]
    /\ DOMAIN group \subseteq Grps
    /\ group \in [DOMAIN group -> GroupRec]
    /\ DOMAIN cursor \subseteq Curs
    /\ cursor \in [DOMAIN cursor -> DOMAIN group]
    /\ PairOwned

Core == IterOK /\ StoreOK /\ DOMAIN pair \subseteq DOMAIN iter /\ OwnerAlive

----------------------------------------------------------------------------
(* Lemmas about the operators *)

(* ~Group leaves its owner at a position of the input, no earlier than it   *)
(* was, with item_ in step.                                                 *)
LEMMA OwnerAfterType ==
    ASSUME keys \in Seq(Keys), NEW g, NEW it \in IterRec, Fresh(it),
           NEW jt \in OwnerAfter(g, it)
    PROVE  /\ jt \in IterRec
           /\ Fresh(jt)
           /\ jt.base = it.base
           /\ jt.sub \in it.sub .. End
<1>1. End \in Nat /\ Len(keys) \in Nat /\ End = Len(keys) + 1
  BY DEF End
<1>2. CASE jt = it
  BY <1>1, <1>2 DEF IterRec
<1>3. CASE jt # it
  <2>1. PICK q \in LoopStops(it, g.key) : jt = IncrementedTo(it, q)
    BY <1>3 DEF OwnerAfter
  <2>2. Incremented(it).sub \in it.sub .. End /\ Incremented(it).sub \in Nat
    BY <1>1 DEF Incremented, IterRec
  <2>3. q \in Incremented(it).sub .. End
    BY <2>1 DEF LoopStops
  <2>4. q \in it.sub .. End /\ q \in 1 .. End
    BY <1>1, <2>2, <2>3 DEF IterRec
  <2>5. jt.sub = q /\ jt.base = it.base /\ jt \in IterRec
    BY <1>1, <2>1, <2>4 DEF IncrementedTo, IterRec
  <2>6. q # End => jt.item = q
    BY <1>1, <2>1, <2>4 DEF IncrementedTo, IterRec
  <2> QED
    BY <2>4, <2>5, <2>6 DEF Fresh
<1> QED
  BY <1>2, <1>3

LEMMA CopyType ==
    ASSUME NEW it \in IterRec, Fresh(it)
    PROVE  /\ CopyOf(it) \in IterRec
           /\ Fresh(CopyOf(it))
           /\ CopyOf(it).sub = it.sub
           /\ CopyOf(it).base = it.sub
BY DEF CopyOf, IterRec, Fresh

LEMMA IncrementedType ==
    ASSUME keys \in Seq(Keys), NEW it \in IterRec, Fresh(it)
    PROVE  /\ Incremented(it) \in IterRec
           /\ Fresh(Incremented(it))
           /\ Incremented(it).base = it.base
           /\ Incremented(it).sub = IF it.sub = End THEN End ELSE it.sub + 1
<1>1. End \in Nat /\ Len(keys) \in Nat /\ End = Len(keys) + 1
  BY DEF End
<1> QED
  BY <1>1 DEF Incremented, IterRec, Fresh

LEMMA NewGroupType ==
    ASSUME Core, NEW i, AtElement(i)
    PROVE  /\ NewGroup(i) \in GroupRec
           /\ NewGroup(i).owner = i
           /\ NewGroup(i).key = keys[iter[i].sub]
           /\ NewGroup(i).first = iter[i].sub
           /\ ~NewGroup(i).completed
<1>1. End \in Nat /\ Len(keys) \in Nat /\ End = Len(keys) + 1
  BY DEF End, Core, IterOK
<1>2. iter[i].sub \in 1 .. Len(keys) /\ iter[i].item = iter[i].sub /\ i \in Its
  BY <1>1 DEF AtElement, Core, IterOK, IterRec, ItemFresh
<1>3. keys[iter[i].sub] \in Keys
  BY <1>2 DEF Core, IterOK
<1> QED
  BY <1>2, <1>3 DEF NewGroup, NextKey, GroupRec

(* Putting a well-formed iterator record keeps the iterators well formed.  *)
LEMMA PutIter ==
    ASSUME IterOK, keys' = keys, NEW i \in Its, NEW it \in IterRec, Fresh(it),
           iter' = Put(iter, i, it)
    PROVE  /\ IterOK'
           /\ DOMAIN iter' = DOMAIN iter \cup {i}
           /\ iter'[i] = it
           /\ \A j \in DOMAIN iter : j # i => iter'[j] = iter[j]
<1>1. /\ DOMAIN iter' = DOMAIN iter \cup {i}
      /\ iter' \in [DOMAIN iter' -> IterRec]
      /\ iter'[i] = it
      /\ \A j \in DOMAIN iter : j # i => iter'[j] = iter[j]
  BY DEF IterOK, Put
<1>2. IterRec' = IterRec /\ End' = End
  BY DEF IterRec, End
<1>3. \A j \in DOMAIN iter' : Fresh(iter'[j])
  BY <1>1 DEF IterOK, ItemFresh, Fresh
<1> QED
  BY <1>1, <1>2, <1>3 DEF IterOK, ItemFresh, Fresh

(* Resetting a pair removes its Group and every reference to it.           *)
LEMMA ResetPairKeeps ==
    ASSUME IterOK, StoreOK, keys' = keys, NEW i, ResetPair(i)
    PROVE  /\ StoreOK'
           /\ DOMAIN pair' = DOMAIN pair \ {i}
           /\ \A j \in DOMAIN pair' : pair'[j] = pair[j]
           /\ DOMAIN group' = DOMAIN group \ (IF i \in DOMAIN pair THEN {pair[i]} ELSE {})
           /\ \A g \in DOMAIN group' : group'[g] = group[g]
<1>0. GroupRec' = GroupRec
  BY DEF GroupRec
<1>1. CASE i \in DOMAIN pair
  <2>1. /\ pair' = Drop(pair, i)
        /\ group' = Drop(group, pair[i])
        /\ cursor' = Forget(cursor, pair[i])
    BY <1>1 DEF ResetPair
  <2>2. /\ DOMAIN pair' = DOMAIN pair \ {i}
        /\ \A j \in DOMAIN pair' : pair'[j] = pair[j]
        /\ pair' \in [DOMAIN pair' -> DOMAIN group]
    BY <2>1 DEF Drop, StoreOK
  <2>3. /\ DOMAIN group' = DOMAIN group \ {pair[i]}
        /\ \A g \in DOMAIN group' : group'[g] = group[g]
        /\ group' \in [DOMAIN group' -> GroupRec]
    BY <2>1 DEF Drop, StoreOK
  <2>4. /\ DOMAIN cursor' \subseteq DOMAIN cursor
        /\ cursor' \in [DOMAIN cursor' -> DOMAIN group']
    BY <2>1, <2>3 DEF Forget, StoreOK
  <2>5. \A j \in DOMAIN pair' : pair'[j] # pair[i]
    BY <1>1, <2>2 DEF StoreOK, PairOwned
  <2>6. pair' \in [DOMAIN pair' -> DOMAIN group'] /\ PairOwned'
    BY <2>2, <2>3, <2>5 DEF StoreOK, PairOwned
  <2> QED
    BY <1>0, <1>1, <2>2, <2>3, <2>4, <2>6 DEF StoreOK
<1>2. CASE i \notin DOMAIN pair
  BY <1>0, <1>2 DEF ResetPair, StoreOK, PairOwned
<1> QED
  BY <1>1, <1>2

(* A live pair's Group is a well-formed Group of its iterator.             *)
LEMMA AdvancedType ==
    ASSUME Core, NEW i, CanIncrement(i), NEW it \in Advanced(i)
    PROVE  it \in IterRec /\ Fresh(it) /\ it.base = iter[i].base
           /\ it.sub \in iter[i].sub .. End
<1>1. iter[i] \in IterRec /\ Fresh(iter[i]) /\ keys \in Seq(Keys)
  BY DEF Core, IterOK, CanIncrement, AtElement, ItemFresh, Fresh
<1> QED
  BY <1>1, OwnerAfterType DEF Advanced

----------------------------------------------------------------------------
(* Type correctness, for every client *)

LEMMA CoreInit == Init => Core
<1> SUFFICES ASSUME Init PROVE Core
  OBVIOUS
<1>1. PICK n \in 0 .. MaxLen : keys \in [1 .. n -> Keys]
  BY DEF Init
<1>2. n \in Nat
  BY <1>1, MaxLenAssumption
<1>3. keys \in Seq(Keys)
  BY <1>1, <1>2
<1> QED
  BY <1>3 DEF Init, Core, IterOK, StoreOK, ItemFresh, PairOwned, OwnerAlive

LEMMA CoreConstruct ==
    ASSUME Core, NEW i \in Its, Begin(i) \/ Finish(i) PROVE Core'
<1>1. PICK p \in {1, End} : iter' = Put(iter, i, IteratorAt(p))
  BY DEF Construct, Begin, Finish
<1>2. IteratorAt(p) \in IterRec /\ Fresh(IteratorAt(p))
  BY DEF IteratorAt, IterRec, Fresh, End, Core, IterOK
<1>3. keys' = keys /\ UNCHANGED <<pair, group, cursor>>
  BY DEF Construct, Begin, Finish
<1>4. IterOK' /\ DOMAIN iter' = DOMAIN iter \cup {i}
  BY <1>1, <1>2, <1>3, PutIter DEF Core
<1>5. StoreOK' /\ OwnerAlive'
  BY <1>3, <1>4 DEF Core, StoreOK, GroupRec, PairOwned, OwnerAlive, Open
<1> QED
  BY <1>3, <1>4, <1>5 DEF Core

LEMMA CoreCopy ==
    ASSUME Core, NEW i \in Its, NEW j \in Its, Copy(i, j) PROVE Core'
<1>1. iter[i] \in IterRec /\ Fresh(iter[i])
  BY DEF Copy, Core, IterOK, ItemFresh, Fresh
<1>2. keys' = keys /\ UNCHANGED <<pair, group, cursor>>
  BY DEF Copy
<1>3. IterOK' /\ DOMAIN iter' = DOMAIN iter \cup {j}
  BY <1>1, <1>2, CopyType, PutIter DEF Core, Copy
<1>4. StoreOK' /\ OwnerAlive'
  BY <1>2, <1>3 DEF Core, StoreOK, GroupRec, PairOwned, OwnerAlive, Open
<1> QED
  BY <1>2, <1>3, <1>4 DEF Core

(* The step shared by every operation that resets the pair of iterator i   *)
(* and leaves the owners of the other unfinished Groups in place.          *)
LEMMA CoreReset ==
    ASSUME Core, NEW i, ResetPair(i), keys' = keys, IterOK',
           DOMAIN iter \ {i} \subseteq DOMAIN iter',
           i \in DOMAIN iter' \/ Kept(i) = {}
    PROVE  Core'
<1>1. /\ StoreOK'
      /\ DOMAIN pair' = DOMAIN pair \ {i}
      /\ \A j \in DOMAIN pair' : pair'[j] = pair[j]
      /\ DOMAIN group' = DOMAIN group \ (IF i \in DOMAIN pair THEN {pair[i]} ELSE {})
      /\ \A g \in DOMAIN group' : group'[g] = group[g]
  BY ResetPairKeeps DEF Core
<1>2. DOMAIN pair' \subseteq DOMAIN iter'
  BY <1>1 DEF Core
<1>3. ASSUME NEW g \in DOMAIN group', ~group'[g].completed
      PROVE  group'[g].owner \in DOMAIN iter'
  <2>1. g \in DOMAIN group /\ Open(g) /\ group[g].owner \in DOMAIN iter
    BY <1>1, <1>3 DEF Core, OwnerAlive, Open
  <2>2. CASE group[g].owner # i
    BY <1>1, <2>1, <2>2
  <2>3. CASE group[g].owner = i /\ Kept(i) = {}
    <3>1. PICK j \in DOMAIN pair : pair[j] = g
      BY <2>1, <2>3 DEF Kept, OpenGroupsOf, MovedOut
    <3>2. j = i
      BY <2>3, <3>1 DEF Core, StoreOK, PairOwned
    <3> QED
      BY <1>1, <3>1, <3>2
  <2> QED
    BY <1>1, <2>1, <2>2, <2>3
<1>4. OwnerAlive'
  BY <1>3 DEF OwnerAlive, Open
<1> QED
  BY <1>1, <1>2, <1>4 DEF Core

LEMMA CoreAssign ==
    ASSUME Core, NEW i \in Its, NEW j \in Its, Assign(i, j) PROVE Core'
<1>1. iter[j] \in IterRec /\ Fresh(iter[j]) /\ keys' = keys /\ keys \in Seq(Keys)
  BY DEF Assign, Core, IterOK, ItemFresh, Fresh
<1>2. CopyOf(iter[j]) \in IterRec /\ Fresh(CopyOf(iter[j]))
  BY <1>1, CopyType
<1>3. PICK it : it \in IterRec /\ Fresh(it) /\ iter' = Put(iter, i, it)
  <2>1. CASE i \in DOMAIN pair
    BY <1>1, <1>2, <2>1, OwnerAfterType DEF Assign
  <2>2. CASE i \notin DOMAIN pair
    BY <1>2, <2>2 DEF Assign
  <2> QED
    BY <2>1, <2>2
<1>4. IterOK' /\ DOMAIN iter' = DOMAIN iter \cup {i}
  BY <1>1, <1>3, PutIter DEF Core
<1> QED
  BY <1>1, <1>4, CoreReset DEF Assign

LEMMA CoreDeref ==
    ASSUME Core, NEW i \in Its, NEW g \in Grps, Deref(i, g) PROVE Core'
<1>1. /\ AtElement(i) /\ i \notin DOMAIN pair /\ g \notin DOMAIN group
      /\ group' = Put(group, g, NewGroup(i)) /\ pair' = Put(pair, i, g)
      /\ UNCHANGED <<keys, iter, cursor>>
  BY DEF Deref
<1>2. NewGroup(i) \in GroupRec /\ NewGroup(i).owner = i
  BY <1>1, NewGroupType
<1>3. IterOK' /\ GroupRec' = GroupRec
  BY <1>1 DEF Core, IterOK, ItemFresh, IterRec, GroupRec, End
<1>4. /\ DOMAIN group' = DOMAIN group \cup {g}
      /\ group' \in [DOMAIN group' -> GroupRec]
      /\ group'[g] = NewGroup(i)
      /\ \A h \in DOMAIN group : group'[h] = group[h]
  BY <1>1, <1>2 DEF Core, StoreOK, Put
<1>5. /\ DOMAIN pair' = DOMAIN pair \cup {i} /\ pair'[i] = g
      /\ pair' \in [DOMAIN pair' -> DOMAIN group']
      /\ \A j \in DOMAIN pair : pair'[j] = pair[j]
  BY <1>1, <1>4 DEF Core, StoreOK, Put
<1>6. StoreOK'
  BY <1>1, <1>2, <1>3, <1>4, <1>5 DEF Core, StoreOK, PairOwned
<1>7. OwnerAlive' /\ DOMAIN pair' \subseteq DOMAIN iter'
  BY <1>1, <1>2, <1>4, <1>5 DEF Core, OwnerAlive, Open, AtElement
<1> QED
  BY <1>3, <1>6, <1>7 DEF Core

LEMMA CorePreIncrement ==
    ASSUME Core, NEW i \in Its, PreIncrement(i) PROVE Core'
<1>1. PICK it \in Advanced(i) : iter' = Put(iter, i, it)
  BY DEF PreIncrement
<1>2. CanIncrement(i) /\ keys' = keys /\ ResetPair(i)
  BY DEF PreIncrement, MayAdvance
<1>3. IterOK' /\ DOMAIN iter' = DOMAIN iter \cup {i}
  BY <1>1, <1>2, AdvancedType, PutIter DEF Core
<1> QED
  BY <1>2, <1>3, CoreReset

LEMMA CorePostIncrement ==
    ASSUME Core, NEW i \in Its, NEW j \in Its, PostIncrement(i, j) PROVE Core'
<1>1. PICK it \in Advanced(i) :
          iter' = Put(Put(iter, j, CopyOf(iter[i])), i, it)
  BY DEF PostIncrement
<1>2. CanIncrement(i) /\ keys' = keys /\ ResetPair(i) /\ j \notin DOMAIN iter
  BY DEF PostIncrement, MayAdvance
<1>3. it \in IterRec /\ Fresh(it)
  BY <1>1, <1>2, AdvancedType
<1>4. CopyOf(iter[i]) \in IterRec /\ Fresh(CopyOf(iter[i]))
  BY <1>2, CopyType DEF CanIncrement, AtElement, Core, IterOK, ItemFresh, Fresh
<1>5. DOMAIN iter' = DOMAIN iter \cup {i, j} /\ iter' \in [DOMAIN iter' -> IterRec]
  BY <1>1, <1>3, <1>4 DEF Put, Core, IterOK
<1>6. \A k \in DOMAIN iter' : Fresh(iter'[k])
  BY <1>1, <1>3, <1>4, <1>5 DEF Put, Core, IterOK, ItemFresh, Fresh
<1>7. IterRec' = IterRec /\ End' = End
  BY <1>2 DEF IterRec, End
<1>8. IterOK'
  BY <1>2, <1>5, <1>6, <1>7 DEF Core, IterOK, ItemFresh, Fresh
<1> QED
  BY <1>2, <1>5, <1>8, CoreReset

LEMMA CoreDestroy ==
    ASSUME Core, NEW i \in Its, Destroy(i) PROVE Core'
<1>1. iter' = Drop(iter, i) /\ keys' = keys /\ ResetPair(i) /\ Kept(i) = {}
  BY DEF Destroy
<1>2. /\ DOMAIN iter' = DOMAIN iter \ {i}
      /\ iter' \in [DOMAIN iter' -> IterRec]
      /\ \A k \in DOMAIN iter' : iter'[k] = iter[k]
  BY <1>1 DEF Drop, Core, IterOK
<1>3. IterOK'
  BY <1>1, <1>2 DEF Core, IterOK, ItemFresh, IterRec, End
<1> QED
  BY <1>1, <1>2, <1>3, CoreReset

(* Steps that only change the cursors                                      *)
LEMMA CoreGroupBegin ==
    ASSUME Core, NEW c \in Curs, NEW g \in Grps, GroupBegin(c, g) PROVE Core'
<1>1. /\ cursor' = Put(cursor, c, g) /\ UNCHANGED <<keys, iter, pair, group>>
      /\ g \in DOMAIN group
  BY DEF GroupBegin
<1>2. DOMAIN cursor' \subseteq Curs /\ cursor' \in [DOMAIN cursor' -> DOMAIN group]
  BY <1>1 DEF Put, Core, StoreOK
<1> QED
  BY <1>1, <1>2 DEF Core, IterOK, ItemFresh, IterRec, End, StoreOK, GroupRec,
                    PairOwned, OwnerAlive, Open

LEMMA CoreGroupBreak ==
    ASSUME Core, NEW c \in Curs, GroupBreak(c) PROVE Core'
<1>1. cursor' = Drop(cursor, c) /\ UNCHANGED <<keys, iter, pair, group>>
  BY DEF GroupBreak
<1>2. DOMAIN cursor' \subseteq Curs /\ cursor' \in [DOMAIN cursor' -> DOMAIN group]
  BY <1>1 DEF Drop, Core, StoreOK
<1> QED
  BY <1>1, <1>2 DEF Core, IterOK, ItemFresh, IterRec, End, StoreOK, GroupRec,
                    PairOwned, OwnerAlive, Open

LEMMA CompletedType ==
    ASSUME StoreOK, NEW g \in DOMAIN group
    PROVE  /\ DOMAIN Completed(g) = DOMAIN group
           /\ Completed(g) \in [DOMAIN group -> GroupRec]
           /\ Completed(g)[g].completed
           /\ \A h \in DOMAIN group : Completed(g)[h].owner = group[h].owner
           /\ \A h \in DOMAIN group : h # g => Completed(g)[h] = group[h]
BY DEF Completed, StoreOK, GroupRec

LEMMA CoreGroupIncrement ==
    ASSUME Core, NEW c \in Curs, GroupIncrement(c) PROVE Core'
<1> DEFINE g == cursor[c]
           o == group[g].owner
<1>1. /\ c \in DOMAIN cursor /\ Open(g) /\ UNCHANGED <<keys, pair>>
      /\ iter' = Put(iter, o, Incremented(iter[o]))
      /\ \/ UNCHANGED <<group, cursor>>
         \/ group' = Completed(g) /\ cursor' = Drop(cursor, c)
  BY DEF GroupIncrement
<1>2. g \in DOMAIN group /\ o \in DOMAIN iter /\ o \in Its
  BY <1>1 DEF Core, StoreOK, OwnerAlive, IterOK
<1>3. Incremented(iter[o]) \in IterRec /\ Fresh(Incremented(iter[o]))
  BY <1>2, IncrementedType DEF Core, IterOK, ItemFresh, Fresh
<1>4. IterOK' /\ DOMAIN iter' = DOMAIN iter
  BY <1>1, <1>2, <1>3, PutIter DEF Core
<1>5. /\ DOMAIN group' = DOMAIN group
      /\ group' \in [DOMAIN group -> GroupRec]
      /\ \A h \in DOMAIN group : group'[h].owner = group[h].owner
      /\ \A h \in DOMAIN group : ~group'[h].completed => ~group[h].completed
  BY <1>1, <1>2, CompletedType DEF Core, StoreOK
<1>6. DOMAIN cursor' \subseteq DOMAIN cursor /\ cursor' \in [DOMAIN cursor' -> DOMAIN group]
  BY <1>1 DEF Drop, Core, StoreOK
<1>7. StoreOK'
  BY <1>1, <1>5, <1>6 DEF Core, StoreOK, PairOwned, GroupRec
<1>8. OwnerAlive'
  BY <1>4, <1>5 DEF Core, OwnerAlive, Open
<1> QED
  BY <1>1, <1>4, <1>7, <1>8 DEF Core

LEMMA MoveGroupEffect ==
    ASSUME Core, NEW g \in Grps, NEW h \in Grps, MoveGroup(g, h)
    PROVE  /\ g \in DOMAIN group /\ h \notin DOMAIN group
           /\ DOMAIN group' = DOMAIN group \cup {h}
           /\ group' \in [DOMAIN group' -> GroupRec]
           /\ group'[h] = group[g]
           /\ group'[g].completed
           /\ group'[g].owner = group[g].owner
           /\ \A k \in DOMAIN group : k # g => group'[k] = group[k]
<1>1. /\ g \in DOMAIN group /\ h \notin DOMAIN group
      /\ group' = Put(Completed(g), h, group[g])
  BY DEF MoveGroup
<1>2. /\ DOMAIN Completed(g) = DOMAIN group
      /\ Completed(g) \in [DOMAIN group -> GroupRec]
      /\ Completed(g)[g].completed
      /\ \A k \in DOMAIN group : Completed(g)[k].owner = group[k].owner
      /\ \A k \in DOMAIN group : k # g => Completed(g)[k] = group[k]
  BY <1>1, CompletedType DEF Core
<1> QED
  BY <1>1, <1>2 DEF Put, Core, StoreOK

LEMMA CoreMoveGroup ==
    ASSUME Core, NEW g \in Grps, NEW h \in Grps, MoveGroup(g, h) PROVE Core'
<1>1. UNCHANGED <<keys, iter, pair, cursor>>
  BY DEF MoveGroup
<1>2. /\ g \in DOMAIN group /\ h \notin DOMAIN group
      /\ DOMAIN group' = DOMAIN group \cup {h}
      /\ group' \in [DOMAIN group' -> GroupRec]
      /\ group'[h] = group[g]
      /\ group'[g].completed
      /\ group'[g].owner = group[g].owner
      /\ \A k \in DOMAIN group : k # g => group'[k] = group[k]
  BY MoveGroupEffect
<1>3. StoreOK'
  BY <1>1, <1>2 DEF Core, StoreOK, PairOwned, GroupRec
<1>4. OwnerAlive'
  BY <1>1, <1>2 DEF Core, OwnerAlive, Open
<1>5. IterOK'
  BY <1>1 DEF Core, IterOK, ItemFresh, IterRec, End
<1> QED
  BY <1>1, <1>3, <1>4, <1>5 DEF Core

LEMMA CoreDestroyMoved ==
    ASSUME Core, NEW g \in Grps, DestroyMoved(g) PROVE Core'
<1>1. /\ g \in DOMAIN group /\ MovedOut(g) /\ UNCHANGED <<keys, pair>>
      /\ group' = Drop(group, g) /\ cursor' = Forget(cursor, g)
  BY DEF DestroyMoved
<1>2. IterOK' /\ DOMAIN iter' = DOMAIN iter
  <2> DEFINE o == group[g].owner
  <2>1. CASE Open(g)
    <3>1. PICK it \in OwnerAfter(group[g], iter[o]) : iter' = Put(iter, o, it)
      BY <2>1 DEF DestroyMoved
    <3>2. o \in DOMAIN iter /\ o \in Its /\ iter[o] \in IterRec /\ Fresh(iter[o])
      BY <1>1, <2>1 DEF Core, IterOK, OwnerAlive, ItemFresh, Fresh
    <3>3. it \in IterRec /\ Fresh(it)
      BY <3>1, <3>2, OwnerAfterType DEF Core, IterOK
    <3> QED
      BY <1>1, <3>1, <3>2, <3>3, PutIter DEF Core
  <2>2. CASE ~Open(g)
    BY <1>1, <2>2 DEF DestroyMoved, Core, IterOK, ItemFresh, IterRec, End
  <2> QED
    BY <2>1, <2>2
<1>3. /\ DOMAIN group' = DOMAIN group \ {g}
      /\ group' \in [DOMAIN group' -> GroupRec]
      /\ \A h \in DOMAIN group' : group'[h] = group[h]
  BY <1>1 DEF Drop, Core, StoreOK
<1>4. DOMAIN cursor' \subseteq DOMAIN cursor /\ cursor' \in [DOMAIN cursor' -> DOMAIN group']
  BY <1>1, <1>3 DEF Forget, Core, StoreOK
<1>5. StoreOK'
  BY <1>1, <1>3, <1>4 DEF Core, StoreOK, PairOwned, MovedOut, GroupRec
<1>6. OwnerAlive'
  BY <1>2, <1>3 DEF Core, OwnerAlive, Open
<1> QED
  BY <1>1, <1>2, <1>5, <1>6 DEF Core

LEMMA CoreStep == Core /\ [Next]_vars => Core'
<1> SUFFICES ASSUME Core, [Next]_vars PROVE Core'
  OBVIOUS
<1>1. CASE UNCHANGED vars
  BY <1>1 DEF vars, Core, IterOK, ItemFresh, IterRec, End, StoreOK, GroupRec,
              PairOwned, OwnerAlive, Open
<1>2. CASE Next
  BY <1>2, CoreConstruct, CoreCopy, CoreAssign, CoreDeref, CorePreIncrement,
     CorePostIncrement, CoreDestroy, CoreGroupBegin, CoreGroupBreak,
     CoreGroupIncrement, CoreMoveGroup, CoreDestroyMoved DEF Next
<1> QED
  BY <1>1, <1>2

(* Whatever a client does, with the habits the rules forbid or without, the *)
(* objects stay well formed.                                                *)
THEOREM TypeCorrect == Spec => []TypeOK
<1>1. Core => TypeOK
  BY DEF Core, IterOK, StoreOK, IterRec, GroupRec, TypeOK
<1> QED
  BY <1>1, CoreInit, CoreStep, PTL DEF Spec

(* Whatever a client does, item_ holds the element at sub_iter_: next_key   *)
(* and operator* never read another one.                                    *)
THEOREM ItemsFresh == Spec => []ItemFresh
<1>1. Core => ItemFresh
  BY DEF Core, IterOK
<1> QED
  BY <1>1, CoreInit, CoreStep, PTL DEF Spec

----------------------------------------------------------------------------
(* Groups and runs, for a client that keeps to the rules                   *)

(* The pair of an iterator stays set while a Group taken from it is open.  *)
OpenHasPair == \A g \in DOMAIN group : Open(g) => group[g].owner \in DOMAIN pair

Runs == OpenGroupInRun /\ OneOpenGroup /\ NextGroupAtKeyChange /\ OpenHasPair

AtKeyChange(it) == it.sub \in {it.base, End} \/ keys[it.sub - 1] # keys[it.sub]

(* q is the position after the last element of the run that p is in        *)
RunEndAt(p, q) ==
    /\ q \in p + 1 .. End
    /\ \A r \in p .. q - 1 : keys[r] = keys[p]
    /\ q # End => keys[q] # keys[p]

(* The destructor of an unfinished Group stops exactly at the end of its run. *)
LEMMA OwnerAfterRun ==
    ASSUME KeyAliases = FALSE, keys \in Seq(Keys), NEW g, NEW it \in IterRec,
           Fresh(it), it.sub # End, ~g.completed, keys[it.sub] = g.key,
           NEW jt \in OwnerAfter(g, it)
    PROVE  RunEndAt(it.sub, jt.sub) /\ jt.base = it.base
<1>1. End \in Nat /\ Len(keys) \in Nat /\ End = Len(keys) + 1
  BY DEF End
<1>2. PICK q \in LoopStops(it, g.key) : jt = IncrementedTo(it, q)
  BY DEF OwnerAfter
<1>3. Incremented(it).sub = it.sub + 1 /\ it.sub \in 1 .. Len(keys)
  BY <1>1 DEF Incremented, IterRec
<1>4. /\ q \in it.sub + 1 .. End
      /\ \A r \in it.sub + 1 .. q - 1 : keys[r] = g.key
      /\ q = End \/ keys[q] # g.key
  BY <1>2, <1>3 DEF LoopStops, SameKey
<1>5. jt.sub = q /\ jt.base = it.base
  BY <1>2 DEF IncrementedTo
<1> QED
  BY <1>1, <1>3, <1>4, <1>5 DEF RunEndAt

LEMMA RunEndIsKeyChange ==
    ASSUME keys \in Seq(Keys), NEW it \in IterRec, NEW p \in 1 .. Len(keys),
           RunEndAt(p, it.sub)
    PROVE  AtKeyChange(it)
<1>1. End \in Nat /\ Len(keys) \in Nat /\ End = Len(keys) + 1
  BY DEF End
<1>2. it.sub - 1 \in p .. it.sub - 1
  BY <1>1 DEF RunEndAt
<1> QED
  BY <1>1, <1>2 DEF RunEndAt, AtKeyChange

(* An unfinished Group of iterator i is its pair's or was moved out of it. *)
LEMMA OpenGroupCases ==
    ASSUME Core, NEW i, NEW g \in OpenGroupsOf(i)
    PROVE  g \in Kept(i) \/ (i \in DOMAIN pair /\ pair[i] = g)
BY DEF OpenGroupsOf, Kept, MovedOut, Core, StoreOK, PairOwned

LEMMA AdvancedRun ==
    ASSUME Habits = {}, KeyAliases = FALSE, Core, Runs, NEW i \in Its,
           MayAdvance(i), NEW it \in Advanced(i)
    PROVE  /\ it.base = iter[i].base
           /\ \/ it = iter[i] /\ OpenGroupsOf(i) = {} /\ i \in DOMAIN pair
              \/ iter[i].sub \in 1 .. Len(keys) /\ RunEndAt(iter[i].sub, it.sub)
<1>1. CanIncrement(i) /\ Kept(i) = {} /\ i \in DOMAIN iter
  BY DEF MayAdvance, CanIncrement, AtElement, Core
<1>2. /\ iter[i] \in IterRec /\ Fresh(iter[i]) /\ keys \in Seq(Keys)
      /\ iter[i].sub # End <=> iter[i].sub \in 1 .. Len(keys)
  BY <1>1 DEF Core, IterOK, IterRec, End, ItemFresh, Fresh
<1>3. CASE i \in DOMAIN pair /\ Open(pair[i])
  <2>1. group[pair[i]].owner = i /\ pair[i] \in DOMAIN group
    BY <1>3 DEF Core, StoreOK, PairOwned
  <2>2. iter[i].sub \in group[pair[i]].first .. iter[i].sub
    BY <1>3, <2>1 DEF Runs, OpenGroupInRun
  <2>3. keys[iter[i].sub] = group[pair[i]].key
    BY <1>3, <2>1, <2>2 DEF Runs, OpenGroupInRun
  <2>4. it \in OwnerAfter(group[pair[i]], iter[i])
    BY <1>3 DEF Advanced
  <2>5. iter[i].sub \in 1 .. Len(keys)
    BY <1>2, <1>3, <2>1 DEF Runs, OpenGroupInRun, End
  <2> QED
    BY <1>1, <1>2, <1>3, <2>3, <2>4, <2>5, OwnerAfterRun DEF Open
<1>4. CASE i \in DOMAIN pair /\ ~Open(pair[i])
  <2>1. it = iter[i]
    BY <1>4 DEF Advanced, OwnerAfter, Open
  <2>2. OpenGroupsOf(i) = {}
    BY <1>1, <1>4, OpenGroupCases DEF OpenGroupsOf
  <2> QED
    BY <1>4, <2>1, <2>2
<1>5. CASE i \notin DOMAIN pair
  <2>0. AtElement(i)
    BY <1>1, <1>5 DEF CanIncrement
  <2>1. NewGroup(i).key = keys[iter[i].sub] /\ ~NewGroup(i).completed
    BY <2>0, NewGroupType
  <2>2. it \in OwnerAfter(NewGroup(i), iter[i])
    BY <1>5 DEF Advanced
  <2> QED
    BY <1>1, <1>2, <2>0, <2>1, <2>2, OwnerAfterRun DEF AtElement
<1> QED
  BY <1>3, <1>4, <1>5

(* A step that resets the pair of i, none of whose Groups are kept, and     *)
(* moves no other iterator keeps Runs, if i ends between two groups.        *)
LEMMA RunsReset ==
    ASSUME Core, Runs, NEW i, ResetPair(i), keys' = keys, Kept(i) = {},
           i \in DOMAIN iter' => AtKeyChange(iter'[i]),
           \A j \in DOMAIN iter' : j # i =>
               \/ j \in DOMAIN iter /\ iter'[j] = iter[j]
               \/ j \notin DOMAIN iter /\ iter'[j].sub = iter'[j].base,
           DOMAIN iter \ {i} \subseteq DOMAIN iter'
    PROVE  Runs'
<1>1. /\ DOMAIN pair' = DOMAIN pair \ {i}
      /\ DOMAIN group' = DOMAIN group \ (IF i \in DOMAIN pair THEN {pair[i]} ELSE {})
      /\ \A g \in DOMAIN group' : group'[g] = group[g]
  BY ResetPairKeeps DEF Core
<1>2. \A g \in DOMAIN group' : ~group'[g].completed =>
          g \in DOMAIN group /\ Open(g) /\ group'[g] = group[g] /\ group[g].owner # i
  <2> SUFFICES ASSUME NEW g \in DOMAIN group', ~group'[g].completed
               PROVE  g \in DOMAIN group /\ Open(g) /\ group'[g] = group[g]
                      /\ group[g].owner # i
    OBVIOUS
  <2>1. g \in DOMAIN group /\ Open(g) /\ group'[g] = group[g]
    BY <1>1 DEF Open
  <2>2. group[g].owner # i
    BY <1>1, <2>1, OpenGroupCases DEF OpenGroupsOf
  <2> QED
    BY <2>1, <2>2
<1>3. \A g \in DOMAIN group' : ~group'[g].completed =>
          group[g].owner \in DOMAIN iter' /\ iter'[group[g].owner] = iter[group[g].owner]
  BY <1>2 DEF Core, OwnerAlive
<1>4. End' = End
  BY DEF End
<1>5. OpenGroupInRun'
  BY <1>2, <1>3 DEF Runs, OpenGroupInRun, Open
<1>6. OneOpenGroup'
  BY <1>2, <1>3 DEF Runs, OneOpenGroup, OpenGroupsOf, Open, Core, OwnerAlive
<1>7. OpenHasPair'
  BY <1>1, <1>2 DEF Runs, OpenHasPair, Open
<1>8. NextGroupAtKeyChange'
  <2> SUFFICES ASSUME NEW j \in DOMAIN iter', OpenGroupsOf(j)' = {}
               PROVE  AtKeyChange(iter'[j])
    BY <1>4 DEF NextGroupAtKeyChange, AtKeyChange
  <2>1. CASE j = i
    BY <2>1
  <2>2. CASE j # i /\ j \in DOMAIN iter /\ iter'[j] = iter[j]
    <3>1. ASSUME NEW g \in OpenGroupsOf(j) PROVE FALSE
      <4>1. g \in DOMAIN group /\ Open(g) /\ group[g].owner = j
        BY <3>1 DEF OpenGroupsOf
      <4>2. g \in DOMAIN group'
        BY <1>1, <2>2, <4>1 DEF Core, StoreOK, PairOwned
      <4>3. group'[g] = group[g]
        BY <1>1, <4>2
      <4> QED
        BY <4>1, <4>2, <4>3 DEF OpenGroupsOf, Open
    <3>2. OpenGroupsOf(j) = {}
      BY <3>1
    <3> QED
      BY <2>2, <3>2 DEF Runs, NextGroupAtKeyChange, AtKeyChange
  <2>3. CASE j # i /\ iter'[j].sub = iter'[j].base
    BY <2>3 DEF AtKeyChange
  <2> QED
    BY <2>1, <2>2, <2>3
<1> QED
  BY <1>5, <1>6, <1>7, <1>8 DEF Runs

LEMMA RunsInit == Init => Runs
BY DEF Init, Runs, OpenGroupInRun, OneOpenGroup, NextGroupAtKeyChange, OpenHasPair

(* A step that makes or overwrites no iterator but j, which has no open     *)
(* Group and stands where it was put, and leaves Groups and pairs alone.    *)
LEMMA RunsPutIdle ==
    ASSUME Core, Runs, NEW j, OpenGroupsOf(j) = {}, NEW it \in IterRec,
           it.sub = it.base \/ it.sub = End,
           iter' = Put(iter, j, it), UNCHANGED <<keys, pair, group>>
    PROVE  Runs'
<1>1. /\ DOMAIN iter' = DOMAIN iter \cup {j}
      /\ iter'[j] = it
      /\ \A k \in DOMAIN iter : k # j => iter'[k] = iter[k]
  BY DEF Put
<1>2. \A g \in DOMAIN group : Open(g) => group[g].owner # j
  BY DEF OpenGroupsOf
<1>3. OpenGroupInRun' /\ OpenHasPair'
  BY <1>1, <1>2 DEF Runs, OpenGroupInRun, OpenHasPair, Open
<1>4. \A k : OpenGroupsOf(k)' = OpenGroupsOf(k)
  BY DEF OpenGroupsOf, Open
<1>5. OneOpenGroup'
  BY <1>1, <1>4 DEF Runs, OneOpenGroup
<1>6. NextGroupAtKeyChange'
  BY <1>1, <1>4 DEF Runs, NextGroupAtKeyChange, End
<1> QED
  BY <1>3, <1>5, <1>6 DEF Runs

LEMMA RunsConstruct ==
    ASSUME Core, Runs, NEW i \in Its, Begin(i) \/ Finish(i) PROVE Runs'
<1>1. PICK p \in {1, End} : iter' = Put(iter, i, IteratorAt(p))
  BY DEF Construct, Begin, Finish
<1>2. IteratorAt(p) \in IterRec /\ IteratorAt(p).sub = IteratorAt(p).base
  BY DEF IteratorAt, IterRec, End, Core, IterOK
<1>3. OpenGroupsOf(i) = {}
  BY DEF OpenGroupsOf, Construct, Begin, Finish, Core, OwnerAlive
<1> QED
  BY <1>1, <1>2, <1>3, RunsPutIdle DEF Construct, Begin, Finish

LEMMA RunsCopy ==
    ASSUME Core, Runs, NEW i \in Its, NEW j \in Its, Copy(i, j) PROVE Runs'
<1>1. CopyOf(iter[i]) \in IterRec /\ CopyOf(iter[i]).sub = CopyOf(iter[i]).base
  BY DEF CopyOf, IterRec, Copy, Core, IterOK
<1>2. OpenGroupsOf(j) = {}
  BY DEF OpenGroupsOf, Copy, Core, OwnerAlive
<1> QED
  BY <1>1, <1>2, RunsPutIdle DEF Copy

(* Without open Groups, assignment resets a pair whose destructor is idle. *)
LEMMA AssignEffect ==
    ASSUME Habits = {}, NEW i, NEW j, Core, Assign(i, j)
    PROVE  iter' = Put(iter, i, CopyOf(iter[j])) /\ OpenGroupsOf(i) = {}
<1>1. OpenGroupsOf(i) = {}
  BY DEF Assign
<1>2. i \in DOMAIN pair => group[pair[i]].completed
  BY <1>1 DEF OpenGroupsOf, Open, Core, StoreOK, PairOwned
<1> QED
  BY <1>1, <1>2 DEF Assign, OwnerAfter

LEMMA RunsAssign ==
    ASSUME Habits = {}, Core, Runs, NEW i \in Its, NEW j \in Its, Assign(i, j)
    PROVE  Runs'
<1>1. iter' = Put(iter, i, CopyOf(iter[j])) /\ ResetPair(i) /\ keys' = keys
      /\ Kept(i) = {} /\ i \in DOMAIN iter
  BY AssignEffect DEF Assign
<1>2. AtKeyChange(CopyOf(iter[j]))
  BY DEF AtKeyChange, CopyOf
<1>3. /\ DOMAIN iter' = DOMAIN iter
      /\ iter'[i] = CopyOf(iter[j])
      /\ \A k \in DOMAIN iter : k # i => iter'[k] = iter[k]
  BY <1>1 DEF Put
<1> QED
  BY <1>1, <1>2, <1>3, RunsReset

LEMMA RunsDeref ==
    ASSUME Core, Runs, NEW i \in Its, NEW g \in Grps, Deref(i, g) PROVE Runs'
<1>1. /\ AtElement(i) /\ i \notin DOMAIN pair /\ g \notin DOMAIN group
      /\ group' = Put(group, g, NewGroup(i)) /\ pair' = Put(pair, i, g)
      /\ UNCHANGED <<keys, iter, cursor>>
  BY DEF Deref
<1>2. /\ NewGroup(i).owner = i /\ NewGroup(i).key = keys[iter[i].sub]
      /\ NewGroup(i).first = iter[i].sub
  BY <1>1, NewGroupType
<1>3. /\ DOMAIN group' = DOMAIN group \cup {g}
      /\ group'[g] = NewGroup(i)
      /\ \A h \in DOMAIN group : group'[h] = group[h]
      /\ DOMAIN pair' = DOMAIN pair \cup {i}
  BY <1>1 DEF Put
<1>4. \A h \in DOMAIN group : Open(h) => group[h].owner # i
  BY <1>1 DEF Runs, OpenHasPair
<1>5. iter[i].sub \in 1 .. Len(keys) /\ i \in DOMAIN iter
  BY <1>1 DEF AtElement, Core, IterOK, IterRec, End
<1>6. OpenGroupInRun'
  BY <1>1, <1>2, <1>3, <1>5 DEF Runs, OpenGroupInRun, Open
<1>7. OneOpenGroup'
  BY <1>1, <1>2, <1>3, <1>4 DEF Runs, OneOpenGroup, OpenGroupsOf, Open
<1>8. OpenHasPair'
  BY <1>2, <1>3 DEF Runs, OpenHasPair, Open
<1>9. NextGroupAtKeyChange'
  BY <1>1, <1>3 DEF Runs, NextGroupAtKeyChange, OpenGroupsOf, Open, End
<1> QED
  BY <1>6, <1>7, <1>8, <1>9 DEF Runs

LEMMA RunsPreIncrement ==
    ASSUME Habits = {}, KeyAliases = FALSE, Core, Runs, NEW i \in Its,
           PreIncrement(i)
    PROVE  Runs'
<1>1. PICK it \in Advanced(i) : iter' = Put(iter, i, it)
  BY DEF PreIncrement
<1>2. /\ MayAdvance(i) /\ keys' = keys /\ ResetPair(i) /\ Kept(i) = {}
      /\ CanIncrement(i) /\ i \in DOMAIN iter
  BY DEF PreIncrement, MayAdvance, CanIncrement, AtElement, Core
<1>3. it \in IterRec /\ keys \in Seq(Keys)
  BY <1>2, AdvancedType DEF Core, IterOK
<1>4. AtKeyChange(it)
  <2>1. CASE it = iter[i] /\ OpenGroupsOf(i) = {}
    BY <1>2, <2>1 DEF Runs, NextGroupAtKeyChange, AtKeyChange, AtElement
  <2>2. CASE iter[i].sub \in 1 .. Len(keys) /\ RunEndAt(iter[i].sub, it.sub)
    BY <1>3, <2>2, RunEndIsKeyChange
  <2> QED
    BY <1>2, <2>1, <2>2, AdvancedRun
<1>5. /\ DOMAIN iter' = DOMAIN iter
      /\ iter'[i] = it
      /\ \A k \in DOMAIN iter : k # i => iter'[k] = iter[k]
  BY <1>1, <1>2 DEF Put, AtElement
<1> QED
  BY <1>2, <1>4, <1>5, RunsReset

LEMMA RunsPostIncrement ==
    ASSUME Habits = {}, KeyAliases = FALSE, Core, Runs, NEW i \in Its, NEW j \in Its,
           PostIncrement(i, j)
    PROVE  Runs'
<1>1. PICK it \in Advanced(i) : iter' = Put(Put(iter, j, CopyOf(iter[i])), i, it)
  BY DEF PostIncrement
<1>2. /\ MayAdvance(i) /\ keys' = keys /\ ResetPair(i) /\ Kept(i) = {}
      /\ CanIncrement(i) /\ i \in DOMAIN iter /\ j \notin DOMAIN iter
  BY DEF PostIncrement, MayAdvance, CanIncrement, AtElement, Core
<1>3. it \in IterRec /\ keys \in Seq(Keys)
  BY <1>2, AdvancedType DEF Core, IterOK
<1>4. AtKeyChange(it)
  <2>1. CASE it = iter[i] /\ OpenGroupsOf(i) = {}
    BY <1>2, <2>1 DEF Runs, NextGroupAtKeyChange, AtKeyChange, AtElement
  <2>2. CASE iter[i].sub \in 1 .. Len(keys) /\ RunEndAt(iter[i].sub, it.sub)
    BY <1>3, <2>2, RunEndIsKeyChange
  <2> QED
    BY <1>2, <2>1, <2>2, AdvancedRun
<1>5. /\ DOMAIN iter' = DOMAIN iter \cup {j} /\ i # j
      /\ iter'[i] = it
      /\ iter'[j] = CopyOf(iter[i])
      /\ \A k \in DOMAIN iter : k # i => iter'[k] = iter[k]
  BY <1>1, <1>2 DEF Put, AtElement
<1>6. iter'[j].sub = iter'[j].base
  BY <1>5 DEF CopyOf
<1> QED
  BY <1>2, <1>4, <1>5, <1>6, RunsReset

LEMMA RunsDestroy ==
    ASSUME Core, Runs, NEW i \in Its, Destroy(i) PROVE Runs'
<1>1. iter' = Drop(iter, i) /\ keys' = keys /\ ResetPair(i) /\ Kept(i) = {}
  BY DEF Destroy
<1>2. DOMAIN iter' = DOMAIN iter \ {i} /\ \A k \in DOMAIN iter' : iter'[k] = iter[k]
  BY <1>1 DEF Drop
<1> QED
  BY <1>1, <1>2, RunsReset

LEMMA RunsCursorOnly ==
    ASSUME Runs, UNCHANGED <<keys, iter, pair, group>> PROVE Runs'
<1>1. \A k : OpenGroupsOf(k)' = OpenGroupsOf(k)
  BY DEF OpenGroupsOf, Open
<1> QED
  BY <1>1 DEF Runs, OpenGroupInRun, OneOpenGroup, NextGroupAtKeyChange,
              OpenHasPair, Open, End

(* What a GroupIterator's increment does to its Group and the owner: one    *)
(* more element of the run, or the run is over and the Group completed.     *)
LEMMA GroupIncrementEffect ==
    ASSUME KeyAliases = FALSE, Core, Runs, NEW c, GroupIncrement(c),
           NEW g, g = cursor[c], NEW o, o = group[g].owner
    PROVE  /\ g \in DOMAIN group /\ Open(g) /\ o \in DOMAIN iter
           /\ iter[o].sub \in group[g].first .. Len(keys)
           /\ keys[iter[o].sub] = group[g].key
           /\ DOMAIN iter' = DOMAIN iter
           /\ iter'[o].sub = iter[o].sub + 1
           /\ \A k \in DOMAIN iter : k # o => iter'[k] = iter[k]
           /\ \/ group' = group /\ iter'[o].sub # End
                 /\ keys[iter'[o].sub] = group[g].key
              \/ group' = Completed(g)
                 /\ (iter'[o].sub # End => keys[iter'[o].sub] # group[g].key)
<1> DEFINE it == Incremented(iter[o])
<1>1. /\ c \in DOMAIN cursor /\ Open(g) /\ UNCHANGED <<keys, pair>>
      /\ iter' = Put(iter, o, it)
      /\ IF it.sub # End /\ NextKey(it) = group[g].key
         THEN UNCHANGED <<group, cursor>>
         ELSE group' = Completed(g)
  BY DEF GroupIncrement
<1>2. g \in DOMAIN group /\ o \in DOMAIN iter
  BY <1>1 DEF Core, StoreOK, OwnerAlive
<1>3. iter[o].sub \in group[g].first .. Len(keys)
  BY <1>1, <1>2 DEF Runs, OpenGroupInRun
<1>4. group[g].first \in 1 .. Len(keys)
  BY <1>2 DEF Core, StoreOK, GroupRec
<1>5. keys[iter[o].sub] = group[g].key
  BY <1>1, <1>2, <1>3, <1>4 DEF Runs, OpenGroupInRun, Core, IterOK
<1>6. iter[o] \in IterRec /\ Fresh(iter[o]) /\ keys \in Seq(Keys)
  BY <1>2 DEF Core, IterOK, ItemFresh, Fresh
<1>7. it.sub = iter[o].sub + 1 /\ Fresh(it)
  BY <1>3, <1>6, IncrementedType DEF End
<1>8. it.sub # End => NextKey(it) = keys[it.sub]
  BY <1>7 DEF NextKey, Fresh
<1>9. DOMAIN iter' = DOMAIN iter /\ iter'[o] = it
      /\ \A k \in DOMAIN iter : k # o => iter'[k] = iter[k]
  BY <1>1, <1>2 DEF Put
<1> QED
  BY <1>1, <1>2, <1>3, <1>5, <1>7, <1>8, <1>9

LEMMA RunsGroupIncrement ==
    ASSUME KeyAliases = FALSE, Core, Runs, NEW c \in Curs, GroupIncrement(c)
    PROVE  Runs'
<1> DEFINE g == cursor[c]
           o == group[g].owner
<1>1. UNCHANGED <<keys, pair>>
  BY DEF GroupIncrement
<1>2. /\ g \in DOMAIN group /\ Open(g) /\ o \in DOMAIN iter
      /\ iter[o].sub \in group[g].first .. Len(keys)
      /\ keys[iter[o].sub] = group[g].key
      /\ DOMAIN iter' = DOMAIN iter
      /\ iter'[o].sub = iter[o].sub + 1
      /\ \A k \in DOMAIN iter : k # o => iter'[k] = iter[k]
      /\ \/ group' = group /\ iter'[o].sub # End
            /\ keys[iter'[o].sub] = group[g].key
         \/ group' = Completed(g)
            /\ (iter'[o].sub # End => keys[iter'[o].sub] # group[g].key)
  BY GroupIncrementEffect
<1>3. \A h \in DOMAIN group : Open(h) /\ group[h].owner = o => h = g
  BY <1>2 DEF Runs, OneOpenGroup, OpenGroupsOf
<1>4. group[g].first \in 1 .. Len(keys) /\ Len(keys) \in Nat /\ End = Len(keys) + 1
  BY <1>2 DEF Core, StoreOK, GroupRec, IterOK, End
<1>5. End' = End
  BY <1>1 DEF End
<1>6. CASE /\ group' = group /\ iter'[o].sub # End
           /\ keys[iter'[o].sub] = group[g].key
  <2>1. iter'[o].sub \in group[g].first .. Len(keys)
    <3>1. iter'[o].sub \in 1 .. End
      BY <1>2, <1>4
    <3> QED
      BY <1>2, <1>4, <1>6, <3>1
  <2>2. \A r \in group[g].first .. iter'[o].sub : keys[r] = group[g].key
    <3>1. \A r \in group[g].first .. iter[o].sub : keys[r] = group[g].key
      BY <1>2 DEF Runs, OpenGroupInRun
    <3> QED
      BY <1>2, <1>4, <1>6, <3>1
  <2>3. OpenGroupInRun'
    BY <1>1, <1>2, <1>3, <1>6, <2>1, <2>2 DEF Runs, OpenGroupInRun, Open
  <2>4. \A k : OpenGroupsOf(k)' = OpenGroupsOf(k)
    BY <1>6 DEF OpenGroupsOf, Open
  <2>5. OneOpenGroup'
    BY <1>2, <2>4 DEF Runs, OneOpenGroup
  <2>6. OpenHasPair'
    BY <1>1, <1>6 DEF Runs, OpenHasPair, Open
  <2>7. OpenGroupsOf(o) # {}
    BY <1>2 DEF OpenGroupsOf
  <2>8. NextGroupAtKeyChange'
    BY <1>1, <1>2, <1>5, <2>4, <2>7 DEF Runs, NextGroupAtKeyChange
  <2> QED
    BY <2>3, <2>5, <2>6, <2>8 DEF Runs
<1>7. CASE /\ group' = Completed(g)
           /\ (iter'[o].sub # End => keys[iter'[o].sub] # group[g].key)
  <2>1. /\ DOMAIN group' = DOMAIN group
        /\ group'[g].completed
        /\ \A h \in DOMAIN group : group'[h].owner = group[h].owner
        /\ \A h \in DOMAIN group : h # g => group'[h] = group[h]
    BY <1>2, <1>7, CompletedType DEF Core
  <2>2. \A h \in DOMAIN group' : ~group'[h].completed =>
            h \in DOMAIN group /\ Open(h) /\ group'[h] = group[h] /\ group[h].owner # o
    BY <1>3, <2>1 DEF Open
  <2>3. OpenGroupInRun'
    BY <1>1, <1>2, <2>1, <2>2 DEF Runs, OpenGroupInRun, Open
  <2>4. OneOpenGroup'
    BY <1>2, <2>1, <2>2 DEF Runs, OneOpenGroup, OpenGroupsOf, Open
  <2>5. OpenHasPair'
    BY <1>1, <2>1, <2>2 DEF Runs, OpenHasPair, Open
  <2>6. \A k : k # o => OpenGroupsOf(k)' = OpenGroupsOf(k)
    BY <2>1, <2>2 DEF OpenGroupsOf, Open
  <2>7. iter'[o].sub # End => keys[iter'[o].sub - 1] # keys[iter'[o].sub]
    BY <1>2, <1>4, <1>7
  <2>8. NextGroupAtKeyChange'
    BY <1>1, <1>2, <1>5, <2>6, <2>7 DEF Runs, NextGroupAtKeyChange
  <2> QED
    BY <2>3, <2>4, <2>5, <2>8 DEF Runs
<1> QED
  BY <1>2, <1>6, <1>7

LEMMA RunsMoveGroup ==
    ASSUME Core, Runs, NEW g \in Grps, NEW h \in Grps, MoveGroup(g, h)
    PROVE  Runs'
<1>1. UNCHANGED <<keys, iter, pair>> /\ End' = End
  BY DEF MoveGroup, End
<1>2. /\ g \in DOMAIN group /\ h \notin DOMAIN group
      /\ DOMAIN group' = DOMAIN group \cup {h}
      /\ group'[h] = group[g]
      /\ group'[g].completed
      /\ group'[g].owner = group[g].owner
      /\ \A k \in DOMAIN group : k # g => group'[k] = group[k]
  BY MoveGroupEffect
<1>3. OpenGroupInRun'
  BY <1>1, <1>2 DEF Runs, OpenGroupInRun, Open
<1>4. OneOpenGroup'
  BY <1>1, <1>2 DEF Runs, OneOpenGroup, OpenGroupsOf, Open
<1>5. OpenHasPair'
  BY <1>1, <1>2 DEF Runs, OpenHasPair, Open
<1>6. \A k : OpenGroupsOf(k)' = {} <=> OpenGroupsOf(k) = {}
  BY <1>2 DEF OpenGroupsOf, Open
<1>7. NextGroupAtKeyChange'
  BY <1>1, <1>6 DEF Runs, NextGroupAtKeyChange
<1> QED
  BY <1>3, <1>4, <1>5, <1>7 DEF Runs

LEMMA DestroyMovedEffect ==
    ASSUME KeyAliases = FALSE, Core, Runs, NEW g, DestroyMoved(g), Open(g),
           NEW o, o = group[g].owner
    PROVE  /\ g \in DOMAIN group /\ o \in DOMAIN iter
           /\ iter[o].sub \in 1 .. Len(keys)
           /\ DOMAIN iter' = DOMAIN iter
           /\ iter'[o] \in IterRec
           /\ RunEndAt(iter[o].sub, iter'[o].sub)
           /\ \A k \in DOMAIN iter : k # o => iter'[k] = iter[k]
<1>1. g \in DOMAIN group /\ o \in DOMAIN iter
  BY DEF DestroyMoved, Core, OwnerAlive
<1>2. PICK it \in OwnerAfter(group[g], iter[o]) : iter' = Put(iter, o, it)
  BY DEF DestroyMoved
<1>3. iter[o] \in IterRec /\ Fresh(iter[o]) /\ keys \in Seq(Keys)
  BY <1>1 DEF Core, IterOK, ItemFresh, Fresh
<1>4. iter[o].sub \in group[g].first .. Len(keys)
  BY <1>1 DEF Runs, OpenGroupInRun
<1>5. group[g].first \in 1 .. Len(keys) /\ Len(keys) \in Nat /\ End = Len(keys) + 1
  BY <1>1 DEF Core, StoreOK, GroupRec, IterOK, End
<1>6. keys[iter[o].sub] = group[g].key
  BY <1>1, <1>4, <1>5 DEF Runs, OpenGroupInRun
<1>7. iter[o].sub \in 1 .. Len(keys) /\ iter[o].sub # End
  BY <1>4, <1>5
<1>8. RunEndAt(iter[o].sub, it.sub)
  BY <1>2, <1>3, <1>6, <1>7, OwnerAfterRun DEF Open
<1>9. it \in IterRec
  BY <1>2, <1>3, OwnerAfterType
<1>10. DOMAIN iter' = DOMAIN iter /\ iter'[o] = it
       /\ \A k \in DOMAIN iter : k # o => iter'[k] = iter[k]
  BY <1>1, <1>2 DEF Put
<1> QED
  BY <1>1, <1>7, <1>8, <1>9, <1>10

LEMMA RunsDestroyMoved ==
    ASSUME KeyAliases = FALSE, Core, Runs, NEW g \in Grps, DestroyMoved(g)
    PROVE  Runs'
<1> DEFINE o == group[g].owner
<1>1. g \in DOMAIN group /\ UNCHANGED <<keys, pair>> /\ End' = End
  BY DEF DestroyMoved, End
<1>2. DOMAIN group' = DOMAIN group \ {g} /\ \A h \in DOMAIN group' : group'[h] = group[h]
  BY DEF DestroyMoved, Drop
<1>3. OpenHasPair'
  BY <1>1, <1>2 DEF Runs, OpenHasPair, Open
<1>4. CASE Open(g)
  <2>1. /\ o \in DOMAIN iter /\ iter[o].sub \in 1 .. Len(keys)
        /\ DOMAIN iter' = DOMAIN iter
        /\ iter'[o] \in IterRec
        /\ RunEndAt(iter[o].sub, iter'[o].sub)
        /\ \A k \in DOMAIN iter : k # o => iter'[k] = iter[k]
    BY <1>4, DestroyMovedEffect
  <2>2. \A h \in DOMAIN group : Open(h) /\ group[h].owner = o => h = g
    BY <1>1, <1>4, <2>1 DEF Runs, OneOpenGroup, OpenGroupsOf
  <2>3. OpenGroupInRun'
    BY <1>1, <1>2, <2>1, <2>2 DEF Runs, OpenGroupInRun, Open
  <2>4. OneOpenGroup'
    BY <1>2, <2>1 DEF Runs, OneOpenGroup, OpenGroupsOf, Open
  <2>5. \A k : k # o => OpenGroupsOf(k)' = OpenGroupsOf(k)
    BY <1>2 DEF OpenGroupsOf, Open
  <2>6. AtKeyChange(iter'[o])
    BY <2>1, RunEndIsKeyChange DEF Core, IterOK
  <2>7. NextGroupAtKeyChange'
    BY <1>1, <2>1, <2>5, <2>6 DEF Runs, NextGroupAtKeyChange, AtKeyChange
  <2> QED
    BY <1>3, <2>3, <2>4, <2>7 DEF Runs
<1>5. CASE ~Open(g)
  <2>1. iter' = iter
    BY <1>5 DEF DestroyMoved
  <2>2. \A k : OpenGroupsOf(k)' = OpenGroupsOf(k)
    BY <1>2, <1>5 DEF OpenGroupsOf, Open
  <2> QED
    BY <1>1, <1>2, <1>3, <2>1, <2>2 DEF Runs, OpenGroupInRun, OneOpenGroup,
       NextGroupAtKeyChange, Open
<1> QED
  BY <1>4, <1>5

LEMMA RunsStep ==
    ASSUME Habits = {}, KeyAliases = FALSE, Core, Runs, [Next]_vars
    PROVE  Runs'
<1>1. CASE UNCHANGED vars
  BY <1>1, RunsCursorOnly DEF vars
<1>2. ASSUME NEW c \in Curs, NEW g \in Grps, GroupBegin(c, g)
      PROVE  Runs'
  BY <1>2, RunsCursorOnly DEF GroupBegin
<1>3. ASSUME NEW c \in Curs, GroupBreak(c)
      PROVE  Runs'
  BY <1>3, RunsCursorOnly DEF GroupBreak
<1>4. CASE Next
  BY <1>2, <1>3, <1>4, RunsConstruct, RunsCopy, RunsAssign, RunsDeref, RunsPreIncrement,
     RunsPostIncrement, RunsDestroy, RunsGroupIncrement, RunsMoveGroup,
     RunsDestroyMoved DEF Next
<1> QED
  BY <1>1, <1>4

(* An assignment over an iterator with no open Group takes the other's      *)
(* position exactly, for every input and key function.                      *)
THEOREM AssignmentCopies ==
    ASSUME Habits = {}
    PROVE  Spec => AssignTakesPosition
<1>1. ASSUME Core, NEW i \in Its, NEW j \in Its, Assign(i, j)
      PROVE  iter'[i].sub = iter[j].sub
  <2>1. iter' = Put(iter, i, CopyOf(iter[j]))
    BY <1>1, AssignEffect
  <2>2. iter'[i] = CopyOf(iter[j])
    BY <2>1 DEF Put
  <2> QED
    BY <2>2 DEF CopyOf
<1>2. Core => [\A i, j \in Its : Assign(i, j) => iter'[i].sub = iter[j].sub]_vars
  BY <1>1
<1> QED
  BY <1>2, CoreInit, CoreStep, PTL DEF Spec, AssignTakesPosition

LEMMA RunsHold ==
    ASSUME Habits = {}, KeyAliases = FALSE
    PROVE  Spec => []Runs
<1>1. Init => Core /\ Runs
  BY CoreInit, RunsInit
<1>2. Core /\ Runs /\ [Next]_vars => Core' /\ Runs'
  BY CoreStep, RunsStep
<1> QED
  BY <1>1, <1>2, PTL DEF Spec

(* For a client that keeps to the rules, with any number of iterators,      *)
(* Groups and GroupIterators: what a Group yields has its key and is in the *)
(* run that it began in.                                                    *)
THEOREM GroupsStayInRuns ==
    ASSUME Habits = {}, KeyAliases = FALSE
    PROVE  Spec => []OpenGroupInRun
<1>1. Runs => OpenGroupInRun
  BY DEF Runs
<1> QED
  BY <1>1, RunsHold, PTL

(* Two unfinished Groups, moved or not, never advance the same iterator.    *)
THEOREM GroupsAreAlone ==
    ASSUME Habits = {}, KeyAliases = FALSE
    PROVE  Spec => []OneOpenGroup
<1>1. Runs => OneOpenGroup
  BY DEF Runs
<1> QED
  BY <1>1, RunsHold, PTL

(* The next Group starts at a change of key however the previous one was    *)
(* left: skipped, read in part, read to its end, moved out or copied over.  *)
THEOREM GroupsFollowRuns ==
    ASSUME Habits = {}, KeyAliases = FALSE
    PROVE  Spec => []NextGroupAtKeyChange
<1>1. Runs => NextGroupAtKeyChange
  BY DEF Runs
<1> QED
  BY <1>1, RunsHold, PTL

----------------------------------------------------------------------------
(* GroupBy implements Grouping: its Groups, completed flags and destructor  *)
(* loops come to independent walks over the runs of keys.                   *)

At == [i \in DOMAIN iter |-> iter[i].sub]
Entered == {i \in DOMAIN iter : OpenGroupsOf(i) # {}}

LEMMA RunEndBar ==
    ASSUME NEW p, NEW q, keys' = keys, RunEndAt(p, q)
    PROVE  G!RunEnd(p, q)
BY DEF RunEndAt, G!RunEnd, End, G!End

(* Resetting the pair of an iterator that has no kept Group leaves it       *)
(* between groups, and changes nothing for the others.                      *)
LEMMA InsideAfterReset ==
    ASSUME Core, NEW i, ResetPair(i), keys' = keys, Kept(i) = {}
    PROVE  /\ OpenGroupsOf(i)' = {}
           /\ \A k : k # i => OpenGroupsOf(k)' = OpenGroupsOf(k)
<1>1. /\ DOMAIN group' = DOMAIN group \ (IF i \in DOMAIN pair THEN {pair[i]} ELSE {})
      /\ \A g \in DOMAIN group' : group'[g] = group[g]
  BY ResetPairKeeps DEF Core
<1>2. ASSUME NEW g \in OpenGroupsOf(i)' PROVE FALSE
  <2>1. g \in OpenGroupsOf(i) /\ g \in DOMAIN group'
    BY <1>1, <1>2 DEF OpenGroupsOf, Open
  <2> QED
    BY <1>1, <2>1, OpenGroupCases
<1>3. i \in DOMAIN pair => group[pair[i]].owner = i
  BY DEF Core, StoreOK, PairOwned
<1>4. ASSUME NEW k, k # i PROVE OpenGroupsOf(k)' = OpenGroupsOf(k)
  BY <1>1, <1>3, <1>4 DEF OpenGroupsOf, Open
<1> QED
  BY <1>2, <1>4

LEMMA InitBar == Init => G!Init
<1> SUFFICES ASSUME Init PROVE G!Init
  OBVIOUS
<1>1. keys \in Seq(Keys)
  BY CoreInit DEF Core, IterOK
<1> QED
  BY <1>1 DEF Init, G!Init

LEMMA ConstructBar ==
    ASSUME Core, NEW i \in Its, Begin(i) \/ Finish(i) PROVE G!Start(i)
<1>1. PICK p \in {1, End} : iter' = Put(iter, i, IteratorAt(p))
  BY DEF Construct, Begin, Finish
<1>2. UNCHANGED <<keys, group>> /\ i \notin DOMAIN iter
  BY DEF Construct, Begin, Finish
<1>3. At' = Put(At, i, p)
  BY <1>1 DEF At, Put, IteratorAt
<1>4. Entered' = Entered
  BY <1>1, <1>2 DEF Entered, Put, OpenGroupsOf, Open, Core, OwnerAlive
<1> QED
  BY <1>2, <1>3, <1>4 DEF G!Start, At, Entered, Put, G!Put, G!End, End

LEMMA CopyBar ==
    ASSUME Core, NEW i \in Its, NEW j \in Its, Copy(i, j) PROVE G!Fork(i, j)
<1>1. /\ iter' = Put(iter, j, CopyOf(iter[i])) /\ UNCHANGED <<keys, group>>
      /\ i \in DOMAIN iter /\ j \notin DOMAIN iter
  BY DEF Copy
<1>2. At' = Put(At, j, At[i])
  BY <1>1 DEF At, Put, CopyOf
<1>3. Entered' = Entered
  BY <1>1 DEF Entered, Put, OpenGroupsOf, Open, Core, OwnerAlive
<1> QED
  BY <1>1, <1>2, <1>3 DEF G!Fork, At, Entered, Put, G!Put

LEMMA AssignBar ==
    ASSUME Habits = {}, Core, NEW i \in Its, NEW j \in Its, Assign(i, j)
    PROVE  G!Fork(j, i)
<1>1. /\ iter' = Put(iter, i, CopyOf(iter[j])) /\ OpenGroupsOf(i) = {}
      /\ i \in DOMAIN iter /\ j \in DOMAIN iter /\ i # j /\ keys' = keys
      /\ ResetPair(i) /\ Kept(i) = {}
  BY AssignEffect DEF Assign
<1>2. At' = Put(At, i, At[j])
  BY <1>1 DEF At, Put, CopyOf
<1>3. \A k : OpenGroupsOf(k)' = OpenGroupsOf(k)
  BY <1>1, InsideAfterReset
<1>4. Entered' = Entered
  BY <1>1, <1>3 DEF Entered, Put
<1> QED
  BY <1>1, <1>2, <1>4 DEF G!Fork, At, Entered, Put, G!Put

LEMMA DerefBar ==
    ASSUME Core, Runs, NEW i \in Its, NEW g \in Grps, Deref(i, g) PROVE G!Enter(i)
<1>1. /\ AtElement(i) /\ i \notin DOMAIN pair /\ g \notin DOMAIN group
      /\ group' = Put(group, g, NewGroup(i)) /\ UNCHANGED <<keys, iter>>
  BY DEF Deref
<1>2. NewGroup(i).owner = i /\ ~NewGroup(i).completed
  BY <1>1, NewGroupType
<1>3. OpenGroupsOf(i) = {}
  BY <1>1 DEF OpenGroupsOf, Runs, OpenHasPair
<1>4. g \in OpenGroupsOf(i)'
  BY <1>1, <1>2 DEF OpenGroupsOf, Open, Put
<1>5. \A k : k # i => OpenGroupsOf(k)' = OpenGroupsOf(k)
  BY <1>1, <1>2 DEF OpenGroupsOf, Open, Put
<1>6. Entered' = Entered \cup {i}
  BY <1>1, <1>4, <1>5 DEF Entered, AtElement
<1> QED
  BY <1>1, <1>3, <1>6 DEF G!Enter, Entered, AtElement, End, G!End

(* iterator i ends its run in a step that touches no other iterator        *)
LEMMA LeaveBar ==
    ASSUME Core, NEW i \in DOMAIN iter, keys' = keys, DOMAIN iter' = DOMAIN iter,
           iter[i].sub \in 1 .. Len(keys), RunEndAt(iter[i].sub, iter'[i].sub),
           \A k \in DOMAIN iter : k # i => iter'[k] = iter[k],
           OpenGroupsOf(i)' = {},
           \A k : k # i => OpenGroupsOf(k)' = OpenGroupsOf(k)
    PROVE  G!Leave(i)
<1>1. At' = [At EXCEPT ![i] = iter'[i].sub] /\ At[i] = iter[i].sub
  BY DEF At
<1>2. Entered' = Entered \ {i}
  BY DEF Entered
<1>3. Len(keys) \in Nat
  BY DEF Core, IterOK
<1>4. G!RunEnd(iter[i].sub, iter'[i].sub) /\ iter'[i].sub \in 2 .. G!End
  BY <1>3, RunEndBar DEF G!RunEnd, G!End
<1> QED
  BY <1>1, <1>2, <1>4 DEF G!Leave, At, Entered

LEMMA PreIncrementBar ==
    ASSUME Habits = {}, KeyAliases = FALSE, Core, Runs, NEW i \in Its,
           PreIncrement(i)
    PROVE  G!Leave(i) \/ UNCHANGED <<keys, At, Entered>>
<1>1. PICK it \in Advanced(i) : iter' = Put(iter, i, it)
  BY DEF PreIncrement
<1>2. /\ MayAdvance(i) /\ keys' = keys /\ ResetPair(i) /\ Kept(i) = {}
      /\ i \in DOMAIN iter
  BY DEF PreIncrement, MayAdvance, CanIncrement, AtElement, Core
<1>3. /\ DOMAIN iter' = DOMAIN iter /\ i \in DOMAIN iter
      /\ iter'[i] = it
      /\ \A k \in DOMAIN iter : k # i => iter'[k] = iter[k]
  BY <1>1, <1>2 DEF Put, AtElement
<1>4. OpenGroupsOf(i)' = {} /\ \A k : k # i => OpenGroupsOf(k)' = OpenGroupsOf(k)
  BY <1>2, InsideAfterReset
<1>5. CASE it = iter[i] /\ OpenGroupsOf(i) = {}
  BY <1>2, <1>3, <1>4, <1>5 DEF At, Entered
<1>6. CASE iter[i].sub \in 1 .. Len(keys) /\ RunEndAt(iter[i].sub, it.sub)
  BY <1>2, <1>3, <1>4, <1>6, LeaveBar
<1> QED
  BY <1>2, <1>5, <1>6, AdvancedRun

LEMMA PostIncrementBar ==
    ASSUME Habits = {}, KeyAliases = FALSE, Core, Runs, NEW i \in Its, NEW j \in Its,
           PostIncrement(i, j)
    PROVE  G!ForkAndLeave(i, j) \/ G!Fork(i, j)
<1>1. PICK it \in Advanced(i) : iter' = Put(Put(iter, j, CopyOf(iter[i])), i, it)
  BY DEF PostIncrement
<1>2. /\ MayAdvance(i) /\ keys' = keys /\ ResetPair(i) /\ Kept(i) = {}
      /\ j \notin DOMAIN iter /\ i \in DOMAIN iter /\ i # j
  BY DEF PostIncrement, MayAdvance, CanIncrement, AtElement, Core
<1>3. OpenGroupsOf(i)' = {} /\ \A k : k # i => OpenGroupsOf(k)' = OpenGroupsOf(k)
  BY <1>2, InsideAfterReset
<1>4. OpenGroupsOf(j) = {}
  BY <1>2 DEF OpenGroupsOf, Core, OwnerAlive
<1>5. DOMAIN iter' = DOMAIN iter \cup {j}
  BY <1>1, <1>2 DEF Put
<1>6. Entered' = Entered \ {i} /\ j \notin DOMAIN At /\ j \notin Entered /\ i \in DOMAIN At
  BY <1>2, <1>3, <1>4, <1>5 DEF Entered, At
<1>7. At' = Put([At EXCEPT ![i] = it.sub], j, At[i]) /\ At[i] = iter[i].sub
  BY <1>1, <1>2 DEF At, Put, CopyOf
<1>8. CASE it = iter[i] /\ OpenGroupsOf(i) = {}
  <2>1. i \notin Entered
    BY <1>8 DEF Entered
  <2>2. At' = Put(At, j, At[i]) /\ Entered' = Entered
    BY <1>6, <1>7, <1>8, <2>1 DEF Put
  <2> QED
    BY <1>2, <1>6, <2>2 DEF G!Fork, At, Entered, Put, G!Put
<1>9. CASE iter[i].sub \in 1 .. Len(keys) /\ RunEndAt(iter[i].sub, it.sub)
  <2>1. Len(keys) \in Nat
    BY DEF Core, IterOK
  <2>2. G!RunEnd(iter[i].sub, it.sub) /\ it.sub \in 2 .. G!End
    BY <1>2, <1>9, <2>1, RunEndBar DEF G!RunEnd, G!End
  <2> QED
    BY <1>2, <1>6, <1>7, <2>2 DEF G!ForkAndLeave, At, Entered, Put, G!Put
<1> QED
  BY <1>2, <1>8, <1>9, AdvancedRun

LEMMA DestroyBar ==
    ASSUME Core, NEW i \in Its, Destroy(i) PROVE G!Stop(i)
<1>1. /\ iter' = Drop(iter, i) /\ keys' = keys /\ ResetPair(i) /\ Kept(i) = {}
      /\ i \in DOMAIN iter
  BY DEF Destroy
<1>2. \A k : k # i => OpenGroupsOf(k)' = OpenGroupsOf(k)
  BY <1>1, InsideAfterReset
<1>3. At' = Drop(At, i) /\ Entered' = Entered \ {i}
  BY <1>1, <1>2 DEF At, Entered, Drop
<1> QED
  BY <1>1, <1>3 DEF G!Stop, At, Entered, Drop, G!Drop

LEMMA GroupIncrementBar ==
    ASSUME KeyAliases = FALSE, Core, Runs, NEW c \in Curs, GroupIncrement(c)
    PROVE  \E i \in Its : G!Take(i) \/ G!Leave(i)
<1>0. PICK g, o : g = cursor[c] /\ o = group[g].owner
  OBVIOUS
<1>1. keys' = keys
  BY DEF GroupIncrement
<1>2. /\ g \in DOMAIN group /\ Open(g) /\ o \in DOMAIN iter
      /\ iter[o].sub \in group[g].first .. Len(keys)
      /\ keys[iter[o].sub] = group[g].key
      /\ DOMAIN iter' = DOMAIN iter
      /\ iter'[o].sub = iter[o].sub + 1
      /\ \A k \in DOMAIN iter : k # o => iter'[k] = iter[k]
      /\ \/ group' = group /\ iter'[o].sub # End
            /\ keys[iter'[o].sub] = group[g].key
         \/ group' = Completed(g)
            /\ (iter'[o].sub # End => keys[iter'[o].sub] # group[g].key)
  BY <1>0, GroupIncrementEffect, ZenonT(60)
<1>3. o \in Its /\ group[g].first \in 1 .. Len(keys) /\ Len(keys) \in Nat
  BY <1>0, <1>2 DEF Core, StoreOK, GroupRec, IterOK
<1>4. iter[o].sub \in 1 .. Len(keys)
  BY <1>2, <1>3
<1>5. CASE group' = group /\ iter'[o].sub # End /\ keys[iter'[o].sub] = group[g].key
  <2>1. At' = [At EXCEPT ![o] = @ + 1] /\ At[o] = iter[o].sub
    BY <1>2 DEF At
  <2>2. Entered' = Entered /\ o \in Entered
    BY <1>0, <1>2, <1>5 DEF Entered, OpenGroupsOf, Open
  <2>3. ~G!RunEnd(iter[o].sub, iter[o].sub + 1)
    BY <1>2, <1>5 DEF G!RunEnd, G!End, End
  <2> QED
    BY <1>1, <1>3, <2>1, <2>2, <2>3 DEF G!Take, At, Entered
<1>6. CASE group' = Completed(g)
           /\ (iter'[o].sub # End => keys[iter'[o].sub] # group[g].key)
  <2>1. /\ DOMAIN group' = DOMAIN group
        /\ group'[g].completed
        /\ \A h \in DOMAIN group : h # g => group'[h] = group[h]
        /\ group'[g].owner = o
    BY <1>0, <1>2, <1>6, CompletedType DEF Core
  <2>2. \A k : k # o => OpenGroupsOf(k)' = OpenGroupsOf(k)
    BY <1>0, <2>1 DEF OpenGroupsOf, Open
  <2>3. \A h \in OpenGroupsOf(o) : h = g
    BY <1>0, <1>2 DEF Runs, OneOpenGroup, OpenGroupsOf
  <2>4. OpenGroupsOf(o)' = {}
    BY <2>1, <2>3 DEF OpenGroupsOf, Open
  <2>5. RunEndAt(iter[o].sub, iter'[o].sub)
    BY <1>2, <1>3, <1>4, <1>6 DEF RunEndAt, End
  <2> QED
    BY <1>1, <1>2, <1>3, <1>4, <2>2, <2>4, <2>5, LeaveBar
<1> QED
  BY <1>2, <1>5, <1>6

LEMMA MoveGroupBar ==
    ASSUME Core, NEW g \in Grps, NEW h \in Grps, MoveGroup(g, h)
    PROVE  UNCHANGED <<keys, At, Entered>>
<1>0. /\ g \in DOMAIN group /\ h \notin DOMAIN group
      /\ DOMAIN group' = DOMAIN group \cup {h}
      /\ group'[h] = group[g]
      /\ group'[g].completed
      /\ \A k \in DOMAIN group : k # g => group'[k] = group[k]
  BY MoveGroupEffect
<1>1. \A k : OpenGroupsOf(k)' = {} <=> OpenGroupsOf(k) = {}
  BY <1>0 DEF OpenGroupsOf, Open
<1> QED
  BY <1>1 DEF MoveGroup, At, Entered

LEMMA DestroyMovedBar ==
    ASSUME KeyAliases = FALSE, Core, Runs, NEW g \in Grps, DestroyMoved(g)
    PROVE  (\E i \in Its : G!Leave(i)) \/ UNCHANGED <<keys, At, Entered>>
<1>0. PICK o : o = group[g].owner
  OBVIOUS
<1>1. g \in DOMAIN group /\ keys' = keys
  BY DEF DestroyMoved
<1>2. DOMAIN group' = DOMAIN group \ {g} /\ \A h \in DOMAIN group' : group'[h] = group[h]
  BY DEF DestroyMoved, Drop
<1>3. CASE Open(g)
  <2>1. /\ o \in DOMAIN iter /\ iter[o].sub \in 1 .. Len(keys)
        /\ DOMAIN iter' = DOMAIN iter
        /\ RunEndAt(iter[o].sub, iter'[o].sub)
        /\ \A k \in DOMAIN iter : k # o => iter'[k] = iter[k]
    BY <1>0, <1>3, DestroyMovedEffect, ZenonT(60)
  <2>2. \A h \in OpenGroupsOf(o) : h = g
    BY <1>0, <1>1, <1>3, <2>1 DEF Runs, OneOpenGroup, OpenGroupsOf
  <2>3. OpenGroupsOf(o)' = {} /\ \A k : k # o => OpenGroupsOf(k)' = OpenGroupsOf(k)
    BY <1>0, <1>2, <2>2 DEF OpenGroupsOf, Open
  <2>4. o \in Its
    BY <1>0, <1>1 DEF Core, StoreOK, GroupRec
  <2> QED
    BY <1>1, <2>1, <2>3, <2>4, LeaveBar
<1>4. CASE ~Open(g)
  <2>1. iter' = iter
    BY <1>4 DEF DestroyMoved
  <2>2. \A k : OpenGroupsOf(k)' = OpenGroupsOf(k)
    BY <1>2, <1>4 DEF OpenGroupsOf, Open
  <2> QED
    BY <1>1, <2>1, <2>2 DEF At, Entered
<1> QED
  BY <1>3, <1>4

LEMMA StepBar ==
    ASSUME Habits = {}, KeyAliases = FALSE, Core, Runs, [Next]_vars
    PROVE  G!Next \/ UNCHANGED <<keys, At, Entered>>
<1>1. CASE UNCHANGED vars
  BY <1>1 DEF vars, At, Entered, OpenGroupsOf, Open
<1>2. ASSUME NEW c \in Curs, NEW g \in Grps, GroupBegin(c, g)
      PROVE  UNCHANGED <<keys, At, Entered>>
  BY <1>2 DEF GroupBegin, At, Entered, OpenGroupsOf, Open
<1>3. ASSUME NEW c \in Curs, GroupBreak(c)
      PROVE  UNCHANGED <<keys, At, Entered>>
  BY <1>3 DEF GroupBreak, At, Entered, OpenGroupsOf, Open
<1>4. CASE \E i \in Its : Begin(i) \/ Finish(i) \/ PreIncrement(i) \/ Destroy(i)
  BY <1>4, ConstructBar, PreIncrementBar, DestroyBar DEF G!Next
<1>5. CASE \E i, j \in Its : Copy(i, j) \/ Assign(i, j) \/ PostIncrement(i, j)
  BY <1>5, CopyBar, AssignBar, PostIncrementBar DEF G!Next
<1>6. CASE \E i \in Its, g \in Grps : Deref(i, g)
  BY <1>6, DerefBar DEF G!Next
<1>7. CASE \E c \in Curs : GroupIncrement(c)
  BY <1>7, GroupIncrementBar DEF G!Next
<1>8. CASE (\E g, h \in Grps : MoveGroup(g, h)) \/ (\E g \in Grps : DestroyMoved(g))
  BY <1>8, MoveGroupBar, DestroyMovedBar DEF G!Next
<1> QED
  BY <1>1, <1>2, <1>3, <1>4, <1>5, <1>6, <1>7, <1>8 DEF Next

(* The detailed specification implements the abstract one: for a client     *)
(* that keeps to the rules, whatever it copies, moves, skips or breaks off, *)
(* groupby is a set of walks over the maximal runs of equal keys.           *)
THEOREM GroupByImplementsGrouping ==
    ASSUME Habits = {}, KeyAliases = FALSE
    PROVE  Spec => ImplementsGrouping
<1>1. Init => Core /\ Runs /\ G!Init
  BY CoreInit, RunsInit, InitBar
<1>2. Core /\ Runs /\ [Next]_vars => Core' /\ Runs' /\ [G!Next]_(G!vars)
  <2>1. UNCHANGED <<keys, At, Entered>> => UNCHANGED G!vars
    BY DEF At, Entered, G!vars
  <2> QED
    BY <2>1, CoreStep, RunsStep, StepBar
<1> QED
  BY <1>1, <1>2, PTL DEF Spec, G!Spec, ImplementsGrouping

============================================================================
