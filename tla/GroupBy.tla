------------------------------ MODULE GroupBy ------------------------------
(***************************************************************************)
(* groupby.hpp: GroupProducer's Iterator, Group and GroupIterator objects, *)
(* used by a client in any order the client rules below allow.             *)
(*                                                                         *)
(* The input is a sequence of elements, and only the key the key function  *)
(* returns for each of them matters: keys[p] is the key of element p.      *)
(* Positions run from 1 to End, the position of sub_end_.                  *)
(*                                                                         *)
(* An operator named Wrong... is a plausible mistake in the definition     *)
(* that follows it; nothing uses it, and each property fails with one of   *)
(* them in the right one's place.                                          *)
(***************************************************************************)
EXTENDS Naturals, Sequences, PartialFunctions

CONSTANTS
    Keys,        \* what the key function returns
    MaxLen,      \* bound: the longest input
    Its,         \* the client's Iterator objects
    Grps,        \* the Group objects
    Curs,        \* the client's GroupIterator objects
    KeyAliases,  \* the key function returns a reference into its argument and
                 \* the input yields temporaries, so key_ refers into item_
    Habits       \* what this client does beyond the rules below:
                 \*  "assign_open": assigns over an iterator whose Group is open
                 \*  "keep_moved": advances an iterator while a Group moved out
                 \*                of it is open

ASSUME MaxLenAssumption == MaxLen \in Nat
ASSUME KeyAliasesAssumption == KeyAliases \in BOOLEAN
ASSUME HabitsAssumption == Habits \subseteq {"assign_open", "keep_moved"}

VARIABLES
    keys,    \* the input, never changed
    iter,    \* live Iterators: sub_iter_ and item_ (as positions), and the
             \* position it was constructed or assigned at (history)
    pair,    \* Iterators whose current_key_group_pair_ has a value: its Group
    group,   \* live Groups: owner_, key_, completed, and the position of the
             \* owner when the Group was made (history)
    cursor   \* GroupIterators that are not at the end: group_p_

vars == <<keys, iter, pair, group, cursor>>

End == Len(keys) + 1

Open(g) == ~group[g].completed
OpenGroupsOf(i) == {g \in DOMAIN group : Open(g) /\ group[g].owner = i}
MovedOut(g) == \A i \in DOMAIN pair : pair[i] # g

(* a live, unfinished Group that was moved out of owner i's pair *)
Kept(i) == {g \in OpenGroupsOf(i) : MovedOut(g)}

----------------------------------------------------------------------------
(* Iterator's own operations on its position *)

(* the constructor reads the first element unless the input is empty *)
IteratorAt(p) == [sub |-> p, item |-> IF p = End THEN 0 ELSE p, base |-> p]

(* a copy takes the position and the held item, and no pair *)
CopyOf(it) == [sub |-> it.sub, item |-> it.item, base |-> it.sub]

(* the new element is not read *)
WrongIncremented(it) ==
    IF it.sub = End THEN it ELSE [sub |-> it.sub + 1, item |-> it.item, base |-> it.base]

(* increment_iterator: never past the end, and item_ is kept at the end *)
Incremented(it) ==
    IF it.sub = End THEN it
    ELSE [sub |-> it.sub + 1,
          item |-> IF it.sub + 1 = End THEN it.item ELSE it.sub + 1,
          base |-> it.base]

NextKey(it) == keys[it.item]

(* next_key() == *key_ at element p, for a Group whose key is k *)
SameKey(k, p) == KeyAliases \/ keys[p] = k

(* Where ~Group's begin()..end() loop can leave its owner: the loop has    *)
(* incremented at least once, past elements of the same key, and stops at  *)
(* the end or at another key. There is exactly one such position.          *)
LoopStops(it, k) ==
    {q \in Incremented(it).sub .. End :
        /\ \A r \in Incremented(it).sub .. (q - 1) : SameKey(k, r)
        /\ q = End \/ ~SameKey(k, q)}

(* the owner after increments up to q: item_ holds the last element read *)
IncrementedTo(it, q) ==
    [sub |-> q,
     item |-> IF q < End THEN q
              ELSE IF it.sub + 1 < End THEN Len(keys) ELSE it.item,
     base |-> it.base]

(* an unfinished Group's destructor leaves the owner where it is *)
WrongOwnerAfterIdle(g, it) == {it}

(* completed is not consulted *)
WrongOwnerAfterAlways(g, it) == {IncrementedTo(it, q) : q \in LoopStops(it, g.key)}

(* ~Group: the owners that destroying a Group can leave *)
OwnerAfter(g, it) ==
    IF g.completed THEN {it}
    ELSE {IncrementedTo(it, q) : q \in LoopStops(it, g.key)}

NewGroup(i) == [owner |-> i, key |-> NextKey(iter[i]), completed |-> FALSE,
                first |-> iter[i].sub]

----------------------------------------------------------------------------
(* Client rules. Dereferencing and incrementing need an element; but the    *)
(* iterator may have been left at the end by reading its Group, and is then *)
(* incremented all the same. A Group holds a reference to its owner, so no  *)
(* open Group outlives it.                                                  *)

AtElement(i) == i \in DOMAIN iter /\ iter[i].sub # End

CanIncrement(i) == AtElement(i) \/ i \in DOMAIN pair

MayAdvance(i) == CanIncrement(i) /\ (Kept(i) = {} \/ "keep_moved" \in Habits)

----------------------------------------------------------------------------
(* Outer iterator *)

Init ==
    /\ keys \in UNION {[1 .. n -> Keys] : n \in 0 .. MaxLen}
    /\ iter = << >> /\ pair = << >> /\ group = << >> /\ cursor = << >>

Construct(i, p) ==
    /\ i \notin DOMAIN iter
    /\ iter' = Put(iter, i, IteratorAt(p))
    /\ UNCHANGED <<keys, pair, group, cursor>>

Begin(i) == Construct(i, 1)
Finish(i) == Construct(i, End)

Copy(i, j) ==
    /\ i \in DOMAIN iter /\ j \notin DOMAIN iter
    /\ iter' = Put(iter, j, CopyOf(iter[i]))
    /\ UNCHANGED <<keys, pair, group, cursor>>

(* the reset is missing *)
WrongResetPair(i) == UNCHANGED <<pair, group, cursor>>

(* current_key_group_pair_.reset(): the Group is destroyed, and the        *)
(* GroupIterators that point to it are of no use any more                  *)
ResetPair(i) ==
    IF i \in DOMAIN pair
    THEN /\ pair' = Drop(pair, i)
         /\ group' = Drop(group, pair[i])
         /\ cursor' = Forget(cursor, pair[i])
    ELSE UNCHANGED <<pair, group, cursor>>

(* operator=: the position is assigned first, then the pair is reset, so   *)
(* the old Group's destructor works on the new position                    *)
Assign(i, j) ==
    /\ i # j /\ i \in DOMAIN iter /\ j \in DOMAIN iter
    /\ Kept(i) = {}
    /\ OpenGroupsOf(i) = {} \/ "assign_open" \in Habits
    /\ IF i \in DOMAIN pair
       THEN \E it \in OwnerAfter(group[pair[i]], CopyOf(iter[j])) :
                iter' = Put(iter, i, it)
       ELSE iter' = Put(iter, i, CopyOf(iter[j]))
    /\ ResetPair(i)
    /\ UNCHANGED keys

(* operator* and operator->: set_key_group_pair; no effect when it is set *)
Deref(i, g) ==
    /\ AtElement(i)
    /\ i \notin DOMAIN pair
    /\ g \notin DOMAIN group
    /\ group' = Put(group, g, NewGroup(i))
    /\ pair' = Put(pair, i, g)
    /\ UNCHANGED <<keys, iter, cursor>>

(* the positions ++ can leave an iterator at: a Group is made if there is  *)
(* none, and the Group is destroyed                                        *)
Advanced(i) ==
    IF i \in DOMAIN pair THEN OwnerAfter(group[pair[i]], iter[i])
    ELSE OwnerAfter(NewGroup(i), iter[i])

PreIncrement(i) ==
    /\ MayAdvance(i)
    /\ \E it \in Advanced(i) : iter' = Put(iter, i, it)
    /\ ResetPair(i)
    /\ UNCHANGED keys

(* ret is copied after the increment *)
WrongPostIncrement(i, j) ==
    /\ MayAdvance(i)
    /\ j \notin DOMAIN iter
    /\ \E it \in Advanced(i) : iter' = Put(Put(iter, j, CopyOf(it)), i, it)
    /\ ResetPair(i)
    /\ UNCHANGED keys

(* it++: ret is a copy made before the increment *)
PostIncrement(i, j) ==
    /\ MayAdvance(i)
    /\ j \notin DOMAIN iter
    /\ \E it \in Advanced(i) :
           iter' = Put(Put(iter, j, CopyOf(iter[i])), i, it)
    /\ ResetPair(i)
    /\ UNCHANGED keys

Destroy(i) ==
    /\ i \in DOMAIN iter
    /\ Kept(i) = {}
    /\ iter' = Drop(iter, i)
    /\ ResetPair(i)
    /\ UNCHANGED keys

----------------------------------------------------------------------------
(* Groups and their iterators *)

(* Group::begin; a client begins, or begins again, only an unfinished Group *)
GroupBegin(c, g) ==
    /\ g \in DOMAIN group /\ Open(g)
    /\ c \notin DOMAIN cursor
    /\ cursor' = Put(cursor, c, g)
    /\ UNCHANGED <<keys, iter, pair, group>>

(* the flag is never set *)
WrongCompleted(g) == group

Completed(g) == [group EXCEPT ![g].completed = TRUE]

(* GroupIterator::operator++ *)
GroupIncrement(c) ==
    /\ c \in DOMAIN cursor
    /\ LET g == cursor[c]
           o == group[g].owner
           it == Incremented(iter[o])
           notAtEnd == it.sub # End /\ (KeyAliases \/ NextKey(it) = group[g].key)
       IN  /\ Open(g)
           /\ iter' = Put(iter, o, it)
           /\ IF notAtEnd THEN UNCHANGED <<group, cursor>>
              ELSE group' = Completed(g) /\ cursor' = Drop(cursor, c)
    /\ UNCHANGED <<keys, pair>>

(* a GroupIterator is destroyed or forgotten: the client breaks off *)
GroupBreak(c) ==
    /\ c \in DOMAIN cursor
    /\ cursor' = Drop(cursor, c)
    /\ UNCHANGED <<keys, iter, pair, group>>

(* Group's move constructor: the source counts as completed from here on *)
MoveGroup(g, h) ==
    /\ g \in DOMAIN group /\ h \notin DOMAIN group
    /\ group' = Put(Completed(g), h, group[g])
    /\ UNCHANGED <<keys, iter, pair, cursor>>

(* ~Group of a moved-out Group *)
DestroyMoved(g) ==
    /\ g \in DOMAIN group /\ MovedOut(g)
    /\ IF Open(g)
       THEN \E it \in OwnerAfter(group[g], iter[group[g].owner]) :
                iter' = Put(iter, group[g].owner, it)
       ELSE UNCHANGED iter
    /\ group' = Drop(group, g)
    /\ cursor' = Forget(cursor, g)
    /\ UNCHANGED <<keys, pair>>

----------------------------------------------------------------------------
Next ==
    \/ \E i, j \in Its : Copy(i, j) \/ Assign(i, j) \/ PostIncrement(i, j)
    \/ \E i \in Its : Begin(i) \/ Finish(i) \/ PreIncrement(i) \/ Destroy(i)
    \/ \E i \in Its, g \in Grps : Deref(i, g)
    \/ \E c \in Curs : GroupIncrement(c) \/ GroupBreak(c)
    \/ \E c \in Curs, g \in Grps : GroupBegin(c, g)
    \/ \E g, h \in Grps : MoveGroup(g, h)
    \/ \E g \in Grps : DestroyMoved(g)

Spec == Init /\ [][Next]_vars

----------------------------------------------------------------------------
(* Every object refers to objects that exist and to positions of the input. *)
TypeOK ==
    /\ keys \in Seq(Keys)
    /\ DOMAIN iter \subseteq Its
    /\ iter \in [DOMAIN iter -> [sub : 1 .. End, item : 0 .. Len(keys), base : 1 .. End]]
    /\ DOMAIN pair \subseteq DOMAIN iter
    /\ pair \in [DOMAIN pair -> DOMAIN group]
    /\ DOMAIN group \subseteq Grps
    /\ group \in [DOMAIN group -> [owner : Its, key : Keys, completed : BOOLEAN,
                                   first : 1 .. Len(keys)]]
    /\ DOMAIN cursor \subseteq Curs
    /\ cursor \in [DOMAIN cursor -> DOMAIN group]

(* next_key, operator* and the key comparison read item_, never *sub_iter_: *)
(* after any mix of copies, assignments, skips and destructor loops the     *)
(* held item is still the element at sub_iter_.                             *)
ItemFresh ==
    \A i \in DOMAIN iter : iter[i].sub # End => iter[i].item = iter[i].sub

(* What a Group yields belongs to it: while a Group is unfinished its owner *)
(* is alive and stands at an element of the run the Group began in, however *)
(* many GroupIterators, moves and copies of the owner there are.            *)
OpenGroupInRun ==
    \A g \in DOMAIN group : Open(g) =>
        LET o == group[g].owner
        IN  /\ o \in DOMAIN iter
            /\ iter[o].sub \in group[g].first .. Len(keys)
            /\ \A r \in group[g].first .. iter[o].sub : keys[r] = group[g].key

(* Two unfinished Groups never share an owner: otherwise each destructor    *)
(* would advance it once more and elements of the next Group would be lost. *)
OneOpenGroup ==
    \A i \in DOMAIN iter : \A g, h \in OpenGroupsOf(i) : g = h

(* groupby.hpp:188: "This ensures that the next Group starts at the correct *)
(* position when the user short-circuits iteration over a Group." With no   *)
(* Group open an iterator stands where it was copied or constructed, at the *)
(* end, or at an element whose key differs from the one before it.          *)
NextGroupAtKeyChange ==
    \A i \in DOMAIN iter : OpenGroupsOf(i) = {} =>
        LET p == iter[i].sub
        IN  p \in {iter[i].base, End} \/ keys[p - 1] # keys[p]

(* An assigned iterator stands where the one it was assigned from stands    *)
(* (README.md:98 "behave as such", of InputIterators).                      *)
AssignTakesPosition ==
    [][\A i, j \in Its : Assign(i, j) => iter'[i].sub = iter[j].sub]_vars

(* Every use of the objects, whatever is copied, moved or broken off, is a  *)
(* set of walks over the runs as Grouping describes them: a walk is inside  *)
(* a group while a Group of its iterator is unfinished.                     *)
G == INSTANCE Grouping WITH
         at <- [i \in DOMAIN iter |-> iter[i].sub],
         open <- {i \in DOMAIN iter : OpenGroupsOf(i) # {}}

ImplementsGrouping == G!Spec

============================================================================
