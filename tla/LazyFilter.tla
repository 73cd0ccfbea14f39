---------------------------- MODULE LazyFilter -----------------------------
(***************************************************************************)
(* filter, filterfalse, unique_everseen, dropwhile and takewhile: Iterators *)
(* that read their first element only when they are first used, from const *)
(* members, and share one predicate object through filter_func_.           *)
(*                                                                         *)
(* The input is a sequence of elements; positions run from 1 to End. For   *)
(* unique_everseen the predicate has state: the set of elements seen.      *)
(*                                                                         *)
(* An operator named Wrong... is a plausible mistake in the definition     *)
(* that follows it; nothing uses it.                                       *)
(***************************************************************************)
EXTENDS Naturals, FiniteSets, Sequences, PartialFunctions

CONSTANTS
    Tools,     \* which of the five are checked
    Elems,     \* the elements of the input
    MaxLen,    \* bound: the longest input
    Its,       \* the client's Iterator objects
    Habits     \* "share_seen": uses unique_everseen through more than one
               \* iterator, or through it++ before its first other use

AllTools == {"filter", "filterfalse", "unique_everseen", "dropwhile", "takewhile"}

ASSUME ToolsAssumption == Tools \subseteq AllTools
ASSUME MaxLenAssumption == MaxLen \in Nat
ASSUME HabitsAssumption == Habits \subseteq {"share_seen"}

VARIABLES
    tool,   \* which tool made the object
    input,  \* container_
    pass,   \* the elements the user's predicate is true of
    seen,   \* elem_seen of unique_everseen's predicate
    iter,   \* live Iterators: sub_iter_, item_ (0: empty), and how many
            \* elements it has read and tested (history)
    got     \* the position the last dereference yielded (history)

vars == <<tool, input, pass, seen, iter, got>>
fixed == <<tool, input, pass>>

End == Len(input) + 1
Positions == 1 .. Len(input)

----------------------------------------------------------------------------
(* The predicate *)

(* PredicateFlipper *)
Flipped(e) == e \notin pass

(* elem_seen.insert(e).second *)
NewlySeen(e, s) == e \notin s

(* a call of *filter_func_ on element e when s has been seen *)
Holds(e, s) ==
    CASE tool = "filterfalse" -> Flipped(e)
      [] tool = "unique_everseen" -> NewlySeen(e, s)
      [] OTHER -> e \in pass

(* skip_failures and skip_passes skip the elements this is true of *)
Skipped(e, s) == IF tool = "dropwhile" THEN Holds(e, s) ELSE ~Holds(e, s)

----------------------------------------------------------------------------
(* Steps of the private members, on a pair of an iterator and seen *)

(* item_ is reset to the element at sub_iter_ *)
Read(it) == [it EXCEPT !.item = it.sub, !.reads = @ + 1]

(* the end is not looked for before reading *)
WrongStepped(it) == Read([it EXCEPT !.sub = @ + 1])

(* inc_sub_iter *)
Stepped(it) ==
    LET next == [it EXCEPT !.sub = @ + 1]
    IN  IF next.sub # End THEN Read(next) ELSE next

(* skip_failures and skip_passes: the loop ends at the first element that is *)
(* not skipped, or at the end; unique_everseen then has seen that element    *)
SkipLoop(it, s) ==
    LET stops == {q \in it.sub .. End :
                     /\ \A r \in it.sub .. q - 1 : Skipped(input[r], s)
                     /\ q # End => ~Skipped(input[q], s)}
        last(q) == IF q = End THEN Len(input) ELSE q
    IN  {[it |-> [sub |-> q,
                  item |-> IF last(q) > it.sub THEN last(q) ELSE it.item,
                  reads |-> it.reads + (last(q) - it.sub),
                  tests |-> it.tests + (last(q) - it.sub) + 1],
          seen |-> IF q # End THEN s \cup {input[q]} ELSE s] : q \in stops}

(* check_current of takewhile *)
CheckCurrent(it, s) ==
    {[it |-> [it EXCEPT !.tests = @ + 1,
                        !.sub = IF Holds(input[it.item], s) THEN @ ELSE End],
      seen |-> s]}

(* what follows a read, in init_if_first_use and in ++ of all but dropwhile *)
Settled(it, s) ==
    IF it.sub = End THEN {[it |-> it, seen |-> s]}
    ELSE IF tool = "takewhile" THEN CheckCurrent(it, s)
    ELSE SkipLoop(it, s)

(* the guard of the lazy initialisation is left out *)
WrongInitialised(it, s) ==
    IF it.sub # End THEN Settled(Read(it), s) ELSE {[it |-> it, seen |-> s]}

(* init_if_first_use *)
Initialised(it, s) ==
    IF it.item = 0 /\ it.sub # End THEN Settled(Read(it), s)
    ELSE {[it |-> it, seen |-> s]}

(* the predicate is not asked again after the increment *)
WrongAdvanced(it, s) == {[it |-> Stepped(it), seen |-> s]}

(* the rest of operator++ *)
Advanced(it, s) ==
    IF tool = "dropwhile" THEN {[it |-> Stepped(it), seen |-> s]}
    ELSE Settled(Stepped(it), s)

----------------------------------------------------------------------------
(* Client rules *)

(* Of unique_everseen's iterators only one is at an element: its predicate  *)
(* is shared. Copies exist only inside it++.                                *)
MayShare == tool # "unique_everseen" \/ "share_seen" \in Habits

NotBeforeFirstUse(i) == iter[i].item # 0 \/ MayShare

----------------------------------------------------------------------------
Init ==
    /\ tool \in Tools
    /\ input \in UNION {[1 .. n -> Elems] : n \in 0 .. MaxLen}
    /\ pass \in IF tool = "unique_everseen" THEN {{}} ELSE SUBSET Elems
    /\ seen = {}
    /\ iter = << >>
    /\ got = 0

(* begin() and end() *)
Construct(i, p) ==
    /\ i \notin DOMAIN iter
    /\ p = End \/ MayShare \/ (seen = {} /\ \A j \in DOMAIN iter : iter[j].sub = End)
    /\ iter' = Put(iter, i, [sub |-> p, item |-> 0, reads |-> 0, tests |-> 0])
    /\ UNCHANGED <<fixed, seen, got>>

Copy(i, j) ==
    /\ i \in DOMAIN iter /\ j \notin DOMAIN iter
    /\ MayShare
    /\ iter' = Put(iter, j, iter[i])
    /\ UNCHANGED <<fixed, seen, got>>

Assign(i, j) ==
    /\ i # j /\ i \in DOMAIN iter /\ j \in DOMAIN iter
    /\ MayShare
    /\ iter' = [iter EXCEPT ![i] = iter[j]]
    /\ UNCHANGED <<fixed, seen, got>>

(* operator* and operator->, of an iterator that is not at the end *)
Deref(i) ==
    /\ i \in DOMAIN iter
    /\ \E r \in Initialised(iter[i], seen) :
           /\ r.it.sub # End
           /\ iter' = [iter EXCEPT ![i] = r.it]
           /\ seen' = r.seen
           /\ got' = r.it.item
    /\ UNCHANGED fixed

(* ++ does not look for the first element *)
WrongPreIncrement(i) ==
    /\ i \in DOMAIN iter /\ iter[i].sub # End
    /\ \E a \in Advanced(iter[i], seen) :
           iter' = [iter EXCEPT ![i] = a.it] /\ seen' = a.seen
    /\ UNCHANGED <<fixed, got>>

PreIncrement(i) ==
    /\ i \in DOMAIN iter
    /\ \E r \in Initialised(iter[i], seen) :
           /\ r.it.sub # End
           /\ \E a \in Advanced(r.it, r.seen) :
                  iter' = [iter EXCEPT ![i] = a.it] /\ seen' = a.seen
    /\ UNCHANGED <<fixed, got>>

(* ret is copied after the increment *)
WrongDerefPostIncrement(i) ==
    /\ i \in DOMAIN iter /\ NotBeforeFirstUse(i)
    /\ \E r \in Initialised(iter[i], seen) :
           /\ r.it.sub # End
           /\ \E a \in Advanced(r.it, r.seen) :
                  /\ iter' = [iter EXCEPT ![i] = a.it]
                  /\ got' = a.it.item
                  /\ seen' = a.seen
    /\ UNCHANGED fixed

(* dereferencing it++: ret is copied, it is incremented, then ret is read *)
DerefPostIncrement(i) ==
    /\ i \in DOMAIN iter /\ NotBeforeFirstUse(i)
    /\ \E r \in Initialised(iter[i], seen) :
           /\ r.it.sub # End
           /\ \E a \in Advanced(r.it, r.seen) :
                  /\ iter' = [iter EXCEPT ![i] = a.it]
                  /\ \E ret \in Initialised(iter[i], a.seen) :
                         /\ got' = ret.it.item
                         /\ seen' = ret.seen
    /\ UNCHANGED fixed

(* it != other and it == other initialise both *)
Compare(i, j) ==
    /\ i \in DOMAIN iter /\ j \in DOMAIN iter /\ i # j
    /\ \E r \in Initialised(iter[i], seen) :
           \E t \in Initialised(iter[j], r.seen) :
               /\ iter' = [iter EXCEPT ![i] = r.it, ![j] = t.it]
               /\ seen' = t.seen
    /\ UNCHANGED <<fixed, got>>

Destroy(i) ==
    /\ i \in DOMAIN iter
    /\ iter' = Drop(iter, i)
    /\ UNCHANGED <<fixed, seen, got>>

Next ==
    \/ \E i, j \in Its : Copy(i, j) \/ Assign(i, j) \/ Compare(i, j)
    \/ \E i \in Its, p \in {1, End} : Construct(i, p)
    \/ \E i \in Its : Deref(i) \/ PreIncrement(i) \/ DerefPostIncrement(i) \/ Destroy(i)

Spec == Init /\ [][Next]_vars

----------------------------------------------------------------------------
(* What each tool yields, defined on the whole input at once *)

Yielded(p) ==
    CASE tool = "filter" -> input[p] \in pass
      [] tool = "filterfalse" -> input[p] \notin pass
      [] tool = "unique_everseen" -> \A r \in 1 .. p - 1 : input[r] # input[p]
      [] tool = "dropwhile" -> \E r \in 1 .. p : input[r] \notin pass
      [] tool = "takewhile" -> \A r \in 1 .. p : input[r] \in pass

(* where a client would find iterator i if it looked now *)
Standing(i) == {r.it.sub : r \in Initialised(iter[i], seen)}

TypeOK ==
    /\ tool \in AllTools
    /\ input \in Seq(Elems) /\ pass \subseteq Elems /\ seen \subseteq Elems
    /\ DOMAIN iter \subseteq Its
    /\ iter \in [DOMAIN iter -> [sub : 1 .. End, item : 0 .. Len(input),
                                 reads : Nat, tests : Nat]]
    /\ got \in 0 .. Len(input)

(* An iterator in use stands at an element its tool yields, or at the end. *)
StandsOnYielded ==
    \A i \in DOMAIN iter : iter[i].item # 0 =>
        \/ iter[i].sub = End
        \/ Yielded(iter[i].sub) /\ iter[i].item = iter[i].sub

(* test_mixed.cpp:49 "filtering doesn't dereference multiple times": an     *)
(* iterator reads each element once, and asks the predicate at most once    *)
(* about it, no matter how often it is compared or dereferenced.            *)
ReadsOnce ==
    \A i \in DOMAIN iter :
        iter[i].reads = iter[i].item /\ iter[i].tests <= iter[i].reads

Found(i) == CHOOSE p \in Standing(i) : TRUE

(* how many elements before p the tool yields, and one *)
Rank(p) == Cardinality({q \in Positions : q < p /\ Yielded(q)}) + 1

Promise == INSTANCE InputIterator
    WITH yields <- [k \in 1 .. Rank(End) - 1 |->
                       CHOOSE p \in Positions : Yielded(p) /\ Rank(p) = k],
         at <- [i \in DOMAIN iter |-> Rank(Found(i))]

(* However a client mixes comparisons, dereferences and increments, the     *)
(* first of them finds the tool's first element, and an Iterator goes from  *)
(* where a client would find it to the next one, none skipped or repeated.  *)
ImplementsInputIterator == Promise!Spec

(* Reading it++ yields the element the iterator stood at (README.md:98: the *)
(* iterators are InputIterators "and behave as such").                      *)
PostIncrementYieldsCurrent ==
    [][\A i \in DOMAIN iter : DerefPostIncrement(i) => got' \in Standing(i)]_vars

============================================================================
