--------------------------- MODULE InputIterator ---------------------------
(***************************************************************************)
(* What README.md:98 promises of a tool's iterators: they "are tagged as   *)
(* InputIterators and behave as such". Iterators made by begin() go         *)
(* through one sequence of yields, an element per increment. When one of   *)
(* several equal iterators is incremented the others may become Stale,      *)
(* which an InputIterator's copies may: a Stale iterator can be assigned    *)
(* to and destroyed and is of no other use.                                 *)
(***************************************************************************)
EXTENDS Naturals, Sequences, PartialFunctions

CONSTANT Its     \* the client's iterator objects

VARIABLES
    yields,      \* what the tool yields
    at,          \* the place in yields of each live iterator, or Stale
    got          \* what the last dereference yielded

vars == <<yields, at, got>>

Past == Len(yields) + 1
Stale == 0

CanUse(i) == i \in DOMAIN at /\ at[i] \in DOMAIN yields

Init == at = << >>

(* begin() and end() *)
Construct(i, p) ==
    /\ i \notin DOMAIN at
    /\ at' = Put(at, i, p)
    /\ UNCHANGED <<yields, got>>

Copy(i, j) ==
    /\ i \in DOMAIN at /\ j \notin DOMAIN at
    /\ at' = Put(at, j, at[i])
    /\ UNCHANGED <<yields, got>>

Assign(i, j) ==
    /\ i \in DOMAIN at /\ j \in DOMAIN at
    /\ at' = [at EXCEPT ![i] = at[j]]
    /\ UNCHANGED <<yields, got>>

Deref(i) ==
    /\ CanUse(i)
    /\ got' = yields[at[i]]
    /\ UNCHANGED <<yields, at>>

Equals(i) == {j \in DOMAIN at \ {i} : at[j] = at[i]}

(* i moves on, and the iterators of stale become Stale *)
Moved(i, stale) ==
    [j \in DOMAIN at |-> IF j = i THEN at[i] + 1
                         ELSE IF j \in stale THEN Stale ELSE at[j]]

PreIncrement(i) ==
    /\ CanUse(i)
    /\ \E stale \in SUBSET Equals(i) : at' = Moved(i, stale)
    /\ UNCHANGED <<yields, got>>

(* j = i++ *)
PostIncrement(i, j) ==
    /\ CanUse(i) /\ j \notin DOMAIN at
    /\ \E stale \in SUBSET Equals(i), p \in {at[i], Stale} :
           at' = Put(Moved(i, stale), j, p)
    /\ UNCHANGED <<yields, got>>

(* dereferencing i++ *)
DerefPostIncrement(i) ==
    /\ CanUse(i)
    /\ got' = yields[at[i]]
    /\ \E stale \in SUBSET Equals(i) : at' = Moved(i, stale)
    /\ UNCHANGED yields

Destroy(i) ==
    /\ i \in DOMAIN at
    /\ at' = Drop(at, i)
    /\ UNCHANGED <<yields, got>>

Next ==
    \/ \E i, j \in Its : Copy(i, j) \/ Assign(i, j) \/ PostIncrement(i, j)
    \/ \E i \in Its, p \in {1, Past} : Construct(i, p)
    \/ \E i \in Its : Deref(i) \/ PreIncrement(i) \/ DerefPostIncrement(i) \/ Destroy(i)

Spec == Init /\ [][Next]_vars
============================================================================
