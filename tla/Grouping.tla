----------------------------- MODULE Grouping ------------------------------
(***************************************************************************)
(* What groupby promises, with no Group objects, flags or destructors: any *)
(* number of independent walks over the maximal runs of equal keys. A walk *)
(* is between groups or inside one; inside, it can take elements of that   *)
(* run only; leaving a group, read or not, lands on the first element of   *)
(* the next run.                                                           *)
(***************************************************************************)
EXTENDS Naturals, Sequences, PartialFunctions

CONSTANTS Keys, Its

VARIABLES
    keys,   \* the key of each element
    at,     \* where each walk stands
    open    \* the walks that are inside a group

vars == <<keys, at, open>>

End == Len(keys) + 1

(* q is where the run that contains p ends *)
RunEnd(p, q) ==
    /\ q \in p + 1 .. End
    /\ \A r \in p .. q - 1 : keys[r] = keys[p]
    /\ q # End => keys[q] # keys[p]

Init == keys \in Seq(Keys) /\ at = << >> /\ open = {}

Start(i) ==
    /\ i \notin DOMAIN at
    /\ \E p \in {1, End} : at' = Put(at, i, p)
    /\ UNCHANGED <<keys, open>>

(* walk j becomes a copy of walk i, between groups *)
Fork(i, j) ==
    /\ i # j /\ i \in DOMAIN at /\ j \notin open
    /\ at' = Put(at, j, at[i])
    /\ UNCHANGED <<keys, open>>

Enter(i) ==
    /\ i \in DOMAIN at \ open /\ at[i] # End
    /\ open' = open \cup {i}
    /\ UNCHANGED <<keys, at>>

Take(i) ==
    /\ i \in open
    /\ ~RunEnd(at[i], at[i] + 1)
    /\ at' = [at EXCEPT ![i] = @ + 1]
    /\ UNCHANGED <<keys, open>>

Leave(i) ==
    /\ i \in DOMAIN at
    /\ \E q \in 2 .. End : RunEnd(at[i], q) /\ at' = [at EXCEPT ![i] = q]
    /\ open' = open \ {i}
    /\ UNCHANGED keys

(* walk i leaves its group, and j stays where i was; nothing to leave when *)
(* i is at the start of the next run already                               *)
ForkAndLeave(i, j) ==
    /\ i \in DOMAIN at /\ j \notin DOMAIN at
    /\ \E q \in 2 .. End :
           /\ RunEnd(at[i], q)
           /\ at' = Put([at EXCEPT ![i] = q], j, at[i])
    /\ open' = open \ {i}
    /\ UNCHANGED keys

Stop(i) ==
    /\ i \in DOMAIN at
    /\ at' = Drop(at, i)
    /\ open' = open \ {i}
    /\ UNCHANGED keys

Next ==
    \/ \E i \in Its : Start(i) \/ Enter(i) \/ Take(i) \/ Leave(i) \/ Stop(i)
    \/ \E i, j \in Its : Fork(i, j) \/ ForkAndLeave(i, j)

Spec == Init /\ [][Next]_vars

============================================================================
