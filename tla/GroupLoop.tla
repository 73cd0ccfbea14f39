----------------------------- MODULE GroupLoop -----------------------------
(***************************************************************************)
(* The program the examples and the README write: a range-for loop over     *)
(* groupby, whose body skips its Group, reads it or a part of it, or moves  *)
(* it into a variable of its own first; and the same loop over              *)
(* unique_justseen, whose operator* takes the first element of each Group.  *)
(* Every step is a call of GroupBy's, at one place of the program.          *)
(***************************************************************************)
EXTENDS GroupBy

CONSTANTS
    It, Last,      \* the loop's iterator and the end() it is compared with
    Pair, Local,   \* the Group in the iterator's pair, and the body's variable
    Cur            \* the iterator of the loop over the Group

ASSUME ObjectsAssumption ==
    /\ It \in Its /\ Last \in Its /\ It # Last
    /\ Pair \in Grps /\ Local \in Grps /\ Pair # Local
    /\ Cur \in Curs

VARIABLES
    tool,     \* what is looped over
    pc,       \* where the program is
    seen,     \* the current pass of the loop: where its Group began, where the
              \* Group before it did, the elements read and whether the loop
              \* over the Group came to its end (history)
    stored    \* the Groups moved into a container that outlives the pass; equal
              \* ones count once

loopVars == <<vars, tool, pc, seen, stored>>

GoTo(from, to) == pc = from /\ pc' = to

Pass(p, items) == [first |-> p, after |-> seen.first, items |-> items, ended |-> FALSE]

(* operator!= of groupby's iterators *)
NotEqual(i, j) == iter[i].sub # iter[j].sub

(* the Group the body reads *)
Held == IF Local \in DOMAIN group THEN Local ELSE Pair

----------------------------------------------------------------------------
LoopInit ==
    /\ Init
    /\ tool \in {"groupby", "unique_justseen"}
    /\ pc = "begin"
    /\ seen = [first |-> 0, after |-> 0, items |-> << >>, ended |-> FALSE]
    /\ stored = {}

Enter ==
    /\ GoTo("begin", "end")
    /\ Begin(It)
    /\ UNCHANGED <<tool, seen, stored>>

EnterLast ==
    /\ GoTo("end", "test")
    /\ Finish(Last)
    /\ UNCHANGED <<tool, seen, stored>>

Test ==
    /\ pc = "test"
    /\ pc' = IF NotEqual(It, Last) THEN "body" ELSE "done"
    /\ UNCHANGED <<vars, tool, seen, stored>>

(* gb = *it, for groupby *)
Body ==
    /\ GoTo("body", "held") /\ tool = "groupby"
    /\ Deref(It, Pair)
    /\ seen' = Pass(iter[It].sub, << >>)
    /\ UNCHANGED <<tool, stored>>

(* *it of unique_justseen: the Group is begun, its element taken and its    *)
(* iterator dropped within the call                                         *)
JustSeen ==
    /\ GoTo("body", "next") /\ tool = "unique_justseen"
    /\ Deref(It, Pair)
    /\ seen' = Pass(iter[It].sub, <<iter[It].item>>)
    /\ UNCHANGED <<tool, stored>>

(* the body's own variable = std::move(gb.second) *)
MoveOut ==
    /\ GoTo("held", "held")
    /\ MoveGroup(Pair, Local)
    /\ UNCHANGED <<tool, seen, stored>>

Skip ==
    /\ GoTo("held", "leave")
    /\ UNCHANGED <<vars, tool, seen, stored>>

BeginGroup ==
    /\ GoTo("held", "read")
    /\ GroupBegin(Cur, Held)
    /\ UNCHANGED <<tool, seen, stored>>

Read ==
    /\ GoTo("read", "rest")
    /\ seen' = [seen EXCEPT !.items = Append(@, iter[It].item)]
    /\ UNCHANGED <<vars, tool, stored>>

ReadOn ==
    /\ pc = "rest"
    /\ GroupIncrement(Cur)
    /\ pc' = IF Cur \in DOMAIN cursor' THEN "read" ELSE "leave"
    /\ seen' = [seen EXCEPT !.ended = Cur \notin DOMAIN cursor']
    /\ UNCHANGED <<tool, stored>>

BreakOff ==
    /\ GoTo("rest", "leave")
    /\ GroupBreak(Cur)
    /\ UNCHANGED <<tool, seen, stored>>

(* the end of the body, where its variable is destroyed *)
LeaveBody ==
    /\ GoTo("leave", "next")
    /\ IF Local \in DOMAIN group THEN DestroyMoved(Local) ELSE UNCHANGED vars
    /\ UNCHANGED <<tool, seen, stored>>

Increment ==
    /\ GoTo("next", "test")
    /\ PreIncrement(It)
    /\ UNCHANGED <<tool, seen, stored>>

LoopNext ==
    \/ Enter \/ EnterLast \/ Test \/ Body \/ JustSeen \/ MoveOut \/ Skip \/ BeginGroup
    \/ Read \/ ReadOn \/ BreakOff \/ LeaveBody \/ Increment

(* the program goes on as long as it can *)
LoopSpec == LoopInit /\ [][LoopNext]_loopVars /\ WF_loopVars(LoopNext)

(* groups.push_back(std::move(gb.second)), instead of reading it *)
Keep ==
    /\ GoTo("held", "next")
    /\ Local \notin DOMAIN group
    /\ group' = Completed(Pair)
    /\ stored' = stored \cup {group[Pair]}
    /\ UNCHANGED <<keys, iter, pair, cursor, tool, seen>>

KeepingNext == LoopNext \/ Keep

KeepingSpec == LoopInit /\ [][KeepingNext]_loopVars /\ WF_loopVars(KeepingNext)

----------------------------------------------------------------------------
RunStart(p) == p = 1 \/ keys[p] # keys[p - 1]

(* groupby.hpp:188: "the next Group starts at the correct position when the *)
(* user short-circuits iteration over a Group": whatever the bodies did so  *)
(* far, a pass begins at the first element of the run that follows the one  *)
(* of the pass before; the loop is done after the last run; and a pass over *)
(* unique_justseen yields the run's first element.                          *)
NextRunEntered ==
    /\ seen.first # 0 =>
          /\ seen.after < seen.first
          /\ \A p \in seen.after + 1 .. seen.first : RunStart(p) <=> p = seen.first
          /\ tool = "unique_justseen" => seen.items = <<seen.first>>
    /\ pc = "done" => \A p \in seen.first + 1 .. Len(keys) : ~RunStart(p)

(* A body reads elements of its own run only, in order, each once and from  *)
(* the first; and when its loop ends by itself it has read all of them.     *)
YieldsOwnRun ==
    LET next == seen.first + Len(seen.items)
    IN  /\ \A n \in DOMAIN seen.items :
              /\ seen.items[n] = seen.first + n - 1
              /\ keys[seen.items[n]] = keys[seen.first]
        /\ seen.ended => next = End \/ RunStart(next)

(* The loop ends, whether its bodies skip, read, break off or move Groups   *)
(* that they destroy themselves.                                            *)
Terminates == <>(pc = "done")

============================================================================
