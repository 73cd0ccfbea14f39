--------------------------- MODULE GroupLoopProofs ---------------------------
(***************************************************************************)
(* The loop is a client of groupby that keeps to the rules, so what is       *)
(* proved of GroupBy holds of it; and with that, for inputs of any length    *)
(* and any keys: each pass enters the next run and reads only its elements.  *)
(***************************************************************************)
EXTENDS GroupLoop, GroupByProofs

Points == {"begin", "end", "test", "body", "held", "read", "rest", "leave", "next", "done"}

SeenRec == [first : Nat, after : Nat, items : Seq(Nat), ended : BOOLEAN]

(* where the program's objects are *)
Objects ==
    /\ pc \in Points
    /\ pc # "begin" => It \in DOMAIN iter
    /\ pc \notin {"begin", "end"} => Last \in DOMAIN iter /\ iter[Last].sub = End
    /\ pc \notin {"held", "read", "rest", "leave"} => Local \notin DOMAIN group
    /\ Local \in DOMAIN group => group[Local].owner = It

(* between two passes the iterator is at the end of the run of the pass *)
Between ==
    pc \in {"begin", "end", "test", "body", "done"} =>
        \/ seen.first = 0 /\ (pc # "begin" => iter[It].sub = 1)
        \/ /\ pc # "begin" /\ seen.first \in 1 .. Len(keys)
           /\ RunEndAt(seen.first, iter[It].sub)

AtDone == pc = "done" => iter[It].sub = End

(* in a pass it is there, or in the run with an unfinished Group *)
Inside ==
    pc \in {"held", "read", "rest", "leave", "next"} =>
        /\ seen.first \in 1 .. Len(keys)
        /\ It \in DOMAIN pair /\ pair[It] = Pair
        /\ IF OpenGroupsOf(It) = {} THEN RunEndAt(seen.first, iter[It].sub)
           ELSE \A g \in OpenGroupsOf(It) : group[g].first = seen.first

(* while the body reads, the iterator is at the element that comes next, or  *)
(* at the last one read                                                     *)
Reading ==
    pc \in {"held", "read", "rest"} =>
        /\ tool = "groupby" /\ ~seen.ended
        /\ Held \in OpenGroupsOf(It)
        /\ pc # "held" => Cur \in DOMAIN cursor /\ cursor[Cur] = Held
        /\ pc = "rest" => seen.items # << >>
        /\ iter[It].sub = seen.first + Len(seen.items) - (IF pc = "rest" THEN 1 ELSE 0)

PassFollows ==
    seen.first # 0 =>
        /\ seen.after < seen.first
        /\ \A p \in seen.after + 1 .. seen.first : RunStart(p) <=> p = seen.first
        /\ tool = "unique_justseen" => seen.items = <<seen.first>>

Passes == seen \in SeenRec /\ YieldsOwnRun /\ PassFollows

LoopInv == Objects /\ Between /\ AtDone /\ Inside /\ Reading /\ Passes

----------------------------------------------------------------------------
(* The program is one of the clients that GroupBy describes.                *)
THEOREM LoopIsClient == LoopSpec => Spec
<1>1. LoopInit => Init
  BY DEF LoopInit
<1>2. ASSUME [LoopNext]_loopVars
      PROVE  [Next]_vars
  <2>1. CASE UNCHANGED loopVars
    BY <2>1 DEF loopVars
  <2>2. CASE Enter \/ EnterLast
    BY <2>2, ObjectsAssumption DEF Enter, EnterLast, Next
  <2>3. CASE Test \/ Skip \/ Read
    BY <2>3 DEF Test, Skip, Read
  <2>4. CASE Body \/ JustSeen
    BY <2>4, ObjectsAssumption DEF Body, JustSeen, Next
  <2>5. CASE MoveOut
    BY <2>5, ObjectsAssumption DEF MoveOut, Next
  <2>6. CASE BeginGroup
    BY <2>6, ObjectsAssumption DEF BeginGroup, Held, Next
  <2>7. CASE ReadOn \/ BreakOff
    BY <2>7, ObjectsAssumption DEF ReadOn, BreakOff, Next
  <2>8. CASE LeaveBody
    BY <2>8, ObjectsAssumption DEF LeaveBody, Next
  <2>9. CASE Increment
    BY <2>9, ObjectsAssumption DEF Increment, Next
  <2> QED
    BY <1>2, <2>1, <2>2, <2>3, <2>4, <2>5, <2>6, <2>7, <2>8, <2>9 DEF LoopNext
<1> QED
  BY <1>1, <1>2, PTL DEF LoopSpec, Spec


----------------------------------------------------------------------------
(* Facts about runs *)

LEMMA KeysSame ==
    ASSUME keys' = keys
    PROVE  /\ End' = End
           /\ \A p, q : RunEndAt(p, q)' <=> RunEndAt(p, q)
           /\ \A p : RunStart(p)' <=> RunStart(p)
BY DEF End, RunEndAt, RunStart

(* the rest of a run, after a part of it, ends where the run ends *)
LEMMA RunEndJoins ==
    ASSUME keys \in Seq(Keys), NEW f \in 1 .. Len(keys), NEW p \in f .. Len(keys),
           \A r \in f .. p : keys[r] = keys[f], NEW q, RunEndAt(p, q)
    PROVE  RunEndAt(f, q)
<1>1. Len(keys) \in Nat /\ End = Len(keys) + 1 /\ keys[p] = keys[f]
  BY DEF End
<1>2. q \in f + 1 .. End
  BY <1>1 DEF RunEndAt
<1>3. \A r \in f .. q - 1 : keys[r] = keys[f]
  BY <1>1, <1>2 DEF RunEndAt
<1> QED
  BY <1>1, <1>2, <1>3 DEF RunEndAt

(* the Group the iterator is in began where the run of the pass did *)
LEMMA InOpenRun ==
    ASSUME Core, Runs, LoopInv, pc \in {"held", "read", "rest", "leave", "next"},
           NEW g \in OpenGroupsOf(It)
    PROVE  /\ seen.first \in 1 .. Len(keys) /\ keys \in Seq(Keys)
           /\ iter[It].sub \in seen.first .. Len(keys)
           /\ \A r \in seen.first .. iter[It].sub : keys[r] = keys[seen.first]
           /\ g \in DOMAIN group /\ Open(g) /\ group[g].owner = It
           /\ group[g].key = keys[seen.first] /\ It \in DOMAIN iter
<1>1. g \in DOMAIN group /\ Open(g) /\ group[g].owner = It
  BY DEF OpenGroupsOf
<1>2. seen.first \in 1 .. Len(keys) /\ group[g].first = seen.first
  BY DEF LoopInv, Inside
<1>3. /\ iter[It].sub \in seen.first .. Len(keys)
      /\ \A r \in seen.first .. iter[It].sub : keys[r] = group[g].key
      /\ It \in DOMAIN iter
  BY <1>1, <1>2 DEF Runs, OpenGroupInRun
<1>4. keys[seen.first] = group[g].key
  BY <1>2, <1>3
<1> QED
  BY <1>1, <1>2, <1>3, <1>4 DEF Core, IterOK

(* steps that read nothing *)
LEMMA PassesStay ==
    ASSUME Passes, UNCHANGED <<keys, seen, tool>>
    PROVE  Passes'
BY KeysSame DEF Passes, YieldsOwnRun, PassFollows, SeenRec

(* a pass begins where the pass before ended *)
LEMMA PassBegins ==
    ASSUME Core, LoopInv, pc = "body", AtElement(It), keys' = keys, tool' = tool,
           NEW items, seen' = Pass(iter[It].sub, items),
           \/ items = << >> /\ tool = "groupby"
           \/ items = <<iter[It].sub>>
    PROVE  Passes' /\ seen'.first = iter[It].sub /\ seen'.items = items /\ ~seen'.ended
<1> DEFINE p == iter[It].sub
<1>1. /\ seen \in SeenRec /\ keys \in Seq(Keys)
      /\ p \in 1 .. Len(keys) /\ p # End /\ p \in Nat
  BY DEF LoopInv, Passes, Core, IterOK, IterRec, AtElement, End
<1>2. seen' = [first |-> p, after |-> seen.first, items |-> items, ended |-> FALSE]
  BY DEF Pass
<1> HIDE DEF p
<1>3. seen' \in SeenRec
  <2>1. p \in Nat /\ seen.first \in Nat
    BY <1>1 DEF SeenRec
  <2>2. items = << >> \/ items = <<p>>
    BY DEF p
  <2>3. items \in Seq(Nat)
    <3>1. << >> \in Seq(Nat) /\ <<p>> \in Seq(Nat)
      BY <2>1
    <3> QED
      BY <2>2, <3>1
  <2> QED
    BY <1>2, <2>1, <2>3 DEF SeenRec
<1>4. seen.first < p /\ \A r \in seen.first + 1 .. p : RunStart(r) <=> r = p
  <2>1. CASE seen.first = 0 /\ p = 1
    BY <2>1 DEF RunStart
  <2>2. CASE seen.first \in 1 .. Len(keys) /\ RunEndAt(seen.first, p)
    <3>1. seen.first < p /\ \A r \in seen.first .. p - 1 : keys[r] = keys[seen.first]
          /\ keys[p] # keys[seen.first]
      BY <1>1, <2>2 DEF RunEndAt
    <3>2. p > 1 /\ keys[p] # keys[p - 1]
      BY <1>1, <2>2, <3>1
    <3>3. ASSUME NEW r \in seen.first + 1 .. p, r # p
          PROVE  r # 1 /\ keys[r] = keys[r - 1]
      BY <1>1, <2>2, <3>1, <3>3
    <3> QED
      BY <3>1, <3>2, <3>3 DEF RunStart
  <2> QED
    BY <2>1, <2>2 DEF LoopInv, Between, p
<1>5. PassFollows'
  BY <1>2, <1>4, KeysSame DEF PassFollows, p
<1>6. YieldsOwnRun'
  BY <1>1, <1>2 DEF YieldsOwnRun, p
<1> QED
  BY <1>2, <1>3, <1>5, <1>6 DEF Passes, p

----------------------------------------------------------------------------
(* The steps *)

LEMMA LoopInvInit ==
    ASSUME LoopInit
    PROVE  LoopInv
<1>1. seen = [first |-> 0, after |-> 0, items |-> << >>, ended |-> FALSE] /\ pc = "begin"
      /\ group = << >>
  BY DEF LoopInit, Init
<1>2. Passes
  BY <1>1 DEF Passes, SeenRec, YieldsOwnRun, PassFollows
<1>3. Objects /\ Between /\ AtDone /\ Inside /\ Reading
  BY <1>1 DEF Objects, Between, AtDone, Inside, Reading, Points
<1> QED
  BY <1>2, <1>3 DEF LoopInv

LEMMA EnterInv ==
    ASSUME LoopInv, Enter PROVE LoopInv'
<1>1. /\ pc = "begin" /\ pc' = "end" /\ UNCHANGED <<keys, pair, group, cursor, tool, seen>>
      /\ iter' = Put(iter, It, IteratorAt(1))
  BY DEF Enter, GoTo, Begin, Construct
<1>2. It \in DOMAIN iter' /\ iter'[It].sub = 1
  BY <1>1 DEF Put, IteratorAt
<1>3. Passes'
  BY <1>1, PassesStay DEF LoopInv
<1>4. Objects' /\ Between'
  BY <1>1, <1>2 DEF LoopInv, Objects, Between, Points
<1>5. AtDone' /\ Inside' /\ Reading'
  BY <1>1 DEF AtDone, Inside, Reading
<1> QED
  BY <1>3, <1>4, <1>5 DEF LoopInv

LEMMA EnterLastInv ==
    ASSUME LoopInv, EnterLast PROVE LoopInv'
<1>1. /\ pc = "end" /\ pc' = "test" /\ UNCHANGED <<keys, pair, group, cursor, tool, seen>>
      /\ iter' = Put(iter, Last, IteratorAt(End))
  BY DEF EnterLast, GoTo, Finish, Construct
<1>2. /\ Last \in DOMAIN iter' /\ iter'[Last].sub = End
      /\ It \in DOMAIN iter' /\ iter'[It] = iter[It]
  BY <1>1, ObjectsAssumption DEF Put, IteratorAt, LoopInv, Objects
<1>3. Passes'
  BY <1>1, PassesStay DEF LoopInv
<1>4. Objects' /\ Between'
  BY <1>1, <1>2, KeysSame DEF LoopInv, Objects, Between, Points
<1>5. AtDone' /\ Inside' /\ Reading'
  BY <1>1 DEF AtDone, Inside, Reading
<1> QED
  BY <1>3, <1>4, <1>5 DEF LoopInv

LEMMA TestInv ==
    ASSUME LoopInv, Test PROVE LoopInv'
<1>1. /\ pc = "test" /\ pc' = (IF NotEqual(It, Last) THEN "body" ELSE "done")
      /\ UNCHANGED <<keys, iter, pair, group, cursor, tool, seen>>
  BY DEF Test, vars
<1>2. pc' = "body" \/ (pc' = "done" /\ iter[It].sub = End)
  BY <1>1 DEF NotEqual, LoopInv, Objects
<1>3. Passes'
  BY <1>1, PassesStay DEF LoopInv
<1>4. Objects' /\ Between' /\ AtDone'
  BY <1>1, <1>2, KeysSame DEF LoopInv, Objects, Between, AtDone, Points
<1>5. Inside' /\ Reading'
  BY <1>1, <1>2 DEF Inside, Reading
<1> QED
  BY <1>3, <1>4, <1>5 DEF LoopInv

(* what a dereference of the loop's iterator does *)
LEMMA DerefEffect ==
    ASSUME Core, LoopInv, Runs', pc = "body", Deref(It, Pair),
           seen'.first = iter[It].sub
    PROVE  /\ AtElement(It) /\ iter[It].item = iter[It].sub
           /\ UNCHANGED <<keys, iter, cursor>>
           /\ iter[It].sub \in 1 .. Len(keys)
           /\ It \in DOMAIN iter /\ It \in DOMAIN pair' /\ pair'[It] = Pair
           /\ Local \notin DOMAIN group'
           /\ Pair \in OpenGroupsOf(It)'
           /\ \A g \in OpenGroupsOf(It)' : group'[g].first = seen'.first
<1>1. /\ AtElement(It) /\ UNCHANGED <<keys, iter, cursor>>
      /\ group' = Put(group, Pair, NewGroup(It)) /\ pair' = Put(pair, It, Pair)
  BY DEF Deref
<1>2. It \in DOMAIN iter /\ iter[It].sub # End /\ iter[It] \in IterRec
  BY <1>1 DEF AtElement, Core, IterOK
<1>3. iter[It].item = iter[It].sub /\ iter[It].sub \in 1 .. Len(keys)
  BY <1>2 DEF Core, IterOK, ItemFresh, IterRec, End
<1>4. group'[Pair] = NewGroup(It) /\ Pair \in DOMAIN group' /\ Local \notin DOMAIN group'
      /\ It \in DOMAIN pair' /\ pair'[It] = Pair
  BY <1>1, ObjectsAssumption DEF Put, LoopInv, Objects
<1>5. group'[Pair].owner = It /\ ~group'[Pair].completed /\ group'[Pair].first = iter[It].sub
  BY <1>4 DEF NewGroup
<1>6. Pair \in OpenGroupsOf(It)'
  BY <1>4, <1>5 DEF OpenGroupsOf, Open
<1>7. \A g \in OpenGroupsOf(It)' : g = Pair
  BY <1>1, <1>2, <1>6 DEF Runs, OneOpenGroup
<1> QED
  BY <1>1, <1>2, <1>3, <1>4, <1>5, <1>6, <1>7

LEMMA BodyInv ==
    ASSUME Core, Runs', LoopInv, Body PROVE LoopInv'
<1>1. /\ pc = "body" /\ pc' = "held" /\ tool = "groupby" /\ tool' = tool
      /\ Deref(It, Pair) /\ seen' = Pass(iter[It].sub, << >>)
  BY DEF Body, GoTo
<1>2. AtElement(It) /\ keys' = keys
  BY <1>1 DEF Deref
<1>3. Passes' /\ seen'.first = iter[It].sub /\ seen'.items = << >> /\ ~seen'.ended
  BY <1>1, <1>2, PassBegins
<1>4. /\ UNCHANGED <<keys, iter, cursor>>
      /\ iter[It].sub \in 1 .. Len(keys)
      /\ It \in DOMAIN iter /\ It \in DOMAIN pair' /\ pair'[It] = Pair
      /\ Local \notin DOMAIN group' /\ Pair \in OpenGroupsOf(It)'
      /\ \A g \in OpenGroupsOf(It)' : group'[g].first = seen'.first
  BY <1>1, <1>3, DerefEffect
<1>5. Objects'
  BY <1>1, <1>4, KeysSame DEF LoopInv, Objects, Points
<1>6. Inside'
  BY <1>3, <1>4 DEF Inside
<1>7. Reading'
  <2>1. Held' = Pair
    BY <1>4 DEF Held
  <2>2. iter[It].sub = iter[It].sub + Len(<< >>) - 0
    BY <1>4
  <2> QED
    BY <1>1, <1>3, <1>4, <2>1, <2>2 DEF Reading
<1>8. Between' /\ AtDone'
  BY <1>1 DEF Between, AtDone
<1> QED
  BY <1>3, <1>5, <1>6, <1>7, <1>8 DEF LoopInv

LEMMA JustSeenInv ==
    ASSUME Core, Runs', LoopInv, JustSeen PROVE LoopInv'
<1>1. /\ pc = "body" /\ pc' = "next" /\ tool' = tool
      /\ Deref(It, Pair) /\ seen' = Pass(iter[It].sub, <<iter[It].item>>)
  BY DEF JustSeen, GoTo
<1>2. AtElement(It) /\ keys' = keys
  BY <1>1 DEF Deref
<1>3. iter[It].item = iter[It].sub
  BY <1>2 DEF AtElement, Core, IterOK, ItemFresh
<1>4. Passes' /\ seen'.first = iter[It].sub
  BY <1>1, <1>2, <1>3, PassBegins
<1>5. /\ UNCHANGED <<keys, iter, cursor>>
      /\ iter[It].sub \in 1 .. Len(keys)
      /\ It \in DOMAIN iter /\ It \in DOMAIN pair' /\ pair'[It] = Pair
      /\ Local \notin DOMAIN group' /\ Pair \in OpenGroupsOf(It)'
      /\ \A g \in OpenGroupsOf(It)' : group'[g].first = seen'.first
  BY <1>1, <1>4, DerefEffect
<1>6. Objects'
  BY <1>1, <1>5, KeysSame DEF LoopInv, Objects, Points
<1>7. Inside'
  BY <1>4, <1>5 DEF Inside
<1>8. Between' /\ AtDone' /\ Reading'
  BY <1>1 DEF Between, AtDone, Reading
<1> QED
  BY <1>4, <1>6, <1>7, <1>8 DEF LoopInv


LEMMA MoveOutInv ==
    ASSUME Core, Runs', LoopInv, MoveOut PROVE LoopInv'
<1>1. /\ pc = "held" /\ pc' = "held" /\ UNCHANGED <<keys, iter, pair, cursor, tool, seen>>
      /\ MoveGroup(Pair, Local)
  BY DEF MoveOut, GoTo, MoveGroup
<1>2. /\ Pair \in DOMAIN group /\ Local \notin DOMAIN group
      /\ DOMAIN group' = DOMAIN group \cup {Local}
      /\ group'[Local] = group[Pair]
  BY <1>1, MoveGroupEffect, ObjectsAssumption
<1>3. Held = Pair /\ Held' = Local
  BY <1>2 DEF Held
<1>4. Pair \in OpenGroupsOf(It) /\ group[Pair].owner = It /\ group[Pair].first = seen.first
  BY <1>1, <1>3 DEF LoopInv, Reading, Inside, OpenGroupsOf
<1>5. Local \in OpenGroupsOf(It)'
  BY <1>2, <1>4 DEF OpenGroupsOf, Open
<1>6. It \in DOMAIN iter
  BY <1>1 DEF LoopInv, Objects
<1>7. \A g \in OpenGroupsOf(It)' : g = Local
  BY <1>1, <1>5, <1>6 DEF Runs, OneOpenGroup
<1>8. Inside'
  BY <1>1, <1>2, <1>4, <1>5, <1>7 DEF LoopInv, Inside
<1>9. Reading'
  BY <1>1, <1>3, <1>5 DEF LoopInv, Reading
<1>10. Objects'
  BY <1>1, <1>2, <1>4, KeysSame DEF LoopInv, Objects
<1>11. Between' /\ AtDone' /\ Passes'
  BY <1>1, PassesStay DEF LoopInv, Between, AtDone
<1> QED
  BY <1>8, <1>9, <1>10, <1>11 DEF LoopInv

LEMMA SkipInv ==
    ASSUME LoopInv, Skip PROVE LoopInv'
<1>1. /\ pc = "held" /\ pc' = "leave"
      /\ UNCHANGED <<keys, iter, pair, group, cursor, tool, seen>>
  BY DEF Skip, GoTo, vars
<1>2. Passes'
  BY <1>1, PassesStay DEF LoopInv
<1>3. Objects' /\ Inside'
  BY <1>1, KeysSame DEF LoopInv, Objects, Inside, OpenGroupsOf, Open, Points
<1>4. Between' /\ AtDone' /\ Reading'
  BY <1>1 DEF Between, AtDone, Reading
<1> QED
  BY <1>2, <1>3, <1>4 DEF LoopInv

LEMMA BeginGroupInv ==
    ASSUME LoopInv, BeginGroup PROVE LoopInv'
<1>1. /\ pc = "held" /\ pc' = "read" /\ cursor' = Put(cursor, Cur, Held)
      /\ UNCHANGED <<keys, iter, pair, group, tool, seen>>
  BY DEF BeginGroup, GoTo, GroupBegin
<1>2. Cur \in DOMAIN cursor' /\ cursor'[Cur] = Held
  BY <1>1 DEF Put
<1>3. Passes'
  BY <1>1, PassesStay DEF LoopInv
<1>4. Objects' /\ Inside'
  BY <1>1, KeysSame DEF LoopInv, Objects, Inside, OpenGroupsOf, Open, Points
<1>5. Held' = Held /\ OpenGroupsOf(It)' = OpenGroupsOf(It)
  BY <1>1 DEF Held, OpenGroupsOf, Open
<1>6. Reading'
  BY <1>1, <1>2, <1>5 DEF LoopInv, Reading
<1>7. Between' /\ AtDone'
  BY <1>1 DEF Between, AtDone
<1> QED
  BY <1>3, <1>4, <1>6, <1>7 DEF LoopInv

(* an element of the run is read *)
LEMMA ReadInv ==
    ASSUME Core, Runs, LoopInv, Read PROVE LoopInv'
<1> DEFINE n == Len(seen.items)
           it == iter[It]
<1>1. /\ pc = "read" /\ pc' = "rest" /\ UNCHANGED <<keys, iter, pair, group, cursor, tool>>
      /\ seen' = [seen EXCEPT !.items = Append(@, it.item)]
  BY DEF Read, GoTo, vars
<1>2. /\ seen \in SeenRec /\ tool = "groupby" /\ ~seen.ended
      /\ Held \in OpenGroupsOf(It) /\ it.sub = seen.first + n
      /\ Cur \in DOMAIN cursor /\ cursor[Cur] = Held
  <2>1. seen \in SeenRec /\ n \in Nat
    BY DEF LoopInv, Passes, SeenRec
  <2>2. it.sub = seen.first + n - 0
    BY <1>1 DEF LoopInv, Reading
  <2> QED
    BY <1>1, <2>1, <2>2 DEF LoopInv, Reading, SeenRec
<1>3. /\ it.sub \in seen.first .. Len(keys) /\ keys[it.sub] = keys[seen.first]
      /\ It \in DOMAIN iter /\ keys \in Seq(Keys)
  BY <1>1, <1>2, InOpenRun
<1>4. it.item = it.sub /\ it.item \in Nat
  BY <1>2, <1>3 DEF Core, IterOK, ItemFresh, SeenRec, End
<1>5. /\ seen' \in SeenRec /\ seen'.first = seen.first /\ seen'.after = seen.after
      /\ seen'.ended = seen.ended /\ seen'.items = Append(seen.items, it.item)
  <2>1. Append(seen.items, it.item) \in Seq(Nat)
    BY <1>2, <1>4 DEF SeenRec
  <2> QED
    BY <1>1, <1>2, <2>1 DEF SeenRec
<1>6. Len(seen'.items) = n + 1 /\ seen'.items # << >>
      /\ seen.first \in Nat /\ n \in Nat
  BY <1>2, <1>4, <1>5 DEF SeenRec
<1>7. YieldsOwnRun'
  <2>1. ASSUME NEW m \in DOMAIN seen'.items
        PROVE  seen'.items[m] = seen.first + m - 1 /\ keys[seen'.items[m]] = keys[seen.first]
    <3>1. CASE m \in 1 .. n
      BY <1>2, <1>4, <1>5, <3>1 DEF LoopInv, Passes, YieldsOwnRun, SeenRec
    <3>2. CASE m = n + 1
      BY <1>2, <1>3, <1>4, <1>5, <1>6, <3>2 DEF SeenRec
    <3> QED
      BY <1>2, <1>4, <1>5, <1>6, <2>1, <3>1, <3>2 DEF SeenRec
  <2> QED
    BY <1>1, <1>2, <1>5, <2>1 DEF YieldsOwnRun
<1>8. Passes'
  BY <1>1, <1>2, <1>5, <1>7, KeysSame DEF LoopInv, Passes, PassFollows
<1>9. Objects' /\ Inside'
  BY <1>1, <1>5, KeysSame DEF LoopInv, Objects, Inside, OpenGroupsOf, Open, Points
<1>10. Reading'
  <2>1. Held' = Held /\ OpenGroupsOf(It)' = OpenGroupsOf(It)
    BY <1>1 DEF Held, OpenGroupsOf, Open
  <2>2. it.sub = seen'.first + Len(seen'.items) - 1
    BY <1>2, <1>5, <1>6
  <2> QED
    BY <1>1, <1>2, <1>5, <1>6, <2>1, <2>2 DEF Reading
<1>11. Between' /\ AtDone'
  BY <1>1 DEF Between, AtDone
<1> QED
  BY <1>8, <1>9, <1>10, <1>11 DEF LoopInv

(* the iterator goes to the next element of the run, or the Group is         *)
(* completed at the end of it                                               *)
LEMMA ReadOnInv ==
    ASSUME KeyAliases = FALSE, Core, Runs, LoopInv, ReadOn PROVE LoopInv'
<1> DEFINE p == iter[It].sub
           g == Held
<1>1. /\ pc = "rest" /\ GroupIncrement(Cur) /\ UNCHANGED <<keys, pair, tool>>
      /\ pc' = (IF Cur \in DOMAIN cursor' THEN "read" ELSE "leave")
      /\ seen' = [seen EXCEPT !.ended = Cur \notin DOMAIN cursor']
  BY DEF ReadOn, GroupIncrement
<1>2. /\ g \in OpenGroupsOf(It) /\ Cur \in DOMAIN cursor /\ cursor[Cur] = g /\ ~seen.ended
      /\ p = seen.first + Len(seen.items) - 1 /\ tool = "groupby"
  BY <1>1 DEF LoopInv, Reading
<1>3. seen \in SeenRec /\ Len(seen.items) \in Nat /\ seen.first \in Nat
  BY DEF LoopInv, Passes, SeenRec
<1>4. /\ seen.first \in 1 .. Len(keys) /\ p \in seen.first .. Len(keys)
      /\ \A r \in seen.first .. p : keys[r] = keys[seen.first]
      /\ g \in DOMAIN group /\ Open(g) /\ group[g].owner = It
      /\ group[g].key = keys[seen.first] /\ It \in DOMAIN iter
      /\ keys \in Seq(Keys)
  BY <1>1, <1>2, InOpenRun
<1>5. /\ DOMAIN iter' = DOMAIN iter /\ iter'[It].sub = p + 1
      /\ \A k \in DOMAIN iter : k # It => iter'[k] = iter[k]
      /\ \/ group' = group /\ p + 1 # End /\ keys[p + 1] = group[g].key
         \/ group' = Completed(g) /\ (p + 1 # End => keys[p + 1] # group[g].key)
  <2>1. g = cursor[Cur] /\ It = group[g].owner
    BY <1>2, <1>4
  <2>2. /\ DOMAIN iter' = DOMAIN iter /\ iter'[It].sub = iter[It].sub + 1
        /\ \A k \in DOMAIN iter : k # It => iter'[k] = iter[k]
        /\ \/ group' = group /\ iter'[It].sub # End /\ keys[iter'[It].sub] = group[g].key
           \/ /\ group' = Completed(g)
              /\ iter'[It].sub # End => keys[iter'[It].sub] # group[g].key
    <3> HIDE DEF g, p
    <3> QED
      BY <1>1, <2>1, GroupIncrementEffect, ZenonT(60)
  <2> QED
    BY <2>2
<1>6. /\ DOMAIN Completed(g) = DOMAIN group /\ Completed(g)[g].completed
      /\ \A k \in DOMAIN group : Completed(g)[k].owner = group[k].owner
      /\ \A k \in DOMAIN group : k # g => Completed(g)[k] = group[k]
  BY <1>4, CompletedType DEF Core
<1>7. \/ group' = group /\ cursor' = cursor
      \/ group' = Completed(g) /\ cursor' = Drop(cursor, Cur)
  BY <1>1, <1>2 DEF GroupIncrement
<1> HIDE DEF p, g
<1>8. Objects'
  BY <1>1, <1>4, <1>5, <1>6, KeysSame, ObjectsAssumption DEF LoopInv, Objects, Points
<1>9. CASE Cur \in DOMAIN cursor'
  <2>1. group' = group /\ cursor' = cursor /\ pc' = "read"
    BY <1>1, <1>7, <1>9 DEF Drop
  <2>2. seen' = seen
    BY <1>1, <1>2, <1>3, <1>9 DEF SeenRec
  <2>3. Held' = Held /\ OpenGroupsOf(It)' = OpenGroupsOf(It)
    BY <2>1 DEF Held, OpenGroupsOf, Open
  <2>4. p + 1 = seen.first + Len(seen.items) - 0
    BY <1>2, <1>3
  <2>5. Reading'
    BY <1>1, <1>2, <1>5, <2>1, <2>2, <2>3, <2>4 DEF Reading, g
  <2>6. Inside'
    BY <1>1, <1>2, <2>1, <2>2, <2>3 DEF LoopInv, Inside
  <2>7. Passes' /\ Between' /\ AtDone'
    BY <1>1, <2>1, <2>2, PassesStay DEF LoopInv, Between, AtDone
  <2> QED
    BY <1>8, <2>5, <2>6, <2>7 DEF LoopInv
<1>10. CASE Cur \notin DOMAIN cursor'
  <2>1. group' = Completed(g) /\ pc' = "leave"
    BY <1>1, <1>2, <1>7, <1>10
  <2>2. /\ seen' \in SeenRec /\ seen'.ended /\ seen'.first = seen.first
        /\ seen'.items = seen.items /\ seen'.after = seen.after
    BY <1>1, <1>3, <1>10 DEF SeenRec
  <2>3. p + 1 # End => keys[p + 1] # keys[seen.first]
    <3>1. group # Completed(g)
      BY <1>4, <1>6 DEF Open
    <3> QED
      BY <1>4, <1>5, <2>1, <3>1
  <2>4. RunEndAt(seen.first, p + 1)
    <3>1. p + 1 \in seen.first + 1 .. End /\ p + 1 - 1 = p
      BY <1>3, <1>4 DEF End
    <3> QED
      BY <1>4, <2>3, <3>1 DEF RunEndAt
  <2>5. OpenGroupsOf(It)' = {}
    <3>1. \A k \in OpenGroupsOf(It) : k = g
      BY <1>2, <1>4 DEF Runs, OneOpenGroup
    <3> QED
      BY <1>6, <2>1, <3>1 DEF OpenGroupsOf, Open
  <2>6. Inside'
    BY <1>1, <1>4, <1>5, <2>1, <2>2, <2>4, <2>5, KeysSame DEF LoopInv, Inside
  <2>7. YieldsOwnRun'
    <3>1. seen.first + Len(seen.items) = p + 1
      BY <1>2, <1>3
    <3>2. p + 1 = End \/ RunStart(p + 1)
      <4>1. p + 1 - 1 = p /\ keys[p] = keys[seen.first]
        BY <1>3, <1>4
      <4> QED
        BY <1>3, <1>4, <2>3, <4>1 DEF RunStart
    <3> QED
      BY <1>1, <2>2, <3>1, <3>2, KeysSame DEF LoopInv, Passes, YieldsOwnRun
  <2>8. Passes'
    BY <1>1, <2>2, <2>7, KeysSame DEF LoopInv, Passes, PassFollows
  <2>9. Between' /\ AtDone' /\ Reading'
    BY <2>1 DEF Between, AtDone, Reading
  <2> QED
    BY <1>8, <2>6, <2>8, <2>9 DEF LoopInv
<1> QED
  BY <1>9, <1>10

LEMMA BreakOffInv ==
    ASSUME LoopInv, BreakOff PROVE LoopInv'
<1>1. /\ pc = "rest" /\ pc' = "leave"
      /\ UNCHANGED <<keys, iter, pair, group, tool, seen>>
  BY DEF BreakOff, GoTo, GroupBreak
<1>2. Passes'
  BY <1>1, PassesStay DEF LoopInv
<1>3. Objects' /\ Inside'
  BY <1>1, KeysSame DEF LoopInv, Objects, Inside, OpenGroupsOf, Open, Points
<1>4. Between' /\ AtDone' /\ Reading'
  BY <1>1 DEF Between, AtDone, Reading
<1> QED
  BY <1>2, <1>3, <1>4 DEF LoopInv


(* the body's own Group is destroyed and, unless it was read to its end,    *)
(* takes the iterator to the end of the run                                 *)
LEMMA LeaveBodyInv ==
    ASSUME KeyAliases = FALSE, Core, Runs, LoopInv, LeaveBody PROVE LoopInv'
<1>1. /\ pc = "leave" /\ pc' = "next" /\ UNCHANGED <<keys, pair, tool, seen>>
      /\ IF Local \in DOMAIN group THEN DestroyMoved(Local) ELSE UNCHANGED vars
  BY DEF LeaveBody, GoTo, vars, DestroyMoved
<1>2. Passes'
  BY <1>1, PassesStay DEF LoopInv
<1>3. Between' /\ AtDone' /\ Reading'
  BY <1>1 DEF Between, AtDone, Reading
<1>4. CASE Local \notin DOMAIN group
  <2>1. UNCHANGED <<iter, group>>
    BY <1>1, <1>4 DEF vars
  <2>2. Objects' /\ Inside'
    BY <1>1, <1>4, <2>1, KeysSame DEF LoopInv, Objects, Inside, OpenGroupsOf, Open, Points
  <2> QED
    BY <1>2, <1>3, <2>2 DEF LoopInv
<1>5. CASE Local \in DOMAIN group /\ ~Open(Local)
  <2>1. iter' = iter /\ group' = Drop(group, Local)
    BY <1>1, <1>5 DEF DestroyMoved
  <2>2. DOMAIN group' = DOMAIN group \ {Local} /\ \A g \in DOMAIN group' : group'[g] = group[g]
    BY <2>1 DEF Drop
  <2>3. OpenGroupsOf(It)' = OpenGroupsOf(It)
    BY <1>5, <2>2 DEF OpenGroupsOf, Open
  <2>4. \A g \in OpenGroupsOf(It) : group'[g] = group[g]
    BY <2>2, <2>3 DEF OpenGroupsOf
  <2>5. Objects' /\ Inside'
    BY <1>1, <2>1, <2>2, <2>3, <2>4, KeysSame DEF LoopInv, Objects, Inside, Points
  <2> QED
    BY <1>2, <1>3, <2>5 DEF LoopInv
<1>6. CASE Local \in DOMAIN group /\ Open(Local)
  <2>1. group[Local].owner = It /\ Local \in OpenGroupsOf(It)
    BY <1>6 DEF LoopInv, Objects, OpenGroupsOf
  <2>2. PICK it \in OwnerAfter(group[Local], iter[It]) : iter' = Put(iter, It, it)
    BY <1>1, <1>6, <2>1 DEF DestroyMoved
  <2>3. group' = Drop(group, Local)
    BY <1>1, <1>6 DEF DestroyMoved
  <2>4. /\ seen.first \in 1 .. Len(keys) /\ keys \in Seq(Keys)
        /\ iter[It].sub \in seen.first .. Len(keys)
        /\ \A r \in seen.first .. iter[It].sub : keys[r] = keys[seen.first]
        /\ group[Local].key = keys[seen.first] /\ It \in DOMAIN iter
    BY <1>1, <2>1, InOpenRun
  <2>5. iter[It] \in IterRec /\ Fresh(iter[It])
    BY <2>4 DEF Core, IterOK, ItemFresh, Fresh
  <2>6. RunEndAt(iter[It].sub, it.sub)
    <3>1. iter[It].sub # End /\ keys[iter[It].sub] = group[Local].key
      BY <2>4 DEF End
    <3> QED
      BY <1>6, <2>2, <2>4, <2>5, <3>1, OwnerAfterRun DEF Open
  <2>7. RunEndAt(seen.first, it.sub)
    BY <2>4, <2>6, RunEndJoins
  <2>8. /\ DOMAIN iter' = DOMAIN iter /\ iter'[It] = it
        /\ \A k \in DOMAIN iter : k # It => iter'[k] = iter[k]
    BY <2>2, <2>4 DEF Put
  <2>9. OpenGroupsOf(It)' = {}
    <3>1. \A g \in OpenGroupsOf(It) : g = Local
      BY <2>1, <2>4 DEF Runs, OneOpenGroup
    <3>2. DOMAIN group' = DOMAIN group \ {Local} /\ \A g \in DOMAIN group' : group'[g] = group[g]
      BY <2>3 DEF Drop
    <3> QED
      BY <3>1, <3>2 DEF OpenGroupsOf, Open
  <2>10. Inside'
    BY <1>1, <2>7, <2>8, <2>9, KeysSame DEF LoopInv, Inside
  <2>11. Local \notin DOMAIN group'
    BY <2>3 DEF Drop
  <2>12. Objects'
    BY <1>1, <2>8, <2>11, KeysSame, ObjectsAssumption DEF LoopInv, Objects, Points
  <2> QED
    BY <1>2, <1>3, <2>10, <2>12 DEF LoopInv
<1> QED
  BY <1>4, <1>5, <1>6

(* ++ destroys the pair's Group and leaves the iterator at the end of the run *)
LEMMA IncrementInv ==
    ASSUME Habits = {}, KeyAliases = FALSE, Core, Runs, LoopInv, Increment PROVE LoopInv'
<1>1. /\ pc = "next" /\ pc' = "test" /\ UNCHANGED <<keys, tool, seen>>
      /\ MayAdvance(It) /\ ResetPair(It)
  BY DEF Increment, GoTo, PreIncrement
<1>2. PICK it \in Advanced(It) : iter' = Put(iter, It, it)
  BY DEF Increment, PreIncrement
<1>3. /\ seen.first \in 1 .. Len(keys) /\ It \in DOMAIN pair /\ pair[It] = Pair
      /\ It \in DOMAIN iter /\ Last \in DOMAIN iter /\ iter[Last].sub = End
      /\ Local \notin DOMAIN group
  BY <1>1 DEF LoopInv, Inside, Objects
<1>4. RunEndAt(seen.first, it.sub)
  <2>1. CASE OpenGroupsOf(It) = {}
    <3>1. group[Pair].owner = It /\ Pair \in DOMAIN group
      BY <1>3 DEF Core, StoreOK, PairOwned
    <3>2. group[Pair].completed
      BY <2>1, <3>1 DEF OpenGroupsOf, Open
    <3>3. it = iter[It]
      BY <1>2, <1>3, <3>2 DEF Advanced, OwnerAfter
    <3> QED
      BY <1>1, <2>1, <3>3 DEF LoopInv, Inside
  <2>2. CASE OpenGroupsOf(It) # {}
    <3>1. RunEndAt(iter[It].sub, it.sub)
      BY <1>1, <1>2, <2>2, AdvancedRun, ObjectsAssumption
    <3>2. PICK g : g \in OpenGroupsOf(It)
      BY <2>2
    <3>3. /\ keys \in Seq(Keys) /\ iter[It].sub \in seen.first .. Len(keys)
          /\ \A r \in seen.first .. iter[It].sub : keys[r] = keys[seen.first]
      BY <1>1, <3>2, InOpenRun
    <3> QED
      BY <1>3, <3>1, <3>3, RunEndJoins
  <2> QED
    BY <2>1, <2>2
<1>5. iter'[It] = it /\ It \in DOMAIN iter' /\ Last \in DOMAIN iter' /\ iter'[Last] = iter[Last]
  BY <1>2, <1>3, ObjectsAssumption DEF Put
<1>6. Local \notin DOMAIN group'
  BY <1>1, <1>3 DEF ResetPair, Drop
<1>7. Objects' /\ Between'
  BY <1>1, <1>3, <1>4, <1>5, <1>6, KeysSame DEF Objects, Between, Points
<1>8. Passes'
  BY <1>1, PassesStay DEF LoopInv
<1>9. AtDone' /\ Inside' /\ Reading'
  BY <1>1 DEF AtDone, Inside, Reading
<1> QED
  BY <1>7, <1>8, <1>9 DEF LoopInv

LEMMA LoopInvStutters ==
    ASSUME LoopInv, UNCHANGED loopVars PROVE LoopInv'
<1>1. UNCHANGED <<keys, iter, pair, group, cursor, tool, pc, seen>>
  BY DEF loopVars, vars
<1>2. Passes'
  BY <1>1, PassesStay DEF LoopInv
<1>3. Objects' /\ Between' /\ AtDone'
  BY <1>1, KeysSame DEF LoopInv, Objects, Between, AtDone
<1>4. OpenGroupsOf(It)' = OpenGroupsOf(It) /\ Held' = Held
  BY <1>1 DEF OpenGroupsOf, Open, Held
<1>5. Inside' /\ Reading'
  BY <1>1, <1>4, KeysSame DEF LoopInv, Inside, Reading
<1> QED
  BY <1>2, <1>3, <1>5 DEF LoopInv

LEMMA LoopInvHolds ==
    ASSUME Habits = {}, KeyAliases = FALSE
    PROVE  LoopSpec => [](Core /\ Runs /\ LoopInv)
<1>1. LoopInit => LoopInv
  BY LoopInvInit
<1>2. Core /\ Core' /\ Runs /\ Runs' /\ LoopInv /\ [LoopNext]_loopVars => LoopInv'
  BY LoopInvStutters, EnterInv, EnterLastInv, TestInv, BodyInv, JustSeenInv, MoveOutInv,
     SkipInv, BeginGroupInv, ReadInv, ReadOnInv, BreakOffInv, LeaveBodyInv, IncrementInv
     DEF LoopNext
<1>3. Spec => []Core
  BY CoreInit, CoreStep, PTL DEF Spec
<1> QED
  BY <1>1, <1>2, <1>3, RunsHold, LoopIsClient, PTL DEF LoopSpec

----------------------------------------------------------------------------
(* Inputs of any length, any number of keys, every choice the bodies make:   *)
(* the loop over groupby, or over unique_justseen, enters each run once, in  *)
(* order, at its first element, and leaves out none before it is done.       *)
THEOREM RunsEnteredInOrder ==
    ASSUME Habits = {}, KeyAliases = FALSE
    PROVE  LoopSpec => []NextRunEntered
<1>1. Core /\ LoopInv => NextRunEntered
  <2> SUFFICES ASSUME Core, LoopInv PROVE NextRunEntered
    OBVIOUS
  <2>1. ASSUME pc = "done", NEW p \in seen.first + 1 .. Len(keys)
        PROVE  ~RunStart(p)
    <3>1. iter[It].sub = End /\ keys \in Seq(Keys) /\ seen.first \in Nat
      BY <2>1 DEF LoopInv, AtDone, Core, IterOK, Passes, SeenRec
    <3>2. seen.first # 0
      BY <2>1, <3>1 DEF LoopInv, Between, End
    <3>3. \A r \in seen.first .. Len(keys) : keys[r] = keys[seen.first]
      BY <2>1, <3>1, <3>2 DEF LoopInv, Between, RunEndAt, End
    <3>4. p \in seen.first .. Len(keys) /\ p - 1 \in seen.first .. Len(keys) /\ p # 1
      BY <2>1, <3>1, <3>2
    <3> QED
      BY <3>3, <3>4 DEF RunStart
  <2> QED
    BY <2>1 DEF LoopInv, Passes, PassFollows, NextRunEntered
<1> QED
  BY <1>1, LoopInvHolds, PTL

(* And a body reads elements of its own run only, each once, in order and   *)
(* from the first, and all of them if it does not break off.                *)
THEOREM RunsReadInOrder ==
    ASSUME Habits = {}, KeyAliases = FALSE
    PROVE  LoopSpec => []YieldsOwnRun
<1>1. LoopInv => YieldsOwnRun
  BY DEF LoopInv, Passes
<1> QED
  BY <1>1, LoopInvHolds, PTL

============================================================================
