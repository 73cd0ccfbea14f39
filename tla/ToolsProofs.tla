--------------------------- MODULE ToolsProofs ---------------------------
(***************************************************************************)
(* The tools whose iterators are values keep PlainIterator's promises, for *)
(* inputs of any length and any arguments that the client's rules allow:   *)
(* each has a walk, so that the conditions of PlainIteratorProofs become   *)
(* facts about its operators. Tools that step from one element to the next *)
(* have a walk in closed form (WalkOf). Those that skip, or that list a set *)
(* of selections, have one through the set in its order: every iterator    *)
(* stands on an element, and the increment puts it on the next (Lists).    *)
(***************************************************************************)
EXTENDS Tools, FiniteSetTheorems, WellFoundedInduction, TLAPS

P == INSTANCE PlainIteratorProofs

----------------------------------------------------------------------------
(* Arithmetic of ranges *)

LEMMA PowersAreNumbers ==
    ASSUME NEW n \in Nat
    PROVE  2 ^ n \in Nat \ {0}
<1>1. IsFiniteSet(1 .. n) /\ Cardinality(1 .. n) = n
  BY FS_Interval
<1>2. IsFiniteSet(SUBSET (1 .. n)) /\ Cardinality(SUBSET (1 .. n)) = 2 ^ n
  BY <1>1, FS_SUBSET
<1>3. Cardinality(SUBSET (1 .. n)) \in Nat /\ {} \in SUBSET (1 .. n)
  BY <1>2, FS_CardinalityType
<1>4. Cardinality(SUBSET (1 .. n)) # 0
  BY <1>2, <1>3, FS_EmptySet
<1> QED
  BY <1>2, <1>3, <1>4

LEMMA Multiples ==
    ASSUME NEW k \in Nat, NEW n \in Nat, NEW a \in Nat, k <= n
    PROVE  /\ k * a \in Nat /\ n * a \in Nat /\ k * a <= n * a
           /\ k < n => k * a + a <= n * a
<1>1. ASSUME NEW d \in Nat PROVE d * a \in Nat
  OBVIOUS
<1>2. n - k \in Nat /\ n = k + (n - k)
  OBVIOUS
<1>3. n * a = k * a + (n - k) * a
  BY <1>2
<1>4. k < n => (n - k) * a >= a
  <2> SUFFICES ASSUME k < n PROVE (n - k) * a >= a
    OBVIOUS
  <2>1. n - k - 1 \in Nat /\ n - k = (n - k - 1) + 1
    OBVIOUS
  <2>2. (n - k) * a = (n - k - 1) * a + a
    BY <2>1
  <2> QED
    BY <1>1, <2>1, <2>2
<1> QED
  BY <1>1, <1>2, <1>3, <1>4

(* how many multiples of a are below d: the quotient, rounded up *)
RoundUp(d, a) == IF d # (d \div a) * a THEN (d \div a) + 1 ELSE d \div a

LEMMA RoundedUp ==
    ASSUME NEW d \in Nat, NEW a \in Nat \ {0}
    PROVE  /\ RoundUp(d, a) \in 0 .. d
           /\ \A k \in Nat : k * a < d <=> k < RoundUp(d, a)
<1> DEFINE n == RoundUp(d, a)
           q == d \div a
           r == d % a
<1>1. q \in Int /\ r \in 0 .. a - 1 /\ d = (q * a) + r
  <2>1. d \in Int /\ a \in Int /\ a > 0
    OBVIOUS
  <2> QED
    BY <2>1
<1>2. q >= 0
  OBVIOUS
<1>3. n = IF r # 0 THEN q + 1 ELSE q
  BY <1>1, <1>2 DEF RoundUp
<1> HIDE DEF n, q, r
<1>4. ASSUME NEW k \in Nat PROVE k * a < d <=> k < n
  <2>1. k < q => k * a + a <= q * a
    BY <1>1, <1>2, Multiples
  <2>2. q < k => q * a + a <= k * a
    BY <1>1, <1>2, Multiples
  <2>3. k = q => k * a = q * a
    OBVIOUS
  <2> QED
    BY <1>1, <1>2, <1>3, <2>1, <2>2, <2>3
<1>5. n <= d
  <2>1. CASE n = 0
    BY <2>1
  <2>2. CASE n # 0
    <3>1. n \in Nat /\ n - 1 \in Nat /\ n - 1 < n
      BY <1>1, <1>2, <1>3, <2>2
    <3>2. (n - 1) * a < d
      BY <1>4, <3>1
    <3>3. (n - 1) * 1 <= (n - 1) * a
      BY <3>1
    <3> QED
      BY <3>1, <3>2, <3>3
  <2> QED
    BY <2>1, <2>2
<1> QED
  BY <1>1, <1>2, <1>3, <1>4, <1>5 DEF n

(* % is the rest, and the rest is unique *)
LEMMA Rest ==
    ASSUME NEW a \in Int, NEW n \in Nat \ {0}
    PROVE  /\ a % n \in 0 .. n - 1
           /\ \E q \in Int : a = q * n + (a % n)
           /\ \A q \in Int, r \in 0 .. n - 1 : a = q * n + r => a % n = r
<1>1. a % n \in 0 .. n - 1 /\ a \div n \in Int /\ a = (a \div n) * n + (a % n)
  <2>1. a \in Int /\ n \in Int /\ n > 0
    OBVIOUS
  <2>2. a % n \in 0 .. n - 1
    BY <2>1
  <2>3. a \div n \in Int
    BY <2>1
  <2>4. a = (a \div n) * n + (a % n)
    BY <2>1
  <2> QED
    BY <2>2, <2>3, <2>4
<1>2. ASSUME NEW q \in Int, NEW r \in 0 .. n - 1, a = q * n + r
      PROVE  a % n = r
  <2> DEFINE d == q - (a \div n)
             u == a % n
  <2>1. d \in Int /\ u \in 0 .. n - 1 /\ u - r = d * n
    BY <1>1, <1>2
  <2> HIDE DEF d, u
  <2>2. d > 0 => d * n >= n
    BY <2>1
  <2>3. d < 0 => d * n <= -n
    BY <2>1
  <2>4. d = 0 => d * n = 0
    OBVIOUS
  <2>5. d = 0
    BY <2>1, <2>2, <2>3
  <2> QED
    BY <2>1, <2>4, <2>5 DEF u
<1> QED
  BY <1>1, <1>2

LEMMA RestOfDifference ==
    ASSUME NEW a \in Int, NEW b \in Int, NEW n \in Nat \ {0}
    PROVE  a % n = b % n <=> (a - b) % n = 0
<1>1. PICK q \in Int : a = q * n + (a % n)
  BY Rest
<1>2. PICK u \in Int : b = u * n + (b % n)
  BY Rest
<1>3. a % n \in 0 .. n - 1 /\ b % n \in 0 .. n - 1
  BY Rest
<1>4. /\ (q - u) * n = q * n - u * n /\ q * n \in Int /\ u * n \in Int
      /\ q - u \in Int /\ a - b \in Int
  BY <1>1, <1>2
<1>5. ASSUME a % n = b % n PROVE (a - b) % n = 0
  <2> DEFINE x == q * n
             y == u * n
             r == a % n
  <2>1. x - y = (q - u) * n /\ x \in Int /\ y \in Int /\ r \in Int /\ a = x + r /\ b = y + r
    BY <1>1, <1>2, <1>3, <1>4, <1>5
  <2> HIDE DEF x, y, r
  <2>2. a - b = (q - u) * n + 0
    BY <2>1
  <2> QED
    BY <1>4, <2>2, Rest
<1>6. ASSUME (a - b) % n = 0 PROVE a % n = b % n
  <2>1. PICK d \in Int : a - b = d * n + ((a - b) % n)
    BY <1>4, Rest
  <2>2. (d + u) * n = d * n + u * n /\ d * n \in Int /\ d + u \in Int
    BY <1>2, <2>1
  <2>3. a = (d + u) * n + (b % n)
    BY <1>2, <1>3, <1>4, <1>6, <2>1, <2>2
  <2> QED
    BY <1>3, <2>2, <2>3, Rest
<1> QED
  BY <1>5, <1>6

LEMMA RestOfNext ==
    ASSUME NEW a \in Nat, NEW n \in Nat \ {0}
    PROVE  (a + 1) % n = IF (a % n) + 1 = n THEN 0 ELSE (a % n) + 1
<1>0. a \in Int /\ a + 1 \in Int
  OBVIOUS
<1>1. PICK q \in Int : a = q * n + (a % n)
  BY <1>0, Rest
<1>2. a % n \in 0 .. n - 1
  BY <1>0, Rest
<1>3. (q + 1) * n = q * n + n /\ q * n \in Int /\ q + 1 \in Int
  BY <1>1
<1> DEFINE x == q * n
           r == a % n
<1>4. x \in Int /\ r \in 0 .. n - 1 /\ a = x + r /\ (q + 1) * n = x + n
  BY <1>1, <1>2, <1>3
<1>5. a + 1 = x + (r + 1) /\ (r + 1 = n => a + 1 = (q + 1) * n + 0)
  <2> HIDE DEF x, r
  <2> QED
    BY <1>4
<1>6. CASE r + 1 = n
  <2>1. 0 \in 0 .. n - 1 /\ q + 1 \in Int /\ a + 1 = (q + 1) * n + 0
    BY <1>3, <1>5, <1>6
  <2>2. (a + 1) % n = 0
    BY <1>0, <2>1, Rest
  <2> QED
    BY <1>6, <2>2
<1>7. CASE r + 1 # n
  <2>1. r + 1 \in 0 .. n - 1
    BY <1>2, <1>7
  <2>2. a + 1 = q * n + (r + 1)
    BY <1>5
  <2> HIDE DEF r
  <2>3. (a + 1) % n = r + 1
    BY <1>0, <1>3, <2>1, <2>2, Rest
  <2> QED
    BY <1>7, <2>3 DEF r
<1> QED
  BY <1>6, <1>7

----------------------------------------------------------------------------
(* What Adaptors instantiates is what the general proofs are about *)

LEMMA SameSystem ==
    (Spec <=> P!Spec) /\ (TypeOK <=> P!TypeOK) /\ (EndFoundAtPast <=> P!EndFoundAtPast)
<1>1. Init <=> P!Init
  BY DEF Init, P!Init
<1>2. [Next]_vars <=> [P!Next]_(P!vars)
  BY DEF Next, P!Next, vars, P!vars, Copy, P!Copy, Assign, P!Assign,
         PostIncrement, P!PostIncrement, PreIncrement, P!PreIncrement,
         ConstructBegin, P!ConstructBegin, ConstructEnd, P!ConstructEnd,
         Deref, P!Deref, Destroy, P!Destroy, MayStep, P!MayStep,
         AtEnd, P!AtEnd, Past, P!Past, Stepped, P!Stepped, Put, P!Put, Drop, P!Drop
<1>3. Spec <=> P!Spec
  BY <1>1, <1>2, PTL DEF Spec, P!Spec
<1>4. TypeOK <=> P!TypeOK
  BY DEF TypeOK, P!TypeOK, Past, P!Past
<1>5. EndFoundAtPast <=> P!EndFoundAtPast
  BY DEF EndFoundAtPast, P!EndFoundAtPast, AtEnd, P!AtEnd, Past, P!Past
<1> QED
  BY <1>3, <1>4, <1>5

LEMMA SamePromise ==
    ImplementsInputIterator <=> P!ImplementsInputIterator
<1>1. Promise!Init <=> P!Promise!Init
  BY DEF Promise!Init, P!Promise!Init
<1>2. [Promise!Next]_(Promise!vars) <=> [P!Promise!Next]_(P!Promise!vars)
  BY DEF Promise!Next, P!Promise!Next, Promise!vars, P!Promise!vars,
         Promise!Copy, P!Promise!Copy, Promise!Assign, P!Promise!Assign,
         Promise!PostIncrement, P!Promise!PostIncrement,
         Promise!Construct, P!Promise!Construct, Promise!Past, P!Promise!Past,
         Promise!Deref, P!Promise!Deref, Promise!PreIncrement, P!Promise!PreIncrement,
         Promise!DerefPostIncrement, P!Promise!DerefPostIncrement,
         Promise!Destroy, P!Promise!Destroy, Promise!CanUse, P!Promise!CanUse,
         Promise!Equals, P!Promise!Equals, Promise!Moved, P!Promise!Moved,
         Promise!Stale, P!Promise!Stale, Promise!Put, P!Promise!Put,
         Promise!Drop, P!Promise!Drop
<1> QED
  BY <1>1, <1>2, PTL
     DEF ImplementsInputIterator, P!ImplementsInputIterator, Promise!Spec, P!Promise!Spec

----------------------------------------------------------------------------
(* The sources and their walks *)

(* Tools uses the operators of Adaptors for its tools, and of Counting *)
Adaptor(s) ==
    /\ Begin(s) = A!Begin(s) /\ Finish(s) = A!Finish(s) /\ Yields(s) = A!Yields(s)
    /\ \A it : Step(s, it) = A!Step(s, it) /\ Value(s, it) = A!Value(s, it)
    /\ \A it, other : Same(s, it, other) = A!Same(s, it, other)

Counter(s) ==
    /\ Begin(s) = C!Begin(s) /\ Finish(s) = C!Finish(s) /\ Yields(s) = C!Yields(s)
    /\ \A it : Step(s, it) = C!Step(s, it) /\ Value(s, it) = C!Value(s, it)
    /\ \A it, other : Same(s, it, other) = C!Same(s, it, other)

LEMMA Adapts ==
    ASSUME NEW s, s.tool \in A!Adapting
    PROVE  Adaptor(s)
<1>1. s.tool \notin S!Selecting /\ s.tool \notin C!Counted
  BY DEF A!Straight, A!Adapting, S!Selecting, C!Counted
<1>2. Begin(s) = A!Begin(s)
  BY <1>1 DEF Begin
<1>3. Finish(s) = A!Finish(s)
  BY <1>1 DEF Finish
<1>4. Yields(s) = A!Yields(s)
  BY <1>1 DEF Yields
<1>5. \A it : Step(s, it) = A!Step(s, it)
  BY <1>1 DEF Step
<1>6. \A it : Value(s, it) = A!Value(s, it)
  BY <1>1 DEF Value
<1>7. \A it, other : Same(s, it, other) = A!Same(s, it, other)
  BY <1>1 DEF Same
<1> QED
  BY <1>2, <1>3, <1>4, <1>5, <1>6, <1>7 DEF Adaptor

LEMMA Counts ==
    ASSUME NEW s, s.tool \in C!Counted
    PROVE  Counter(s)
<1>1. s.tool \notin S!Selecting /\ s.tool \notin A!Adapting
  BY DEF A!Straight, A!Adapting, S!Selecting, C!Counted
<1>2. Begin(s) = C!Begin(s)
  BY <1>1 DEF Begin
<1>3. Finish(s) = C!Finish(s)
  BY <1>1 DEF Finish
<1>4. Yields(s) = C!Yields(s)
  BY <1>1 DEF Yields
<1>5. \A it : Step(s, it) = C!Step(s, it)
  BY <1>1 DEF Step
<1>6. \A it : Value(s, it) = C!Value(s, it)
  BY <1>1 DEF Value
<1>7. \A it, other : Same(s, it, other) = C!Same(s, it, other)
  BY <1>1 DEF Same
<1> QED
  BY <1>2, <1>3, <1>4, <1>5, <1>6, <1>7 DEF Counter

Several(s) ==
    s.tool \in {"zip", "imap"} /\ \E m \in Nat : s.sizes \in [1 .. m -> Nat]

One(s) ==
    /\ s.tool \in {"enumerate", "accumulate", "reversed", "starmap", "tuple_starmap", "wrapped"}
    /\ s.n \in Nat
    /\ s.tool = "enumerate" => s.start \in Int

Longest(s) == s.tool = "zip_longest" /\ \E m \in Nat : s.sizes \in [1 .. m -> Nat]

Turning(s) == s.tool = "cycle" /\ s.n \in Nat

(* the numbers of a range of floats have no bounds; Fits is the client's rule *)
Ranging(s) ==
    /\ s.tool = "range" /\ s.kind \in {"unsigned", "narrow", "int", "float"}
    /\ {s.start, s.stop, s.step} \subseteq IF s.kind = "float" THEN Int ELSE C!Values(s.kind)
    /\ s.step # 0 /\ C!Fits(s)

Repeating(s) == s.tool = "repeat" /\ s.count \in Nat

(* the iterator of s that has been incremented p - 1 times *)
After(s, p) ==
    CASE s.tool \in {"zip", "imap"} -> [x \in DOMAIN s.sizes |-> p]
      [] s.tool = "enumerate" -> [sub |-> p, index |-> s.start + p - 1]
      [] s.tool = "accumulate" ->
           [sub |-> p, acc |-> [q \in 1 .. IF p > s.n THEN s.n ELSE p |-> q]]
      [] s.tool = "reversed" -> s.n + 1 - p
      [] s.tool = "starmap" -> p
      [] s.tool = "tuple_starmap" -> p - 1
      [] s.tool = "wrapped" -> [holds |-> "SubIter", at |-> p]
      [] s.tool = "zip_longest" ->
           [x \in DOMAIN s.sizes |-> IF p <= s.sizes[x] THEN p ELSE s.sizes[x] + 1]
      [] s.tool = "cycle" -> IF s.n = 0 THEN 1 ELSE ((p - 1) % s.n) + 1
      [] s.tool = "range" ->
           [value |-> s.start + (p - 1) * s.step, is_end |-> FALSE,
            steps_taken |-> IF s.kind = "float" THEN p - 1 ELSE 0]
      [] s.tool = "repeat" -> s.count + 1 - p
      [] s.tool = "endless" -> C!EndlessBegin

WalkOf(s) == [p \in 1 .. Len(Yields(s)) + 1 |-> After(s, p)]

(* Every set of natural numbers has a least one. *)
LEMMA Least ==
    ASSUME NEW R \in SUBSET Nat, R # {}
    PROVE  /\ A!Min(R) \in R
           /\ \A u \in R : A!Min(R) <= u
<1> DEFINE Before == {ss \in Nat \X Nat : ss[1] < ss[2]}
<1>1. IsWellFoundedOn(Before, Nat)
  BY NatLessThanWellFounded DEF OpToRel
<1>2. \A u, v \in Nat : u < v => <<u, v>> \in Before
  OBVIOUS
<1> HIDE DEF Before
<1>3. PICK v \in R : \A u \in R : ~(<<u, v>> \in Before)
  BY <1>1, WFMin
<1>4. \A u \in R : v <= u
  <2> TAKE u \in R
  <2>1. u \in Nat /\ v \in Nat /\ ~(u < v)
    BY <1>2, <1>3
  <2> QED
    BY <2>1
<1> QED
  BY <1>4 DEF A!Min

LEMMA LeastIs ==
    ASSUME NEW J \in SUBSET Nat, NEW z \in J, \A u \in J : z <= u
    PROVE  A!Min(J) = z
<1>1. A!Min(J) \in J /\ \A u \in J : A!Min(J) <= u
  BY Least
<1> DEFINE k == A!Min(J)
<1>2. k \in Nat /\ z \in Nat /\ k <= z /\ z <= k
  BY <1>1
<1> HIDE DEF k
<1>3. k = z
  BY <1>2
<1> QED
  BY <1>3 DEF k

LEMMA ShortestIsLeast ==
    ASSUME NEW m \in Nat, NEW sizes \in [1 .. m -> Nat], m # 0
    PROVE  \E x \in 1 .. m :
               A!Shortest(sizes) = sizes[x] /\ \A y \in 1 .. m : sizes[x] <= sizes[y]
<1>1. /\ A!Range(sizes) \in SUBSET Nat
      /\ sizes[1] \in A!Range(sizes)
      /\ A!Range(sizes) = {sizes[x] : x \in 1 .. m}
  BY DEF A!Range
<1>2. A!Min(A!Range(sizes)) \in A!Range(sizes) /\ \A u \in A!Range(sizes) : A!Min(A!Range(sizes)) <= u
  BY <1>1, Least
<1>3. sizes # << >>
  OBVIOUS
<1> QED
  BY <1>1, <1>2, <1>3 DEF A!Shortest

(* how many elements they yield *)
LEMMA OneYields ==
    ASSUME NEW s, One(s)
    PROVE  /\ P!YieldsSequence(s)
           /\ P!Many(s) = s.n
           /\ Len(Yields(s)) = s.n
<1>0. Adaptor(s)
  BY Adapts DEF One, A!Straight, A!Adapting
<1> USE DEF One, P!YieldsSequence, P!Many
<1>1. CASE s.tool = "enumerate"
  BY <1>0, <1>1 DEF Adaptor, A!Yields
<1>2. CASE s.tool = "accumulate"
  BY <1>0, <1>2 DEF Adaptor, A!Yields
<1>3. CASE s.tool = "reversed"
  BY <1>0, <1>3 DEF Adaptor, A!Yields
<1>4. CASE s.tool = "starmap"
  BY <1>0, <1>4 DEF Adaptor, A!Yields
<1>5. CASE s.tool = "tuple_starmap"
  BY <1>0, <1>5 DEF Adaptor, A!Yields
<1>6. CASE s.tool = "wrapped"
  BY <1>0, <1>6 DEF Adaptor, A!Yields
<1> QED
  BY <1>1, <1>2, <1>3, <1>4, <1>5, <1>6

(* the conditions of Faithful on iterators in closed form *)
LEMMA FaithfulFrom ==
    ASSUME NEW s, NEW n \in Nat, P!YieldsSequence(s), P!Many(s) = n, Len(Yields(s)) = n,
           After(s, 1) = Begin(s),
           \A p \in 1 .. n : p < MaxPlace => Step(s, After(s, p)) = After(s, p + 1),
           \A p \in 1 .. n : Value(s, After(s, p)) = Yields(s)[p],
           \A p \in 1 .. n + 1 : P!Reached(p) =>
               /\ Same(s, After(s, p), Finish(s)) <=> p = n + 1
               /\ Same(s, Finish(s), After(s, p)) <=> p = n + 1,
           HasEnd(s) => Same(s, Finish(s), Finish(s))
    PROVE  P!Faithful(s, WalkOf(s))
<1>1. \A p \in 1 .. n + 1 : WalkOf(s)[p] = After(s, p)
  BY DEF WalkOf
<1>2. P!IsWalk(s, WalkOf(s))
  BY <1>1 DEF P!IsWalk
<1>3. \A p \in 1 .. n : Value(s, WalkOf(s)[p]) = Yields(s)[p]
  BY <1>1
<1>4. ASSUME NEW p \in 1 .. n + 1, NEW it, P!Stands(s, WalkOf(s), it, p)
      PROVE  /\ Same(s, it, Finish(s)) <=> p = n + 1
             /\ Same(s, Finish(s), it) <=> p = n + 1
  BY <1>1, <1>4 DEF P!Stands
<1> QED
  BY <1>2, <1>3, <1>4 DEF P!Faithful

(* equality tells the places of the walk from each other, *)
Apart(s) ==
    \A p, q \in 1 .. P!Many(s) + 1 : Same(s, After(s, p), After(s, q)) <=> p = q

(* and no iterator of an input in it is past the end *)
Bounded(s) ==
    A!Inside(s, Finish(s)) /\ \A p \in 1 .. P!Many(s) + 1 : A!Inside(s, After(s, p))

LEMMA TellsFrom ==
    ASSUME NEW s, P!Faithful(s, WalkOf(s)), Apart(s)
    PROVE  P!Tells(s, WalkOf(s))
<1> DEFINE n == P!Many(s)
           w == WalkOf(s)
<1>1. n \in Nat /\ n = Len(Yields(s))
  BY DEF P!Faithful, P!YieldsSequence, P!Many
<1>2. \A p \in 1 .. n + 1 : w[p] = After(s, p)
  BY <1>1 DEF WalkOf
<1> HIDE DEF n, w
<1>3. ASSUME NEW p \in 1 .. n + 1, NEW q \in 1 .. n + 1, NEW it, NEW other,
             P!Stands(s, w, it, p), P!Stands(s, w, other, q)
      PROVE  Same(s, it, other) <=> p = q
  <2>1. \/ it = After(s, p)
        \/ p = n + 1 /\ it = Finish(s)
    BY <1>2, <1>3 DEF P!Stands, n
  <2>2. \/ other = After(s, q)
        \/ q = n + 1 /\ other = Finish(s)
    BY <1>2, <1>3 DEF P!Stands, n
  <2>3. /\ Same(s, it, Finish(s)) <=> p = n + 1
        /\ Same(s, Finish(s), other) <=> q = n + 1
    BY <1>3 DEF P!Faithful, n, w
  <2>4. Same(s, After(s, p), After(s, q)) <=> p = q
    BY DEF Apart, n
  <2> QED
    BY <2>1, <2>2, <2>3, <2>4
<1> QED
  BY <1>3 DEF P!Tells, n, w

(* the tools of one input *)
LEMMA EnumerateFaithful ==
    ASSUME NEW s, One(s), s.tool = "enumerate"
    PROVE  P!Faithful(s, WalkOf(s)) /\ Apart(s) /\ Bounded(s)
<1>0. Adaptor(s)
  BY Adapts DEF One, A!Straight, A!Adapting
<1>1. /\ Begin(s) = A!EnumerateAt(s, 1) /\ Finish(s) = A!EnumerateAt(s, s.n + 1)
      /\ \A it : Step(s, it) = A!EnumerateStep(it)
      /\ \A it : Value(s, it) = <<it.index, it.sub>>
      /\ \A it, other : Same(s, it, other) <=> it.sub = other.sub
      /\ \A p : After(s, p) = [sub |-> p, index |-> s.start + p - 1]
      /\ Yields(s) = [k \in 1 .. s.n |-> <<s.start + k - 1, k>>]
  <2>1. Begin(s) = A!EnumerateAt(s, 1) /\ Finish(s) = A!EnumerateAt(s, s.n + 1)
    BY <1>0 DEF Adaptor, A!Begin, A!Finish
  <2>2. \A it : Step(s, it) = A!EnumerateStep(it)
    BY <1>0 DEF Adaptor, A!Step
  <2>3. \A it : Value(s, it) = <<it.index, it.sub>>
    BY <1>0 DEF Adaptor, A!Value, A!EnumerateValue
  <2>4. \A it, other : Same(s, it, other) <=> it.sub = other.sub
    <3>1. \A it, other : A!Same(s, it, other) <=> it.sub = other.sub
      BY DEF A!Same, A!EnumerateSame
    <3> QED
      BY <1>0, <3>1 DEF Adaptor
  <2>5. Yields(s) = [k \in 1 .. s.n |-> <<s.start + k - 1, k>>]
    BY <1>0 DEF Adaptor, A!Yields
  <2> QED
    BY <2>1, <2>2, <2>3, <2>4, <2>5 DEF After
<1>2. s.n \in Nat /\ s.start \in Int
  BY DEF One
<1> QED
  <2>1. After(s, 1) = Begin(s)
    BY <1>1, <1>2 DEF A!EnumerateAt
  <2>2. ASSUME NEW p \in 1 .. s.n
        PROVE  Step(s, After(s, p)) = After(s, p + 1) /\ Value(s, After(s, p)) = Yields(s)[p]
    <3>0. /\ After(s, p) = [sub |-> p, index |-> s.start + p - 1]
          /\ After(s, p).sub = p /\ After(s, p).index = s.start + p - 1
      BY <1>1
    <3>1. /\ A!EnumerateStep(After(s, p)) = [sub |-> p + 1, index |-> (s.start + p - 1) + 1]
          /\ Value(s, After(s, p)) = <<s.start + p - 1, p>>
      BY <1>1, <3>0 DEF A!EnumerateStep
    <3>2. (s.start + p - 1) + 1 = s.start + (p + 1) - 1
      BY <1>2
    <3>3. Step(s, After(s, p)) = After(s, p + 1)
      BY <1>1, <3>1, <3>2
    <3> QED
      BY <1>1, <3>1, <3>3
  <2>3. \A p \in 1 .. s.n + 1 : After(s, p).sub = p
    BY <1>1
  <2>4. Finish(s).sub = s.n + 1
    BY <1>1 DEF A!EnumerateAt
  <2>5. P!Faithful(s, WalkOf(s))
    BY <1>1, <1>2, <2>1, <2>2, <2>3, <2>4, OneYields, FaithfulFrom
  <2>6. Apart(s)
    BY <1>1, <1>2, <2>3, OneYields DEF Apart
  <2>7. Bounded(s)
    BY <1>2, <2>3, <2>4, OneYields DEF Bounded, A!Inside
  <2> QED
    BY <2>5, <2>6, <2>7

LEMMA AccumulateFaithful ==
    ASSUME NEW s, One(s), s.tool = "accumulate"
    PROVE  P!Faithful(s, WalkOf(s)) /\ Apart(s) /\ Bounded(s)
<1>0. Adaptor(s)
  BY Adapts DEF One, A!Straight, A!Adapting
<1>1. /\ Begin(s) = A!AccumulateAt(s, 1) /\ Finish(s) = A!AccumulateAt(s, s.n + 1)
      /\ \A it : Step(s, it) = A!AccumulateStep(s, it)
      /\ \A it : Value(s, it) = it.acc
      /\ \A it, other : Same(s, it, other) <=> it.sub = other.sub
      /\ \A p : After(s, p) =
             [sub |-> p, acc |-> [q \in 1 .. IF p > s.n THEN s.n ELSE p |-> q]]
      /\ Yields(s) = [k \in 1 .. s.n |-> [p \in 1 .. k |-> p]]
  <2>1. Begin(s) = A!AccumulateAt(s, 1) /\ Finish(s) = A!AccumulateAt(s, s.n + 1)
    BY <1>0 DEF Adaptor, A!Begin, A!Finish
  <2>2. \A it : Step(s, it) = A!AccumulateStep(s, it) /\ Value(s, it) = it.acc
    BY <1>0 DEF Adaptor, A!Step, A!Value
  <2>3. \A it, other : Same(s, it, other) <=> it.sub = other.sub
    <3>1. \A it, other : A!Same(s, it, other) <=> it.sub = other.sub
      BY DEF A!Same, A!AccumulateSame
    <3> QED
      BY <1>0, <3>1 DEF Adaptor
  <2>4. Yields(s) = [k \in 1 .. s.n |-> [p \in 1 .. k |-> p]]
    BY <1>0 DEF Adaptor, A!Yields
  <2> QED
    BY <2>1, <2>2, <2>3, <2>4 DEF After
<1>2. s.n \in Nat
  BY DEF One
<1> DEFINE UpTo(p) == [q \in 1 .. p |-> q]
<1>3. \A p \in Nat : Append(UpTo(p), p + 1) = UpTo(p + 1)
  OBVIOUS
<1>4. UpTo(0) = << >> /\ UpTo(1) = <<1>>
  OBVIOUS
<1>5. \A p \in 1 .. s.n + 1 :
          After(s, p) = [sub |-> p, acc |-> IF p > s.n THEN UpTo(s.n) ELSE UpTo(p)]
  BY <1>1, <1>2
<1> HIDE DEF UpTo
<1>6. After(s, 1) = Begin(s)
  BY <1>1, <1>2, <1>4, <1>5 DEF A!AccumulateAt
<1>7. \A p \in 1 .. s.n : Step(s, After(s, p)) = After(s, p + 1)
  <2> TAKE p \in 1 .. s.n
  <2>1. After(s, p) = [sub |-> p, acc |-> UpTo(p)]
    BY <1>2, <1>5
  <2>2. After(s, p + 1) = [sub |-> p + 1, acc |-> IF p = s.n THEN UpTo(p) ELSE UpTo(p + 1)]
    BY <1>2, <1>5
  <2>3. Append(UpTo(p), p + 1) = UpTo(p + 1)
    BY <1>3
  <2> QED
    <3>1. A!AccumulateStep(s, After(s, p)) =
              [sub |-> p + 1, acc |-> IF p + 1 = s.n + 1 THEN UpTo(p) ELSE Append(UpTo(p), p + 1)]
      BY <2>1 DEF A!AccumulateStep
    <3>2. p + 1 = s.n + 1 <=> p = s.n
      BY <1>2
    <3> QED
      BY <1>1, <2>2, <2>3, <3>1, <3>2
<1>8. \A p \in 1 .. s.n : Value(s, After(s, p)) = Yields(s)[p]
  BY <1>1, <1>2, <1>5 DEF UpTo
<1> QED
  <2>1. \A p \in 1 .. s.n + 1 : After(s, p).sub = p
    BY <1>5
  <2>2. Finish(s).sub = s.n + 1
    BY <1>1 DEF A!AccumulateAt
  <2>3. P!Faithful(s, WalkOf(s))
    BY <1>1, <1>2, <1>6, <1>7, <1>8, <2>1, <2>2, OneYields, FaithfulFrom
  <2>4. Apart(s)
    BY <1>1, <1>2, <2>1, OneYields DEF Apart
  <2>5. Bounded(s)
    BY <1>2, <2>1, <2>2, OneYields DEF Bounded, A!Inside
  <2> QED
    BY <2>3, <2>4, <2>5

LEMMA ReversedFaithful ==
    ASSUME NEW s, One(s), s.tool = "reversed"
    PROVE  P!Faithful(s, WalkOf(s)) /\ Apart(s) /\ Bounded(s)
<1>0. Adaptor(s)
  BY Adapts DEF One, A!Straight, A!Adapting
<1>1. /\ Begin(s) = s.n /\ Finish(s) = 0
      /\ \A it : Step(s, it) = it - 1 /\ Value(s, it) = it
      /\ \A it, other : Same(s, it, other) <=> it = other
      /\ \A p : After(s, p) = s.n + 1 - p
      /\ Yields(s) = [k \in 1 .. s.n |-> s.n + 1 - k]
  BY <1>0 DEF Adaptor, A!Begin, A!Finish, A!Step, A!ReverseStep, A!Value, A!Same, After, A!Yields
<1>2. s.n \in Nat
  BY DEF One
<1>4. P!Faithful(s, WalkOf(s))
  BY <1>1, <1>2, OneYields, FaithfulFrom
<1>5. Apart(s)
  BY <1>1, <1>2, OneYields DEF Apart
<1>6. Bounded(s)
  BY <1>1, <1>2, OneYields DEF Bounded, A!Inside
<1> QED
  BY <1>4, <1>5, <1>6

LEMMA StarmapFaithful ==
    ASSUME NEW s, One(s), s.tool = "starmap"
    PROVE  P!Faithful(s, WalkOf(s)) /\ Apart(s) /\ Bounded(s)
<1>0. Adaptor(s)
  BY Adapts DEF One, A!Straight, A!Adapting
<1>1. /\ Begin(s) = 1 /\ Finish(s) = s.n + 1
      /\ \A it : Step(s, it) = it + 1 /\ Value(s, it) = A!Call(it)
      /\ \A it, other : Same(s, it, other) <=> it = other
      /\ \A p : After(s, p) = p
      /\ Yields(s) = [k \in 1 .. s.n |-> A!Call(k)]
  BY <1>0 DEF Adaptor, A!Begin, A!Finish, A!Step, A!StarStep, A!Value, A!StarValue, A!Same,
         After, A!Yields
<1>2. s.n \in Nat
  BY DEF One
<1>4. P!Faithful(s, WalkOf(s))
  BY <1>1, <1>2, OneYields, FaithfulFrom
<1>5. Apart(s)
  BY <1>1, <1>2, OneYields DEF Apart
<1>6. Bounded(s)
  BY <1>1, <1>2, OneYields DEF Bounded, A!Inside
<1> QED
  BY <1>4, <1>5, <1>6

LEMMA TupleStarmapFaithful ==
    ASSUME NEW s, One(s), s.tool = "tuple_starmap"
    PROVE  P!Faithful(s, WalkOf(s)) /\ Apart(s) /\ Bounded(s)
<1>0. Adaptor(s)
  BY Adapts DEF One, A!Straight, A!Adapting
<1>1. /\ Begin(s) = 0 /\ Finish(s) = s.n
      /\ \A it : Step(s, it) = it + 1 /\ Value(s, it) = A!Call(it + 1)
      /\ \A it, other : Same(s, it, other) <=> it = other
      /\ \A p : After(s, p) = p - 1
      /\ Yields(s) = [k \in 1 .. s.n |-> A!Call(k)]
  BY <1>0 DEF Adaptor, A!Begin, A!Finish, A!Step, A!TupleStep, A!Value, A!TupleValue, A!Same,
         After, A!Yields
<1>2. s.n \in Nat
  BY DEF One
<1>3. \A p \in 1 .. s.n : (p - 1) + 1 = p /\ (p + 1) - 1 = p
  OBVIOUS
<1>4. P!Faithful(s, WalkOf(s))
  BY <1>1, <1>2, <1>3, OneYields, FaithfulFrom
<1>5. Apart(s)
  BY <1>1, <1>2, OneYields DEF Apart
<1>6. Bounded(s)
  BY <1>1, <1>2, OneYields DEF Bounded, A!Inside
<1> QED
  BY <1>4, <1>5, <1>6

(* end() is the sentinel, which no iterator of the walk is *)
LEMMA WrappedFaithful ==
    ASSUME NEW s, One(s), s.tool = "wrapped"
    PROVE  P!Faithful(s, WalkOf(s)) /\ Apart(s) /\ Bounded(s)
<1>0. Adaptor(s)
  BY Adapts DEF One, A!Straight, A!Adapting
<1>1. /\ Begin(s) = [holds |-> "SubIter", at |-> 1]
      /\ Finish(s) = [holds |-> "SubEnd", at |-> s.n + 1]
      /\ \A it : Step(s, it) = A!WrappedStep(it) /\ Value(s, it) = it.at
      /\ \A it, other : Same(s, it, other) <=> A!WrappedSame(it, other)
      /\ \A p : After(s, p) = [holds |-> "SubIter", at |-> p]
      /\ Yields(s) = [k \in 1 .. s.n |-> k]
  BY <1>0 DEF Adaptor, A!Begin, A!Finish, A!Sentinel, A!Step, A!Value, A!Same, After, A!Yields
<1>2. s.n \in Nat
  BY DEF One
<1>3. \A p : Step(s, After(s, p)) = After(s, p + 1) /\ Value(s, After(s, p)) = p
  BY <1>1 DEF A!WrappedStep
<1>4. /\ \A p : /\ Same(s, After(s, p), Finish(s)) <=> p = s.n + 1
                /\ Same(s, Finish(s), After(s, p)) <=> p = s.n + 1
      /\ Same(s, Finish(s), Finish(s))
  BY <1>1 DEF A!WrappedSame
<1>5. P!Faithful(s, WalkOf(s))
  BY <1>1, <1>2, <1>3, <1>4, OneYields, FaithfulFrom
<1>6. Apart(s)
  BY <1>1, <1>2, OneYields DEF Apart, A!WrappedSame
<1>7. Bounded(s)
  BY <1>1, <1>2, OneYields DEF Bounded, A!Inside
<1> QED
  BY <1>5, <1>6, <1>7

(* zip and imap: several inputs, or none *)
LEMMA SeveralFaithful ==
    ASSUME NEW s, Several(s)
    PROVE  P!Faithful(s, WalkOf(s)) /\ Apart(s) /\ Bounded(s)
<1>0. Adaptor(s)
  BY Adapts DEF Several, A!Straight, A!Adapting
<1>1. PICK m \in Nat : s.sizes \in [1 .. m -> Nat]
  BY DEF Several
<1> DEFINE n == A!Shortest(s.sizes)
           All(p) == [x \in 1 .. m |-> p]
<1>2. /\ Begin(s) = All(1)
      /\ Finish(s) = [x \in 1 .. m |-> s.sizes[x] + 1]
      /\ \A it : Step(s, it) = A!ZipStep(it)
      /\ \A it, other : Same(s, it, other) <=> A!ZipSame(it, other)
      /\ \A p : After(s, p) = All(p)
      /\ DOMAIN s.sizes = 1 .. m
  BY <1>0, <1>1 DEF Adaptor, Several, A!Begin, A!Finish, A!Step, A!Same, After, A!Begins, A!Ends
<1>3. /\ n \in Nat
      /\ m # 0 => \E x \in 1 .. m : n = s.sizes[x] /\ \A y \in 1 .. m : s.sizes[x] <= s.sizes[y]
      /\ m = 0 => n = 0 /\ s.sizes = << >>
  <2>1. CASE m = 0
    BY <1>1, <2>1 DEF A!Shortest
  <2>2. CASE m # 0
    BY <1>1, <2>2, ShortestIsLeast
  <2> QED
    BY <2>1, <2>2
<1> HIDE DEF n
<1>4. Yields(s) = [k \in 1 .. n |-> IF s.tool = "imap" THEN A!Call(All(k)) ELSE All(k)]
  BY <1>0, <1>2 DEF Adaptor, Several, A!Yields, n
<1>5. /\ P!YieldsSequence(s) /\ P!Many(s) = n /\ Len(Yields(s)) = n
  BY <1>3, <1>4 DEF P!YieldsSequence, P!Many
<1>6. \A it : Value(s, it) = IF s.tool = "imap" THEN A!Call(it) ELSE it
  BY <1>0 DEF Adaptor, Several, A!Value
<1>7. \A p \in Nat : Step(s, All(p)) = All(p + 1)
  BY <1>2 DEF A!ZipStep
<1>8. ASSUME NEW p \in 1 .. n + 1
      PROVE  /\ Same(s, All(p), Finish(s)) <=> p = n + 1
             /\ Same(s, Finish(s), All(p)) <=> p = n + 1
  <2>1. CASE m = 0
    <3>1. All(p) = << >> /\ Finish(s) = << >>
      BY <1>2, <2>1
    <3> QED
      BY <1>2, <1>3, <2>1, <3>1 DEF A!ZipSame
  <2>2. CASE m # 0
    <3>1. /\ DOMAIN All(p) = 1 .. m /\ DOMAIN Finish(s) = 1 .. m
          /\ 1 \in 1 .. m /\ DOMAIN << >> = {}
      BY <1>2, <2>2
    <3>2. /\ A!ZipSame(All(p), Finish(s)) <=> \E x \in 1 .. m : p = s.sizes[x] + 1
          /\ A!ZipSame(Finish(s), All(p)) <=> \E x \in 1 .. m : p = s.sizes[x] + 1
      <4>1. All(p) # << >> /\ Finish(s) # << >>
        BY <3>1
      <4> QED
        BY <1>2, <3>1, <4>1 DEF A!ZipSame
    <3>3. (\E x \in 1 .. m : p = s.sizes[x] + 1) <=> p = n + 1
      BY <1>1, <1>3, <2>2
    <3> QED
      BY <1>2, <3>2, <3>3
  <2> QED
    BY <2>1, <2>2
<1>9. Same(s, Finish(s), Finish(s))
  <2>1. CASE m = 0
    BY <1>2, <2>1 DEF A!ZipSame
  <2>2. CASE m # 0
    BY <1>2, <2>2 DEF A!ZipSame
  <2> QED
    BY <2>1, <2>2
<1>10. \A p \in 1 .. n :
           Step(s, After(s, p)) = After(s, p + 1) /\ Value(s, After(s, p)) = Yields(s)[p]
  <2> TAKE p \in 1 .. n
  <2>1. p \in Nat
    BY <1>3
  <2>2. Step(s, After(s, p)) = After(s, p + 1)
    BY <1>2, <1>7, <2>1
  <2>3. Yields(s)[p] = IF s.tool = "imap" THEN A!Call(All(p)) ELSE All(p)
    BY <1>4
  <2>4. Value(s, After(s, p)) = IF s.tool = "imap" THEN A!Call(All(p)) ELSE All(p)
    BY <1>2, <1>6
  <2> QED
    BY <2>2, <2>3, <2>4
<1>11. After(s, 1) = Begin(s)
  BY <1>2
<1>12. \A p \in 1 .. n + 1 :
           /\ Same(s, After(s, p), Finish(s)) <=> p = n + 1
           /\ Same(s, Finish(s), After(s, p)) <=> p = n + 1
  BY <1>2, <1>8
<1>13. Apart(s)
  <2>1. CASE m = 0
    <3>1. \A p : All(p) = << >>
      BY <2>1
    <3>2. \A p, q : Same(s, After(s, p), After(s, q))
      BY <1>2, <3>1 DEF A!ZipSame
    <3>3. \A p \in 1 .. P!Many(s) + 1 : p = 1
      BY <1>3, <1>5, <2>1
    <3> QED
      BY <3>2, <3>3 DEF Apart
  <2>2. CASE m # 0
    <3>1. \A p : All(p) # << >> /\ DOMAIN All(p) = 1 .. m /\ All(p)[1] = p
      BY <2>2
    <3>2. \A p, q : Same(s, After(s, p), After(s, q)) <=> p = q
      BY <1>2, <2>2, <3>1 DEF A!ZipSame
    <3> QED
      BY <3>2 DEF Apart
  <2> QED
    BY <2>1, <2>2
<1>14. Bounded(s)
  <2>1. s.tool \in {"zip", "imap"}
    BY DEF Several
  <2>2. \A x \in 1 .. m : s.sizes[x] \in Nat /\ n <= s.sizes[x]
    BY <1>1, <1>3
  <2> QED
    <3>1. \A it : A!Inside(s, it) <=> \A x \in DOMAIN it : it[x] <= s.sizes[x] + 1
      BY <2>1 DEF A!Inside
    <3>2. A!Inside(s, Finish(s))
      BY <1>2, <2>2, <3>1
    <3>3. \A p \in 1 .. n + 1 : A!Inside(s, All(p))
      BY <1>3, <2>2, <3>1
    <3> HIDE DEF All
    <3> QED
      BY <1>2, <1>5, <3>2, <3>3 DEF Bounded
<1>15. P!Faithful(s, WalkOf(s))
  <2> HIDE DEF All
  <2> QED
    BY <1>3, <1>5, <1>9, <1>10, <1>11, <1>12, FaithfulFrom
<1> QED
  BY <1>13, <1>14, <1>15

----------------------------------------------------------------------------
(* range *)

LEMMA ValuesAreNumbers ==
    ASSUME NEW kind
    PROVE  /\ 2 ^ CountingWidth \in Nat \ {0} /\ C!Lowest(kind) \in Int
           /\ C!Values(kind) = C!Lowest(kind) .. C!Lowest(kind) + 2 ^ CountingWidth - 1
           /\ kind = "unsigned" => C!Lowest(kind) = 0
           /\ \A v \in C!Values(kind) : C!Stored(kind, v) = v
<1>1. 2 ^ CountingWidth \in Nat \ {0} /\ 2 ^ (CountingWidth - 1) \in Nat \ {0}
  BY PowersAreNumbers, WidthAssumption
<1>2. kind = "unsigned" => C!Lowest(kind) = 0
  BY DEF C!Lowest
<1>3. C!Lowest(kind) \in Int
  BY <1>1 DEF C!Lowest
<1>4. C!Values(kind) = C!Lowest(kind) .. C!Lowest(kind) + 2 ^ CountingWidth - 1
  BY DEF C!Values, C!Highest
<1>5. ASSUME NEW v \in C!Values(kind)
      PROVE  C!Stored(kind, v) = v
  <2> DEFINE w == 2 ^ CountingWidth
             u == v - C!Lowest(kind)
  <2>1. w \in Nat \ {0} /\ u \in 0 .. w - 1 /\ v = u + C!Lowest(kind)
    BY <1>1, <1>3, <1>4
  <2> HIDE DEF w, u
  <2>2. u % w = u
    BY <2>1
  <2> QED
    BY <2>1, <2>2 DEF C!Stored, w, u
<1> QED
  BY <1>1, <1>2, <1>3, <1>4, <1>5

LEMMA SameCardinality ==
    ASSUME NEW T
    PROVE  C!Cardinality(T) = Cardinality(T) /\ A!Cardinality(T) = Cardinality(T)
BY DEF C!Cardinality, A!Cardinality, Cardinality

(* Steps counts the elements a loop of steps gets to; it is the distance     *)
(* over the step, rounded up.                                               *)
LEMMA StepsCount ==
    ASSUME NEW s, s.start \in Int, s.stop \in Int, s.step \in Int \ {0}
    PROVE  /\ C!Steps(s) \in Nat
           /\ \A k \in Nat : k < C!Steps(s) <=>
                  IF s.step > 0 THEN s.start + k * s.step < s.stop
                  ELSE s.start + k * s.step > s.stop
           /\ LET d == s.stop - s.start
                  q == C!Quotient(d, s.step)
              IN  (IF s.step > 0 THEN d > 0 ELSE d < 0) =>
                      C!Steps(s) = IF d # q * s.step THEN q + 1 ELSE q
<1> DEFINE a == IF s.step > 0 THEN s.step ELSE -s.step
           d == IF s.step > 0 THEN s.stop - s.start ELSE s.start - s.stop
           Below(k) == IF s.step > 0 THEN s.start + k * s.step < s.stop
                       ELSE s.start + k * s.step > s.stop
           m == C!Max({s.stop - s.start, s.start - s.stop})
<1>1. a \in Nat \ {0} /\ d \in Int
  OBVIOUS
<1>2. \A k \in Nat : Below(k) <=> k * a < d
  <2> TAKE k \in Nat
  <2>1. CASE s.step > 0
    BY <2>1
  <2>2. CASE ~(s.step > 0)
    <3>1. k * a = -(k * s.step) /\ k * s.step \in Int
      BY <2>2
    <3> QED
      BY <2>2, <3>1
  <2> QED
    BY <2>1, <2>2
<1>3. m \in Nat /\ m >= d
  <2>1. \E x \in {s.stop - s.start, s.start - s.stop} :
            \A y \in {s.stop - s.start, s.start - s.stop} : x >= y
    OBVIOUS
  <2>2. /\ m \in {s.stop - s.start, s.start - s.stop}
        /\ \A y \in {s.stop - s.start, s.start - s.stop} : m >= y
    BY <2>1 DEF C!Max
  <2> QED
    BY <2>2
<1>4. C!Steps(s) = Cardinality({k \in 0 .. m : Below(k)})
  BY SameCardinality DEF C!Steps
<1> HIDE DEF Below, m
<1>5. CASE d <= 0
  <2>1. \A k \in Nat : ~Below(k)
    BY <1>1, <1>2, <1>5
  <2>2. {k \in 0 .. m : Below(k)} = {}
    BY <1>3, <2>1
  <2>3. C!Steps(s) = 0
    BY <1>4, <2>2, FS_EmptySet
  <2>4. ~(IF s.step > 0 THEN s.stop - s.start > 0 ELSE s.stop - s.start < 0)
    BY <1>5
  <2> QED
    BY <2>1, <2>3, <2>4 DEF Below
<1>6. CASE d > 0
  <2> DEFINE n == RoundUp(d, a)
  <2>1. d \in Nat
    BY <1>1, <1>6
  <2> HIDE DEF a, d
  <2>2. n \in 0 .. d /\ \A k \in Nat : k * a < d <=> k < n
    BY <1>1, <2>1, RoundedUp
  <2> HIDE DEF n
  <2>3. {k \in 0 .. m : Below(k)} = 0 .. n - 1
    BY <1>2, <1>3, <2>1, <2>2
  <2>4. C!Steps(s) = n
    <3>1. Cardinality(0 .. n - 1) = n
      BY <2>2, FS_Interval
    <3> QED
      BY <1>4, <2>3, <3>1
  <2>5. C!Quotient(s.stop - s.start, s.step) = d \div a
    BY <1>6 DEF C!Quotient, a, d
  <2>6. s.stop - s.start # (d \div a) * s.step <=> d # (d \div a) * a
    <3>1. d \div a \in Int
      BY <1>1, <2>1
    <3>2. CASE s.step > 0
      BY <3>2 DEF a, d
    <3>3. CASE ~(s.step > 0)
      <4>1. (d \div a) * a = -((d \div a) * s.step) /\ (d \div a) * s.step \in Int
        BY <3>1, <3>3 DEF a
      <4> QED
        BY <3>3, <4>1 DEF d
    <3> QED
      BY <3>2, <3>3
  <2>7. C!Steps(s) \in Nat /\ \A k \in Nat : k < C!Steps(s) <=> Below(k)
    BY <1>2, <2>2, <2>4
  <2> QED
    BY <2>4, <2>5, <2>6, <2>7 DEF Below, n, RoundUp
<1> QED
  BY <1>1, <1>5, <1>6

(* the number at place p of a range *)
Number(s, p) == s.start + (p - 1) * s.step

LEMMA RangeYields ==
    ASSUME NEW s, Ranging(s)
    PROVE  /\ Counter(s) /\ s.start \in Int /\ s.stop \in Int /\ s.step \in Int \ {0}
           /\ s.kind = "unsigned" => s.step > 0
           /\ C!Steps(s) \in Nat /\ P!YieldsSequence(s) /\ P!Many(s) = C!Steps(s)
           /\ Len(Yields(s)) = C!Steps(s)
           /\ Yields(s) = [k \in 1 .. C!Steps(s) |-> Number(s, k)]
<1>1. Counter(s)
  BY Counts DEF Ranging, C!Counted
<1>2. /\ C!Lowest(s.kind) \in Int /\ 2 ^ CountingWidth \in Nat
      /\ C!Values(s.kind) = C!Lowest(s.kind) .. C!Lowest(s.kind) + 2 ^ CountingWidth - 1
      /\ s.kind = "unsigned" => C!Lowest(s.kind) = 0
  BY ValuesAreNumbers
<1>3. /\ {s.start, s.stop, s.step} \subseteq IF s.kind = "float" THEN Int ELSE C!Values(s.kind)
      /\ s.step # 0
  BY DEF Ranging
<1>4. /\ s.start \in Int /\ s.stop \in Int /\ s.step \in Int \ {0}
      /\ s.kind = "unsigned" => s.step > 0
  BY <1>2, <1>3
<1>5. C!Steps(s) \in Nat
  BY <1>4, StepsCount
<1>6. Yields(s) = [k \in 1 .. C!Steps(s) |-> Number(s, k)]
  BY <1>1 DEF Counter, Ranging, C!Yields, Number
<1>7. P!YieldsSequence(s) /\ P!Many(s) = C!Steps(s) /\ Len(Yields(s)) = C!Steps(s)
  BY <1>5, <1>6 DEF P!YieldsSequence, P!Many
<1> QED
  BY <1>1, <1>4, <1>5, <1>6, <1>7

(* the numbers of a range: each is of its type, the last one, where the loop *)
(* ends, included                                                           *)
LEMMA Numbers ==
    ASSUME NEW s, Ranging(s), NEW p \in 1 .. C!Steps(s) + 1
    PROVE  /\ Number(s, p) \in Int /\ Number(s, p + 1) = Number(s, p) + s.step
           /\ C!Stored(s.kind, Number(s, p)) = Number(s, p)
           /\ C!Within(s.kind, Number(s, p), s.stop, s.step) <=> p <= C!Steps(s)
<1> DEFINE n == C!Steps(s)
<1>1. /\ s.start \in Int /\ s.stop \in Int /\ s.step \in Int \ {0} /\ n \in Nat
      /\ s.kind = "unsigned" => s.step > 0
  BY RangeYields
<1>2. p - 1 \in 0 .. n /\ p \in Nat /\ (p - 1 < n <=> p <= n)
  BY <1>1
<1>3. (p - 1) * s.step \in Int /\ p * s.step = (p - 1) * s.step + s.step
  BY <1>1, <1>2
<1>4. Number(s, p) \in Int /\ Number(s, p + 1) = Number(s, p) + s.step
  <2>1. (p + 1) - 1 = p
    BY <1>2
  <2> QED
    BY <1>1, <1>3, <2>1 DEF Number
<1>5. C!Stored(s.kind, Number(s, p)) = Number(s, p)
  <2>1. CASE s.kind = "float"
    BY <2>1 DEF C!Stored
  <2>2. CASE s.kind # "float"
    <3>1. s.start \in C!Values(s.kind) /\ s.start + n * s.step \in C!Values(s.kind)
      BY <2>2 DEF Ranging, C!Fits
    <3>2. n * s.step = (p - 1) * s.step + (n - (p - 1)) * s.step
      BY <1>1, <1>2
    <3>3. n - (p - 1) \in Nat
      BY <1>1, <1>2
    <3>4. \A d \in Nat : /\ d * s.step \in Int
                         /\ s.step > 0 => d * s.step >= 0
                         /\ s.step < 0 => d * s.step <= 0
      BY <1>1
    <3>5. \/ s.start <= Number(s, p) /\ Number(s, p) <= s.start + n * s.step
          \/ s.start >= Number(s, p) /\ Number(s, p) >= s.start + n * s.step
      <4> DEFINE b == (p - 1) * s.step
                 c == (n - (p - 1)) * s.step
      <4>1. /\ b \in Int /\ c \in Int /\ n * s.step = b + c
            /\ s.step > 0 => b >= 0 /\ c >= 0
            /\ s.step < 0 => b <= 0 /\ c <= 0
        BY <1>2, <3>2, <3>3, <3>4
      <4> HIDE DEF b, c
      <4>2. Number(s, p) = s.start + b
        BY DEF Number, b
      <4> QED
        BY <1>1, <4>1, <4>2
    <3>6. Number(s, p) \in C!Values(s.kind)
      BY <1>4, <3>1, <3>5, ValuesAreNumbers
    <3> QED
      BY <3>6, ValuesAreNumbers
  <2> QED
    BY <2>1, <2>2
<1>6. C!Within(s.kind, Number(s, p), s.stop, s.step) <=> p <= n
  <2>1. p - 1 < n <=> IF s.step > 0 THEN Number(s, p) < s.stop ELSE Number(s, p) > s.stop
    BY <1>1, <1>2, StepsCount DEF Number
  <2> QED
    BY <1>1, <1>2, <1>4, <2>1 DEF C!Within
<1> QED
  BY <1>4, <1>5, <1>6

(* what operator== compares of an iterator, other, and end() *)
LEMMA RangeSameIs ==
    ASSUME NEW s, NEW it, NEW other, NEW last,
           it.is_end = FALSE, other.is_end = FALSE, last.is_end = TRUE
    PROVE  /\ C!RangeSame(s, it, other) <=> C!DataEqual(s, it.value, other.value)
           /\ C!RangeSame(s, it, last) <=> ~C!Within(s.kind, it.value, last.value, s.step)
           /\ C!RangeSame(s, last, it) <=> ~C!Within(s.kind, it.value, last.value, s.step)
           /\ C!RangeSame(s, last, last)
BY Zenon DEF C!RangeSame

(* ++ of an iterator of floats *)
LEMMA FloatStepIs ==
    ASSUME NEW s, s.kind = "float", NEW v, NEW e, NEW k, NEW it,
           it = [value |-> v, is_end |-> e, steps_taken |-> k]
    PROVE  C!RangeStep(s, it) =
               [value |-> s.start + s.step * (k + 1), is_end |-> e, steps_taken |-> k + 1]
<1>1. C!RangeStep(s, it) =
          [it EXCEPT !.steps_taken = @ + 1, !.value = s.start + s.step * (it.steps_taken + 1)]
  BY DEF C!RangeStep
<1>2. C!RangeStep(s, it) \in
          [value : {s.start + s.step * (k + 1)}, is_end : {e}, steps_taken : {k + 1}]
  BY <1>1
<1> QED
  BY <1>2

LEMMA RangeFaithful ==
    ASSUME NEW s, Ranging(s)
    PROVE  P!Faithful(s, WalkOf(s))
<1> DEFINE n == C!Steps(s)
           no == FALSE
<1>1. /\ Counter(s) /\ s.tool = "range" /\ n \in Nat
      /\ P!YieldsSequence(s) /\ P!Many(s) = n /\ Len(Yields(s)) = n
      /\ Yields(s) = [k \in 1 .. n |-> Number(s, k)]
      /\ s.start \in Int /\ s.stop \in Int /\ s.step \in Int
  BY RangeYields DEF Ranging
<1>2. /\ Begin(s) = C!RangeBegin(s) /\ Finish(s) = C!RangeEnd(s)
      /\ \A it : Step(s, it) = C!RangeStep(s, it)
      /\ \A it : Value(s, it) = it.value
      /\ \A it, other : Same(s, it, other) = C!RangeSame(s, it, other)
  BY <1>1 DEF Counter, C!Begin, C!Finish, C!Step, C!Value, C!Same
<1>3. \A p : After(s, p) = [value |-> Number(s, p), is_end |-> no,
                             steps_taken |-> IF s.kind = "float" THEN p - 1 ELSE 0]
  BY <1>1 DEF After, Number
<1>8. /\ \A p : After(s, p).is_end = FALSE /\ After(s, p).value = Number(s, p)
      /\ Finish(s).is_end = TRUE /\ Finish(s).value = s.stop
  BY <1>2, <1>3 DEF C!RangeEnd
<1>9. ASSUME NEW p
      PROVE  /\ C!RangeSame(s, After(s, p), Finish(s)) <=>
                    ~C!Within(s.kind, Number(s, p), s.stop, s.step)
             /\ C!RangeSame(s, Finish(s), After(s, p)) <=>
                    ~C!Within(s.kind, Number(s, p), s.stop, s.step)
             /\ C!RangeSame(s, Finish(s), Finish(s))
  BY <1>8, RangeSameIs
<1>4. After(s, 1) = Begin(s)
  BY <1>1, <1>2, <1>3 DEF C!RangeBegin, Number
<1> HIDE DEF n, no
<1>5. ASSUME NEW p \in 1 .. n
      PROVE  Step(s, After(s, p)) = After(s, p + 1) /\ Value(s, After(s, p)) = Yields(s)[p]
  <2>1. /\ p \in 1 .. C!Steps(s) + 1 /\ p + 1 \in 1 .. C!Steps(s) + 1
        /\ (p - 1) + 1 = p /\ (p + 1) - 1 = p
    BY <1>1 DEF n
  <2>2. /\ Number(s, p + 1) = Number(s, p) + s.step
        /\ C!Stored(s.kind, Number(s, p + 1)) = Number(s, p + 1)
    BY <2>1, Numbers
  <2>3. CASE s.kind = "float"
    <3>1. After(s, p) = [value |-> Number(s, p), is_end |-> no, steps_taken |-> p - 1]
      BY <1>3, <2>3
    <3>2. After(s, p + 1) = [value |-> Number(s, p + 1), is_end |-> no, steps_taken |-> p]
      BY <1>3, <2>1, <2>3
    <3>3. C!RangeStep(s, After(s, p)) =
              [value |-> s.start + s.step * p, is_end |-> no, steps_taken |-> p]
      <4>1. C!RangeStep(s, After(s, p)) =
                [value |-> s.start + s.step * ((p - 1) + 1), is_end |-> no,
                 steps_taken |-> (p - 1) + 1]
        BY <2>3, <3>1, FloatStepIs
      <4> QED
        BY <2>1, <4>1
    <3>4. s.start + s.step * p = Number(s, p + 1)
      BY <1>1, <2>1 DEF Number
    <3>5. Step(s, After(s, p)) = After(s, p + 1)
      BY <1>2, <3>2, <3>3, <3>4
    <3>6. Value(s, After(s, p)) = Yields(s)[p]
      BY <1>1, <1>2, <1>8
    <3> QED
      BY <3>5, <3>6
  <2>4. CASE s.kind # "float"
    <3>1. \A q : After(s, q) = [value |-> Number(s, q), is_end |-> no, steps_taken |-> 0]
      BY <1>3, <2>4
    <3>2. C!RangeStep(s, After(s, p)) =
              [value |-> Number(s, p + 1), is_end |-> no, steps_taken |-> 0]
      BY <2>2, <2>4, <3>1 DEF C!RangeStep
    <3>3. Step(s, After(s, p)) = After(s, p + 1)
      BY <1>2, <3>1, <3>2
    <3>4. Value(s, After(s, p)) = Yields(s)[p]
      BY <1>1, <1>2, <1>8
    <3> QED
      BY <3>3, <3>4
  <2> QED
    BY <2>3, <2>4
<1>6. ASSUME NEW p \in 1 .. n + 1
      PROVE  /\ Same(s, After(s, p), Finish(s)) <=> p = n + 1
             /\ Same(s, Finish(s), After(s, p)) <=> p = n + 1
  <2>1. C!Within(s.kind, Number(s, p), s.stop, s.step) <=> p <= n
    BY Numbers DEF n
  <2>2. p <= n <=> p # n + 1
    BY <1>1
  <2> QED
    BY <1>2, <1>9, <2>1, <2>2
<1>7. Same(s, Finish(s), Finish(s))
  BY <1>2, <1>9
<1> QED
  BY <1>1, <1>4, <1>5, <1>6, <1>7, FaithfulFrom

(* operator== of two iterators of the walk: the one of floats asks whether   *)
(* they are less than a step apart                                          *)
LEMMA RangeApart ==
    ASSUME NEW s, Ranging(s), ~(s.kind = "float" /\ s.step < 0)
    PROVE  Apart(s)
<1> DEFINE n == C!Steps(s)
<1>1. /\ Counter(s) /\ s.tool = "range" /\ n \in Nat /\ P!Many(s) = n
      /\ s.step \in Int \ {0} /\ s.start \in Int
  BY RangeYields DEF Ranging
<1> HIDE DEF n
<1>2. ASSUME NEW p \in 1 .. n + 1, NEW q \in 1 .. n + 1
      PROVE  Same(s, After(s, p), After(s, q)) <=>
                 C!DataEqual(s, Number(s, p), Number(s, q))
  <2>1. \A r : After(s, r) = [value |-> Number(s, r), is_end |-> FALSE,
                              steps_taken |-> IF s.kind = "float" THEN r - 1 ELSE 0]
    BY <1>1 DEF After, Number
  <2>2. \A r : After(s, r).is_end = FALSE /\ After(s, r).value = Number(s, r)
    BY <2>1
  <2>3. Same(s, After(s, p), After(s, q)) = C!RangeSame(s, After(s, p), After(s, q))
    BY <1>1 DEF Counter, C!Same
  <2>4. C!RangeSame(s, After(s, p), After(s, q)) <=>
            C!DataEqual(s, After(s, p).value, After(s, q).value)
    BY <2>2, Zenon DEF C!RangeSame
  <2> QED
    BY <2>2, <2>3, <2>4
<1>3. ASSUME NEW p \in 1 .. n + 1, NEW q \in 1 .. n + 1
      PROVE  /\ Number(s, p) \in Int /\ Number(s, q) \in Int
             /\ Number(s, p) - Number(s, q) = (p - q) * s.step
  <2>1. p \in Int /\ q \in Int /\ (p - 1) - (q - 1) = p - q
    BY <1>1
  <2>2. (p - q) * s.step = (p - 1) * s.step - (q - 1) * s.step
    BY <1>1, <2>1
  <2>3. (p - 1) * s.step \in Int /\ (q - 1) * s.step \in Int
    BY <1>1, <2>1
  <2> QED
    BY <1>1, <2>2, <2>3 DEF Number
<1>4. ASSUME NEW p \in 1 .. n + 1, NEW q \in 1 .. n + 1
      PROVE  C!DataEqual(s, Number(s, p), Number(s, q)) <=> p = q
  <2> DEFINE u == Number(s, p)
             v == Number(s, q)
             d == p - q
  <2>1. u \in Int /\ v \in Int /\ u - v = d * s.step /\ d \in Int /\ (p = q <=> d = 0)
    BY <1>1, <1>3
  <2> HIDE DEF u, v, d
  <2>2. d = 0 => u - v = 0
    BY <1>1, <2>1
  <2>3. CASE s.kind # "float"
    <3>1. d # 0 => d * s.step # 0
      BY <1>1, <2>1
    <3> QED
      BY <2>1, <2>2, <2>3, <3>1 DEF C!DataEqual, u, v
  <2>4. CASE s.kind = "float"
    <3>1. s.step > 0
      BY <1>1, <2>4
    <3>2. (d > 0 => d * s.step >= s.step) /\ (d < 0 => d * s.step <= -s.step)
      BY <1>1, <2>1, <3>1
    <3>3. (IF u < v THEN v - u ELSE u - v) < s.step <=> d = 0
      BY <1>1, <2>1, <2>2, <3>1, <3>2
    <3> QED
      BY <2>1, <2>4, <3>3 DEF C!DataEqual, u, v
  <2> QED
    BY <2>3, <2>4
<1> QED
  BY <1>1, <1>2, <1>4 DEF Apart

(* size() is how many there are, and operator[] finds each *)
LEMMA RangeMembers ==
    ASSUME NEW s, Ranging(s), s.kind # "float"
    PROVE  /\ C!Size(s) = P!Many(s)
           /\ \A p \in 1 .. P!Many(s) : C!Index(s, p - 1) = Number(s, p)
<1> DEFINE n == C!Steps(s)
           d == s.stop - s.start
<1>1. /\ n \in Nat /\ P!Many(s) = n
      /\ s.step \in Int \ {0} /\ s.start \in Int /\ s.stop \in Int
      /\ s.kind = "unsigned" => s.step > 0
  BY RangeYields
<1>2. C!Size(s) = n
  <2>1. C!Within(s.kind, s.start, s.stop, s.step) => C!Computed(s.kind, s.stop - s.start) = d
    BY DEF Ranging, C!Fits
  <2>2. Number(s, 1) = s.start
    BY <1>1 DEF Number
  <2>3. C!Within(s.kind, s.start, s.stop, s.step) <=> 1 <= n
    BY <1>1, <2>2, Numbers
  <2>4. C!Within(s.kind, s.start, s.stop, s.step) <=> IF s.step > 0 THEN d > 0 ELSE d < 0
    BY <1>1 DEF C!Within
  <2>5. C!Within(s.kind, s.start, s.stop, s.step) =>
            n = IF d # C!Quotient(d, s.step) * s.step THEN C!Quotient(d, s.step) + 1
                ELSE C!Quotient(d, s.step)
    BY <1>1, <2>4, StepsCount
  <2>6. C!Size(s) = IF ~C!Within(s.kind, s.start, s.stop, s.step) THEN 0
                    ELSE IF d # C!Quotient(d, s.step) * s.step THEN C!Quotient(d, s.step) + 1
                    ELSE C!Quotient(d, s.step)
    BY <2>1 DEF C!Size
  <2> HIDE DEF n, d
  <2> QED
    BY <1>1, <2>3, <2>5, <2>6
<1>3. ASSUME NEW p \in 1 .. n
      PROVE  C!Index(s, p - 1) = Number(s, p)
  <2>1. s.step * (p - 1) = (p - 1) * s.step
    BY <1>1
  <2>2. C!Stored(s.kind, Number(s, p)) = Number(s, p)
    BY <1>1, Numbers
  <2> QED
    BY <2>1, <2>2 DEF C!Index, Number
<1> QED
  BY <1>1, <1>2, <1>3

----------------------------------------------------------------------------
(* repeat, with and without a count *)

LEMMA RepeatFaithful ==
    ASSUME NEW s, Repeating(s)
    PROVE  P!Faithful(s, WalkOf(s)) /\ Apart(s)
<1>1. Counter(s) /\ s.count \in Nat /\ s.tool = "repeat"
  BY Counts DEF Repeating, C!Counted
<1>2. /\ Begin(s) = s.count /\ Finish(s) = 0
      /\ \A it : Step(s, it) = it - 1 /\ Value(s, it) = "elem"
      /\ \A it, other : Same(s, it, other) <=> it = other
      /\ \A p : After(s, p) = s.count + 1 - p
      /\ Yields(s) = [k \in 1 .. s.count |-> "elem"]
  BY <1>1 DEF Counter, C!Begin, C!Finish, C!Step, C!Value, C!Same, C!Yields, C!RepeatStep,
         C!RepeatSame, After
<1>3. /\ P!YieldsSequence(s) /\ P!Many(s) = s.count /\ Len(Yields(s)) = s.count
  BY <1>1, <1>2 DEF P!YieldsSequence, P!Many
<1>4. P!Faithful(s, WalkOf(s))
  BY <1>1, <1>2, <1>3, FaithfulFrom
<1>5. Apart(s)
  BY <1>1, <1>2, <1>3 DEF Apart
<1> QED
  BY <1>4, <1>5

(* no end is ever found, and there is no iterator of end() to hold *)
LEMMA EndlessFaithful ==
    ASSUME NEW s, s.tool = "endless"
    PROVE  P!Faithful(s, WalkOf(s))
<1>0. Counter(s)
  BY Counts DEF C!Counted
<1>1. /\ Begin(s) = C!EndlessBegin /\ ~HasEnd(s)
      /\ \A it : Step(s, it) = it /\ Value(s, it) = "elem"
      /\ \A it, other : ~Same(s, it, other)
      /\ \A p : After(s, p) = C!EndlessBegin
      /\ Yields(s) = [k \in 1 .. MaxPlace |-> "elem"]
  BY <1>0 DEF Counter, C!Begin, C!Step, C!Value, C!Same, C!Yields, C!EndlessStep,
         C!EndlessSame, After, HasEnd
<1>2. MaxPlace \in Nat \ {0}
  BY BoundAssumption
<1>3. P!YieldsSequence(s) /\ P!Many(s) = MaxPlace /\ Len(Yields(s)) = MaxPlace
  BY <1>1, <1>2 DEF P!YieldsSequence, P!Many
<1>4. \A p \in 1 .. MaxPlace + 1 : P!Reached(p) => p # MaxPlace + 1
  BY <1>2 DEF P!Reached
<1> QED
  BY <1>1, <1>2, <1>3, <1>4, FaithfulFrom

----------------------------------------------------------------------------
(* zip_longest *)

LEMMA Greatest ==
    ASSUME NEW m \in Nat \ {0}, NEW f \in [1 .. m -> Nat]
    PROVE  \E x \in 1 .. m : \A y \in 1 .. m : f[y] <= f[x]
<1> DEFINE Has(k) == \E x \in 1 .. k : \A y \in 1 .. k : f[y] <= f[x]
           R == {k \in 1 .. m : ~Has(k)}
<1>1. SUFFICES ASSUME ~Has(m) PROVE FALSE
  OBVIOUS
<1>2. m \in R /\ R \subseteq Nat
  BY <1>1
<1>3. PICK k \in R : \A u \in R : k <= u
  <2> HIDE DEF R
  <2> QED
    BY <1>2, Least
<1>4. k # 1
  <2>1. Has(1)
    OBVIOUS
  <2> QED
    BY <2>1
<1>5. k - 1 \in 1 .. m /\ k \in 1 .. m /\ Has(k - 1)
  <2>1. k \in 1 .. m /\ k - 1 \in 1 .. m
    BY <1>3, <1>4
  <2>2. k - 1 \notin R
    <3> HIDE DEF R
    <3> QED
      BY <1>3, <2>1
  <2> QED
    BY <2>1, <2>2
<1>6. PICK x \in 1 .. k - 1 : \A y \in 1 .. k - 1 : f[y] <= f[x]
  BY <1>5
<1>7. /\ \A y \in 1 .. k : f[y] \in Nat /\ (y = k \/ y \in 1 .. k - 1)
      /\ x \in 1 .. k /\ k \in 1 .. k
  BY <1>5
<1>8. CASE f[k] <= f[x]
  <2>1. \A y \in 1 .. k : f[y] <= f[x]
    BY <1>6, <1>7, <1>8
  <2> QED
    BY <1>3, <1>7, <2>1
<1>9. CASE f[x] < f[k]
  <2>1. \A y \in 1 .. k : f[y] <= f[k]
    BY <1>6, <1>7, <1>9
  <2> QED
    BY <1>3, <1>7, <2>1
<1> QED
  BY <1>7, <1>8, <1>9

LEMMA LongestIsGreatest ==
    ASSUME NEW m \in Nat, NEW sizes \in [1 .. m -> Nat]
    PROVE  /\ A!Longest(sizes) \in Nat
           /\ \A y \in 1 .. m : sizes[y] <= A!Longest(sizes)
           /\ A!Longest(sizes) # 0 => \E x \in 1 .. m : sizes[x] = A!Longest(sizes)
<1> DEFINE R == {0} \cup A!Range(sizes)
<1>1. R = {0} \cup {sizes[x] : x \in 1 .. m}
  BY DEF A!Range
<1>2. \E u \in R : \A v \in R : u >= v
  <2>1. CASE m = 0
    <3>1. R = {0}
      BY <1>1, <2>1
    <3> QED
      BY <3>1
  <2>2. CASE m # 0
    <3>1. PICK x \in 1 .. m : \A y \in 1 .. m : sizes[y] <= sizes[x]
      BY <2>2, Greatest
    <3>2. sizes[x] \in R /\ \A v \in R : sizes[x] >= v
      BY <1>1, <3>1
    <3> QED
      BY <3>2
  <2> QED
    BY <2>1, <2>2
<1>3. A!Longest(sizes) \in R /\ \A v \in R : A!Longest(sizes) >= v
  BY <1>2 DEF A!Longest, A!Max
<1> HIDE DEF R
<1> QED
  BY <1>1, <1>3

LEMMA LongestFaithful ==
    ASSUME NEW s, Longest(s)
    PROVE  P!Faithful(s, WalkOf(s)) /\ Apart(s) /\ Bounded(s)
<1>0. Adaptor(s) /\ s.tool = "zip_longest"
  BY Adapts DEF Longest, A!Adapting
<1>1. PICK m \in Nat : s.sizes \in [1 .. m -> Nat]
  BY DEF Longest
<1> DEFINE n == A!Longest(s.sizes)
           At(x, p) == IF p <= s.sizes[x] THEN p ELSE s.sizes[x] + 1
           All(p) == [x \in 1 .. m |-> At(x, p)]
<1>2. /\ Begin(s) = [x \in 1 .. m |-> 1]
      /\ Finish(s) = [x \in 1 .. m |-> s.sizes[x] + 1]
      /\ \A it : Step(s, it) = A!LongestStep(s.sizes, it)
      /\ \A it : Value(s, it) = A!LongestValue(s.sizes, it)
      /\ \A it, other : Same(s, it, other) <=> A!LongestSame(it, other)
      /\ \A p : After(s, p) = All(p)
      /\ DOMAIN s.sizes = 1 .. m
      /\ Yields(s) = [k \in 1 .. n |-> [x \in 1 .. m |-> IF k <= s.sizes[x] THEN k ELSE 0]]
  BY <1>0, <1>1 DEF Adaptor, A!Begin, A!Finish, A!Step, A!Value, A!Same, A!Yields, After,
         A!Begins, A!Ends
<1>3. /\ n \in Nat /\ \A x \in 1 .. m : s.sizes[x] \in Nat /\ s.sizes[x] <= n
      /\ n # 0 => \E x \in 1 .. m : s.sizes[x] = n
  BY <1>1, LongestIsGreatest
<1> HIDE DEF n
<1>4. P!YieldsSequence(s) /\ P!Many(s) = n /\ Len(Yields(s)) = n
  BY <1>2, <1>3 DEF P!YieldsSequence, P!Many
<1>11. /\ \A p : DOMAIN All(p) = 1 .. m /\ \A x \in 1 .. m : All(p)[x] = At(x, p)
       /\ DOMAIN Finish(s) = 1 .. m /\ \A x \in 1 .. m : Finish(s)[x] = s.sizes[x] + 1
  BY <1>2
<1>5. ASSUME NEW p \in Nat
      PROVE  /\ Step(s, All(p)) = All(p + 1)
             /\ Value(s, All(p)) = [x \in 1 .. m |-> IF p <= s.sizes[x] THEN p ELSE 0]
  <2>1. \A x \in 1 .. m :
            /\ (At(x, p) # s.sizes[x] + 1) <=> p <= s.sizes[x]
            /\ At(x, p + 1) = IF At(x, p) # s.sizes[x] + 1 THEN At(x, p) + 1 ELSE At(x, p)
    BY <1>3
  <2>2. /\ Step(s, All(p)) =
              [x \in 1 .. m |-> IF At(x, p) # s.sizes[x] + 1 THEN At(x, p) + 1 ELSE At(x, p)]
        /\ Value(s, All(p)) =
              [x \in 1 .. m |-> IF At(x, p) # s.sizes[x] + 1 THEN At(x, p) ELSE 0]
    <3> HIDE DEF At, All
    <3>1. /\ DOMAIN All(p) = 1 .. m
          /\ \A x \in 1 .. m : All(p)[x] = At(x, p)
      BY <1>11
    <3> QED
      BY <1>2, <3>1 DEF A!LongestStep, A!LongestValue
  <2>3. Step(s, All(p)) = All(p + 1)
    BY <2>1, <2>2
  <2>4. \A x \in 1 .. m : (IF At(x, p) # s.sizes[x] + 1 THEN At(x, p) ELSE 0) =
            IF p <= s.sizes[x] THEN p ELSE 0
    BY <2>1
  <2> QED
    BY <2>2, <2>3, <2>4
<1>6. ASSUME NEW p \in 1 .. n + 1
      PROVE  /\ Same(s, All(p), Finish(s)) <=> p = n + 1
             /\ Same(s, Finish(s), All(p)) <=> p = n + 1
  <2>1. p = n + 1 <=> \A x \in 1 .. m : ~(p <= s.sizes[x])
    BY <1>3
  <2>2. \A x \in 1 .. m : At(x, p) = s.sizes[x] + 1 <=> ~(p <= s.sizes[x])
    BY <1>3
  <2> HIDE DEF At
  <2>3. /\ DOMAIN All(p) = 1 .. m /\ \A x \in 1 .. m : All(p)[x] = At(x, p)
        /\ DOMAIN Finish(s) = 1 .. m /\ \A x \in 1 .. m : Finish(s)[x] = s.sizes[x] + 1
    BY <1>2
  <2> HIDE DEF All
  <2>4. A!LongestSame(All(p), Finish(s)) <=> \A x \in 1 .. m : At(x, p) = s.sizes[x] + 1
    BY <2>3 DEF A!LongestSame
  <2>5. A!LongestSame(Finish(s), All(p)) <=> \A x \in 1 .. m : At(x, p) = s.sizes[x] + 1
    BY <2>3 DEF A!LongestSame
  <2>6. \A it, other : Same(s, it, other) <=> A!LongestSame(it, other)
    BY <1>2
  <2> QED
    BY <2>1, <2>2, <2>4, <2>5, <2>6
<1>7. Same(s, Finish(s), Finish(s))
  BY <1>2 DEF A!LongestSame
<1>8. After(s, 1) = Begin(s)
  <2>1. \A x \in 1 .. m : At(x, 1) = 1
    BY <1>3
  <2> QED
    BY <1>2, <2>1
<1>9. ASSUME NEW p \in 1 .. n
      PROVE  Step(s, After(s, p)) = After(s, p + 1) /\ Value(s, After(s, p)) = Yields(s)[p]
  <2>1. p \in Nat
    BY <1>3
  <2>2. Yields(s)[p] = [x \in 1 .. m |-> IF p <= s.sizes[x] THEN p ELSE 0]
    BY <1>2
  <2> HIDE DEF All
  <2> QED
    BY <1>2, <1>5, <2>1, <2>2
<1>10. \A p \in 1 .. n + 1 :
           /\ Same(s, After(s, p), Finish(s)) <=> p = n + 1
           /\ Same(s, Finish(s), After(s, p)) <=> p = n + 1
  BY <1>2, <1>6
<1>12. ASSUME NEW p \in 1 .. n + 1, NEW q \in 1 .. n + 1, p < q
       PROVE  ~Same(s, After(s, p), After(s, q)) /\ ~Same(s, After(s, q), After(s, p))
  <2>1. PICK x \in 1 .. m : s.sizes[x] = n
    BY <1>3, <1>12
  <2>2. At(x, p) = p /\ At(x, q) = q
    BY <1>3, <1>12, <2>1
  <2> HIDE DEF At
  <2> QED
    BY <1>2, <1>11, <1>12, <2>2 DEF A!LongestSame
<1>13. Apart(s)
  <2>1. ASSUME NEW p \in 1 .. n + 1
        PROVE  Same(s, After(s, p), After(s, p))
    BY <1>2 DEF A!LongestSame
  <2>2. \A p, q \in 1 .. n + 1 : p < q \/ q < p \/ p = q
    BY <1>3
  <2>3. ASSUME NEW p \in 1 .. n + 1, NEW q \in 1 .. n + 1
        PROVE  Same(s, After(s, p), After(s, q)) <=> p = q
    BY <1>3, <1>12, <2>1, <2>2
  <2> QED
    BY <1>4, <2>3 DEF Apart
<1>14. Bounded(s)
  <2>1. \A it : A!Inside(s, it) <=> \A x \in DOMAIN it : it[x] <= s.sizes[x] + 1
    BY <1>0 DEF A!Inside
  <2>2. \A p \in 1 .. n + 1, x \in 1 .. m : At(x, p) <= s.sizes[x] + 1
    BY <1>3
  <2>3. \A x \in 1 .. m : s.sizes[x] + 1 <= s.sizes[x] + 1
    BY <1>3
  <2> HIDE DEF At, All
  <2>4. A!Inside(s, Finish(s))
    BY <1>11, <2>1, <2>3
  <2>5. \A p \in 1 .. n + 1 : A!Inside(s, After(s, p))
    BY <1>2, <1>11, <2>1, <2>2
  <2> QED
    BY <1>4, <2>4, <2>5 DEF Bounded
<1>15. P!Faithful(s, WalkOf(s))
  <2> HIDE DEF All
  <2> QED
    BY <1>3, <1>4, <1>7, <1>8, <1>9, <1>10, FaithfulFrom
<1> QED
  BY <1>13, <1>14, <1>15

----------------------------------------------------------------------------
(* cycle, whose end() is only found when the input is empty *)

LEMMA CycleIs ==
    ASSUME NEW s, Turning(s)
    PROVE  /\ s.n \in Nat /\ Begin(s) = 1 /\ Finish(s) = s.n + 1
           /\ \A it : Step(s, it) = A!CycleStep(s, it) /\ Value(s, it) = it
           /\ \A it, other : Same(s, it, other) <=> it = other
           /\ \A p : After(s, p) = IF s.n = 0 THEN 1 ELSE ((p - 1) % s.n) + 1
           /\ s.n = 0 => Yields(s) = << >> /\ P!Many(s) = 0
           /\ s.n # 0 => Yields(s) = [k \in 1 .. MaxPlace |-> ((k - 1) % s.n) + 1]
           /\ s.n # 0 => P!Many(s) = MaxPlace
<1>1. Adaptor(s) /\ s.tool = "cycle" /\ s.n \in Nat
  BY Adapts DEF Turning, A!Adapting
<1>2. /\ Begin(s) = 1 /\ Finish(s) = s.n + 1
      /\ \A it : Step(s, it) = A!CycleStep(s, it) /\ Value(s, it) = it
      /\ \A it, other : Same(s, it, other) <=> it = other
      /\ \A p : After(s, p) = IF s.n = 0 THEN 1 ELSE ((p - 1) % s.n) + 1
      /\ Yields(s) = IF s.n = 0 THEN << >> ELSE [k \in 1 .. MaxPlace |-> ((k - 1) % s.n) + 1]
  BY <1>1 DEF Adaptor, A!Begin, A!Finish, A!Step, A!Value, A!Same, A!Yields, After
<1>3. MaxPlace \in Nat
  BY BoundAssumption
<1> QED
  BY <1>1, <1>2, <1>3 DEF P!Many

LEMMA CycleFaithful ==
    ASSUME NEW s, Turning(s)
    PROVE  P!Faithful(s, WalkOf(s)) /\ Bounded(s)
<1>1. ASSUME s.n = 0 PROVE P!Faithful(s, WalkOf(s))
  <2>1. P!YieldsSequence(s) /\ P!Many(s) = 0 /\ Len(Yields(s)) = 0
    BY <1>1, CycleIs DEF P!YieldsSequence, P!Many
  <2>2. After(s, 1) = Begin(s)
    BY <1>1, CycleIs
  <2>3. \A p \in 1 .. 0 + 1 :
            /\ Same(s, After(s, p), Finish(s)) <=> p = 0 + 1
            /\ Same(s, Finish(s), After(s, p)) <=> p = 0 + 1
    BY <1>1, CycleIs
  <2>4. Same(s, Finish(s), Finish(s))
    BY CycleIs
  <2>5. \A p \in 1 .. 0 : FALSE
    OBVIOUS
  <2> QED
    BY <2>1, <2>2, <2>3, <2>4, <2>5, FaithfulFrom
<1>2. ASSUME s.n # 0 PROVE P!Faithful(s, WalkOf(s))
  <2>0. s.n \in Nat \ {0} /\ MaxPlace \in Nat \ {0}
    BY <1>2, CycleIs, BoundAssumption
  <2>1. P!YieldsSequence(s) /\ P!Many(s) = MaxPlace /\ Len(Yields(s)) = MaxPlace
    BY <1>2, <2>0, CycleIs DEF P!YieldsSequence, P!Many
  <2>2. After(s, 1) = Begin(s)
    <3>1. 0 % s.n = 0
      BY <2>0
    <3> QED
      BY <1>2, <3>1, CycleIs
  <2>3. ASSUME NEW p \in 1 .. MaxPlace + 1
        PROVE  /\ After(s, p) = ((p - 1) % s.n) + 1 /\ (p - 1) % s.n \in 0 .. s.n - 1
               /\ After(s, p + 1) = (((p - 1) + 1) % s.n) + 1
    <3>1. p - 1 \in Int /\ (p + 1) - 1 = (p - 1) + 1
      BY <2>0
    <3>2. (p - 1) % s.n \in 0 .. s.n - 1
      BY <2>0, <3>1, Rest
    <3> QED
      BY <1>2, <3>1, <3>2, CycleIs
  <2>4. ASSUME NEW p \in 1 .. MaxPlace
        PROVE  Step(s, After(s, p)) = After(s, p + 1) /\ Value(s, After(s, p)) = Yields(s)[p]
    <3>1. p - 1 \in Nat /\ p \in 1 .. MaxPlace + 1
      BY <2>0
    <3>2. ((p - 1) + 1) % s.n = IF ((p - 1) % s.n) + 1 = s.n THEN 0 ELSE ((p - 1) % s.n) + 1
      BY <2>0, <3>1, RestOfNext
    <3>3. A!CycleStep(s, After(s, p)) = After(s, p + 1)
      BY <2>0, <2>3, <3>1, <3>2 DEF A!CycleStep
    <3>4. Value(s, After(s, p)) = After(s, p)
      BY CycleIs
    <3>5. Step(s, After(s, p)) = A!CycleStep(s, After(s, p))
      BY CycleIs
    <3>6. Yields(s) = [k \in 1 .. MaxPlace |-> ((k - 1) % s.n) + 1]
      BY <1>2, CycleIs
    <3>7. Yields(s)[p] = ((p - 1) % s.n) + 1
      BY <3>6
    <3> QED
      BY <2>3, <3>1, <3>3, <3>4, <3>5, <3>7
  <2>5. ASSUME NEW p \in 1 .. MaxPlace + 1, P!Reached(p)
        PROVE  /\ p # MaxPlace + 1
               /\ ~Same(s, After(s, p), Finish(s)) /\ ~Same(s, Finish(s), After(s, p))
    <3>1. After(s, p) \in 1 .. s.n
      BY <2>0, <2>3
    <3>2. After(s, p) # s.n + 1
      BY <2>0, <3>1
    <3>3. p # MaxPlace + 1
      BY <2>0, <2>5 DEF P!Reached
    <3>4. Finish(s) = s.n + 1 /\ \A it, other : Same(s, it, other) <=> it = other
      BY CycleIs
    <3> QED
      BY <3>2, <3>3, <3>4
  <2>6. Same(s, Finish(s), Finish(s))
    BY CycleIs
  <2> QED
    BY <2>0, <2>1, <2>2, <2>4, <2>5, <2>6, FaithfulFrom
<1>3. Bounded(s)
  <2>1. s.n \in Nat /\ Finish(s) = s.n + 1 /\ s.tool = "cycle" /\ P!Many(s) \in Nat
    BY CycleIs, BoundAssumption DEF Turning
  <2>2. \A p \in 1 .. P!Many(s) + 1 : After(s, p) \in 0 .. s.n + 1
    <3>1. CASE s.n = 0
      BY <3>1, CycleIs
    <3>2. CASE s.n # 0
      <4> TAKE p \in 1 .. P!Many(s) + 1
      <4>1. p - 1 \in Int
        BY <2>1
      <4>2. (p - 1) % s.n \in 0 .. s.n - 1
        BY <2>1, <3>2, <4>1, Rest
      <4> QED
        BY <2>1, <3>2, <4>2, CycleIs
    <3> QED
      BY <3>1, <3>2
  <2> QED
    BY <2>1, <2>2 DEF Bounded, A!Inside
<1> QED
  BY <1>1, <1>2, <1>3

(* which are equal again a turn later, but for end() *)
LEMMA CycleTurns ==
    ASSUME NEW s, Turning(s), NEW p \in 1 .. P!Many(s) + 1, NEW q \in 1 .. P!Many(s) + 1, NEW it,
           NEW other, P!Stands(s, WalkOf(s), it, p), P!Stands(s, WalkOf(s), other, q)
    PROVE  Same(s, it, other) <=>
               \/ p = q
               \/ p # P!Many(s) + 1 /\ q # P!Many(s) + 1 /\ (p - q) % s.n = 0
<1> DEFINE n == P!Many(s)
<1>1. /\ WalkOf(s)[p] = After(s, p) /\ WalkOf(s)[q] = After(s, q)
      /\ P!Faithful(s, WalkOf(s)) /\ n \in Nat
      /\ Same(s, it, Finish(s)) <=> p = n + 1
      /\ Same(s, Finish(s), other) <=> q = n + 1
  <2>1. P!Faithful(s, WalkOf(s))
    BY CycleFaithful
  <2>2. n = Len(Yields(s)) /\ n \in Nat
    BY <2>1 DEF P!Faithful, P!YieldsSequence, P!Many
  <2>3. WalkOf(s)[p] = After(s, p) /\ WalkOf(s)[q] = After(s, q)
    BY <2>2 DEF WalkOf
  <2>4. Same(s, it, Finish(s)) <=> p = n + 1
    BY <2>1 DEF P!Faithful
  <2>5. Same(s, Finish(s), other) <=> q = n + 1
    BY <2>1 DEF P!Faithful
  <2> QED
    BY <2>1, <2>2, <2>3, <2>4, <2>5
<1> HIDE DEF n
<1>2. /\ it = After(s, p) \/ (p = n + 1 /\ it = Finish(s))
      /\ other = After(s, q) \/ (q = n + 1 /\ other = Finish(s))
  BY <1>1 DEF P!Stands, n
<1>3. \A x, y : Same(s, x, y) <=> x = y
  BY CycleIs
<1>4. CASE p = n + 1 \/ q = n + 1
  BY <1>1, <1>2, <1>3, <1>4 DEF n
<1>5. CASE p # n + 1 /\ q # n + 1
  <2>1. it = After(s, p) /\ other = After(s, q) /\ s.n \in Nat
    BY <1>2, <1>5, CycleIs
  <2>2. s.n # 0
    BY <1>5, CycleIs DEF n
  <2>3. After(s, p) = ((p - 1) % s.n) + 1 /\ After(s, q) = ((q - 1) % s.n) + 1
    BY <2>2, CycleIs
  <2>4. p - 1 \in Int /\ q - 1 \in Int /\ (p - 1) - (q - 1) = p - q
    OBVIOUS
  <2>5. (p - 1) % s.n = (q - 1) % s.n <=> (p - q) % s.n = 0
    BY <2>1, <2>2, <2>4, RestOfDifference
  <2>6. (p - 1) % s.n \in 0 .. s.n - 1 /\ (q - 1) % s.n \in 0 .. s.n - 1
    <3>1. s.n \in Nat \ {0}
      BY <2>1, <2>2
    <3> QED
      BY <2>4, <3>1, Rest
  <2>7. Same(s, it, other) <=> (p - q) % s.n = 0
    BY <1>3, <2>1, <2>3, <2>5, <2>6
  <2>8. p = q => Same(s, it, other)
    BY <1>3, <2>1
  <2> QED
    BY <1>5, <2>7, <2>8 DEF n
<1> QED
  BY <1>4, <1>5

----------------------------------------------------------------------------
(* Sets that are listed in order *)

(* R orders T strictly, and totally *)
Orders(R, T) ==
    /\ \A t \in T : <<t, t>> \notin R
    /\ \A t, u, v \in T : <<t, u>> \in R /\ <<u, v>> \in R => <<t, v>> \in R
    /\ \A t, u \in T : t = u \/ <<t, u>> \in R \/ <<u, t>> \in R

Under(T, R, t) == {u \in T : <<u, t>> \in R}

(* the elements of T, from the first to the last *)
Listing(T, R) ==
    [k \in 1 .. Cardinality(T) |-> CHOOSE t \in T : Cardinality(Under(T, R, t)) = k - 1]

(* u is the next of T after t *)
Follows(T, R, t, u) ==
    <<t, u>> \in R /\ \A v \in T : <<v, u>> \in R => v = t \/ <<v, t>> \in R

LEMMA UnderGrows ==
    ASSUME NEW T, IsFiniteSet(T), NEW R, Orders(R, T), NEW t \in T, NEW u \in T, <<t, u>> \in R
    PROVE  /\ Cardinality(Under(T, R, t)) < Cardinality(Under(T, R, u))
<1>1. Under(T, R, t) \in SUBSET Under(T, R, u)
  BY DEF Under, Orders
<1>2. t \in Under(T, R, u) /\ t \notin Under(T, R, t)
  BY DEF Under, Orders
<1>3. IsFiniteSet(Under(T, R, u)) /\ IsFiniteSet(Under(T, R, t))
  <2>1. Under(T, R, u) \in SUBSET T /\ Under(T, R, t) \in SUBSET T
    BY DEF Under
  <2> QED
    BY <2>1, FS_Subset
<1>4. /\ Cardinality(Under(T, R, t)) <= Cardinality(Under(T, R, u))
      /\ Cardinality(Under(T, R, t)) # Cardinality(Under(T, R, u))
  BY <1>1, <1>2, <1>3, FS_Subset
<1>5. Cardinality(Under(T, R, t)) \in Nat /\ Cardinality(Under(T, R, u)) \in Nat
  BY <1>3, FS_CardinalityType
<1> QED
  BY <1>4, <1>5

(* as many numbers as elements, so that each is of one *)
LEMMA Listed ==
    ASSUME NEW T, IsFiniteSet(T), NEW R, Orders(R, T)
    PROVE  /\ Cardinality(T) \in Nat
           /\ \A t \in T : /\ Cardinality(Under(T, R, t)) \in 0 .. Cardinality(T) - 1
                           /\ Listing(T, R)[Cardinality(Under(T, R, t)) + 1] = t
           /\ \A k \in 1 .. Cardinality(T) :
                /\ Listing(T, R)[k] \in T
                /\ Cardinality(Under(T, R, Listing(T, R)[k])) = k - 1
<1> DEFINE n == Cardinality(T)
           Rank(t) == Cardinality(Under(T, R, t))
           f == [t \in T |-> Rank(t) + 1]
<1>1. n \in Nat
  BY FS_CardinalityType
<1>2. ASSUME NEW t \in T PROVE Rank(t) \in 0 .. n - 1
  <2>1. Under(T, R, t) \in SUBSET T /\ t \notin Under(T, R, t)
    BY DEF Under, Orders
  <2>2. /\ IsFiniteSet(Under(T, R, t)) /\ Rank(t) <= n
        /\ Rank(t) # n
    BY <2>1, FS_Subset
  <2>3. Rank(t) \in Nat
    BY <2>2, FS_CardinalityType
  <2> QED
    BY <1>1, <2>2, <2>3
<1>3. ASSUME NEW t \in T, NEW u \in T, Rank(t) = Rank(u) PROVE t = u
  <2>1. ~(Rank(t) < Rank(u)) /\ ~(Rank(u) < Rank(t))
    BY <1>1, <1>2, <1>3
  <2>2. <<t, u>> \notin R /\ <<u, t>> \notin R
    BY <2>1, UnderGrows
  <2> QED
    BY <2>2 DEF Orders
<1> HIDE DEF n, Rank
<1>4. f \in Injection(T, 1 .. n)
  <2>1. \A t \in T : f[t] = Rank(t) + 1 /\ Rank(t) \in 0 .. n - 1
    BY <1>2
  <2>2. f \in [T -> 1 .. n]
    BY <1>1, <2>1
  <2>3. \A t, u \in T : f[t] = f[u] => t = u
    BY <1>1, <1>3, <2>1
  <2> QED
    BY <2>2, <2>3 DEF Injection, IsInjective
<1>5. f \in Surjection(T, 1 .. n)
  <2>1. IsFiniteSet(1 .. n) /\ Cardinality(1 .. n) = n
    BY <1>1, FS_Interval
  <2>2. Cardinality(T) = n
    BY DEF n
  <2> QED
    BY <1>4, <2>1, <2>2, FS_Injection
<1>6. ASSUME NEW k \in 1 .. n PROVE \E t \in T : Rank(t) = k - 1
  <2>1. PICK t \in T : f[t] = k
    BY <1>5 DEF Surjection
  <2>2. Rank(t) + 1 = k /\ Rank(t) \in Int
    BY <1>2, <2>1
  <2> QED
    BY <2>2
<1>7. ASSUME NEW k \in 1 .. n
      PROVE  Listing(T, R)[k] \in T /\ Rank(Listing(T, R)[k]) = k - 1
  <2>1. Listing(T, R)[k] = CHOOSE t \in T : Rank(t) = k - 1
    BY DEF Listing, n, Rank
  <2> QED
    BY <1>6, <2>1
<1>8. ASSUME NEW t \in T PROVE Listing(T, R)[Rank(t) + 1] = t
  <2>1. Rank(t) + 1 \in 1 .. n /\ (Rank(t) + 1) - 1 = Rank(t)
    BY <1>1, <1>2
  <2> QED
    BY <1>3, <1>7, <2>1
<1> QED
  BY <1>1, <1>2, <1>7, <1>8 DEF n, Rank

LEMMA ListedFirst ==
    ASSUME NEW T, IsFiniteSet(T), NEW R, Orders(R, T), NEW t \in T, \A u \in T : <<u, t>> \notin R
    PROVE  Cardinality(Under(T, R, t)) = 0
<1>1. Under(T, R, t) = {}
  BY DEF Under
<1> QED
  BY <1>1, FS_EmptySet

LEMMA ListedNext ==
    ASSUME NEW T, IsFiniteSet(T), NEW R, Orders(R, T), NEW t \in T, NEW u \in T,
           Follows(T, R, t, u)
    PROVE  Cardinality(Under(T, R, u)) = Cardinality(Under(T, R, t)) + 1
<1>1. Under(T, R, u) = Under(T, R, t) \cup {t} /\ t \notin Under(T, R, t)
  BY DEF Under, Orders, Follows
<1>2. IsFiniteSet(Under(T, R, t))
  <2>1. Under(T, R, t) \in SUBSET T
    BY DEF Under
  <2> QED
    BY <2>1, FS_Subset
<1> QED
  BY <1>1, <1>2, FS_AddElement

LEMMA ListedLast ==
    ASSUME NEW T, IsFiniteSet(T), NEW R, Orders(R, T), NEW t \in T, \A u \in T : <<t, u>> \notin R
    PROVE  Cardinality(T) = Cardinality(Under(T, R, t)) + 1
<1>1. T = Under(T, R, t) \cup {t} /\ t \notin Under(T, R, t)
  BY ZenonT(60) DEF Under, Orders
<1>2. IsFiniteSet(Under(T, R, t))
  <2>1. Under(T, R, t) \in SUBSET T
    BY DEF Under
  <2> QED
    BY <2>1, FS_Subset
<1> QED
  BY <1>1, <1>2, FS_AddElement

(* a sequence of the elements with each at its number *)
LEMMA ListingIs ==
    ASSUME NEW T, IsFiniteSet(T), NEW R, Orders(R, T), NEW e,
           e = [k \in 1 .. Cardinality(T) |-> e[k]],
           \A k \in 1 .. Cardinality(T) : e[k] \in T /\ Cardinality(Under(T, R, e[k])) = k - 1
    PROVE  e = Listing(T, R)
<1> DEFINE n == Cardinality(T)
           f == Listing(T, R)
<1>1. /\ n \in Nat
      /\ \A t \in T : f[Cardinality(Under(T, R, t)) + 1] = t
  BY Listed
<1>2. ASSUME NEW k \in 1 .. n PROVE e[k] = f[k]
  <2>1. Cardinality(Under(T, R, e[k])) + 1 = k
    <3>1. Cardinality(Under(T, R, e[k])) = k - 1 /\ k \in Int
      BY <1>2
    <3> QED
      BY <3>1
  <2>2. e[k] \in T
    BY <1>2
  <2>3. f[Cardinality(Under(T, R, e[k])) + 1] = e[k]
    BY <1>1, <2>2
  <2> QED
    BY <2>1, <2>3
<1>3. f = [k \in 1 .. n |-> f[k]] /\ e = [k \in 1 .. n |-> e[k]]
  BY DEF Listing
<1> HIDE DEF f, n
<1> QED
  BY <1>2, <1>3 DEF f

----------------------------------------------------------------------------
(* Tools that list a set *)

(* no two iterators of the others are equal, or those of cycle a turn apart *)
Told(s) ==
    /\ ~Turning(s) /\ s.tool # "endless" /\ s.tool # "product"
    /\ ~(s.tool = "range" /\ s.kind = "float" /\ s.step < 0)

(* no iterator of an input is outside it *)
Inner(s, it) ==
    /\ s.tool \in S!Selecting => S!Inside(s, it)
    /\ s.tool \in A!Adapting => A!Inside(s, it)

(* what is asked of a walk *)
Kept(s, w) ==
    /\ P!Faithful(s, w)
    /\ Told(s) => P!Tells(s, w)
    /\ \A p \in 1 .. P!Many(s) + 1 : \A it : P!Stands(s, w, it, p) => Inner(s, it)

(* begin() has a walk, and what the increments keep holds along it *)
LEMMA WalkIn ==
    ASSUME NEW s, NEW n \in Nat, NEW G, Begin(s) \in G[1],
           \A p \in 1 .. n : \A it \in G[p] : Step(s, it) \in G[p + 1]
    PROVE  \E w : /\ w[1] = Begin(s)
                  /\ \A p \in 1 .. n : w[p + 1] = Step(s, w[p])
                  /\ \A p \in 1 .. n + 1 : w[p] \in G[p]
<1> DEFINE To(w, m) == w[1] = Begin(s) /\ \A p \in 1 .. m : w[p + 1] = Step(s, w[p])
           None == {m \in Nat : ~\E w : To(w, m)}
<1>1. None = {}
  <2> SUFFICES ASSUME None # {} PROVE FALSE
    OBVIOUS
  <2> DEFINE m == A!Min(None)
  <2>1. m \in None /\ \A u \in None : m <= u
    <3>1. None \in SUBSET Nat
      OBVIOUS
    <3> HIDE DEF None
    <3> QED
      BY <3>1, Least
  <2> HIDE DEF m
  <2>2. m \in Nat /\ ~\E w : To(w, m)
    BY <2>1
  <2>3. m # 0
    <3> DEFINE w == [p \in {1} |-> Begin(s)]
    <3>1. To(w, 0)
      OBVIOUS
    <3> QED
      BY <2>2, <3>1
  <2>4. m - 1 \in Nat /\ ~(m <= m - 1)
    BY <2>2, <2>3
  <2>5. m - 1 \notin None
    BY <2>1, <2>4
  <2>6. PICK w : To(w, m - 1)
    BY <2>4, <2>5
  <2> DEFINE v == [p \in 1 .. m + 1 |-> IF p = m + 1 THEN Step(s, w[m]) ELSE w[p]]
  <2>7. To(v, m)
    <3>1. v[1] = Begin(s)
      BY <2>2, <2>3, <2>6
    <3>2. ASSUME NEW p \in 1 .. m PROVE v[p + 1] = Step(s, v[p])
      <4>1. v[p] = w[p]
        BY <2>2
      <4>2. CASE p = m
        BY <2>2, <4>1, <4>2
      <4>3. CASE p # m
        <5>1. p \in 1 .. m - 1 /\ p + 1 \in 1 .. m
          BY <2>2, <4>3
        <5>2. v[p + 1] = w[p + 1]
          BY <2>2, <5>1
        <5> QED
          BY <2>6, <4>1, <5>1, <5>2
      <4> QED
        BY <4>2, <4>3
    <3> QED
      BY <3>1, <3>2
  <2> QED
    BY <2>2, <2>7
<1>2. PICK w : To(w, n)
  BY <1>1
<1> DEFINE Out == {p \in 1 .. n + 1 : w[p] \notin G[p]}
<1>3. Out = {}
  <2> SUFFICES ASSUME Out # {} PROVE FALSE
    OBVIOUS
  <2> DEFINE m == A!Min(Out)
  <2>1. m \in Out /\ \A u \in Out : m <= u
    <3>1. Out \in SUBSET Nat
      OBVIOUS
    <3> HIDE DEF Out
    <3> QED
      BY <3>1, Least
  <2> HIDE DEF m
  <2>2. m \in 1 .. n + 1 /\ w[m] \notin G[m]
    BY <2>1
  <2>3. m # 1
    BY <1>2, <2>2
  <2>4. m - 1 \in 1 .. n /\ (m - 1) + 1 = m /\ ~(m <= m - 1)
    BY <2>2, <2>3
  <2>5. w[m - 1] \in G[m - 1]
    BY <2>1, <2>4
  <2>6. w[m] = Step(s, w[m - 1])
    BY <1>2, <2>4
  <2> QED
    BY <2>2, <2>4, <2>5, <2>6
<1> QED
  BY <1>2, <1>3

(* A tool that yields T in the order R: On[t] are its iterators at t, Done   *)
(* those after the last.                                                    *)
Lists(s, T, R, On, Done) ==
    /\ IsFiniteSet(T) /\ Orders(R, T) /\ Yields(s) = Listing(T, R)
    /\ T = {} => Begin(s) \in Done
    /\ T # {} => \E t \in T : (\A u \in T : <<u, t>> \notin R) /\ Begin(s) \in On[t]
    /\ \A t \in T : \A it \in On[t] :
         /\ Value(s, it) = t
         /\ \/ \E u \in T : Follows(T, R, t, u) /\ Step(s, it) \in On[u]
            \/ (\A u \in T : <<t, u>> \notin R) /\ Step(s, it) \in Done
         /\ ~Same(s, it, Finish(s)) /\ ~Same(s, Finish(s), it)
         /\ Inner(s, it)
    /\ \A it \in Done : Same(s, it, Finish(s)) /\ Same(s, Finish(s), it) /\ Inner(s, it)
    /\ Same(s, Finish(s), Finish(s)) /\ Inner(s, Finish(s))

Parts(s, T, On, Done) ==
    /\ \A t, u \in T : \A it \in On[t], other \in On[u] : Same(s, it, other) <=> t = u
    /\ \A t \in T : \A it \in On[t], last \in Done : ~Same(s, it, last) /\ ~Same(s, last, it)
    /\ \A last \in Done : Same(s, last, last)

LEMMA ListsKeeps ==
    ASSUME NEW s, NEW T, NEW R, NEW On, NEW Done, Lists(s, T, R, On, Done),
           Told(s) => Parts(s, T, On, Done)
    PROVE  \E w : Kept(s, w)
<1> DEFINE n == Cardinality(T)
           e == Listing(T, R)
           G == [p \in 1 .. n + 1 |-> IF p = n + 1 THEN Done ELSE On[e[p]]]
<1>1. /\ n \in Nat /\ IsFiniteSet(T) /\ Orders(R, T)
      /\ \A k \in 1 .. n : e[k] \in T /\ Cardinality(Under(T, R, e[k])) = k - 1
      /\ \A t \in T : /\ Cardinality(Under(T, R, t)) \in 0 .. n - 1
                      /\ e[Cardinality(Under(T, R, t)) + 1] = t
  BY Listed DEF Lists
<1>2. Yields(s) = e /\ DOMAIN e = 1 .. n /\ Len(e) = n /\ P!Many(s) = n
  <2>1. Yields(s) = e
    BY DEF Lists
  <2>2. e \in Seq(T) /\ DOMAIN e = 1 .. n
    <3>1. e = [k \in 1 .. n |-> e[k]]
      BY DEF Listing
    <3> HIDE DEF e
    <3> QED
      BY <1>1, <3>1
  <2> HIDE DEF e
  <2>3. Len(e) = n
    BY <1>1, <2>2
  <2> QED
    BY <2>1, <2>2, <2>3 DEF P!Many
<1> HIDE DEF n, e
<1>3. /\ \A p \in 1 .. n : G[p] = On[e[p]]
      /\ G[n + 1] = Done
  BY <1>1
<1> HIDE DEF G
<1>4. Begin(s) \in G[1]
  <2>1. CASE T = {}
    <3>1. n = 0
      BY <2>1, FS_EmptySet DEF n
    <3> QED
      BY <1>3, <2>1, <3>1 DEF Lists
  <2>2. CASE T # {}
    <3>1. PICK t \in T : (\A u \in T : <<u, t>> \notin R) /\ Begin(s) \in On[t]
      BY <2>2 DEF Lists
    <3>2. Cardinality(Under(T, R, t)) = 0
      BY <1>1, <3>1, ListedFirst
    <3>3. e[1] = t /\ 1 \in 1 .. n
      <4>1. 0 \in 0 .. n - 1 /\ e[0 + 1] = t
        BY <1>1, <3>2
      <4> QED
        BY <1>1, <4>1
    <3> QED
      BY <1>3, <3>1, <3>3
  <2> QED
    BY <2>1, <2>2
<1>5. ASSUME NEW p \in 1 .. n, NEW it \in G[p]
      PROVE  /\ e[p] \in T /\ it \in On[e[p]]
             /\ Step(s, it) \in G[p + 1]
  <2>1. /\ e[p] \in T /\ it \in On[e[p]] /\ p \in Nat
        /\ Cardinality(Under(T, R, e[p])) = p - 1
    BY <1>1, <1>3, <1>5
  <2>2. CASE \E u \in T : Follows(T, R, e[p], u) /\ Step(s, it) \in On[u]
    <3>1. PICK u \in T : Follows(T, R, e[p], u) /\ Step(s, it) \in On[u]
      BY <2>2
    <3>2. Cardinality(Under(T, R, u)) = (p - 1) + 1
      BY <1>1, <2>1, <3>1, ListedNext
    <3>3. Cardinality(Under(T, R, u)) = p
      BY <2>1, <3>2
    <3>4. p \in 0 .. n - 1 /\ e[p + 1] = u
      BY <1>1, <3>3
    <3>5. p + 1 \in 1 .. n
      BY <1>1, <3>4
    <3> QED
      BY <1>3, <2>1, <3>1, <3>4, <3>5
  <2>3. CASE (\A u \in T : <<e[p], u>> \notin R) /\ Step(s, it) \in Done
    <3>1. n = (p - 1) + 1
      BY <1>1, <2>1, <2>3, ListedLast DEF n
    <3>2. n = p
      BY <2>1, <3>1
    <3> QED
      BY <1>3, <2>1, <2>3, <3>2
  <2> QED
    BY <2>1, <2>2, <2>3 DEF Lists
<1>6. PICK w : /\ w[1] = Begin(s)
               /\ \A p \in 1 .. n : w[p + 1] = Step(s, w[p])
               /\ \A p \in 1 .. n + 1 : w[p] \in G[p]
  <2>1. \A p \in 1 .. n : \A it \in G[p] : Step(s, it) \in G[p + 1]
    BY <1>5
  <2> QED
    BY <1>1, <1>4, <2>1, WalkIn
<1>7. ASSUME NEW p \in 1 .. n + 1
      PROVE  \/ p \in 1 .. n /\ e[p] \in T /\ w[p] \in On[e[p]]
             \/ p = n + 1 /\ w[p] \in Done
  <2>1. w[p] \in G[p]
    BY <1>6
  <2>2. CASE p \in 1 .. n
    BY <1>5, <2>1, <2>2
  <2>3. CASE p = n + 1
    BY <1>3, <2>1, <2>3
  <2> QED
    BY <1>1, <2>2, <2>3
<1>8. ASSUME NEW p \in 1 .. n + 1, NEW it, P!Stands(s, w, it, p)
      PROVE  \/ p \in 1 .. n /\ e[p] \in T /\ it \in On[e[p]] /\ it = w[p]
             \/ p = n + 1 /\ it \in Done /\ it = w[p]
             \/ p = n + 1 /\ it = Finish(s)
  <2>1. \/ it = w[p]
        \/ p = n + 1 /\ it = Finish(s)
    BY <1>2, <1>8 DEF P!Stands
  <2> QED
    BY <1>7, <2>1
<1>9. P!Faithful(s, w)
  <2>1. P!YieldsSequence(s)
    BY <1>1, <1>2 DEF P!YieldsSequence
  <2>2. P!IsWalk(s, w)
    BY <1>2, <1>6 DEF P!IsWalk
  <2>3. \A p \in 1 .. n : Value(s, w[p]) = Yields(s)[p]
    <3> TAKE p \in 1 .. n
    <3>1. p \in 1 .. n + 1 /\ p # n + 1
      BY <1>1
    <3>2. e[p] \in T /\ w[p] \in On[e[p]]
      BY <1>7, <3>1
    <3>3. Value(s, w[p]) = e[p]
      BY <3>2 DEF Lists
    <3> QED
      BY <1>2, <3>3
  <2>4. ASSUME NEW p \in 1 .. n + 1, NEW it, P!Stands(s, w, it, p)
        PROVE  /\ Same(s, it, Finish(s)) <=> p = n + 1
               /\ Same(s, Finish(s), it) <=> p = n + 1
    <3>1. CASE p \in 1 .. n /\ e[p] \in T /\ it \in On[e[p]]
      <4>1. p # n + 1
        BY <1>1, <3>1
      <4>2. ~Same(s, it, Finish(s)) /\ ~Same(s, Finish(s), it)
        BY <3>1 DEF Lists
      <4> QED
        BY <4>1, <4>2
    <3>2. CASE p = n + 1 /\ it \in Done
      BY <3>2 DEF Lists
    <3>3. CASE p = n + 1 /\ it = Finish(s)
      BY <3>3 DEF Lists
    <3> QED
      BY <1>8, <2>4, <3>1, <3>2, <3>3
  <2> QED
    BY <1>2, <2>1, <2>2, <2>3, <2>4 DEF P!Faithful
<1>10. ASSUME Told(s) PROVE P!Tells(s, w)
  <2>1. Parts(s, T, On, Done)
    BY <1>10
  <2>2. ASSUME NEW p \in 1 .. n + 1, NEW q \in 1 .. n + 1, NEW it, NEW other,
               P!Stands(s, w, it, p), P!Stands(s, w, other, q)
        PROVE  Same(s, it, other) <=> p = q
    <3>1. CASE p \in 1 .. n /\ q \in 1 .. n
      <4>0. p # n + 1 /\ q # n + 1
        BY <1>1, <3>1
      <4>1. e[p] \in T /\ it \in On[e[p]]
        BY <1>8, <2>2, <4>0
      <4>2. e[q] \in T /\ other \in On[e[q]]
        BY <1>8, <2>2, <4>0
      <4>3. Same(s, it, other) <=> e[p] = e[q]
        BY <2>1, <4>1, <4>2 DEF Parts
      <4>4. e[p] = e[q] => p = q
        <5>1. Cardinality(Under(T, R, e[p])) = p - 1 /\ Cardinality(Under(T, R, e[q])) = q - 1
          BY <1>1, <3>1
        <5>2. p \in Int /\ q \in Int
          BY <3>1
        <5> QED
          BY <5>1, <5>2
      <4> QED
        BY <4>3, <4>4
    <3>2. CASE p \in 1 .. n /\ q = n + 1
      <4>0. p # n + 1
        BY <1>1, <3>2
      <4>1. e[p] \in T /\ it \in On[e[p]]
        BY <1>8, <2>2, <4>0
      <4>2. other \in Done \/ other = Finish(s)
        <5>1. q \notin 1 .. n
          BY <1>1, <3>2
        <5> QED
          BY <1>8, <2>2, <5>1
      <4>3. ~Same(s, it, other)
        BY <2>1, <4>1, <4>2 DEF Parts, Lists
      <4> QED
        BY <3>2, <4>0, <4>3
    <3>3. CASE p = n + 1 /\ q \in 1 .. n
      <4>0. q # n + 1
        BY <1>1, <3>3
      <4>1. e[q] \in T /\ other \in On[e[q]]
        BY <1>8, <2>2, <4>0
      <4>2. it \in Done \/ it = Finish(s)
        <5>1. p \notin 1 .. n
          BY <1>1, <3>3
        <5> QED
          BY <1>8, <2>2, <5>1
      <4>3. ~Same(s, it, other)
        BY <2>1, <4>1, <4>2 DEF Parts, Lists
      <4> QED
        BY <3>3, <4>0, <4>3
    <3>4. CASE p = n + 1 /\ q = n + 1
      <4>1. n + 1 \notin 1 .. n
        BY <1>1
      <4>2. it = Finish(s) \/ (it = w[n + 1] /\ it \in Done)
        BY <1>8, <2>2, <3>4, <4>1
      <4>3. other = Finish(s) \/ (other = w[n + 1] /\ other \in Done)
        BY <1>8, <2>2, <3>4, <4>1
      <4>4. Same(s, it, other)
        BY <2>1, <4>2, <4>3 DEF Parts, Lists
      <4> QED
        BY <3>4, <4>4
    <3>5. p \in 1 .. n \/ p = n + 1
      BY <1>1
    <3>6. q \in 1 .. n \/ q = n + 1
      BY <1>1
    <3> QED
      BY <3>1, <3>2, <3>3, <3>4, <3>5, <3>6
  <2> QED
    BY <1>2, <2>2 DEF P!Tells
<1>11. ASSUME NEW p \in 1 .. n + 1, NEW it, P!Stands(s, w, it, p) PROVE Inner(s, it)
  BY <1>8, <1>11 DEF Lists
<1> QED
  BY <1>2, <1>9, <1>10, <1>11 DEF Kept

(* numbers, from the least *)
Rising(T) == {e \in T \X T : e[1] < e[2]}

LEMMA AscendingIs ==
    ASSUME NEW T \in SUBSET Nat, IsFiniteSet(T)
    PROVE  Orders(Rising(T), T) /\ A!Ascending(T) = Listing(T, Rising(T))
<1> DEFINE R == Rising(T)
           n == Cardinality(T)
           e == A!Ascending(T)
<1>1. Orders(R, T)
  BY DEF Orders, Rising
<1>2. \A t \in T : {q \in T : q < t} = Under(T, R, t)
  BY DEF Under, Rising
<1>3. e = [k \in 1 .. n |-> CHOOSE p \in T : A!Cardinality({q \in T : q < p}) = k - 1]
  BY SameCardinality DEF A!Ascending
<1>4. e = [k \in 1 .. n |-> e[k]]
  BY <1>3
<1>5. ASSUME NEW k \in 1 .. n PROVE e[k] \in T /\ Cardinality(Under(T, R, e[k])) = k - 1
  <2>1. e[k] = CHOOSE p \in T : A!Cardinality({q \in T : q < p}) = k - 1
    BY <1>3
  <2>2. Listing(T, R)[k] \in T /\ Cardinality(Under(T, R, Listing(T, R)[k])) = k - 1
    BY <1>1, Listed
  <2>3. \E p \in T : A!Cardinality({q \in T : q < p}) = k - 1
    BY <1>2, <2>2, SameCardinality
  <2>4. e[k] \in T /\ A!Cardinality({q \in T : q < e[k]}) = k - 1
    BY <2>1, <2>3
  <2> QED
    BY <1>2, <2>4, SameCardinality
<1> HIDE DEF R, e
<1>6. e = Listing(T, R)
  BY <1>1, <1>4, <1>5, ListingIs, ZenonT(60)
<1> QED
  BY <1>1, <1>6 DEF R, e

----------------------------------------------------------------------------
(* compress *)

Compressing(s) ==
    s.tool = "compress" /\ s.n \in Nat /\ \E m \in Nat : s.selectors \in [1 .. m -> BOOLEAN]

(* the common length of the input and of the selectors *)
Common(s) == A!Min({s.n, Len(s.selectors)})
Selected(s) == {p \in 1 .. Common(s) : s.selectors[p]}
Abreast(p) == [sub |-> p, selector |-> p]

LEMMA CompressIs ==
    ASSUME NEW s, Compressing(s)
    PROVE  /\ s.tool = "compress" /\ Adaptor(s)
           /\ s.n \in Nat /\ Len(s.selectors) \in Nat
           /\ s.selectors \in [1 .. Len(s.selectors) -> BOOLEAN]
           /\ Common(s) \in Nat /\ Common(s) <= s.n /\ Common(s) <= Len(s.selectors)
           /\ Common(s) = s.n \/ Common(s) = Len(s.selectors)
           /\ Selected(s) \in SUBSET Nat /\ IsFiniteSet(Selected(s))
<1>1. Adaptor(s)
  BY Adapts DEF Compressing, A!Adapting
<1>2. PICK m \in Nat : s.selectors \in [1 .. m -> BOOLEAN]
  BY DEF Compressing
<1>3. Len(s.selectors) = m
  BY <1>2
<1>4. s.n \in Nat
  BY DEF Compressing
<1>5. /\ Common(s) \in {s.n, Len(s.selectors)}
      /\ \A u \in {s.n, Len(s.selectors)} : Common(s) <= u
  <2>1. {s.n, Len(s.selectors)} \in SUBSET Nat /\ {s.n, Len(s.selectors)} # {}
    BY <1>3, <1>4
  <2> QED
    BY <2>1, Least DEF Common
<1>6. Common(s) \in Nat
  BY <1>3, <1>4, <1>5
<1>7. Selected(s) \in SUBSET Nat /\ IsFiniteSet(Selected(s))
  <2>1. Selected(s) \in SUBSET (1 .. Common(s)) /\ IsFiniteSet(1 .. Common(s))
    BY <1>6, FS_Interval DEF Selected
  <2> QED
    BY <1>6, <2>1, FS_Subset
<1> QED
  BY <1>1, <1>2, <1>3, <1>4, <1>5, <1>6, <1>7 DEF Compressing

(* skip_failures stops at the next element that is selected, or at the end  *)
LEMMA Skipped ==
    ASSUME NEW s, Compressing(s), NEW a \in 1 .. Common(s) + 1, NEW u \in a .. Common(s) + 1,
           \A j \in a .. u - 1 : ~s.selectors[j], u = Common(s) + 1 \/ s.selectors[u]
    PROVE  A!SkipFailures(s, Abreast(a)) = Abreast(u)
<1> DEFINE L == Len(s.selectors)
           Fails(k) == \A m \in 0 .. k - 1 :
                           a + m <= s.n /\ a + m <= L /\ ~s.selectors[a + m]
           Ends(k) == a + k = s.n + 1 \/ a + k = L + 1 \/ s.selectors[a + k]
<1>1. /\ s.n \in Nat /\ L \in Nat /\ Common(s) \in Nat /\ a \in Nat \ {0} /\ u \in Nat
      /\ Common(s) <= s.n /\ Common(s) <= L
      /\ Common(s) = s.n \/ Common(s) = L
  BY CompressIs
<1>2. u - a \in 0 .. s.n /\ a + (u - a) = u
  BY <1>1
<1>3. Fails(u - a)
  <2> TAKE m \in 0 .. u - a - 1
  <2>1. a + m \in a .. u - 1 /\ a + m <= Common(s)
    BY <1>1
  <2> QED
    BY <1>1, <2>1
<1>4. Ends(u - a)
  BY <1>1, <1>2
<1>5. ASSUME NEW k \in 0 .. s.n, Fails(k), Ends(k) PROVE k = u - a
  <2>1. ~(k < u - a)
    <3> SUFFICES ASSUME k < u - a PROVE FALSE
      OBVIOUS
    <3>1. a + k \in a .. u - 1 /\ a + k <= Common(s)
      BY <1>1
    <3>2. ~s.selectors[a + k]
      BY <3>1
    <3>3. a + k # s.n + 1 /\ a + k # L + 1
      BY <1>1, <3>1
    <3> QED
      BY <1>5, <3>2, <3>3
  <2>2. ~(u - a < k)
    <3> SUFFICES ASSUME u - a < k PROVE FALSE
      OBVIOUS
    <3>1. u - a \in 0 .. k - 1
      BY <1>1
    <3>2. u <= s.n /\ u <= L /\ ~s.selectors[u]
      BY <1>2, <1>5, <3>1
    <3> QED
      BY <1>1, <3>2
  <2> QED
    BY <1>1, <2>1, <2>2
<1>6. /\ Abreast(a).sub = a /\ Abreast(a).selector = a
  BY DEF Abreast
<1> DEFINE steps == CHOOSE k \in 0 .. s.n : Fails(k) /\ Ends(k)
<1>7. steps = u - a
  BY <1>2, <1>3, <1>4, <1>5
<1>8. A!SkipFailures(s, Abreast(a)) = [sub |-> a + steps, selector |-> a + steps]
  BY <1>6 DEF A!SkipFailures
<1> HIDE DEF steps
<1> QED
  BY <1>2, <1>7, <1>8 DEF Abreast

LEMMA SkipsTo ==
    ASSUME NEW s, Compressing(s), NEW a \in 1 .. Common(s) + 1
    PROVE  \/ \E u \in Selected(s) :
                /\ A!SkipFailures(s, Abreast(a)) = Abreast(u)
                /\ a <= u /\ \A v \in Selected(s) : v < a \/ u <= v
           \/ /\ A!SkipFailures(s, Abreast(a)) = Abreast(Common(s) + 1)
              /\ \A v \in Selected(s) : v < a
<1> DEFINE J == {j \in a .. Common(s) + 1 : j = Common(s) + 1 \/ s.selectors[j]}
           u == A!Min(J)
<1>1. Common(s) \in Nat
  BY CompressIs
<1>2. u \in J /\ \A j \in J : u <= j
  <2>1. J \in SUBSET Nat /\ Common(s) + 1 \in J
    BY <1>1
  <2> HIDE DEF J
  <2> QED
    BY <2>1, Least
<1> HIDE DEF u
<1>3. \A j \in a .. u - 1 : ~s.selectors[j]
  <2> TAKE j \in a .. u - 1
  <2>1. j \in a .. Common(s) + 1 /\ ~(u <= j)
    BY <1>1, <1>2
  <2> QED
    BY <1>2, <2>1
<1>4. A!SkipFailures(s, Abreast(a)) = Abreast(u)
  BY <1>2, <1>3, Skipped
<1>5. \A v \in Selected(s) : v < a \/ u <= v
  <2> TAKE v \in Selected(s)
  <2>1. v \in 1 .. Common(s) /\ s.selectors[v]
    BY DEF Selected
  <2>2. v >= a => v \in J
    BY <1>1, <2>1
  <2> QED
    BY <1>1, <1>2, <2>1, <2>2
<1>6. CASE u = Common(s) + 1
  <2>1. \A v \in Selected(s) : v < a
    BY <1>1, <1>5, <1>6 DEF Selected
  <2> QED
    BY <1>4, <1>6, <2>1
<1>7. CASE u # Common(s) + 1
  <2>1. u \in Selected(s) /\ a <= u
    BY <1>1, <1>2, <1>7 DEF Selected
  <2> QED
    BY <1>4, <1>5, <2>1
<1> QED
  BY <1>6, <1>7

LEMMA CompressKeeps ==
    ASSUME NEW s, Compressing(s)
    PROVE  \E w : Kept(s, w)
<1> DEFINE T == Selected(s)
           R == Rising(T)
           last == Abreast(Common(s) + 1)
           On == [t \in T |-> {Abreast(t)}]
           Done == {last}
<1>1. /\ s.tool = "compress" /\ Adaptor(s)
      /\ s.n \in Nat /\ Len(s.selectors) \in Nat
      /\ Common(s) \in Nat /\ Common(s) <= s.n /\ Common(s) <= Len(s.selectors)
      /\ Common(s) = s.n \/ Common(s) = Len(s.selectors)
      /\ T \in SUBSET Nat /\ IsFiniteSet(T) /\ T \in SUBSET (1 .. Common(s))
  BY CompressIs DEF Selected
<1>2. Orders(R, T) /\ Yields(s) = Listing(T, R)
  <2>1. Orders(R, T) /\ A!Ascending(T) = Listing(T, R)
    BY <1>1, AscendingIs
  <2>2. Yields(s) = A!Ascending(T)
    BY <1>1 DEF Adaptor, A!Yields, Selected, Common
  <2> QED
    BY <2>1, <2>2
<1>3. /\ Begin(s) = A!SkipFailures(s, Abreast(1))
      /\ Finish(s) = [sub |-> s.n + 1, selector |-> Len(s.selectors) + 1]
      /\ \A it : Step(s, it) = A!SkipFailures(s, A!Both(it))
      /\ \A it : Value(s, it) = it.sub
      /\ \A it, other : Same(s, it, other) <=> it.sub = other.sub \/ it.selector = other.selector
  <2>1. A!CompressEnd(s) = [sub |-> s.n + 1, selector |-> Len(s.selectors) + 1]
    <3> DEFINE L == Len(s.selectors)
               Fails(k) == \A m \in 0 .. k - 1 :
                     s.n + 1 + m <= s.n /\ L + 1 + m <= L /\ ~s.selectors[L + 1 + m]
               Ends(k) == \/ s.n + 1 + k = s.n + 1
                          \/ L + 1 + k = L + 1
                          \/ s.selectors[L + 1 + k]
               steps == CHOOSE k \in 0 .. s.n : Fails(k) /\ Ends(k)
    <3>1. A!CompressEnd(s) = [sub |-> s.n + 1 + steps, selector |-> L + 1 + steps]
      BY DEF A!CompressEnd, A!SkipFailures
    <3>2. Fails(0) /\ Ends(0) /\ 0 \in 0 .. s.n
      BY <1>1
    <3>3. ASSUME NEW k \in 0 .. s.n, Fails(k) PROVE k = 0
      <4>1. k # 0 => 0 \in 0 .. k - 1
        OBVIOUS
      <4>2. ~(s.n + 1 + 0 <= s.n)
        BY <1>1
      <4> QED
        BY <3>3, <4>1, <4>2
    <3>4. steps = 0
      BY <3>2, <3>3
    <3> HIDE DEF steps
    <3> QED
      BY <1>1, <3>1, <3>4
  <2>2. A!CompressBegin(s) = A!SkipFailures(s, Abreast(1))
    BY DEF A!CompressBegin, Abreast
  <2> QED
    BY <1>1, <2>1, <2>2 DEF Adaptor, A!Begin, A!Finish, A!Step, A!Value, A!Same,
       A!CompressStep, A!CompressSame
<1>4. \A p : Abreast(p).sub = p /\ Abreast(p).selector = p /\ A!Both(Abreast(p)) = Abreast(p + 1)
  BY DEF Abreast, A!Both
<1>5. /\ Finish(s).sub = s.n + 1 /\ Finish(s).selector = Len(s.selectors) + 1
      /\ \A t \in T : t \in 1 .. Common(s) /\ On[t] = {Abreast(t)}
      /\ \A t, u : <<t, u>> \in R <=> t \in T /\ u \in T /\ t < u
      /\ \A it : Inner(s, it) <=> it.sub <= s.n + 1 /\ it.selector <= Len(s.selectors) + 1
  <2>1. \A it : Inner(s, it) <=> it.sub <= s.n + 1 /\ it.selector <= Len(s.selectors) + 1
    BY <1>1 DEF Inner, A!Inside, S!Selecting, A!Adapting
  <2>2. \A t, u : <<t, u>> \in R <=> t \in T /\ u \in T /\ t < u
    BY DEF Rising
  <2> QED
    BY <1>1, <1>3, <2>1, <2>2
<1> HIDE DEF T, R, On
<1>6. ASSUME T = {} PROVE Begin(s) \in Done
  <2>1. 1 \in 1 .. Common(s) + 1 /\ T = Selected(s)
    BY <1>1 DEF T
  <2> QED
    BY <1>3, <1>6, <2>1, SkipsTo
<1>7. ASSUME T # {} PROVE \E t \in T : (\A u \in T : <<u, t>> \notin R) /\ Begin(s) \in On[t]
  <2>1. 1 \in 1 .. Common(s) + 1 /\ T = Selected(s)
    BY <1>1 DEF T
  <2>2. \A v \in T : ~(v < 1)
    BY <1>1
  <2>3. PICK u \in T : A!SkipFailures(s, Abreast(1)) = Abreast(u) /\ \A v \in T : v < 1 \/ u <= v
    BY <1>7, <2>1, <2>2, SkipsTo
  <2>4. \A v \in T : ~(v < u)
    BY <1>1, <2>2, <2>3
  <2> QED
    BY <1>3, <1>5, <2>3, <2>4
<1>8. ASSUME NEW t \in T
      PROVE  \/ \E u \in T : Follows(T, R, t, u) /\ Step(s, Abreast(t)) \in On[u]
             \/ (\A u \in T : <<t, u>> \notin R) /\ Step(s, Abreast(t)) \in Done
  <2>1. t + 1 \in 1 .. Common(s) + 1 /\ T = Selected(s) /\ t \in Nat
    BY <1>1, <1>5 DEF T
  <2>2. Step(s, Abreast(t)) = A!SkipFailures(s, Abreast(t + 1))
    BY <1>3, <1>4
  <2>3. CASE \E u \in T : /\ A!SkipFailures(s, Abreast(t + 1)) = Abreast(u)
                          /\ t + 1 <= u /\ \A v \in T : v < t + 1 \/ u <= v
    <3>1. PICK u \in T : /\ A!SkipFailures(s, Abreast(t + 1)) = Abreast(u)
                         /\ t + 1 <= u /\ \A v \in T : v < t + 1 \/ u <= v
      BY <2>3
    <3>2. u \in Nat /\ t < u
      BY <1>1, <2>1, <3>1
    <3>3. ASSUME NEW v \in T, v < u PROVE v = t \/ v < t
      <4>1. v \in Nat /\ (v < t + 1 \/ u <= v)
        BY <1>1, <3>1
      <4> QED
        BY <2>1, <3>2, <3>3, <4>1
    <3>4. Follows(T, R, t, u)
      BY <1>5, <3>2, <3>3 DEF Follows
    <3> QED
      BY <1>5, <2>2, <3>1, <3>4
  <2>4. CASE /\ A!SkipFailures(s, Abreast(t + 1)) = last
             /\ \A v \in T : v < t + 1
    <3>1. \A v \in T : ~(t < v)
      BY <1>1, <2>1, <2>4
    <3> QED
      BY <1>5, <2>2, <2>4, <3>1
  <2> QED
    BY <2>1, <2>3, <2>4, SkipsTo
<1>9. ASSUME NEW t \in T
      PROVE  /\ Value(s, Abreast(t)) = t
             /\ ~Same(s, Abreast(t), Finish(s)) /\ ~Same(s, Finish(s), Abreast(t)) /\ Inner(s, Abreast(t))
             /\ ~Same(s, Abreast(t), last) /\ ~Same(s, last, Abreast(t))
             /\ \A u \in T : Same(s, Abreast(t), Abreast(u)) <=> t = u
  <2>1. t \in Nat /\ t < Common(s) + 1 /\ t < s.n + 1 /\ t < Len(s.selectors) + 1
    BY <1>1, <1>5
  <2>2. Abreast(t).sub = t /\ Abreast(t).selector = t
    BY <1>4
  <2>3. Value(s, Abreast(t)) = t /\ Inner(s, Abreast(t))
    <3>1. Value(s, Abreast(t)) = t
      BY <1>3, <2>2
    <3>2. Abreast(t).sub <= s.n + 1 /\ Abreast(t).selector <= Len(s.selectors) + 1
      BY <1>1, <2>1, <2>2
    <3> QED
      BY <1>5, <3>1, <3>2
  <2>4. ~Same(s, Abreast(t), Finish(s)) /\ ~Same(s, Finish(s), Abreast(t))
    <3>1. t # Finish(s).sub /\ t # Finish(s).selector
      BY <1>5, <2>1
    <3> QED
      BY <1>3, <2>2, <3>1
  <2>5. ~Same(s, Abreast(t), last) /\ ~Same(s, last, Abreast(t))
    <3>1. t # last.sub /\ t # last.selector
      BY <1>4, <2>1
    <3> QED
      BY <1>3, <2>2, <3>1
  <2>6. \A u \in T : Same(s, Abreast(t), Abreast(u)) <=> t = u
    BY <1>3, <1>4
  <2> QED
    BY <2>3, <2>4, <2>5, <2>6
<1>10. /\ Same(s, last, Finish(s)) /\ Same(s, Finish(s), last) /\ Inner(s, last)
       /\ Same(s, Finish(s), Finish(s)) /\ Inner(s, Finish(s)) /\ Same(s, last, last)
  <2>1. last.sub = Common(s) + 1 /\ last.selector = Common(s) + 1
    BY <1>4
  <2>2. last.sub = Finish(s).sub \/ last.selector = Finish(s).selector
    BY <1>1, <1>5, <2>1
  <2>3. Inner(s, last)
    BY <1>1, <1>5, <2>1
  <2>4. Inner(s, Finish(s))
    BY <1>1, <1>5
  <2> HIDE DEF last
  <2> QED
    BY <2>2, <2>3, <2>4, <1>3
<1> HIDE DEF last
<1>11. Lists(s, T, R, On, Done)
  BY <1>1, <1>2, <1>5, <1>6, <1>7, <1>8, <1>9, <1>10 DEF Lists
<1>12. Parts(s, T, On, Done)
  BY <1>5, <1>9, <1>10 DEF Parts
<1> QED
  BY <1>11, <1>12, ListsKeeps

----------------------------------------------------------------------------
(* slice *)

Slicing(s) ==
    /\ s.tool = "slice" /\ s.n \in Nat /\ s.random \in BOOLEAN
    /\ s.start \in Int /\ s.stop \in Int /\ s.step \in Int
    /\ s.start # s.stop => s.start < s.stop /\ s.step > 0
    /\ A!Fits(s)

Sliced(s) ==
    {p \in 1 .. s.n : p - 1 >= s.start /\ p - 1 < s.stop /\ (p - 1 - s.start) % s.step = 0}

Cut(t) == [sub |-> t, current |-> t - 1]

(* what is between 0 and a number of the type is one *)
LEMMA StoredBelow ==
    ASSUME NEW v \in Nat, A!Stored(v) = v, NEW x \in 0 .. v
    PROVE  A!Stored(x) = x
<1> DEFINE H == 2 ^ (SliceWidth - 1)
           M == 2 ^ SliceWidth
<1>1. H \in Nat /\ M \in Nat \ {0}
  <2>1. SliceWidth \in Nat /\ SliceWidth - 1 \in Nat
    BY WidthAssumption
  <2> QED
    BY <2>1, PowersAreNumbers
<1>2. A!Stored(v) = ((v + H) % M) - H /\ A!Stored(x) = ((x + H) % M) - H
  BY DEF A!Stored
<1> HIDE DEF H, M
<1>3. v + H \in Int /\ x + H \in Int
  BY <1>1
<1>4. (v + H) % M \in 0 .. M - 1
  BY <1>1, <1>3, Rest
<1>5. v + H \in 0 .. M - 1
  <2>1. (v + H) % M \in Int
    BY <1>1, <1>4
  <2>2. (v + H) % M = v + H
    BY <1>1, <1>2, <2>1
  <2> QED
    BY <1>4, <2>2
<1>6. x + H \in 0 .. M - 1 /\ x + H = 0 * M + (x + H)
  BY <1>1, <1>5
<1>7. (x + H) % M = x + H
  <2>1. 0 \in Int
    OBVIOUS
  <2> QED
    BY <1>1, <1>3, <1>6, <2>1, Rest, ZenonT(60)
<1> QED
  BY <1>1, <1>2, <1>7

(* dumb_advance goes to the end, no further *)
LEMMA Advanced ==
    ASSUME NEW s, Slicing(s), NEW p \in 1 .. s.n + 1, NEW d \in Nat
    PROVE  A!Advance(s, p, d) = IF p + d <= s.n + 1 THEN p + d ELSE s.n + 1
<1>1. s.n \in Nat /\ A!Stored(s.n) = s.n
  BY DEF Slicing, A!Fits
<1>2. CASE s.random
  <2>1. s.n + 1 - p \in 0 .. s.n
    BY <1>1
  <2>2. A!Stored(s.n + 1 - p) = s.n + 1 - p
    BY <1>1, <2>1, StoredBelow
  <2> QED
    BY <1>1, <1>2, <2>1, <2>2 DEF A!Advance
<1>3. CASE ~s.random
  <2>1. CASE d = 0
    BY <1>1, <1>3, <2>1 DEF A!Advance
  <2>2. CASE d # 0
    <3>1. A!Advance(s, p, d) = A!Min({p + d, s.n + 1})
      BY <1>3, <2>2 DEF A!Advance
    <3>2. /\ A!Min({p + d, s.n + 1}) \in {p + d, s.n + 1}
          /\ \A u \in {p + d, s.n + 1} : A!Min({p + d, s.n + 1}) <= u
      <4>1. {p + d, s.n + 1} \in SUBSET Nat /\ {p + d, s.n + 1} # {}
        BY <1>1
      <4> QED
        BY <4>1, Least
    <3> QED
      BY <1>1, <3>1, <3>2
  <2> QED
    BY <2>1, <2>2
<1> QED
  BY <1>2, <1>3 DEF Slicing

(* the elements are a step apart *)
LEMMA SliceMembers ==
    ASSUME NEW s, Slicing(s)
    PROVE  /\ Sliced(s) \in SUBSET Nat /\ IsFiniteSet(Sliced(s)) /\ Sliced(s) \in SUBSET (1 .. s.n)
           /\ Sliced(s) # {} => s.start < s.stop
           /\ s.start < s.stop =>
                /\ s.start \in Nat /\ s.step \in Nat \ {0} /\ s.stop \in Nat
                /\ \A t \in Sliced(s) : s.start + 1 <= t /\ t - 1 < s.stop
                /\ s.start < s.n => s.start + 1 \in Sliced(s)
                /\ \A t \in Sliced(s) :
                     /\ t + s.step <= s.n /\ t - 1 + s.step < s.stop => t + s.step \in Sliced(s)
                     /\ \A v \in Sliced(s) : t < v => t + s.step <= v
<1>1. s.n \in Nat /\ s.start \in Int /\ s.stop \in Int /\ s.step \in Int
  BY DEF Slicing
<1>2. Sliced(s) \in SUBSET (1 .. s.n) /\ Sliced(s) \in SUBSET Nat /\ IsFiniteSet(Sliced(s))
  <2>1. Sliced(s) \in SUBSET (1 .. s.n) /\ IsFiniteSet(1 .. s.n)
    BY <1>1, FS_Interval DEF Sliced
  <2> QED
    BY <1>1, <2>1, FS_Subset
<1>3. Sliced(s) # {} => s.start < s.stop
  BY <1>1 DEF Sliced
<1>4. ASSUME s.start < s.stop
      PROVE  s.start \in Nat /\ s.step \in Nat \ {0} /\ s.stop \in Nat
  BY <1>1, <1>4 DEF Slicing, A!Fits
<1>5. ASSUME s.start < s.stop, NEW t \in Sliced(s)
      PROVE  /\ t \in 1 .. s.n /\ t - 1 - s.start \in Int /\ (t - 1 - s.start) % s.step = 0
             /\ s.start + 1 <= t /\ t - 1 < s.stop
  BY <1>1, <1>5 DEF Sliced
<1>6. ASSUME s.start < s.stop, s.start < s.n PROVE s.start + 1 \in Sliced(s)
  <2>1. s.start + 1 \in 1 .. s.n /\ (s.start + 1) - 1 - s.start = 0 /\ (s.start + 1) - 1 = s.start
    BY <1>1, <1>4, <1>6
  <2>2. 0 % s.step = 0
    BY <1>4, <1>6
  <2> QED
    BY <1>1, <1>6, <2>1, <2>2 DEF Sliced
<1>7. ASSUME s.start < s.stop, NEW t \in Sliced(s), t + s.step <= s.n, t - 1 + s.step < s.stop
      PROVE  t + s.step \in Sliced(s)
  <2> DEFINE x == t - 1 - s.start
             y == (t + s.step) - 1 - s.start
  <2>1. /\ x \in Int /\ y \in Int /\ y - x = s.step /\ x % s.step = 0
        /\ s.step \in Nat \ {0} /\ t \in Nat /\ s.start + 1 <= t
    BY <1>1, <1>4, <1>5, <1>7
  <2>2. t + s.step \in 1 .. s.n /\ (t + s.step) - 1 >= s.start /\ (t + s.step) - 1 < s.stop
    BY <1>1, <1>7, <2>1
  <2> HIDE DEF x, y
  <2>3. s.step % s.step = 0
    <3>1. s.step = 1 * s.step + 0 /\ 0 \in 0 .. s.step - 1 /\ 1 \in Int /\ s.step \in Int
      BY <2>1
    <3> QED
      BY <2>1, <3>1, Rest
  <2>4. y % s.step = x % s.step
    <3>1. (y - x) % s.step = 0
      BY <2>1, <2>3
    <3> QED
      BY <2>1, <3>1, RestOfDifference
  <2>5. y % s.step = 0
    BY <2>1, <2>4
  <2> QED
    BY <2>2, <2>5 DEF Sliced, y
<1>8. ASSUME s.start < s.stop, NEW t \in Sliced(s), NEW v \in Sliced(s), t < v
      PROVE  t + s.step <= v
  <2> DEFINE x == t - 1 - s.start
             y == v - 1 - s.start
  <2>1. /\ x \in Int /\ y \in Int /\ y - x = v - t /\ x % s.step = 0 /\ y % s.step = 0
        /\ s.step \in Nat \ {0} /\ t \in Int /\ v \in Int
    BY <1>1, <1>4, <1>5, <1>8
  <2> HIDE DEF x, y
  <2>2. (v - t) % s.step = 0
    <3>1. (y - x) % s.step = 0
      BY <2>1, RestOfDifference
    <3> QED
      BY <2>1, <3>1
  <2>3. ~(v - t < s.step)
    <3> SUFFICES ASSUME v - t < s.step PROVE FALSE
      OBVIOUS
    <3>1. /\ v - t \in 0 .. s.step - 1 /\ v - t = 0 * s.step + (v - t)
          /\ v - t \in Int /\ 0 \in Int /\ v - t # 0
      BY <1>8, <2>1
    <3>2. (v - t) % s.step = v - t
      BY <2>1, <3>1, Rest
    <3> QED
      BY <2>2, <3>1, <3>2
  <2> QED
    BY <2>1, <2>3
<1> QED
  BY <1>2, <1>3, <1>4, <1>5, <1>6, <1>7, <1>8

LEMMA SliceKeeps ==
    ASSUME NEW s, Slicing(s)
    PROVE  \E w : Kept(s, w)
<1> DEFINE T == Sliced(s)
           R == Rising(T)
           n == s.n
           On == [t \in T |-> {Cut(t)}]
           Done == {it \in [sub : 1 .. n + 1, current : Int] :
                       /\ it.sub = n + 1 \/ it.current = s.stop
                       /\ \A t \in T : t < it.sub /\ t - 1 < it.current}
<1>1. /\ s.tool = "slice" /\ Adaptor(s) /\ n \in Nat
      /\ s.start \in Int /\ s.stop \in Int /\ s.step \in Int
      /\ s.start # s.stop => s.start < s.stop /\ s.step > 0
      /\ A!Stored(n) = n /\ A!Stored(s.stop + s.step) = s.stop + s.step
      /\ s.start < 0 => ~s.random /\ s.start = s.stop
  BY Adapts DEF Slicing, A!Adapting, A!Fits
<1>2. /\ T \in SUBSET Nat /\ IsFiniteSet(T) /\ T \in SUBSET (1 .. n)
      /\ T # {} => s.start < s.stop
      /\ s.start < s.stop =>
           /\ s.start \in Nat /\ s.step \in Nat \ {0} /\ s.stop \in Nat
           /\ \A t \in T : s.start + 1 <= t /\ t - 1 < s.stop
           /\ s.start < n => s.start + 1 \in T
           /\ \A t \in T :
                /\ t + s.step <= n /\ t - 1 + s.step < s.stop => t + s.step \in T
                /\ \A v \in T : t < v => t + s.step <= v
  BY SliceMembers
<1>3. Orders(R, T) /\ Yields(s) = Listing(T, R)
  <2>1. Orders(R, T) /\ A!Ascending(T) = Listing(T, R)
    BY <1>2, AscendingIs
  <2>2. Yields(s) = A!Ascending(T)
    BY <1>1 DEF Adaptor, A!Yields, Sliced
  <2> QED
    BY <2>1, <2>2
<1>4. /\ Begin(s) = [sub |-> A!Advance(s, 1, s.start), current |-> s.start]
      /\ Finish(s) = [sub |-> n + 1, current |-> s.stop]
      /\ \A it : Step(s, it) = A!SliceStep(s, it)
      /\ \A it : Value(s, it) = it.sub
      /\ \A it, other : Same(s, it, other) <=> it.sub = other.sub \/ it.current = other.current
      /\ \A it : Inner(s, it) <=> it.sub \in 1 .. n + 1
  BY <1>1 DEF Adaptor, A!Begin, A!Finish, A!Step, A!Value, A!Same, A!SliceBegin, A!SliceEnd,
     A!SliceSame, Inner, A!Inside, S!Selecting, A!Adapting
<1>5. /\ \A t \in T : On[t] = {Cut(t)}
      /\ \A t, u : <<t, u>> \in R <=> t \in T /\ u \in T /\ t < u
      /\ \A t : Cut(t).sub = t /\ Cut(t).current = t - 1
  BY DEF Rising, Cut
<1>6. \A p \in 1 .. n + 1, d \in Nat :
          A!Advance(s, p, d) = IF p + d <= n + 1 THEN p + d ELSE n + 1
  BY Advanced
<1> HIDE DEF T, R, On, n
<1>7. ASSUME T = {} PROVE Begin(s) \in Done
  <2>1. ASSUME s.start < s.stop PROVE Begin(s) \in Done
    <3>1. ~(s.start < n) /\ s.start \in Nat
      BY <1>2, <1>7, <2>1
    <3>2. 1 \in 1 .. n + 1 /\ n + 1 \in 1 .. n + 1
      BY <1>1
    <3>3. A!Advance(s, 1, s.start) = IF 1 + s.start <= n + 1 THEN 1 + s.start ELSE n + 1
      BY <1>6, <3>1, <3>2
    <3>4. A!Advance(s, 1, s.start) = n + 1
      BY <1>1, <3>1, <3>3
    <3> QED
      BY <1>1, <1>4, <1>7, <3>2, <3>4
  <2>2. ASSUME s.start = s.stop PROVE Begin(s) \in Done
    <3>1. A!Advance(s, 1, s.start) \in 1 .. n + 1
      <4>1. CASE s.start >= 0
        <5>1. s.start \in Nat /\ 1 \in 1 .. n + 1
          BY <1>1, <4>1
        <5>2. A!Advance(s, 1, s.start) = IF 1 + s.start <= n + 1 THEN 1 + s.start ELSE n + 1
          BY <1>6, <5>1
        <5> QED
          BY <1>1, <5>1, <5>2
      <4>2. CASE s.start < 0
        <5>1. ~s.random /\ s.start <= 0
          BY <1>1, <4>2
        <5>2. A!Advance(s, 1, s.start) = 1
          BY <5>1 DEF A!Advance
        <5> QED
          BY <1>1, <5>2
      <4> QED
        BY <1>1, <4>1, <4>2
    <3> QED
      BY <1>1, <1>4, <1>7, <2>2, <3>1
  <2> QED
    BY <1>1, <2>1, <2>2
<1>8. ASSUME T # {} PROVE \E t \in T : (\A u \in T : <<u, t>> \notin R) /\ Begin(s) \in On[t]
  <2>1. s.start < s.stop /\ s.start \in Nat
    BY <1>2, <1>8
  <2>2. PICK v \in T : TRUE
    BY <1>8
  <2>3. s.start + 1 <= v /\ v \in 1 .. n
    BY <1>2, <2>1, <2>2
  <2>4. s.start + 1 \in T
    BY <1>1, <1>2, <2>1, <2>3
  <2>5. \A u \in T : ~(u < s.start + 1)
    BY <1>2, <2>1
  <2>6. 1 \in 1 .. n + 1
    BY <1>1
  <2>7. A!Advance(s, 1, s.start) = IF 1 + s.start <= n + 1 THEN 1 + s.start ELSE n + 1
    BY <1>6, <2>1, <2>6
  <2>8. A!Advance(s, 1, s.start) = s.start + 1 /\ s.start = (s.start + 1) - 1
    BY <1>1, <2>1, <2>3, <2>7
  <2>9. Begin(s) = Cut(s.start + 1)
    BY <1>4, <2>8 DEF Cut
  <2> QED
    BY <1>5, <2>4, <2>5, <2>9
<1>9. ASSUME NEW t \in T
      PROVE  /\ s.start < s.stop /\ s.step \in Nat \ {0} /\ t \in 1 .. n /\ s.stop \in Nat
             /\ Step(s, Cut(t)) =
                  [sub |-> IF t + s.step <= n + 1 THEN t + s.step ELSE n + 1,
                   current |-> IF s.stop < t - 1 + s.step THEN s.stop ELSE t - 1 + s.step]
  <2>1. s.start < s.stop /\ s.step \in Nat \ {0} /\ t \in 1 .. n /\ s.stop \in Nat /\ t - 1 < s.stop
    BY <1>2
  <2>2. t - 1 + s.step \in 0 .. s.stop + s.step /\ s.stop + s.step \in Nat
    BY <1>1, <2>1
  <2>3. A!Stored(t - 1 + s.step) = t - 1 + s.step
    BY <1>1, <2>2, StoredBelow
  <2>4. t \in 1 .. n + 1 /\ s.step \in Nat
    BY <1>1, <2>1
  <2>5. A!Advance(s, t, s.step) = IF t + s.step <= n + 1 THEN t + s.step ELSE n + 1
    BY <1>6, <2>4
  <2>6. A!SliceStep(s, Cut(t)) =
           [sub |-> A!Advance(s, t, s.step),
            current |-> IF s.stop < A!Stored(t - 1 + s.step) THEN s.stop
                        ELSE A!Stored(t - 1 + s.step)]
    BY <1>5 DEF A!SliceStep
  <2> QED
    BY <1>4, <2>1, <2>3, <2>5, <2>6
<1>10. ASSUME NEW t \in T
       PROVE  \/ \E u \in T : Follows(T, R, t, u) /\ Step(s, Cut(t)) \in On[u]
              \/ (\A u \in T : <<t, u>> \notin R) /\ Step(s, Cut(t)) \in Done
  <2> DEFINE u == t + s.step
             up == t - 1 + s.step
  <2>1. /\ s.start < s.stop /\ s.step \in Nat \ {0} /\ t \in 1 .. n /\ t \in Nat /\ s.stop \in Nat
        /\ t - 1 < s.stop /\ u \in Nat /\ up \in Nat /\ u = up + 1 /\ t < u
        /\ \A v \in T : v \in 1 .. n /\ v - 1 < s.stop /\ (t < v => u <= v)
        /\ u <= n /\ up < s.stop => u \in T
    BY <1>1, <1>2, <1>9
  <2>2. Step(s, Cut(t)) = [sub |-> IF u <= n + 1 THEN u ELSE n + 1,
                           current |-> IF s.stop < up THEN s.stop ELSE up]
    BY <1>9
  <2> HIDE DEF u, up
  <2>3. CASE u <= n /\ up < s.stop
    <3>1. u \in T /\ up = u - 1 /\ u <= n + 1 /\ ~(s.stop < up)
      BY <1>1, <2>1, <2>3
    <3>2. Step(s, Cut(t)) = Cut(u)
      BY <2>2, <3>1 DEF Cut
    <3>3. ASSUME NEW v \in T, v < u PROVE v = t \/ v < t
      <4>1. v \in Nat /\ (t < v => u <= v)
        BY <2>1
      <4> QED
        BY <2>1, <3>3, <4>1
    <3>4. Follows(T, R, t, u)
      BY <1>5, <2>1, <3>1, <3>3 DEF Follows
    <3> QED
      BY <1>5, <3>1, <3>2, <3>4
  <2>4. CASE ~(u <= n /\ up < s.stop)
    <3>1. ASSUME NEW v \in T PROVE v <= t /\ v \in 1 .. n
      <4>1. v \in 1 .. n /\ v - 1 < s.stop /\ (t < v => u <= v)
        BY <2>1
      <4> QED
        BY <1>1, <2>1, <2>4, <4>1
    <3>2. \A v \in T : ~(t < v)
      BY <2>1, <3>1
    <3> DEFINE sub == IF u <= n + 1 THEN u ELSE n + 1
               current == IF s.stop < up THEN s.stop ELSE up
    <3>3. /\ sub \in 1 .. n + 1 /\ current \in Int /\ t < sub /\ t - 1 < current
          /\ sub = n + 1 \/ current = s.stop
      BY <1>1, <2>1, <2>4
    <3>4. \A v \in T : v < sub /\ v - 1 < current
      <4>1. sub \in Int /\ current \in Int
        BY <3>3
      <4> HIDE DEF sub, current
      <4> QED
        BY <2>1, <3>1, <3>3, <4>1
    <3>5. Step(s, Cut(t)) = [sub |-> sub, current |-> current]
      BY <2>2
    <3> HIDE DEF sub, current
    <3>6. Step(s, Cut(t)) \in Done
      BY <3>3, <3>4, <3>5
    <3> QED
      BY <1>5, <3>2, <3>6
  <2> QED
    BY <2>3, <2>4
<1>11. /\ Finish(s).sub = n + 1 /\ Finish(s).current = s.stop
  BY <1>4
<1>12. ASSUME NEW t \in T
       PROVE  /\ Value(s, Cut(t)) = t
              /\ ~Same(s, Cut(t), Finish(s)) /\ ~Same(s, Finish(s), Cut(t)) /\ Inner(s, Cut(t))
              /\ \A last \in Done : ~Same(s, Cut(t), last) /\ ~Same(s, last, Cut(t))
              /\ \A u \in T : Same(s, Cut(t), Cut(u)) <=> t = u
  <2>1. /\ t \in Nat /\ t < n + 1 /\ t \in 1 .. n + 1 /\ t - 1 < s.stop
        /\ Cut(t).sub = t /\ Cut(t).current = t - 1
    BY <1>1, <1>2, <1>5
  <2>2. Value(s, Cut(t)) = t /\ Inner(s, Cut(t))
    BY <1>4, <2>1
  <2>3. ~Same(s, Cut(t), Finish(s)) /\ ~Same(s, Finish(s), Cut(t))
    <3>1. t # n + 1 /\ t - 1 # s.stop
      BY <1>1, <2>1
    <3> QED
      BY <1>4, <1>11, <2>1, <3>1
  <2>4. ASSUME NEW last \in Done PROVE ~Same(s, Cut(t), last) /\ ~Same(s, last, Cut(t))
    <3>1. t < last.sub /\ t - 1 < last.current /\ last.sub \in Int /\ last.current \in Int
      BY <1>1
    <3>2. t # last.sub /\ t - 1 # last.current
      BY <2>1, <3>1
    <3> QED
      BY <1>4, <2>1, <3>2
  <2>5. ASSUME NEW u \in T PROVE Same(s, Cut(t), Cut(u)) <=> t = u
    <3>1. u \in Nat /\ Cut(u).sub = u /\ Cut(u).current = u - 1
      BY <1>2, <1>5
    <3>2. (t = u \/ t - 1 = u - 1) <=> t = u
      BY <2>1, <3>1
    <3> QED
      BY <1>4, <2>1, <3>1, <3>2
  <2> QED
    BY <2>2, <2>3, <2>4, <2>5
<1>13. /\ \A last \in Done : /\ Same(s, last, Finish(s)) /\ Same(s, Finish(s), last)
                             /\ Inner(s, last) /\ Same(s, last, last)
       /\ Same(s, Finish(s), Finish(s)) /\ Inner(s, Finish(s))
  <2>1. ASSUME NEW last \in Done
        PROVE  /\ last.sub = Finish(s).sub \/ last.current = Finish(s).current
               /\ last.sub \in 1 .. n + 1
    BY <1>1, <1>11
  <2>2. Finish(s).sub \in 1 .. n + 1
    BY <1>1, <1>11
  <2> HIDE DEF Done
  <2> QED
    BY <1>4, <2>1, <2>2
<1> HIDE DEF Done
<1>14. Lists(s, T, R, On, Done)
  BY <1>2, <1>3, <1>5, <1>7, <1>8, <1>10, <1>12, <1>13 DEF Lists
<1>15. Parts(s, T, On, Done)
  BY <1>5, <1>12, <1>13 DEF Parts
<1> QED
  BY <1>14, <1>15, ListsKeeps

----------------------------------------------------------------------------
(* chain and chain.from_iterable *)

Joining(s) ==
    s.tool \in {"chain", "from_iterable"} /\ \E m \in Nat : s.sizes \in [1 .. m -> Nat]

Joined(sizes) == A!Elements(sizes)
Along(sizes) ==
    {e \in Joined(sizes) \X Joined(sizes) : A!Before(e[1], e[2])}

LEMMA JoinedIs ==
    ASSUME NEW m \in Nat, NEW sizes \in [1 .. m -> Nat]
    PROVE  /\ IsFiniteSet(Joined(sizes)) /\ Orders(Along(sizes), Joined(sizes))
           /\ \A e : e \in Joined(sizes) <=>
                \E x \in 1 .. m : \E p \in 1 .. sizes[x] : e = <<x, p>>
           /\ A!Chained(sizes) = Listing(Joined(sizes), Along(sizes))
<1> DEFINE T == Joined(sizes)
           R == Along(sizes)
           n == Cardinality(T)
           c == A!Chained(sizes)
<1>1. A!Longest(sizes) \in Nat /\ \A y \in 1 .. m : sizes[y] \in Nat /\ sizes[y] <= A!Longest(sizes)
  BY LongestIsGreatest
<1>2. T = {e \in (1 .. m) \X (1 .. A!Longest(sizes)) : e[2] <= sizes[e[1]]}
  <2>1. DOMAIN sizes = 1 .. m
    OBVIOUS
  <2>2. T = {e \in (DOMAIN sizes) \X (1 .. A!Longest(sizes)) : e[2] <= sizes[e[1]]}
    BY DEF Joined, A!Elements
  <2> HIDE DEF T
  <2> QED
    BY <2>1, <2>2
<1>3. IsFiniteSet(T)
  <2> HIDE DEF T
  <2>1. IsFiniteSet((1 .. m) \X (1 .. A!Longest(sizes)))
    <3>1. IsFiniteSet(1 .. m) /\ IsFiniteSet(1 .. A!Longest(sizes))
      BY <1>1, FS_Interval
    <3> QED
      BY <3>1, FS_Product
  <2>2. T \in SUBSET ((1 .. m) \X (1 .. A!Longest(sizes)))
    BY <1>2
  <2> QED
    BY <2>1, <2>2, FS_Subset
<1>4. ASSUME NEW e
      PROVE  e \in T <=> \E x \in 1 .. m : \E p \in 1 .. sizes[x] : e = <<x, p>>
  <2>1. ASSUME e \in T PROVE \E x \in 1 .. m : \E p \in 1 .. sizes[x] : e = <<x, p>>
    <3>1. e = <<e[1], e[2]>> /\ e[1] \in 1 .. m /\ e[2] \in 1 .. sizes[e[1]]
      BY <1>1, <1>2, <2>1
    <3> QED
      BY <3>1
  <2>2. ASSUME NEW x \in 1 .. m, NEW p \in 1 .. sizes[x], e = <<x, p>>
        PROVE  e \in T
    <3>1. sizes[x] \in Nat /\ sizes[x] <= A!Longest(sizes) /\ p \in 1 .. A!Longest(sizes)
      BY <1>1
    <3> QED
      BY <1>2, <2>2, <3>1
  <2> QED
    BY <2>1, <2>2
<1>5. \A e \in T : e = <<e[1], e[2]>> /\ e[1] \in Nat /\ e[2] \in Nat
  BY <1>1, <1>2
<1>6. \A e, f : <<e, f>> \in R <=> e \in T /\ f \in T /\ A!Before(e, f)
  BY DEF Along
<1> HIDE DEF T, R
<1>7. Orders(R, T)
  <2>1. \A t \in T : <<t, t>> \notin R
    BY <1>5, <1>6 DEF A!Before
  <2>2. \A t, u, v \in T : <<t, u>> \in R /\ <<u, v>> \in R => <<t, v>> \in R
    BY <1>5, <1>6 DEF A!Before
  <2>3. \A t, u \in T : t = u \/ <<t, u>> \in R \/ <<u, t>> \in R
    <3> TAKE t, u \in T
    <3>1. /\ t = <<t[1], t[2]>> /\ t[1] \in Nat /\ t[2] \in Nat
          /\ u = <<u[1], u[2]>> /\ u[1] \in Nat /\ u[2] \in Nat
      BY <1>5
    <3>2. t[1] = u[1] /\ t[2] = u[2] => t = u
      BY <3>1
    <3> QED
      BY <1>6, <3>1, <3>2 DEF A!Before
  <2> QED
    BY <2>1, <2>2, <2>3 DEF Orders
<1>8. \A t \in T : {u \in T : A!Before(u, t)} = Under(T, R, t)
  BY <1>6 DEF Under
<1>9. c = [k \in 1 .. n |->
             CHOOSE e \in T : A!Cardinality({f \in T : A!Before(f, e)}) = k - 1]
  BY SameCardinality DEF A!Chained, Joined, T
<1>10. c = [k \in 1 .. n |-> c[k]]
  BY <1>9
<1>11. ASSUME NEW k \in 1 .. n PROVE c[k] \in T /\ Cardinality(Under(T, R, c[k])) = k - 1
  <2>1. c[k] = CHOOSE e \in T : A!Cardinality({f \in T : A!Before(f, e)}) = k - 1
    BY <1>9
  <2>2. Listing(T, R)[k] \in T /\ Cardinality(Under(T, R, Listing(T, R)[k])) = k - 1
    BY <1>3, <1>7, Listed
  <2>3. \E e \in T : A!Cardinality({f \in T : A!Before(f, e)}) = k - 1
    BY <1>8, <2>2, SameCardinality
  <2>4. c[k] \in T /\ A!Cardinality({f \in T : A!Before(f, c[k])}) = k - 1
    BY <2>1, <2>3
  <2> QED
    BY <1>8, <2>4, SameCardinality
<1> HIDE DEF c
<1>12. c = Listing(T, R)
  BY <1>3, <1>7, <1>10, <1>11, ListingIs, ZenonT(60)
<1> QED
  BY <1>3, <1>4, <1>7, <1>12 DEF T, R, c

(* the first input from a on that has an element, if there is one *)
Fresh(m, sizes, a, z) == z \in a .. m /\ sizes[z] # 0 /\ \A y \in a .. z - 1 : sizes[y] = 0
Spent(m, sizes, a) == \A y \in a .. m : sizes[y] = 0

LEMMA FreshOrSpent ==
    ASSUME NEW m \in Nat, NEW sizes \in [1 .. m -> Nat], NEW a \in 1 .. m + 1
    PROVE  /\ Spent(m, sizes, a) \/ \E z \in 1 .. m : Fresh(m, sizes, a, z)
           /\ \A z : Fresh(m, sizes, a, z) => /\ ~Spent(m, sizes, a) /\ z \in 1 .. m
                                              /\ sizes[z] \in Nat \ {0} /\ a <= z
<1>1. ASSUME ~Spent(m, sizes, a) PROVE \E z \in 1 .. m : Fresh(m, sizes, a, z)
  <2> DEFINE J == {y \in a .. m : sizes[y] # 0}
             z == A!Min(J)
  <2>1. z \in J /\ \A y \in J : z <= y
    <3>1. J \in SUBSET Nat /\ J # {}
      BY <1>1 DEF Spent
    <3> HIDE DEF J
    <3> QED
      BY <3>1, Least
  <2> HIDE DEF z
  <2>2. \A y \in a .. z - 1 : sizes[y] = 0
    <3> TAKE y \in a .. z - 1
    <3>1. y \in a .. m /\ ~(z <= y)
      BY <2>1
    <3> QED
      BY <2>1, <3>1
  <2>3. Fresh(m, sizes, a, z) /\ z \in 1 .. m
    BY <2>1, <2>2 DEF Fresh
  <2> QED
    BY <2>3
<1>2. ASSUME NEW z, Fresh(m, sizes, a, z)
      PROVE  /\ ~Spent(m, sizes, a) /\ z \in 1 .. m
             /\ sizes[z] \in Nat \ {0} /\ a <= z
  BY <1>2 DEF Fresh, Spent
<1> QED
  BY <1>1, <1>2

(* where the order of the elements goes *)
LEMMA AlongThem ==
    ASSUME NEW m \in Nat, NEW sizes \in [1 .. m -> Nat]
    PROVE  /\ Spent(m, sizes, 1) => Joined(sizes) = {}
           /\ \A z : Fresh(m, sizes, 1, z) =>
                <<z, 1>> \in Joined(sizes) /\ \A e \in Joined(sizes) : <<e, <<z, 1>>>> \notin Along(sizes)
           /\ \A x \in 1 .. m : \A p \in 1 .. sizes[x] :
                /\ p # sizes[x] => Follows(Joined(sizes), Along(sizes), <<x, p>>, <<x, p + 1>>)
                /\ \A z : p = sizes[x] /\ Fresh(m, sizes, x + 1, z) =>
                     Follows(Joined(sizes), Along(sizes), <<x, p>>, <<z, 1>>)
                /\ p = sizes[x] /\ Spent(m, sizes, x + 1) =>
                     \A e \in Joined(sizes) : <<<<x, p>>, e>> \notin Along(sizes)
<1> DEFINE T == Joined(sizes)
           R == Along(sizes)
<1>1. \A e : e \in T <=> \E x \in 1 .. m : \E p \in 1 .. sizes[x] : e = <<x, p>>
  BY JoinedIs
<1>2. \A e, f : <<e, f>> \in R <=> e \in T /\ f \in T /\ A!Before(e, f)
  BY DEF Along
<1> HIDE DEF T, R
<1>3. \A e \in T : e = <<e[1], e[2]>> /\ e[1] \in 1 .. m /\ e[2] \in 1 .. sizes[e[1]]
                   /\ e[1] \in Nat /\ e[2] \in Nat /\ sizes[e[1]] \in Nat \ {0}
  BY <1>1
<1>4. ASSUME Spent(m, sizes, 1) PROVE T = {}
  BY <1>3, <1>4 DEF Spent
<1>5. ASSUME NEW z, Fresh(m, sizes, 1, z)
      PROVE  <<z, 1>> \in T /\ \A e \in T : <<e, <<z, 1>>>> \notin R
  <2>1. z \in 1 .. m /\ 1 \in 1 .. sizes[z] /\ z \in Nat
    BY <1>5, FreshOrSpent
  <2>2. <<z, 1>> \in T
    BY <1>1, <2>1
  <2>3. ASSUME NEW e \in T PROVE ~A!Before(e, <<z, 1>>)
    <3>1. e[1] \in 1 .. m /\ e[1] \notin 1 .. z - 1 /\ e[1] \in Nat /\ e[2] \in Nat \ {0}
      BY <1>3, <1>5 DEF Fresh
    <3> QED
      BY <2>1, <3>1 DEF A!Before
  <2> QED
    BY <1>2, <2>2, <2>3
<1>6. ASSUME NEW x \in 1 .. m, NEW p \in 1 .. sizes[x], p # sizes[x]
      PROVE  Follows(T, R, <<x, p>>, <<x, p + 1>>)
  <2>1. p + 1 \in 1 .. sizes[x] /\ x \in Nat /\ p \in Nat
    BY <1>6
  <2>2. <<x, p>> \in T /\ <<x, p + 1>> \in T
    BY <1>1, <2>1
  <2>3. A!Before(<<x, p>>, <<x, p + 1>>)
    BY <2>1 DEF A!Before
  <2>4. ASSUME NEW e \in T, A!Before(e, <<x, p + 1>>) PROVE e = <<x, p>> \/ A!Before(e, <<x, p>>)
    <3>1. e = <<e[1], e[2]>> /\ e[1] \in Nat /\ e[2] \in Nat
      BY <1>3
    <3> QED
      BY <2>1, <2>4, <3>1 DEF A!Before
  <2> QED
    BY <1>2, <2>2, <2>3, <2>4 DEF Follows
<1>7. ASSUME NEW x \in 1 .. m, NEW p \in 1 .. sizes[x], p = sizes[x], NEW z, Fresh(m, sizes, x + 1, z)
      PROVE  Follows(T, R, <<x, p>>, <<z, 1>>)
  <2>0. x + 1 \in 1 .. m + 1
    OBVIOUS
  <2>1. z \in 1 .. m /\ x + 1 <= z /\ 1 \in 1 .. sizes[z] /\ x \in Nat /\ p \in Nat /\ z \in Nat
    BY <1>7, <2>0, FreshOrSpent
  <2>2. <<x, p>> \in T /\ <<z, 1>> \in T
    BY <1>1, <2>1
  <2>3. A!Before(<<x, p>>, <<z, 1>>)
    BY <2>1 DEF A!Before
  <2>4. ASSUME NEW e \in T, A!Before(e, <<z, 1>>) PROVE e = <<x, p>> \/ A!Before(e, <<x, p>>)
    <3>1. /\ e = <<e[1], e[2]>> /\ e[1] \in Nat /\ e[2] \in Nat \ {0} /\ e[2] <= sizes[e[1]]
          /\ e[1] \notin x + 1 .. z - 1
      BY <1>3, <1>7 DEF Fresh
    <3>2. e[1] < z
      BY <2>1, <2>4, <3>1 DEF A!Before
    <3>3. e[1] <= x
      BY <2>1, <3>1, <3>2
    <3>4. e[1] = x => e[2] <= p
      BY <1>7, <3>1
    <3> QED
      BY <2>1, <3>1, <3>3, <3>4 DEF A!Before
  <2> QED
    BY <1>2, <2>2, <2>3, <2>4 DEF Follows
<1>8. ASSUME NEW x \in 1 .. m, NEW p \in 1 .. sizes[x], p = sizes[x], Spent(m, sizes, x + 1), NEW e \in T
      PROVE  <<<<x, p>>, e>> \notin R
  <2>1. /\ e[1] \in Nat /\ e[2] \in Nat /\ e[1] \in 1 .. m /\ e[2] <= sizes[e[1]] /\ x \in Nat /\ p \in Nat
        /\ e[1] \notin x + 1 .. m
    BY <1>3, <1>8 DEF Spent
  <2>2. ~A!Before(<<x, p>>, e)
    BY <1>8, <2>1 DEF A!Before
  <2> QED
    BY <1>2, <2>2
<1> QED
  BY <1>4, <1>5, <1>6, <1>7, <1>8 DEF T, R

(* chain at element p of input x *)
ChainAt(m, sizes, x, p) ==
    [index |-> x,
     iters |-> [y \in 1 .. m |-> IF y < x THEN sizes[y] + 1 ELSE IF y = x THEN p ELSE 1]]

(* check_for_end_and_adjust, when the inputs from a on have not been begun *)
LEMMA Adjusts ==
    ASSUME NEW m \in Nat, NEW sizes \in [1 .. m -> Nat], NEW a \in 1 .. m + 1, NEW b \in Nat,
           b = a \/ b + 1 = a
    PROVE  LET it == [index |-> b, iters |-> ChainAt(m, sizes, a, 1).iters]
           IN  /\ \A z : Fresh(m, sizes, a, z) => A!Adjust(sizes, it) = ChainAt(m, sizes, z, 1)
               /\ Spent(m, sizes, a) => A!Adjust(sizes, it) = ChainAt(m, sizes, m + 1, 1)
<1> DEFINE its == [y \in 1 .. m |-> IF y < a THEN sizes[y] + 1 ELSE IF y = a THEN 1 ELSE 1]
           it == [index |-> b, iters |-> its]
           left == {x \in DOMAIN sizes : x >= it.index /\ it.iters[x] # sizes[x] + 1}
           J == {x \in a .. m : sizes[x] # 0}
<1>1. left = J
  <2>1. DOMAIN sizes = 1 .. m /\ it.index = b /\ it.iters = its
    OBVIOUS
  <2>2. ASSUME NEW x \in 1 .. m PROVE x \in left <=> x \in J
    <3>1. its[x] = (IF x < a THEN sizes[x] + 1 ELSE 1) /\ sizes[x] \in Nat
      OBVIOUS
    <3>2. x \in left <=> x >= b /\ its[x] # sizes[x] + 1
      BY <2>1
    <3> HIDE DEF left, it, its
    <3> QED
      BY <3>1, <3>2
  <2>3. \A x \in J : x \in 1 .. m
    OBVIOUS
  <2> QED
    BY <2>1, <2>2, <2>3
<1>2. Len(sizes) = m
  OBVIOUS
<1>3. A!Adjust(sizes, it) = [index |-> IF left = {} THEN m + 1 ELSE A!Min(left), iters |-> its]
  <2>1. A!Adjust(sizes, it) = [it EXCEPT !.index = IF left = {} THEN m + 1 ELSE A!Min(left)]
    BY <1>2 DEF A!Adjust
  <2> HIDE DEF left
  <2> QED
    BY <2>1
<1>4. ASSUME NEW z, Fresh(m, sizes, a, z)
      PROVE  A!Adjust(sizes, it) = ChainAt(m, sizes, z, 1)
  <2>1. z \in J /\ \A x \in J : z <= x
    <3>1. z \in J
      BY <1>4 DEF Fresh
    <3>2. ASSUME NEW x \in J PROVE z <= x
      <4>1. x \notin a .. z - 1
        BY <1>4 DEF Fresh
      <4> QED
        BY <3>1, <4>1
    <3> QED
      BY <3>1, <3>2
  <2>2. A!Min(J) = z
    <3>1. J \in SUBSET Nat
      OBVIOUS
    <3> HIDE DEF J
    <3> QED
      BY <2>1, <3>1, LeastIs
  <2>3. \A y \in 1 .. m : its[y] = IF y < z THEN sizes[y] + 1 ELSE IF y = z THEN 1 ELSE 1
    <3> TAKE y \in 1 .. m
    <3>1. y \in a .. z - 1 => sizes[y] = 0
      BY <1>4 DEF Fresh
    <3>2. a <= z /\ z \in Nat
      BY <2>1
    <3> QED
      BY <3>1, <3>2
  <2>4. ChainAt(m, sizes, z, 1) = [index |-> z, iters |-> its]
    BY <2>3 DEF ChainAt
  <2>5. A!Adjust(sizes, it) = [index |-> z, iters |-> its]
    <3>1. left # {}
      BY <1>1, <2>1
    <3> HIDE DEF left, its, J, it
    <3> QED
      BY <1>1, <1>3, <2>2, <3>1
  <2> QED
    BY <2>4, <2>5
<1>5. ASSUME Spent(m, sizes, a) PROVE A!Adjust(sizes, it) = ChainAt(m, sizes, m + 1, 1)
  <2>1. J = {}
    BY <1>5 DEF Spent
  <2>2. \A y \in 1 .. m : its[y] = IF y < m + 1 THEN sizes[y] + 1 ELSE IF y = m + 1 THEN 1 ELSE 1
    <3> TAKE y \in 1 .. m
    <3>1. y \in a .. m => sizes[y] = 0
      BY <1>5 DEF Spent
    <3> QED
      BY <3>1
  <2>3. ChainAt(m, sizes, m + 1, 1) = [index |-> m + 1, iters |-> its]
    BY <2>2 DEF ChainAt
  <2>4. A!Adjust(sizes, it) = [index |-> m + 1, iters |-> its]
    <3> HIDE DEF left, its, J, it
    <3> QED
      BY <1>1, <1>3, <2>1
  <2> QED
    BY <2>3, <2>4
<1>6. ChainAt(m, sizes, a, 1).iters = its
  BY DEF ChainAt
<1> HIDE DEF its
<1> QED
  BY <1>4, <1>5, <1>6

LEMMA PlacesAre ==
    ASSUME NEW m \in Nat, NEW sizes \in [1 .. m -> Nat]
    PROVE  /\ \A x \in 1 .. m : \A p \in 1 .. sizes[x] :
                /\ ChainAt(m, sizes, x, p).index = x /\ ChainAt(m, sizes, x, p).iters[x] = p
                /\ \A y \in DOMAIN sizes : ChainAt(m, sizes, x, p).iters[y] <= sizes[y] + 1
                /\ p # sizes[x] => A!ChainStep(sizes, ChainAt(m, sizes, x, p)) = ChainAt(m, sizes, x, p + 1)
                /\ p = sizes[x] => A!ChainStep(sizes, ChainAt(m, sizes, x, p))
                     = A!Adjust(sizes, [index |-> x, iters |-> ChainAt(m, sizes, x + 1, 1).iters])
           /\ ChainAt(m, sizes, m + 1, 1).index = m + 1
           /\ \A y \in DOMAIN sizes : ChainAt(m, sizes, m + 1, 1).iters[y] <= sizes[y] + 1
           /\ A!ChainBegin(sizes) = A!Adjust(sizes, [index |-> 1, iters |-> ChainAt(m, sizes, 1, 1).iters])
           /\ A!ChainEnd(sizes) = ChainAt(m, sizes, m + 1, 1)
<1>1. ASSUME NEW x \in 1 .. m, NEW p \in 1 .. sizes[x]
      PROVE  /\ ChainAt(m, sizes, x, p).index = x /\ ChainAt(m, sizes, x, p).iters[x] = p
             /\ \A y \in DOMAIN sizes : ChainAt(m, sizes, x, p).iters[y] <= sizes[y] + 1
             /\ p # sizes[x] => A!ChainStep(sizes, ChainAt(m, sizes, x, p)) = ChainAt(m, sizes, x, p + 1)
             /\ p = sizes[x] => A!ChainStep(sizes, ChainAt(m, sizes, x, p))
                  = A!Adjust(sizes, [index |-> x, iters |-> ChainAt(m, sizes, x + 1, 1).iters])
  <2> DEFINE its == [y \in 1 .. m |-> IF y < x THEN sizes[y] + 1 ELSE IF y = x THEN p ELSE 1]
             on == [y \in 1 .. m |-> IF y < x THEN sizes[y] + 1 ELSE IF y = x THEN p + 1 ELSE 1]
  <2>1. ChainAt(m, sizes, x, p) = [index |-> x, iters |-> its]
    BY DEF ChainAt
  <2>2. its[x] = p
    OBVIOUS
  <2>3. \A y \in DOMAIN sizes : its[y] <= sizes[y] + 1
    OBVIOUS
  <2>4. A!ChainStep(sizes, ChainAt(m, sizes, x, p)) = A!Adjust(sizes, [index |-> x, iters |-> on])
    <3>1. [its EXCEPT ![x] = @ + 1] = on
      <4>1. /\ DOMAIN its = 1 .. m /\ its = [y \in 1 .. m |-> its[y]]
            /\ on = [y \in 1 .. m |-> on[y]]
        OBVIOUS
      <4>2. \A y \in 1 .. m : on[y] = IF y = x THEN its[x] + 1 ELSE its[y]
        OBVIOUS
      <4> HIDE DEF its, on
      <4> QED
        BY <4>1, <4>2
    <3> HIDE DEF its, on
    <3>2. [ChainAt(m, sizes, x, p) EXCEPT !.iters[x] = @ + 1] = [index |-> x, iters |-> on]
      BY <2>1, <3>1
    <3>3. ChainAt(m, sizes, x, p).index = x
      BY <2>1
    <3> QED
      BY <3>2, <3>3 DEF A!ChainStep
  <2>5. ASSUME p = sizes[x] PROVE on = ChainAt(m, sizes, x + 1, 1).iters
    <3>1. ChainAt(m, sizes, x + 1, 1).iters
            = [y \in 1 .. m |-> IF y < x + 1 THEN sizes[y] + 1 ELSE IF y = x + 1 THEN 1 ELSE 1]
      BY DEF ChainAt
    <3>2. \A y \in 1 .. m : on[y] = IF y < x + 1 THEN sizes[y] + 1 ELSE IF y = x + 1 THEN 1 ELSE 1
      BY <2>5
    <3> QED
      BY <3>1, <3>2
  <2>6. ASSUME p # sizes[x]
        PROVE  A!Adjust(sizes, [index |-> x, iters |-> on]) = ChainAt(m, sizes, x, p + 1)
    <3> DEFINE it == [index |-> x, iters |-> on]
               left == {y \in DOMAIN sizes : y >= it.index /\ it.iters[y] # sizes[y] + 1}
    <3>1. DOMAIN sizes = 1 .. m /\ it.index = x /\ it.iters = on
      OBVIOUS
    <3>2. x \in left /\ \A y \in left : x <= y
      <4>1. on[x] = p + 1 /\ sizes[x] \in Nat
        OBVIOUS
      <4> HIDE DEF on
      <4> QED
        BY <2>6, <3>1, <4>1
    <3>3. A!Min(left) = x
      <4>1. left \in SUBSET Nat
        OBVIOUS
      <4> HIDE DEF left
      <4> QED
        BY <3>2, <4>1, LeastIs
    <3>4. A!Adjust(sizes, it) = [it EXCEPT !.index = IF left = {} THEN Len(sizes) + 1 ELSE A!Min(left)]
      BY DEF A!Adjust
    <3> HIDE DEF left
    <3>5. A!Adjust(sizes, it) = [it EXCEPT !.index = x]
      BY <3>2, <3>3, <3>4
    <3>6. ChainAt(m, sizes, x, p + 1) = it
      BY DEF ChainAt
    <3>7. [it EXCEPT !.index = x] = it
      OBVIOUS
    <3> QED
      BY <3>5, <3>6, <3>7
  <2> HIDE DEF its, on
  <2> QED
    BY <2>1, <2>2, <2>3, <2>4, <2>5, <2>6
<1>2. ChainAt(m, sizes, m + 1, 1).index = m + 1
  BY DEF ChainAt
<1>3. \A y \in 1 .. m : ChainAt(m, sizes, m + 1, 1).iters[y] = sizes[y] + 1
  BY DEF ChainAt
<1>4. DOMAIN sizes = 1 .. m /\ Len(sizes) = m
  OBVIOUS
<1>5. A!Begins(sizes) = ChainAt(m, sizes, 1, 1).iters
  <2>1. A!Begins(sizes) = [y \in 1 .. m |-> 1]
    BY <1>4 DEF A!Begins
  <2>2. ChainAt(m, sizes, 1, 1).iters = [y \in 1 .. m |-> 1]
    BY DEF ChainAt
  <2> QED
    BY <2>1, <2>2
<1>6. A!Ends(sizes) = ChainAt(m, sizes, m + 1, 1).iters
  <2>1. A!Ends(sizes) = [y \in 1 .. m |-> sizes[y] + 1]
    BY <1>4 DEF A!Ends
  <2>2. ChainAt(m, sizes, m + 1, 1).iters
          = [y \in 1 .. m |-> IF y < m + 1 THEN sizes[y] + 1 ELSE IF y = m + 1 THEN 1 ELSE 1]
    BY DEF ChainAt
  <2>3. \A y \in 1 .. m : y < m + 1
    OBVIOUS
  <2> QED
    BY <2>1, <2>2, <2>3
<1>7. A!ChainEnd(sizes) = ChainAt(m, sizes, m + 1, 1)
  <2>1. Spent(m, sizes, m + 1)
    BY DEF Spent
  <2>2. A!ChainEnd(sizes)
          = A!Adjust(sizes, [index |-> m + 1, iters |-> ChainAt(m, sizes, m + 1, 1).iters])
    BY <1>4, <1>6 DEF A!ChainEnd
  <2> QED
    BY <2>1, <2>2, Adjusts
<1>8. A!ChainBegin(sizes) = A!Adjust(sizes, [index |-> 1, iters |-> ChainAt(m, sizes, 1, 1).iters])
  BY <1>5 DEF A!ChainBegin
<1> QED
  BY <1>1, <1>2, <1>3, <1>4, <1>7, <1>8

(* What is left to show of chain and of from_iterable: spot[e] is the iterator *)
(* at the element e.                                                        *)
Joins(s, m, spot) ==
    LET T == Joined(s.sizes)
        Comes(it, a) ==
            /\ \A z : Fresh(m, s.sizes, a, z) => it = spot[<<z, 1>>]
            /\ Spent(m, s.sizes, a) => it = Finish(s)
    IN  /\ Yields(s) = A!Chained(s.sizes) /\ Comes(Begin(s), 1)
        /\ \A x \in 1 .. m : \A p \in 1 .. s.sizes[x] :
             /\ p # s.sizes[x] => Step(s, spot[<<x, p>>]) = spot[<<x, p + 1>>]
             /\ p = s.sizes[x] => Comes(Step(s, spot[<<x, p>>]), x + 1)
        /\ \A e \in T :
             /\ Value(s, spot[e]) = e /\ Inner(s, spot[e])
             /\ ~Same(s, spot[e], Finish(s)) /\ ~Same(s, Finish(s), spot[e])
             /\ \A f \in T : Same(s, spot[e], spot[f]) <=> e = f
        /\ Same(s, Finish(s), Finish(s)) /\ Inner(s, Finish(s))

LEMMA JoinsKeeps ==
    ASSUME NEW s, NEW m \in Nat, s.sizes \in [1 .. m -> Nat], NEW spot, Joins(s, m, spot)
    PROVE  \E w : Kept(s, w)
<1> DEFINE sizes == s.sizes
           T == Joined(sizes)
           R == Along(sizes)
           last == Finish(s)
           On == [e \in T |-> {spot[e]}]
           Done == {last}
<1>1. /\ IsFiniteSet(T) /\ Orders(R, T) /\ Yields(s) = Listing(T, R)
      /\ \A e : e \in T <=> \E x \in 1 .. m : \E p \in 1 .. sizes[x] : e = <<x, p>>
  BY JoinedIs DEF Joins
<1>2. /\ \A z : Fresh(m, sizes, 1, z) => Begin(s) = spot[<<z, 1>>]
      /\ Spent(m, sizes, 1) => Begin(s) = last
      /\ \A x \in 1 .. m : \A p \in 1 .. sizes[x] :
           /\ p # sizes[x] => Step(s, spot[<<x, p>>]) = spot[<<x, p + 1>>]
           /\ p = sizes[x] =>
                /\ \A z : Fresh(m, sizes, x + 1, z) => Step(s, spot[<<x, p>>]) = spot[<<z, 1>>]
                /\ Spent(m, sizes, x + 1) => Step(s, spot[<<x, p>>]) = last
  BY DEF Joins
<1>3. /\ \A e \in T :
           /\ Value(s, spot[e]) = e /\ Inner(s, spot[e])
           /\ ~Same(s, spot[e], last) /\ ~Same(s, last, spot[e])
           /\ \A f \in T : Same(s, spot[e], spot[f]) <=> e = f
      /\ Same(s, last, last) /\ Inner(s, last)
  BY DEF Joins
<1>4. /\ Spent(m, sizes, 1) => T = {}
      /\ \A z : Fresh(m, sizes, 1, z) =>
           <<z, 1>> \in T /\ \A e \in T : <<e, <<z, 1>>>> \notin R
      /\ \A x \in 1 .. m : \A p \in 1 .. sizes[x] :
           /\ p # sizes[x] => Follows(T, R, <<x, p>>, <<x, p + 1>>)
           /\ \A z : p = sizes[x] /\ Fresh(m, sizes, x + 1, z) =>
                Follows(T, R, <<x, p>>, <<z, 1>>)
           /\ p = sizes[x] /\ Spent(m, sizes, x + 1) =>
                \A e \in T : <<<<x, p>>, e>> \notin R
  BY AlongThem
<1>5. \A a \in 1 .. m + 1 : /\ Spent(m, sizes, a) \/ \E z \in 1 .. m : Fresh(m, sizes, a, z)
                            /\ \A z : Fresh(m, sizes, a, z) =>
                                 ~Spent(m, sizes, a) /\ z \in 1 .. m /\ sizes[z] \in Nat \ {0}
  BY FreshOrSpent
<1>6. \A e \in T : On[e] = {spot[e]}
  OBVIOUS
<1>7. sizes \in [1 .. m -> Nat]
  OBVIOUS
<1> HIDE DEF T, R, On, sizes, last
<1>8. ASSUME T = {} PROVE Begin(s) \in Done
  <2>1. 1 \in 1 .. m + 1 /\ ~\E z : Fresh(m, sizes, 1, z)
    BY <1>4, <1>8
  <2> QED
    BY <1>2, <1>5, <2>1
<1>9. ASSUME T # {} PROVE \E t \in T : (\A u \in T : <<u, t>> \notin R) /\ Begin(s) \in On[t]
  <2>1. 1 \in 1 .. m + 1 /\ ~Spent(m, sizes, 1)
    BY <1>4, <1>9
  <2>2. PICK z \in 1 .. m : Fresh(m, sizes, 1, z)
    BY <1>5, <2>1
  <2> QED
    BY <1>2, <1>4, <1>6, <2>2
<1>10. ASSUME NEW t \in T
       PROVE  \/ \E u \in T : Follows(T, R, t, u) /\ Step(s, spot[t]) \in On[u]
              \/ (\A u \in T : <<t, u>> \notin R) /\ Step(s, spot[t]) \in Done
  <2>1. PICK x \in 1 .. m : \E p \in 1 .. sizes[x] : t = <<x, p>>
    BY <1>1
  <2>2. PICK p \in 1 .. sizes[x] : t = <<x, p>>
    BY <2>1
  <2>3. CASE p # sizes[x]
    <3>1. p + 1 \in 1 .. sizes[x]
      BY <1>7, <2>3
    <3>2. <<x, p + 1>> \in T
      BY <1>1, <3>1
    <3>3. Follows(T, R, t, <<x, p + 1>>) /\ Step(s, spot[t]) = spot[<<x, p + 1>>]
      BY <1>2, <1>4, <2>2, <2>3
    <3> QED
      BY <1>6, <3>2, <3>3
  <2>4. CASE p = sizes[x]
    <3>1. x + 1 \in 1 .. m + 1
      OBVIOUS
    <3>2. CASE Spent(m, sizes, x + 1)
      BY <1>2, <1>4, <2>2, <2>4, <3>2
    <3>3. ASSUME NEW z \in 1 .. m, Fresh(m, sizes, x + 1, z)
          PROVE  \E u \in T : Follows(T, R, t, u) /\ Step(s, spot[t]) \in On[u]
      <4>1. 1 \in 1 .. sizes[z]
        BY <1>5, <3>1, <3>3
      <4>2. <<z, 1>> \in T
        BY <1>1, <4>1
      <4>3. Follows(T, R, t, <<z, 1>>) /\ Step(s, spot[t]) = spot[<<z, 1>>]
        BY <1>2, <1>4, <2>2, <2>4, <3>3
      <4> QED
        BY <1>6, <4>2, <4>3
    <3> QED
      BY <1>5, <3>1, <3>2, <3>3
  <2> QED
    BY <2>3, <2>4
<1>11. Lists(s, T, R, On, Done)
  <2>1. IsFiniteSet(T) /\ Orders(R, T) /\ Yields(s) = Listing(T, R)
    BY <1>1
  <2>2. T = {} => Begin(s) \in Done
    BY <1>8
  <2>3. T # {} => \E t \in T : (\A u \in T : <<u, t>> \notin R) /\ Begin(s) \in On[t]
    BY <1>9
  <2>4. ASSUME NEW t \in T, NEW it \in On[t]
        PROVE /\ Value(s, it) = t
              /\ \/ \E u \in T : Follows(T, R, t, u) /\ Step(s, it) \in On[u]
                 \/ (\A u \in T : <<t, u>> \notin R) /\ Step(s, it) \in Done
              /\ ~Same(s, it, Finish(s)) /\ ~Same(s, Finish(s), it)
              /\ Inner(s, it)
    <3>1. it = spot[t]
      BY <1>6, <2>4
    <3> QED
      BY <1>3, <1>10, <3>1 DEF last
  <2>5. \A it \in Done : Same(s, it, Finish(s)) /\ Same(s, Finish(s), it) /\ Inner(s, it)
    BY <1>3 DEF last
  <2>6. Same(s, Finish(s), Finish(s)) /\ Inner(s, Finish(s))
    BY <1>3 DEF last
  <2> QED
    BY <2>1, <2>2, <2>3, <2>4, <2>5, <2>6 DEF Lists
<1>12. Parts(s, T, On, Done)
  BY <1>3, <1>6 DEF Parts
<1> QED
  BY <1>11, <1>12, ListsKeeps

LEMMA ChainKeeps ==
    ASSUME NEW s, Joining(s), s.tool = "chain"
    PROVE  \E w : Kept(s, w)
<1>1. PICK m \in Nat : s.sizes \in [1 .. m -> Nat]
  BY DEF Joining
<1> DEFINE sizes == s.sizes
           T == Joined(sizes)
           Here(x, p) == ChainAt(m, sizes, x, p)
           last == Here(m + 1, 1)
           spot == [e \in T |-> Here(e[1], e[2])]
<1>2. /\ \A e : e \in T <=> \E x \in 1 .. m : \E p \in 1 .. sizes[x] : e = <<x, p>>
      /\ sizes \in [1 .. m -> Nat] /\ Len(sizes) = m
  BY <1>1, JoinedIs
<1>3. /\ Begin(s) = A!ChainBegin(sizes) /\ Finish(s) = A!ChainEnd(sizes)
      /\ Yields(s) = A!Chained(sizes)
      /\ \A it : Step(s, it) = A!ChainStep(sizes, it) /\ Value(s, it) = <<it.index, it.iters[it.index]>>
      /\ \A it, other : Same(s, it, other) <=> A!ChainSame(sizes, it, other)
      /\ \A it : Inner(s, it) <=> \A y \in DOMAIN sizes : it.iters[y] <= sizes[y] + 1
  <2>1. Adaptor(s)
    BY Adapts DEF A!Adapting
  <2> QED
    BY <2>1 DEF Adaptor, A!Begin, A!Finish, A!Step, A!Value, A!Same, A!Yields, A!ChainValue,
       Inner, A!Inside, S!Selecting, A!Adapting
<1>4. /\ \A x \in 1 .. m : \A p \in 1 .. sizes[x] :
           /\ Here(x, p).index = x /\ Here(x, p).iters[x] = p
           /\ \A y \in DOMAIN sizes : Here(x, p).iters[y] <= sizes[y] + 1
           /\ p # sizes[x] => A!ChainStep(sizes, Here(x, p)) = Here(x, p + 1)
           /\ p = sizes[x] => A!ChainStep(sizes, Here(x, p))
                = A!Adjust(sizes, [index |-> x, iters |-> Here(x + 1, 1).iters])
      /\ last.index = m + 1
      /\ \A y \in DOMAIN sizes : last.iters[y] <= sizes[y] + 1
      /\ A!ChainBegin(sizes) = A!Adjust(sizes, [index |-> 1, iters |-> Here(1, 1).iters])
      /\ A!ChainEnd(sizes) = last
  BY <1>1, PlacesAre
<1>5. ASSUME NEW a \in 1 .. m + 1, NEW b \in Nat, b = a \/ b + 1 = a
      PROVE  LET it == [index |-> b, iters |-> Here(a, 1).iters]
             IN  /\ \A z : Fresh(m, sizes, a, z) => A!Adjust(sizes, it) = Here(z, 1)
                 /\ Spent(m, sizes, a) => A!Adjust(sizes, it) = last
  BY <1>1, <1>5, Adjusts
<1>6. \A x \in 1 .. m : \A p \in 1 .. sizes[x] : spot[<<x, p>>] = Here(x, p)
  BY <1>2
<1>7. \A a \in 1 .. m + 1 : \A z : Fresh(m, sizes, a, z) => z \in 1 .. m /\ 1 \in 1 .. sizes[z]
  BY <1>1, FreshOrSpent
<1> HIDE DEF T, Here, sizes, spot, last
<1>8. ASSUME NEW x \in 1 .. m, NEW p \in 1 .. sizes[x], p # sizes[x]
      PROVE  Step(s, spot[<<x, p>>]) = spot[<<x, p + 1>>]
  <2>1. p + 1 \in 1 .. sizes[x]
    BY <1>2, <1>8
  <2>2. spot[<<x, p>>] = Here(x, p) /\ spot[<<x, p + 1>>] = Here(x, p + 1)
    BY <1>6, <2>1
  <2>3. A!ChainStep(sizes, Here(x, p)) = Here(x, p + 1)
    BY <1>4, <1>8
  <2>4. Step(s, Here(x, p)) = A!ChainStep(sizes, Here(x, p))
    BY <1>3
  <2> QED
    BY <2>2, <2>3, <2>4
<1>9. ASSUME NEW x \in 1 .. m, NEW p \in 1 .. sizes[x], p = sizes[x]
      PROVE  /\ \A z : Fresh(m, sizes, x + 1, z) => Step(s, spot[<<x, p>>]) = spot[<<z, 1>>]
             /\ Spent(m, sizes, x + 1) => Step(s, spot[<<x, p>>]) = Finish(s)
  <2>1. x + 1 \in 1 .. m + 1 /\ x \in Nat
    OBVIOUS
  <2>2. Step(s, spot[<<x, p>>]) = A!Adjust(sizes, [index |-> x, iters |-> Here(x + 1, 1).iters])
    BY <1>3, <1>4, <1>6, <1>9
  <2>3. \A z : Fresh(m, sizes, x + 1, z) => spot[<<z, 1>>] = Here(z, 1)
    BY <1>6, <1>7, <2>1
  <2> QED
    BY <1>3, <1>4, <1>5, <2>1, <2>2, <2>3
<1>10. /\ \A z : Fresh(m, sizes, 1, z) => Begin(s) = spot[<<z, 1>>]
       /\ Spent(m, sizes, 1) => Begin(s) = Finish(s)
  <2>1. 1 \in 1 .. m + 1 /\ 1 \in Nat
    OBVIOUS
  <2>2. \A z : Fresh(m, sizes, 1, z) => spot[<<z, 1>>] = Here(z, 1)
    BY <1>6, <1>7, <2>1
  <2> QED
    BY <1>3, <1>4, <1>5, <2>1, <2>2
<1>11. ASSUME NEW x \in 1 .. m, NEW p \in 1 .. sizes[x]
       PROVE  /\ Value(s, spot[<<x, p>>]) = <<x, p>> /\ Inner(s, spot[<<x, p>>])
              /\ ~Same(s, spot[<<x, p>>], Finish(s)) /\ ~Same(s, Finish(s), spot[<<x, p>>])
              /\ \A y \in 1 .. m : \A q \in 1 .. sizes[y] :
                   Same(s, spot[<<x, p>>], spot[<<y, q>>]) <=> x = y /\ p = q
  <2>0. spot[<<x, p>>] = Here(x, p) /\ Here(x, p).index = x /\ Here(x, p).iters[x] = p
    BY <1>4, <1>6
  <2>1. Value(s, spot[<<x, p>>]) = <<x, p>> /\ Inner(s, spot[<<x, p>>])
    <3>1. Value(s, Here(x, p)) = <<x, p>>
      BY <1>3, <2>0
    <3>2. Inner(s, Here(x, p))
      BY <1>3, <1>4
    <3> QED
      BY <2>0, <3>1, <3>2
  <2>2. ~Same(s, spot[<<x, p>>], Finish(s)) /\ ~Same(s, Finish(s), spot[<<x, p>>])
    <3>1. x # m + 1
      OBVIOUS
    <3> QED
      BY <1>3, <1>4, <2>0, <3>1 DEF A!ChainSame
  <2>3. ASSUME NEW y \in 1 .. m, NEW q \in 1 .. sizes[y]
        PROVE  Same(s, spot[<<x, p>>], spot[<<y, q>>]) <=> x = y /\ p = q
    <3>1. x # m + 1
      OBVIOUS
    <3>2. /\ spot[<<x, p>>].index = x /\ spot[<<x, p>>].iters[x] = p
          /\ spot[<<y, q>>].index = y /\ spot[<<y, q>>].iters[y] = q
      <4>1. spot[<<y, q>>] = Here(y, q) /\ Here(y, q).index = y /\ Here(y, q).iters[y] = q
        BY <1>4, <1>6
      <4> QED
        BY <2>0, <4>1
    <3> QED
      BY <1>2, <1>3, <3>1, <3>2, SMTT(30) DEF A!ChainSame
  <2> QED
    BY <2>1, <2>2, <2>3
<1>12. Same(s, Finish(s), Finish(s)) /\ Inner(s, Finish(s))
  BY <1>2, <1>3, <1>4 DEF A!ChainSame
<1>13. ASSUME NEW e \in T
       PROVE  /\ Value(s, spot[e]) = e /\ Inner(s, spot[e])
              /\ ~Same(s, spot[e], Finish(s)) /\ ~Same(s, Finish(s), spot[e])
              /\ \A f \in T : Same(s, spot[e], spot[f]) <=> e = f
  <2>1. PICK x \in 1 .. m : \E p \in 1 .. sizes[x] : e = <<x, p>>
    BY <1>2
  <2>2. PICK p \in 1 .. sizes[x] : e = <<x, p>>
    BY <2>1
  <2>3. ASSUME NEW f \in T PROVE Same(s, spot[e], spot[f]) <=> e = f
    <3>1. PICK y \in 1 .. m : \E q \in 1 .. sizes[y] : f = <<y, q>>
      BY <1>2
    <3>2. PICK q \in 1 .. sizes[y] : f = <<y, q>>
      BY <3>1
    <3>3. e = f <=> x = y /\ p = q
      BY <2>2, <3>2
    <3> QED
      BY <1>11, <2>2, <3>2, <3>3
  <2> QED
    BY <1>11, <2>2, <2>3
<1>14. Joins(s, m, spot)
  BY <1>3, <1>8, <1>9, <1>10, <1>12, <1>13 DEF Joins, T, sizes
<1> QED
  BY <1>1, <1>14, JoinsKeeps

LEMMA FromIterableKeeps ==
    ASSUME NEW s, Joining(s), s.tool = "from_iterable"
    PROVE  \E w : Kept(s, w)
<1>1. PICK m \in Nat : s.sizes \in [1 .. m -> Nat]
  BY DEF Joining
<1> DEFINE sizes == s.sizes
           T == Joined(sizes)
           Here(x, p) == [top |-> x, sub |-> p]
           last == Here(m + 1, 0)
           spot == [e \in T |-> Here(e[1], e[2])]
<1>2. /\ \A e : e \in T <=> \E x \in 1 .. m : \E p \in 1 .. sizes[x] : e = <<x, p>>
      /\ sizes \in [1 .. m -> Nat] /\ Len(sizes) = m
  BY <1>1, JoinedIs
<1>3. /\ Begin(s) = A!NextSub(sizes, 1) /\ Finish(s) = A!NextSub(sizes, m + 1)
      /\ Yields(s) = A!Chained(sizes)
      /\ \A it : Step(s, it) = A!FromStep(sizes, it) /\ Value(s, it) = <<it.top, it.sub>>
      /\ \A it, other : Same(s, it, other) <=> it.top = other.top /\ it.sub = other.sub
      /\ \A it : Inner(s, it) <=> it.top <= m + 1
  <2>1. Adaptor(s)
    BY Adapts DEF A!Adapting
  <2> QED
    BY <1>2, <2>1 DEF Adaptor, A!Begin, A!Finish, A!Step, A!Value, A!Same, A!Yields, A!FromValue,
       A!FromBegin, A!FromEnd, A!FromSame, Inner, A!Inside, S!Selecting, A!Adapting
<1>4. ASSUME NEW a \in 1 .. m + 1
      PROVE  /\ \A z : Fresh(m, sizes, a, z) => A!NextSub(sizes, a) = Here(z, 1)
             /\ Spent(m, sizes, a) => A!NextSub(sizes, a) = last
  <2> DEFINE J == {x \in DOMAIN sizes : x >= a /\ sizes[x] # 0}
  <2>1. A!NextSub(sizes, a) = IF J = {} THEN last ELSE Here(A!Min(J), 1)
    BY <1>2 DEF A!NextSub
  <2>2. ASSUME NEW z, Fresh(m, sizes, a, z) PROVE A!NextSub(sizes, a) = Here(z, 1)
    <3>1. J \in SUBSET Nat
      BY <1>2
    <3>2. z \in J
      BY <1>2, <2>2 DEF Fresh
    <3>3. ASSUME NEW x \in J PROVE z <= x
      <4>1. x \notin a .. z - 1 /\ x >= a
        BY <2>2 DEF Fresh
      <4> QED
        BY <3>1, <3>2, <4>1
    <3> HIDE DEF J
    <3>4. A!Min(J) = z
      BY <3>1, <3>2, <3>3, LeastIs
    <3> QED
      BY <2>1, <3>2, <3>4
  <2>3. ASSUME Spent(m, sizes, a) PROVE A!NextSub(sizes, a) = last
    <3>1. J = {}
      BY <1>2, <2>3 DEF Spent
    <3> QED
      BY <2>1, <3>1
  <2> QED
    BY <2>2, <2>3
<1>5. Finish(s) = last
  <2>1. m + 1 \in 1 .. m + 1 /\ Spent(m, sizes, m + 1)
    BY DEF Spent
  <2> QED
    BY <1>3, <1>4, <2>1
<1>6. \A x \in 1 .. m : \A p \in 1 .. sizes[x] : spot[<<x, p>>] = Here(x, p)
  BY <1>2
<1>7. \A a \in 1 .. m + 1 : \A z : Fresh(m, sizes, a, z) => z \in 1 .. m /\ 1 \in 1 .. sizes[z]
  BY <1>1, FreshOrSpent
<1> HIDE DEF T, sizes, spot
<1>8. ASSUME NEW x \in 1 .. m, NEW p \in 1 .. sizes[x], p # sizes[x]
      PROVE  Step(s, spot[<<x, p>>]) = spot[<<x, p + 1>>]
  <2>1. p + 1 \in 1 .. sizes[x] /\ p + 1 # sizes[x] + 1
    BY <1>2, <1>8
  <2>2. spot[<<x, p>>] = Here(x, p) /\ spot[<<x, p + 1>>] = Here(x, p + 1)
    BY <1>6, <2>1
  <2>3. A!FromStep(sizes, Here(x, p)) = Here(x, p + 1)
    BY <1>2, <1>8 DEF A!FromStep
  <2> QED
    BY <1>3, <2>2, <2>3
<1>9. ASSUME NEW x \in 1 .. m, NEW p \in 1 .. sizes[x], p = sizes[x]
      PROVE  /\ \A z : Fresh(m, sizes, x + 1, z) => Step(s, spot[<<x, p>>]) = spot[<<z, 1>>]
             /\ Spent(m, sizes, x + 1) => Step(s, spot[<<x, p>>]) = Finish(s)
  <2>1. x + 1 \in 1 .. m + 1 /\ x \in Nat
    OBVIOUS
  <2>2. Step(s, spot[<<x, p>>]) = A!NextSub(sizes, x + 1)
    <3>1. spot[<<x, p>>] = Here(x, p)
      BY <1>6
    <3>2. A!FromStep(sizes, Here(x, p)) = A!NextSub(sizes, x + 1)
      BY <1>2, <1>9 DEF A!FromStep
    <3> QED
      BY <1>3, <3>1, <3>2
  <2>3. \A z : Fresh(m, sizes, x + 1, z) => spot[<<z, 1>>] = Here(z, 1)
    BY <1>6, <1>7, <2>1
  <2> HIDE DEF Here, last
  <2> QED
    BY <1>4, <1>5, <2>1, <2>2, <2>3
<1>10. /\ \A z : Fresh(m, sizes, 1, z) => Begin(s) = spot[<<z, 1>>]
       /\ Spent(m, sizes, 1) => Begin(s) = Finish(s)
  <2>1. 1 \in 1 .. m + 1
    OBVIOUS
  <2>2. \A z : Fresh(m, sizes, 1, z) => spot[<<z, 1>>] = Here(z, 1)
    BY <1>6, <1>7, <2>1
  <2> HIDE DEF Here, last
  <2> QED
    BY <1>3, <1>4, <1>5, <2>1, <2>2
<1>11. ASSUME NEW e \in T
       PROVE  /\ e = <<e[1], e[2]>> /\ spot[e].top = e[1] /\ spot[e].sub = e[2]
              /\ e[1] \in 1 .. m /\ e[2] \in 1 .. sizes[e[1]] /\ e[2] # 0 /\ e[1] <= m + 1
  <2>1. PICK x \in 1 .. m : \E p \in 1 .. sizes[x] : e = <<x, p>>
    BY <1>2
  <2>2. PICK p \in 1 .. sizes[x] : e = <<x, p>>
    BY <2>1
  <2>3. e[1] = x /\ e[2] = p /\ e = <<e[1], e[2]>>
    BY <2>2
  <2>4. spot[e].top = x /\ spot[e].sub = p
    <3>1. spot[<<x, p>>] = Here(x, p)
      BY <1>6
    <3> QED
      BY <2>2, <3>1
  <2>5. p # 0 /\ x <= m + 1
    OBVIOUS
  <2> HIDE DEF Here
  <2> QED
    BY <2>3, <2>4, <2>5
<1>12. ASSUME NEW e \in T
       PROVE  /\ Value(s, spot[e]) = e /\ Inner(s, spot[e])
              /\ ~Same(s, spot[e], Finish(s)) /\ ~Same(s, Finish(s), spot[e])
              /\ \A f \in T : Same(s, spot[e], spot[f]) <=> e = f
  <2>1. Value(s, spot[e]) = e /\ Inner(s, spot[e])
    <3>1. spot[e].top = e[1] /\ spot[e].sub = e[2] /\ e = <<e[1], e[2]>> /\ e[1] <= m + 1
      BY <1>11
    <3>2. Value(s, spot[e]) = <<spot[e].top, spot[e].sub>>
      BY <1>3
    <3>3. Inner(s, spot[e]) <=> spot[e].top <= m + 1
      BY <1>3
    <3> QED
      BY <3>1, <3>2, <3>3
  <2>2. ~Same(s, spot[e], Finish(s)) /\ ~Same(s, Finish(s), spot[e])
    <3>1. spot[e].sub # Finish(s).sub
      BY <1>5, <1>11
    <3> QED
      BY <1>3, <3>1
  <2>3. ASSUME NEW f \in T PROVE Same(s, spot[e], spot[f]) <=> e = f
    <3>1. /\ spot[e].top = e[1] /\ spot[e].sub = e[2] /\ e = <<e[1], e[2]>>
          /\ spot[f].top = f[1] /\ spot[f].sub = f[2] /\ f = <<f[1], f[2]>>
      BY <1>11
    <3>2. Same(s, spot[e], spot[f]) <=> spot[e].top = spot[f].top /\ spot[e].sub = spot[f].sub
      BY <1>3
    <3> QED
      BY <3>1, <3>2
  <2> QED
    BY <2>1, <2>2, <2>3
<1>13. Same(s, Finish(s), Finish(s)) /\ Inner(s, Finish(s))
  BY <1>3, <1>5
<1>14. Joins(s, m, spot)
  BY <1>3, <1>8, <1>9, <1>10, <1>12, <1>13 DEF Joins, T, sizes
<1> QED
  BY <1>1, <1>14, JoinsKeeps

----------------------------------------------------------------------------
(* Selections: what product, combinations and the others have in common *)

(* Tools uses the operators of Selections for these tools *)
Selector(s) ==
    /\ Begin(s) = S!Begin(s) /\ Finish(s) = S!Finish(s) /\ Yields(s) = S!Yields(s)
    /\ \A it : Step(s, it) = S!Step(s, it) /\ Value(s, it) = S!Value(s, it)
    /\ \A it, other : Same(s, it, other) = S!Same(s, it, other)
    /\ \A it : Inner(s, it) <=> S!Inside(s, it)

LEMMA Selects ==
    ASSUME NEW s, s.tool \in S!Selecting
    PROVE  Selector(s)
<1>1. s.tool \notin A!Adapting /\ s.tool \notin C!Counted
  BY DEF A!Straight, A!Adapting, S!Selecting, C!Counted
<1>2. Begin(s) = S!Begin(s)
  BY <1>1 DEF Begin
<1>3. Finish(s) = S!Finish(s)
  BY <1>1 DEF Finish
<1>4. Yields(s) = S!Yields(s)
  BY <1>1 DEF Yields
<1>5. \A it : Step(s, it) = S!Step(s, it)
  BY <1>1 DEF Step
<1>6. \A it : Value(s, it) = S!Value(s, it)
  BY <1>1 DEF Value
<1>7. \A it, other : Same(s, it, other) = S!Same(s, it, other)
  BY <1>1 DEF Same
<1>8. \A it : Inner(s, it) <=> S!Inside(s, it)
  BY <1>1 DEF Inner
<1> QED
  BY <1>2, <1>3, <1>4, <1>5, <1>6, <1>7, <1>8 DEF Selector

(* Every set of numbers up to k has a greatest one. *)
LEMMA GreatestOf ==
    ASSUME NEW k \in Nat, NEW J \in SUBSET (0 .. k), J # {}
    PROVE  S!Max(J) \in J /\ \A j \in J : j <= S!Max(J)
<1> DEFINE Q == {d \in 0 .. k : k - d \in J}
<1>1. Q \in SUBSET Nat /\ Q # {}
  <2>1. PICK j \in J : TRUE
    OBVIOUS
  <2>2. k - j \in 0 .. k /\ k - (k - j) = j
    BY <2>1
  <2>3. k - j \in Q
    BY <2>1, <2>2
  <2>4. Q \in SUBSET Nat
    OBVIOUS
  <2> HIDE DEF Q
  <2> QED
    BY <2>3, <2>4
<1>2. PICK d \in Q : \A u \in Q : d <= u
  <2> HIDE DEF Q
  <2> QED
    BY <1>1, Least
<1>3. k - d \in J /\ d \in Nat
  BY <1>2
<1>4. \A j \in J : k - d >= j
  <2> TAKE j \in J
  <2>1. k - j \in 0 .. k /\ k - (k - j) = j
    OBVIOUS
  <2>2. k - j \in Q
    BY <2>1
  <2>3. d <= k - j
    BY <1>2, <2>2
  <2> QED
    BY <1>3, <2>3
<1>5. S!Max(J) \in J /\ \A j \in J : S!Max(J) >= j
  BY <1>3, <1>4 DEF S!Max
<1> QED
  BY <1>5

(* There are finitely many functions from a finite set of numbers to a      *)
(* finite set.                                                              *)
LEMMA FinitelyMany ==
    ASSUME NEW E, IsFiniteSet(E), NEW k \in Nat
    PROVE  IsFiniteSet([1 .. k -> E])
<1> DEFINE Out == {m \in Nat : ~IsFiniteSet([1 .. m -> E])}
<1>1. SUFFICES Out = {}
  OBVIOUS
<1> SUFFICES ASSUME Out # {} PROVE FALSE
  OBVIOUS
<1>2. PICK m \in Out : \A u \in Out : m <= u
  <2>1. Out \in SUBSET Nat
    OBVIOUS
  <2> HIDE DEF Out
  <2> QED
    BY <2>1, Least
<1>3. m # 0
  <2>1. [1 .. 0 -> E] = {[x \in {} |-> x]}
    <3>1. 1 .. 0 = {}
      OBVIOUS
    <3> QED
      BY <3>1
  <2>2. IsFiniteSet({[x \in {} |-> x]})
    BY FS_Singleton
  <2> QED
    BY <1>2, <2>1, <2>2
<1>4. m \in Nat /\ m - 1 \in Nat /\ ~(m <= m - 1)
  BY <1>2, <1>3
<1>5. IsFiniteSet([1 .. m - 1 -> E])
  <2>1. m - 1 \notin Out
    BY <1>2, <1>4
  <2> QED
    BY <1>4, <2>1
<1> DEFINE D == [1 .. m - 1 -> E] \X E
           G == [1 .. m -> E]
           f == [d \in D |-> [x \in 1 .. m |-> IF x = m THEN d[2] ELSE d[1][x]]]
<1>6. IsFiniteSet(D)
  BY <1>5, FS_Product
<1>7. f \in [D -> G]
  <2> SUFFICES ASSUME NEW d \in D PROVE f[d] \in G
    OBVIOUS
  <2>1. d[1] \in [1 .. m - 1 -> E] /\ d[2] \in E
    OBVIOUS
  <2>2. ASSUME NEW x \in 1 .. m PROVE (IF x = m THEN d[2] ELSE d[1][x]) \in E
    <3>1. x # m => x \in 1 .. m - 1
      BY <1>4
    <3> QED
      BY <2>1, <3>1
  <2>3. f[d] = [x \in 1 .. m |-> IF x = m THEN d[2] ELSE d[1][x]]
    OBVIOUS
  <2> HIDE DEF f
  <2> QED
    BY <2>2, <2>3
<1>8. ASSUME NEW g \in G PROVE \E d \in D : f[d] = g
  <2> DEFINE h == [x \in 1 .. m - 1 |-> g[x]]
             d == <<h, g[m]>>
  <2>1. \A x \in 1 .. m - 1 : x \in 1 .. m
    BY <1>4
  <2>2. d \in D
    BY <1>4, <2>1
  <2>3. f[d] = [x \in 1 .. m |-> IF x = m THEN g[m] ELSE h[x]]
    <3>1. d[1] = h /\ d[2] = g[m]
      OBVIOUS
    <3> HIDE DEF d, h
    <3>2. f[d] = [x \in 1 .. m |-> IF x = m THEN d[2] ELSE d[1][x]]
      BY <2>2
    <3> QED
      BY <3>1, <3>2
  <2>4. \A x \in 1 .. m : (IF x = m THEN g[m] ELSE h[x]) = g[x]
    <3> TAKE x \in 1 .. m
    <3>1. x # m => x \in 1 .. m - 1
      BY <1>4
    <3> QED
      BY <3>1
  <2>5. f[d] = g
    BY <2>3, <2>4
  <2> QED
    BY <2>2, <2>5
<1>9. f \in Surjection(D, G)
  <2> HIDE DEF f, D, G
  <2> QED
    BY <1>7, <1>8 DEF Surjection
<1>10. IsFiniteSet(G)
  <2> HIDE DEF f, D, G
  <2> QED
    BY <1>6, <1>9, FS_Surjection
<1> QED
  BY <1>2, <1>10

(* the order of their values: shorter ones first, then lexicographic *)
Lex(T) == {e \in T \X T : S!Precedes(e[1], e[2])}

(* sequences of numbers *)
Sequential(T) == \A t \in T : Len(t) \in Nat /\ t \in [1 .. Len(t) -> Int]

(* two different sequences differ at a first place *)
LEMMA FirstDifference ==
    ASSUME NEW k \in Nat, NEW t \in [1 .. k -> Int], NEW u \in [1 .. k -> Int], t # u
    PROVE  \E x \in 1 .. k : t[x] # u[x] /\ \A y \in 1 .. x - 1 : t[y] = u[y]
<1> DEFINE J == {x \in 1 .. k : t[x] # u[x]}
<1>1. J \in SUBSET Nat /\ J # {}
  OBVIOUS
<1>2. PICK x \in J : \A y \in J : x <= y
  <2> HIDE DEF J
  <2> QED
    BY <1>1, Least
<1>3. \A y \in 1 .. x - 1 : t[y] = u[y]
  <2> TAKE y \in 1 .. x - 1
  <2>1. y \in 1 .. k /\ ~(x <= y)
    BY <1>2
  <2> QED
    BY <1>2, <2>1
<1> QED
  BY <1>2, <1>3

LEMMA LessTotal ==
    ASSUME NEW k \in Nat, NEW t \in [1 .. k -> Int], NEW u \in [1 .. k -> Int]
    PROVE  t = u \/ S!Less(t, u) \/ S!Less(u, t)
<1> SUFFICES ASSUME t # u PROVE S!Less(t, u) \/ S!Less(u, t)
  OBVIOUS
<1>1. PICK x \in 1 .. k : t[x] # u[x] /\ \A y \in 1 .. x - 1 : t[y] = u[y]
  BY FirstDifference
<1>2. t[x] < u[x] \/ u[x] < t[x]
  BY <1>1
<1> QED
  BY <1>1, <1>2 DEF S!Less

LEMMA LessTransitive ==
    ASSUME NEW k \in Nat, NEW t \in [1 .. k -> Int], NEW u \in [1 .. k -> Int],
           NEW v \in [1 .. k -> Int], S!Less(t, u), S!Less(u, v)
    PROVE  S!Less(t, v)
<1>1. PICK x \in 1 .. k : t[x] < u[x] /\ \A y \in 1 .. x - 1 : t[y] = u[y]
  BY DEF S!Less
<1>2. PICK z \in 1 .. k : u[z] < v[z] /\ \A y \in 1 .. z - 1 : u[y] = v[y]
  BY DEF S!Less
<1>3. CASE x <= z
  <2>1. t[x] < v[x]
    <3>1. x = z \/ x \in 1 .. z - 1
      BY <1>3
    <3> QED
      BY <1>1, <1>2, <3>1
  <2>2. \A y \in 1 .. x - 1 : y \in 1 .. z - 1
    BY <1>3
  <2>3. \A y \in 1 .. x - 1 : t[y] = v[y]
    BY <1>1, <1>2, <2>2
  <2> QED
    BY <2>1, <2>3 DEF S!Less
<1>4. CASE z < x
  <2>1. z \in 1 .. x - 1 /\ \A y \in 1 .. z - 1 : y \in 1 .. x - 1
    BY <1>4
  <2>2. t[z] < v[z]
    BY <1>1, <1>2, <2>1
  <2>3. \A y \in 1 .. z - 1 : t[y] = v[y]
    BY <1>1, <1>2, <2>1
  <2> QED
    BY <2>2, <2>3 DEF S!Less
<1> QED
  BY <1>3, <1>4

(* Precedes orders them, and the tools' sets are listed in this order.      *)
LEMMA LexOrders ==
    ASSUME NEW T, Sequential(T)
    PROVE  Orders(Lex(T), T)
<1>1. ASSUME NEW t \in T PROVE ~S!Precedes(t, t)
  BY DEF S!Precedes, S!Less, Sequential
<1>2. ASSUME NEW t \in T, NEW u \in T, NEW v \in T, S!Precedes(t, u), S!Precedes(u, v)
      PROVE  S!Precedes(t, v)
  <2>1. Len(t) \in Nat /\ Len(u) \in Nat /\ Len(v) \in Nat
    BY DEF Sequential
  <2>2. CASE Len(t) = Len(u) /\ Len(u) = Len(v)
    <3>1. S!Less(t, u) /\ S!Less(u, v)
      BY <1>2, <2>1, <2>2 DEF S!Precedes
    <3>2. /\ t \in [1 .. Len(t) -> Int] /\ u \in [1 .. Len(t) -> Int]
          /\ v \in [1 .. Len(t) -> Int]
      BY <2>2 DEF Sequential
    <3>3. S!Less(t, v)
      BY <2>1, <3>1, <3>2, LessTransitive
    <3> QED
      BY <2>2, <3>3 DEF S!Precedes
  <2>3. CASE ~(Len(t) = Len(u) /\ Len(u) = Len(v))
    <3>1. Len(t) < Len(v)
      BY <1>2, <2>1, <2>3 DEF S!Precedes
    <3> QED
      BY <3>1 DEF S!Precedes
  <2> QED
    BY <2>2, <2>3
<1>3. ASSUME NEW t \in T, NEW u \in T PROVE t = u \/ S!Precedes(t, u) \/ S!Precedes(u, t)
  <2>1. /\ Len(t) \in Nat /\ Len(u) \in Nat
        /\ t \in [1 .. Len(t) -> Int] /\ u \in [1 .. Len(u) -> Int]
    BY DEF Sequential
  <2>2. CASE Len(t) = Len(u)
    <3>1. t = u \/ S!Less(t, u) \/ S!Less(u, t)
      BY <2>1, <2>2, LessTotal
    <3> QED
      BY <2>2, <3>1 DEF S!Precedes
  <2>3. CASE Len(t) # Len(u)
    <3>0. \A a, b \in Nat : a # b => a < b \/ b < a
      OBVIOUS
    <3>1. Len(t) < Len(u) \/ Len(u) < Len(t)
      <4>1. Len(t) \in Nat /\ Len(u) \in Nat
        BY DEF Sequential
      <4> QED
        BY <2>3, <3>0, <4>1
    <3> QED
      BY <3>1 DEF S!Precedes
  <2> QED
    BY <2>2, <2>3
<1>4. \A t, u : <<t, u>> \in Lex(T) <=> t \in T /\ u \in T /\ S!Precedes(t, u)
  BY DEF Lex
<1> QED
  BY <1>1, <1>2, <1>3, <1>4 DEF Orders

LEMMA InOrderIs ==
    ASSUME NEW T, IsFiniteSet(T), Sequential(T)
    PROVE  S!InOrder(T) = Listing(T, Lex(T))
<1> DEFINE R == Lex(T)
           n == Cardinality(T)
           e == S!InOrder(T)
<1>0. \A U : S!Cardinality(U) = Cardinality(U)
  BY DEF S!Cardinality, Cardinality
<1>1. Orders(R, T)
  BY LexOrders
<1>2. \A t \in T : {u \in T : S!Precedes(u, t)} = Under(T, R, t)
  BY DEF Under, Lex
<1>3. e = [k \in 1 .. n |->
             CHOOSE t \in T : S!Cardinality({u \in T : S!Precedes(u, t)}) = k - 1]
  BY <1>0 DEF S!InOrder
<1>4. e = [k \in 1 .. n |-> e[k]]
  BY <1>3
<1>5. ASSUME NEW k \in 1 .. n PROVE e[k] \in T /\ Cardinality(Under(T, R, e[k])) = k - 1
  <2>1. e[k] = CHOOSE t \in T : S!Cardinality({u \in T : S!Precedes(u, t)}) = k - 1
    BY <1>3
  <2>2. Listing(T, R)[k] \in T /\ Cardinality(Under(T, R, Listing(T, R)[k])) = k - 1
    BY <1>1, Listed
  <2>3. \E t \in T : S!Cardinality({u \in T : S!Precedes(u, t)}) = k - 1
    BY <1>0, <1>2, <2>2
  <2>4. e[k] \in T /\ S!Cardinality({u \in T : S!Precedes(u, e[k])}) = k - 1
    BY <2>1, <2>3
  <2> QED
    BY <1>0, <1>2, <2>4
<1> HIDE DEF R, e
<1>6. e = Listing(T, R)
  BY <1>1, <1>4, <1>5, ListingIs, ZenonT(60)
<1> QED
  BY <1>6 DEF R, e

(* sequences of one length *)
LEMMA LexIsLess ==
    ASSUME NEW k \in Nat, NEW T \in SUBSET [1 .. k -> Int]
    PROVE  /\ Sequential(T)
           /\ \A t, u : <<t, u>> \in Lex(T) <=> t \in T /\ u \in T /\ S!Less(t, u)
<1>1. \A t \in T : Len(t) = k /\ t \in [1 .. k -> Int]
  OBVIOUS
<1> QED
  BY <1>1 DEF Sequential, Lex, S!Precedes

(* the first and the last of them *)
LEMMA PointwiseFirst ==
    ASSUME NEW k \in Nat, NEW T \in SUBSET [1 .. k -> Int], NEW t \in T,
           \A v \in T : \A x \in 1 .. k : t[x] <= v[x]
    PROVE  \A v \in T : <<v, t>> \notin Lex(T)
<1> SUFFICES ASSUME NEW v \in T, S!Less(v, t) PROVE FALSE
  BY LexIsLess
<1>1. v \in [1 .. k -> Int] /\ t \in [1 .. k -> Int]
  OBVIOUS
<1>2. PICK x \in 1 .. k : v[x] < t[x]
  BY <1>1 DEF S!Less
<1>3. t[x] <= v[x] /\ t[x] \in Int /\ v[x] \in Int
  BY <1>1
<1> QED
  BY <1>2, <1>3

LEMMA PointwiseLast ==
    ASSUME NEW k \in Nat, NEW T \in SUBSET [1 .. k -> Int], NEW t \in T,
           \A v \in T : \A x \in 1 .. k : v[x] <= t[x]
    PROVE  \A v \in T : <<t, v>> \notin Lex(T)
<1> SUFFICES ASSUME NEW v \in T, S!Less(t, v) PROVE FALSE
  BY LexIsLess
<1>1. v \in [1 .. k -> Int] /\ t \in [1 .. k -> Int]
  OBVIOUS
<1>2. PICK x \in 1 .. k : t[x] < v[x]
  BY <1>1 DEF S!Less
<1>3. v[x] <= t[x] /\ t[x] \in Int /\ v[x] \in Int
  BY <1>1
<1> QED
  BY <1>2, <1>3

(* The next of them: u is one more at from, where no sequence that agrees   *)
(* with t so far is greater after it, nor less than u.                      *)
LEMMA NextInOrder ==
    ASSUME NEW k \in Nat, NEW T \in SUBSET [1 .. k -> Int], NEW t \in T, NEW u \in T,
           NEW from \in 1 .. k, u[from] = t[from] + 1,
           \A x \in 1 .. from - 1 : u[x] = t[x],
           \A v \in T : (\A y \in 1 .. from : v[y] = u[y]) => \A x \in from + 1 .. k : u[x] <= v[x],
           \A v \in T : (\A y \in 1 .. from : v[y] = t[y]) => \A x \in from + 1 .. k : v[x] <= t[x]
    PROVE  Follows(T, Lex(T), t, u)
<1>1. t \in [1 .. k -> Int] /\ u \in [1 .. k -> Int]
  OBVIOUS
<1>2. S!Less(t, u)
  <2>1. t[from] < u[from]
    BY <1>1
  <2> QED
    BY <1>1, <2>1 DEF S!Less
<1>3. ASSUME NEW v \in T, S!Less(v, u) PROVE v = t \/ S!Less(v, t)
  <2>1. v \in [1 .. k -> Int]
    OBVIOUS
  <2>2. PICK x \in 1 .. k : v[x] < u[x] /\ \A y \in 1 .. x - 1 : v[y] = u[y]
    BY <1>3, <2>1 DEF S!Less
  <2>3. CASE x < from
    <3>1. x \in 1 .. from - 1 /\ \A y \in 1 .. x - 1 : y \in 1 .. from - 1
      BY <2>3
    <3>2. v[x] < t[x] /\ \A y \in 1 .. x - 1 : v[y] = t[y]
      BY <2>2, <3>1
    <3> QED
      BY <2>1, <3>2 DEF S!Less
  <2>4. CASE from < x
    <3>1. \A y \in 1 .. from : y \in 1 .. x - 1
      BY <2>4
    <3>2. \A y \in 1 .. from : v[y] = u[y]
      BY <2>2, <3>1
    <3>3. x \in from + 1 .. k
      BY <2>4
    <3>4. u[x] <= v[x] /\ u[x] \in Int /\ v[x] \in Int
      BY <1>1, <2>1, <3>2, <3>3
    <3>5. FALSE
      BY <2>2, <3>4
    <3> QED
      BY <3>5
  <2>5. CASE x = from
    <3>1. \A y \in 1 .. from - 1 : v[y] = t[y]
      BY <2>2, <2>5
    <3>2. CASE v[from] = t[from]
      <4>1. \A y \in 1 .. from : v[y] = t[y]
        <5> TAKE y \in 1 .. from
        <5>1. y = from \/ y \in 1 .. from - 1
          OBVIOUS
        <5> QED
          BY <3>1, <3>2, <5>1
      <4>2. \A z \in from + 1 .. k : v[z] <= t[z]
        BY <4>1
      <4>3. ASSUME v # t PROVE S!Less(v, t)
        <5>1. PICK z \in 1 .. k : v[z] # t[z] /\ \A y \in 1 .. z - 1 : v[y] = t[y]
          BY <1>1, <2>1, <4>3, FirstDifference
        <5>2. z \in from + 1 .. k
          <6>1. z \notin 1 .. from
            BY <4>1, <5>1
          <6> QED
            BY <6>1
        <5>3. v[z] < t[z]
          BY <1>1, <2>1, <4>2, <5>1, <5>2
        <5> QED
          BY <2>1, <5>1, <5>3 DEF S!Less
      <4> QED
        BY <4>3
    <3>3. CASE v[from] # t[from]
      <4>1. v[from] < t[from]
        BY <1>1, <2>1, <2>2, <2>5, <3>3
      <4> QED
        BY <2>1, <3>1, <4>1 DEF S!Less
    <3> QED
      BY <3>2, <3>3
  <2> QED
    BY <2>3, <2>4, <2>5
<1>4. \A a, b : <<a, b>> \in Lex(T) <=> a \in T /\ b \in T /\ S!Less(a, b)
  BY LexIsLess
<1> QED
  BY <1>2, <1>3, <1>4 DEF Follows

----------------------------------------------------------------------------
(* product *)

Crossing(s) == s.tool = "product" /\ \E m \in Nat \ {0} : s.sizes \in [1 .. m -> Nat]

LEMMA TuplesAre ==
    ASSUME NEW m \in Nat, NEW sizes \in [1 .. m -> Nat]
    PROVE  /\ S!Tuples(sizes) \in SUBSET [1 .. m -> Int] /\ IsFiniteSet(S!Tuples(sizes))
           /\ \A t \in S!Tuples(sizes) : \A x \in 1 .. m : t[x] \in 1 .. sizes[x]
           /\ \A t : t = [x \in 1 .. m |-> t[x]] /\ (\A x \in 1 .. m : t[x] \in 1 .. sizes[x])
                        => t \in S!Tuples(sizes)
<1> DEFINE top == A!Longest(sizes)
<1>1. S!Max({0} \cup S!Range(sizes)) = top /\ DOMAIN sizes = 1 .. m
  BY DEF A!Longest, S!Max, A!Max, S!Range, A!Range
<1>2. top \in Nat /\ \A x \in 1 .. m : sizes[x] <= top /\ sizes[x] \in Nat
  BY LongestIsGreatest
<1> HIDE DEF top
<1>3. S!Tuples(sizes) = {t \in [1 .. m -> 1 .. top] : \A x \in 1 .. m : t[x] <= sizes[x]}
  BY <1>1 DEF S!Tuples
<1>4. IsFiniteSet([1 .. m -> 1 .. top])
  <2>1. IsFiniteSet(1 .. top)
    BY <1>2, FS_Interval
  <2> QED
    BY <2>1, FinitelyMany
<1>5. S!Tuples(sizes) \in SUBSET [1 .. m -> 1 .. top]
  BY <1>3
<1>6. IsFiniteSet(S!Tuples(sizes))
  BY <1>4, <1>5, FS_Subset
<1>7. S!Tuples(sizes) \in SUBSET [1 .. m -> Int]
  BY <1>2, <1>3
<1>8. ASSUME NEW t \in S!Tuples(sizes), NEW x \in 1 .. m PROVE t[x] \in 1 .. sizes[x]
  BY <1>2, <1>3
<1>9. ASSUME NEW t, t = [x \in 1 .. m |-> t[x]], \A x \in 1 .. m : t[x] \in 1 .. sizes[x]
      PROVE  t \in S!Tuples(sizes)
  <2>1. \A x \in 1 .. m : t[x] \in 1 .. top /\ t[x] <= sizes[x]
    BY <1>2, <1>9
  <2>2. t \in [1 .. m -> 1 .. top]
    BY <1>9, <2>1
  <2> QED
    BY <1>3, <2>1, <2>2
<1> QED
  BY <1>6, <1>7, <1>8, <1>9

LEMMA ProductKeeps ==
    ASSUME NEW s, Crossing(s)
    PROVE  \E w : Kept(s, w)
<1>1. s.tool = "product" /\ Selector(s)
  BY Selects DEF Crossing, S!Selecting
<1>2. PICK m \in Nat \ {0} : s.sizes \in [1 .. m -> Nat]
  BY DEF Crossing
<1> DEFINE sizes == s.sizes
           T == S!Tuples(sizes)
           R == Lex(T)
           On == [t \in T |-> {t}]
           Done == {it \in [1 .. m -> Int] : /\ \A x \in 1 .. m : it[x] \in 1 .. sizes[x] + 1
                                             /\ \E x \in 1 .. m : it[x] = sizes[x] + 1}
<1>3. /\ Begin(s) = [x \in 1 .. m |-> 1]
      /\ Finish(s) = [x \in 1 .. m |-> sizes[x] + 1]
      /\ Yields(s) = S!InOrder(T)
      /\ \A it : Step(s, it) = S!ProductStep(sizes, it)
      /\ \A it : Value(s, it) = it
      /\ \A it, other : Same(s, it, other) <=> S!ProductSame(it, other)
      /\ \A it : Inner(s, it) <=> \A x \in DOMAIN it : it[x] <= sizes[x] + 1
      /\ \A x \in 1 .. m : sizes[x] \in Nat
      /\ DOMAIN sizes = 1 .. m
  <2>1. DOMAIN s.sizes = 1 .. m
    BY <1>2
  <2>2. Begin(s) = [x \in 1 .. m |-> 1]
    BY <1>1, <2>1 DEF Selector, S!Begin, S!ProductBegin
  <2>3. Finish(s) = [x \in 1 .. m |-> sizes[x] + 1]
    BY <1>1, <2>1 DEF Selector, S!Finish, S!ProductEnd
  <2>4. Yields(s) = S!InOrder(T)
    BY <1>1 DEF Selector, S!Yields
  <2>5. \A it : Step(s, it) = S!ProductStep(sizes, it)
    BY <1>1 DEF Selector, S!Step
  <2>6. \A it : Value(s, it) = it
    BY <1>1 DEF Selector, S!Value
  <2>7. \A it, other : Same(s, it, other) <=> S!ProductSame(it, other)
    BY <1>1 DEF Selector, S!Same, S!ProductSame
  <2>8. \A it : Inner(s, it) <=> \A x \in DOMAIN it : it[x] <= sizes[x] + 1
    BY <1>1 DEF Selector, S!Inside
  <2> QED
    BY <1>2, <2>1, <2>2, <2>3, <2>4, <2>5, <2>6, <2>7, <2>8
<1>4. /\ T \in SUBSET [1 .. m -> Int] /\ IsFiniteSet(T)
      /\ \A t \in T : \A x \in 1 .. m : t[x] \in 1 .. sizes[x]
      /\ \A t : t = [x \in 1 .. m |-> t[x]] /\ (\A x \in 1 .. m : t[x] \in 1 .. sizes[x]) => t \in T
  BY <1>2, TuplesAre
<1> HIDE DEF T, sizes
<1>5. Sequential(T) /\ \A t, u : <<t, u>> \in R <=> t \in T /\ u \in T /\ S!Less(t, u)
  BY <1>2, <1>4, LexIsLess
<1>6. Orders(R, T) /\ Yields(s) = Listing(T, R)
  BY <1>3, <1>4, <1>5, LexOrders, InOrderIs
<1> HIDE DEF R
<1>7. \A it \in Done : DOMAIN it = 1 .. m /\ \A x \in 1 .. m : it[x] <= sizes[x] + 1
  BY <1>3
<1>8. Finish(s) \in Done
  <2>1. \A x \in 1 .. m : sizes[x] + 1 \in 1 .. sizes[x] + 1 /\ sizes[x] + 1 \in Int
    BY <1>3
  <2> QED
    BY <1>2, <1>3, <2>1
<1>9. ASSUME T = {} PROVE Begin(s) \in Done
  <2> DEFINE one == [x \in 1 .. m |-> 1]
  <2>1. one \notin T
    BY <1>9
  <2>2. \E x \in 1 .. m : one[x] \notin 1 .. sizes[x]
    BY <1>4, <2>1
  <2>3. PICK x \in 1 .. m : 1 \notin 1 .. sizes[x]
    BY <2>2
  <2>4. sizes[x] = 0
    BY <1>3, <2>3
  <2>5. \A y \in 1 .. m : 1 \in 1 .. sizes[y] + 1
    BY <1>3
  <2> QED
    BY <1>3, <2>4, <2>5
<1>10. ASSUME T # {}
       PROVE  \E t \in T : (\A u \in T : <<u, t>> \notin R) /\ Begin(s) \in On[t]
  <2> DEFINE one == [x \in 1 .. m |-> 1]
  <2>1. PICK v \in T : TRUE
    BY <1>10
  <2>2. \A x \in 1 .. m : 1 \in 1 .. sizes[x]
    BY <1>3, <1>4, <2>1
  <2>3. one \in T
    BY <1>4, <2>2
  <2>4. \A u \in T : \A x \in 1 .. m : one[x] <= u[x]
    BY <1>3, <1>4
  <2> HIDE DEF one
  <2>5. \A u \in T : <<u, one>> \notin R
    BY <1>2, <1>4, <2>3, <2>4, PointwiseFirst DEF R
  <2> QED
    BY <1>3, <2>3, <2>5 DEF one
<1>11. ASSUME NEW t \in T
       PROVE  \/ \E u \in T : Follows(T, R, t, u) /\ Step(s, t) \in On[u]
              \/ (\A u \in T : <<t, u>> \notin R) /\ Step(s, t) \in Done
  <2> DEFINE more == {x \in 1 .. m : t[x] < sizes[x]}
  <2>1. Step(s, t) = IF more = {} THEN [x \in 1 .. m |-> sizes[x] + 1]
                     ELSE [x \in 1 .. m |->
                             IF x < S!Max(more) THEN t[x] ELSE S!Increment(t[x], sizes[x])]
    BY <1>3, ZenonT(60) DEF S!ProductStep, S!ProductEnd
  <2>2. \A x \in 1 .. m : t[x] \in 1 .. sizes[x] /\ sizes[x] \in Nat /\ t[x] \in Int
    BY <1>3, <1>4
  <2>3. CASE more = {}
    <3>1. \A v \in T : \A x \in 1 .. m : v[x] <= t[x]
      <4> SUFFICES ASSUME NEW v \in T, NEW x \in 1 .. m PROVE v[x] <= t[x]
        OBVIOUS
      <4>1. ~(t[x] < sizes[x]) /\ v[x] \in 1 .. sizes[x]
        BY <1>4, <2>3
      <4> QED
        BY <2>2, <4>1
    <3>2. \A u \in T : <<t, u>> \notin R
      BY <1>2, <1>4, <3>1, PointwiseLast DEF R
    <3>3. Step(s, t) = Finish(s)
      BY <1>3, <2>1, <2>3
    <3> QED
      BY <1>8, <3>2, <3>3
  <2>4. CASE more # {}
    <3> DEFINE from == S!Max(more)
    <3>1. from \in more /\ \A x \in more : x <= from
      <4>1. more \in SUBSET (0 .. m) /\ m \in Nat
        BY <1>2
      <4> HIDE DEF more
      <4> QED
        BY <2>4, <4>1, GreatestOf
    <3> DEFINE u == Step(s, t)
    <3>2. u = [x \in 1 .. m |-> IF x < from THEN t[x] ELSE S!Increment(t[x], sizes[x])]
      BY <2>1, <2>4
    <3> HIDE DEF from, u
    <3>3. from \in 1 .. m /\ t[from] < sizes[from]
      BY <3>1
    <3>4. u[from] = t[from] + 1
      <4>1. u[from] = S!Increment(t[from], sizes[from])
        BY <3>2, <3>3
      <4> QED
        BY <2>2, <3>3, <4>1 DEF S!Increment
    <3>5. ASSUME NEW x \in from + 1 .. m PROVE u[x] = 1 /\ t[x] = sizes[x] /\ x \in 1 .. m
      <4>1. x \in 1 .. m /\ ~(x <= from) /\ ~(x < from)
        BY <3>3
      <4>2. ~(t[x] < sizes[x])
        BY <3>1, <4>1
      <4>3. t[x] = sizes[x]
        BY <2>2, <4>1, <4>2
      <4>4. u[x] = S!Increment(t[x], sizes[x])
        BY <3>2, <4>1
      <4>5. t[x] # sizes[x] + 1
        BY <2>2, <4>1, <4>3
      <4> QED
        BY <4>1, <4>3, <4>4, <4>5 DEF S!Increment
    <3>6. \A x \in 1 .. from - 1 : x \in 1 .. m /\ u[x] = t[x]
      BY <3>2, <3>3
    <3>7. ASSUME NEW x \in 1 .. m PROVE u[x] \in 1 .. sizes[x]
      <4>1. x \in 1 .. from - 1 \/ x = from \/ x \in from + 1 .. m
        BY <3>3
      <4>2. CASE x \in 1 .. from - 1
        BY <2>2, <3>6, <4>2
      <4>3. CASE x = from
        BY <2>2, <3>3, <3>4, <4>3
      <4>4. CASE x \in from + 1 .. m
        BY <2>2, <3>5, <4>4
      <4> QED
        BY <4>1, <4>2, <4>3, <4>4
    <3>8. u \in T
      <4>1. u = [x \in 1 .. m |-> u[x]]
        BY <3>2
      <4> QED
        BY <1>4, <3>7, <4>1
    <3>9. \A v \in T : \A x \in from + 1 .. m : u[x] <= v[x] /\ v[x] <= t[x]
      <4> SUFFICES ASSUME NEW v \in T, NEW x \in from + 1 .. m PROVE u[x] <= v[x] /\ v[x] <= t[x]
        OBVIOUS
      <4>1. u[x] = 1 /\ t[x] = sizes[x] /\ x \in 1 .. m
        BY <3>5
      <4>2. v[x] \in 1 .. sizes[x]
        BY <1>4, <4>1
      <4> QED
        BY <2>2, <4>1, <4>2
    <3>10. Follows(T, R, t, u)
      BY <1>2, <1>4, <3>3, <3>4, <3>6, <3>8, <3>9, NextInOrder DEF R
    <3> QED
      BY <3>8, <3>10 DEF u
  <2> QED
    BY <2>3, <2>4
<1>12. ASSUME NEW t \in T
       PROVE  /\ Value(s, t) = t /\ Inner(s, t)
              /\ ~Same(s, t, Finish(s)) /\ ~Same(s, Finish(s), t)
  <2>1. DOMAIN t = 1 .. m /\ DOMAIN Finish(s) = 1 .. m
    BY <1>3, <1>4
  <2>2. \A x \in 1 .. m : t[x] <= sizes[x] + 1 /\ t[x] # Finish(s)[x]
    BY <1>3, <1>4
  <2>3. ~S!ProductSame(t, Finish(s)) /\ ~S!ProductSame(Finish(s), t)
    BY <2>1, <2>2 DEF S!ProductSame
  <2> QED
    BY <1>3, <2>1, <2>2, <2>3
<1>13. ASSUME NEW it \in Done
       PROVE  Same(s, it, Finish(s)) /\ Same(s, Finish(s), it) /\ Inner(s, it)
  <2>1. PICK x \in 1 .. m : it[x] = sizes[x] + 1
    OBVIOUS
  <2>2. DOMAIN it = 1 .. m /\ DOMAIN Finish(s) = 1 .. m /\ Finish(s)[x] = it[x]
    BY <1>3, <1>7, <2>1
  <2>3. S!ProductSame(it, Finish(s)) /\ S!ProductSame(Finish(s), it)
    BY <2>2 DEF S!ProductSame
  <2> QED
    BY <1>3, <1>7, <2>2, <2>3
<1> HIDE DEF Done
<1>14. \A t \in T : On[t] = {t}
  OBVIOUS
<1> HIDE DEF On
<1>15. Lists(s, T, R, On, Done)
  BY <1>4, <1>6, <1>8, <1>9, <1>10, <1>11, <1>12, <1>13, <1>14 DEF Lists
<1>16. ~Told(s)
  BY <1>1 DEF Told
<1> QED
  BY <1>15, <1>16, ListsKeeps

----------------------------------------------------------------------------
(* combinations and combinations_with_replacement *)

Choosing(s) == s.tool \in {"combinations", "with_replacement"} /\ s.n \in Nat /\ s.k \in Nat

(* steps_ counts the selections, but those of length 0 *)
Numbered(T, t) == IF Len(t) = 0 THEN -1 ELSE Cardinality(Under(T, Lex(T), t))
AllTaken(k) == IF k = 0 THEN 0 ELSE -1

Holding(T, n, t) == [indices : {t}, steps : {Numbered(T, t)}, reach : 0 .. n + 1]
Exhausted(n, k) == [indices : [1 .. k -> Int], steps : {AllTaken(k)}, reach : 0 .. n + 1]

(* each of T has a number of its own, and none that of the end *)
LEMMA NumbersTell ==
    ASSUME NEW k \in Nat, NEW T \in SUBSET [1 .. k -> Int], IsFiniteSet(T), NEW t \in T
    PROVE  /\ Cardinality(Under(T, Lex(T), t)) \in Nat
           /\ Numbered(T, t) # AllTaken(k)
           /\ \A u \in T : Numbered(T, t) = Numbered(T, u) <=> t = u
<1> DEFINE R == Lex(T)
<1>1. Sequential(T) /\ \A v \in T : Len(v) = k
  <2>1. \A v \in T : Len(v) = k
    OBVIOUS
  <2> QED
    BY <2>1, LexIsLess
<1>2. Orders(R, T)
  BY <1>1, LexOrders
<1>3. \A u \in T : /\ Cardinality(Under(T, R, u)) \in 0 .. Cardinality(T) - 1
                   /\ Listing(T, R)[Cardinality(Under(T, R, u)) + 1] = u
  BY <1>2, Listed
<1>4. \A u \in T : Cardinality(Under(T, R, u)) \in Nat
  BY <1>3
<1>5. CASE k = 0
  <2>1. \A u \in T : u = t
    <3> SUFFICES ASSUME NEW u \in T PROVE u = t
      OBVIOUS
    <3>1. 1 .. k = {}
      BY <1>5
    <3>2. t \in [{} -> Int] /\ u \in [{} -> Int]
      BY <3>1
    <3> QED
      BY <3>2
  <2>2. \A u \in T : Numbered(T, u) = -1
    BY <1>1, <1>5 DEF Numbered
  <2> QED
    BY <1>4, <1>5, <2>1, <2>2 DEF AllTaken
<1>6. CASE k # 0
  <2>1. \A u \in T : Numbered(T, u) = Cardinality(Under(T, R, u))
    BY <1>1, <1>6 DEF Numbered
  <2>2. AllTaken(k) = -1
    BY <1>6 DEF AllTaken
  <2> HIDE DEF R
  <2>3. \A u \in T : Numbered(T, u) # -1
    BY <1>4, <2>1
  <2> QED
    BY <1>3, <1>4, <2>1, <2>2, <2>3 DEF R
<1> QED
  BY <1>5, <1>6

LEMMA ChoosingKeeps ==
    ASSUME NEW s, Choosing(s), NEW T \in SUBSET [1 .. s.k -> Int], IsFiniteSet(T),
           Yields(s) = S!InOrder(T), Finish(s).steps = AllTaken(s.k), Finish(s).reach <= s.n + 1,
           T = {} => Begin(s) \in Exhausted(s.n, s.k),
           T # {} => \E t \in T : /\ \A u \in T : <<u, t>> \notin Lex(T)
                                  /\ Begin(s) \in Holding(T, s.n, t),
           \A t \in T : \A it \in Holding(T, s.n, t) :
              \/ \E u \in T : Follows(T, Lex(T), t, u) /\ Step(s, it) \in Holding(T, s.n, u)
              \/ (\A u \in T : <<t, u>> \notin Lex(T)) /\ Step(s, it) \in Exhausted(s.n, s.k)
    PROVE  \E w : Kept(s, w)
<1> DEFINE n == s.n
           k == s.k
           R == Lex(T)
           On == [t \in T |-> Holding(T, n, t)]
           Done == Exhausted(n, k)
<1>1. /\ s.tool \in S!Selecting /\ Selector(s) /\ n \in Nat /\ k \in Nat
      /\ s.tool \in {"combinations", "with_replacement"}
  BY Selects DEF Choosing, S!Selecting
<1>2. /\ \A it : Value(s, it) = it.indices
      /\ \A it, other : Same(s, it, other) <=> it.steps = other.steps
      /\ \A it : Inner(s, it) <=> it.reach <= n + 1
  <2>1. \A it : Value(s, it) = it.indices
    BY <1>1 DEF Selector, S!Value
  <2>2. \A it, other : Same(s, it, other) <=> it.steps = other.steps
    <3>1. s.tool # "powerset" /\ s.tool # "product"
      BY <1>1
    <3>2. \A it, other : S!Same(s, it, other) <=> it.steps = other.steps
      BY <3>1 DEF S!Same
    <3> QED
      BY <1>1, <3>2 DEF Selector
  <2>3. \A it : Inner(s, it) <=> it.reach <= n + 1
    <3>1. \A it : S!Inside(s, it) <=> it.reach <= n + 1
      BY <1>1 DEF S!Inside
    <3> QED
      BY <1>1, <3>1 DEF Selector
  <2> QED
    BY <2>1, <2>2, <2>3
<1>3. Sequential(T) /\ \A t \in T : Len(t) = k
  <2>1. \A t \in T : Len(t) = k
    BY <1>1
  <2> QED
    BY <1>1, <2>1, LexIsLess
<1>4. Orders(R, T) /\ Yields(s) = Listing(T, R)
  BY <1>3, LexOrders, InOrderIs
<1>5. ASSUME NEW t \in T
      PROVE  /\ Numbered(T, t) # AllTaken(k) /\ AllTaken(k) # Numbered(T, t)
             /\ \A u \in T : Numbered(T, t) = Numbered(T, u) <=> t = u
  <2>1. T \in SUBSET [1 .. k -> Int] /\ k \in Nat
    BY <1>1
  <2> HIDE DEF k, n, R, On, Done
  <2>2. /\ Numbered(T, t) # AllTaken(k)
        /\ \A u \in T : Numbered(T, t) = Numbered(T, u) <=> t = u
    BY <2>1, NumbersTell
  <2> QED
    BY <2>2
<1>6. ASSUME NEW t \in T, NEW it \in On[t]
      PROVE  it.indices = t /\ it.steps = Numbered(T, t) /\ it.reach <= n + 1
  BY <1>1 DEF Holding
<1>7. \A it \in Done : it.steps = AllTaken(k) /\ it.reach <= n + 1
  BY <1>1 DEF Exhausted
<1>8. \A t \in T : On[t] = Holding(T, n, t)
  OBVIOUS
<1> HIDE DEF R, On, Done, n, k
<1>9. ASSUME NEW t \in T, NEW it \in On[t]
      PROVE  /\ Value(s, it) = t /\ Inner(s, it)
             /\ ~Same(s, it, Finish(s)) /\ ~Same(s, Finish(s), it)
  <2>1. it.indices = t /\ it.steps = Numbered(T, t) /\ it.reach <= n + 1
    BY <1>6
  <2>2. it.steps # Finish(s).steps
    BY <1>5, <2>1 DEF k
  <2> QED
    BY <1>2, <2>1, <2>2
<1>10. \A it \in Done : Same(s, it, Finish(s)) /\ Same(s, Finish(s), it) /\ Inner(s, it)
  BY <1>2, <1>7 DEF k
<1>11. Same(s, Finish(s), Finish(s)) /\ Inner(s, Finish(s))
  BY <1>2 DEF n
<1>12. ASSUME NEW t \in T, NEW it \in On[t]
       PROVE  \/ \E u \in T : Follows(T, R, t, u) /\ Step(s, it) \in On[u]
              \/ (\A u \in T : <<t, u>> \notin R) /\ Step(s, it) \in Done
  BY <1>8 DEF R, Done, n, k
<1>13. /\ T = {} => Begin(s) \in Done
       /\ T # {} => \E t \in T : (\A u \in T : <<u, t>> \notin R) /\ Begin(s) \in On[t]
  BY <1>8 DEF R, Done, n, k
<1>14. Lists(s, T, R, On, Done)
  BY <1>4, <1>9, <1>10, <1>11, <1>12, <1>13 DEF Lists
<1>15. Parts(s, T, On, Done)
  <2>1. ASSUME NEW t \in T, NEW u \in T, NEW it \in On[t], NEW other \in On[u]
        PROVE  Same(s, it, other) <=> t = u
    <3>1. it.steps = Numbered(T, t) /\ other.steps = Numbered(T, u)
      BY <1>6
    <3> QED
      BY <1>2, <1>5, <3>1
  <2>2. ASSUME NEW t \in T, NEW it \in On[t], NEW last \in Done
        PROVE  ~Same(s, it, last) /\ ~Same(s, last, it)
    <3>1. it.steps = Numbered(T, t) /\ last.steps = AllTaken(k)
      BY <1>6, <1>7
    <3> QED
      BY <1>2, <1>5, <3>1
  <2>3. \A last \in Done : Same(s, last, last)
    BY <1>2
  <2> QED
    BY <2>1, <2>2, <2>3 DEF Parts
<1> QED
  BY <1>14, <1>15, ListsKeeps

(* the elements of increasing sequences are so far apart *)
LEMMA IncreasingIs ==
    ASSUME NEW n \in Nat, NEW k \in Nat, NEW t \in S!Increasing(n, k)
    PROVE  /\ t \in [1 .. k -> Int] /\ Len(t) = k
           /\ \A x \in 1 .. k : t[x] \in 1 .. n
           /\ \A x, y \in 1 .. k : x <= y => t[x] + (y - x) <= t[y]
           /\ \A x \in 1 .. k : x <= t[x] /\ t[x] + (k - x) <= n
<1>1. /\ t \in [1 .. k -> 1 .. n] /\ Len(t) = k /\ t \in [1 .. k -> Int]
      /\ \A x \in 1 .. k - 1 : t[x] < t[x + 1]
  BY DEF S!Increasing
<1>2. \A x \in 1 .. k : t[x] \in 1 .. n
  BY <1>1
<1>3. ASSUME NEW x \in 1 .. k, NEW y \in 1 .. k, x <= y PROVE t[x] + (y - x) <= t[y]
  <2> DEFINE J == {z \in x .. k : ~(t[x] + (z - x) <= t[z])}
  <2>1. SUFFICES ASSUME J # {} PROVE FALSE
    BY <1>3
  <2>2. PICK z \in J : \A j \in J : z <= j
    <3>1. J \in SUBSET Nat
      OBVIOUS
    <3> HIDE DEF J
    <3> QED
      BY <2>1, <3>1, Least
  <2>3. z # x
    BY <1>2, <2>2
  <2>4. z - 1 \in x .. k /\ ~(z <= z - 1) /\ z - 1 \in 1 .. k - 1 /\ (z - 1) + 1 = z
    BY <2>2, <2>3
  <2>5. t[x] + ((z - 1) - x) <= t[z - 1]
    BY <2>2, <2>4
  <2>6. t[z - 1] < t[z]
    BY <1>1, <2>4
  <2>7. z \in Int /\ x \in Int /\ t[x] \in Int /\ t[z] \in Int /\ t[z - 1] \in Int
    BY <1>2, <2>2, <2>4
  <2>8. t[x] + (z - x) <= t[z]
    BY <2>5, <2>6, <2>7
  <2> QED
    BY <2>2, <2>8
<1>4. ASSUME NEW x \in 1 .. k PROVE x <= t[x] /\ t[x] + (k - x) <= n
  <2>1. 1 \in 1 .. k /\ k \in 1 .. k
    OBVIOUS
  <2>2. t[1] + (x - 1) <= t[x] /\ t[x] + (k - x) <= t[k]
    BY <1>3, <2>1
  <2>3. t[1] \in 1 .. n /\ t[k] \in 1 .. n /\ t[x] \in 1 .. n
    BY <1>2, <2>1
  <2> QED
    BY <2>2, <2>3
<1> QED
  BY <1>1, <1>2, <1>3, <1>4

LEMMA IncreasingSet ==
    ASSUME NEW n \in Nat, NEW k \in Nat
    PROVE  /\ S!Increasing(n, k) \in SUBSET [1 .. k -> Int]
           /\ IsFiniteSet(S!Increasing(n, k))
           /\ k > n => S!Increasing(n, k) = {}
           /\ k = 0 => S!Increasing(n, k) = {<< >>}
<1>1. S!Increasing(n, k) \in SUBSET [1 .. k -> 1 .. n]
  BY DEF S!Increasing
<1>2. IsFiniteSet(S!Increasing(n, k))
  <2>1. IsFiniteSet(1 .. n)
    BY FS_Interval
  <2>2. IsFiniteSet([1 .. k -> 1 .. n])
    BY <2>1, FinitelyMany
  <2> QED
    BY <1>1, <2>2, FS_Subset
<1>3. ASSUME k > n, NEW t \in S!Increasing(n, k) PROVE FALSE
  <2>1. k \in 1 .. k
    BY <1>3
  <2>2. k <= t[k] /\ t[k] \in 1 .. n
    BY <2>1, IncreasingIs
  <2> QED
    BY <1>3, <2>2
<1>4. ASSUME k = 0 PROVE S!Increasing(n, k) = {<< >>}
  <2>1. 1 .. k = {} /\ 1 .. k - 1 = {}
    BY <1>4
  <2>2. << >> \in [1 .. k -> 1 .. n]
    BY <2>1
  <2>3. \A t \in [1 .. k -> 1 .. n] : t = << >>
    BY <2>1
  <2> QED
    BY <2>1, <2>2, <2>3 DEF S!Increasing
<1>5. S!Increasing(n, k) \in SUBSET [1 .. k -> Int]
  BY <1>1
<1> QED
  BY <1>2, <1>3, <1>4, <1>5

LEMMA CombinationsBegin ==
    ASSUME NEW n \in Nat, NEW k \in Nat
    PROVE  /\ S!CombEnd(n, k).steps = AllTaken(k) /\ S!CombEnd(n, k).reach <= n + 1
           /\ S!Increasing(n, k) = {} => S!CombBegin(n, k) \in Exhausted(n, k)
           /\ S!Increasing(n, k) # {} =>
                \E t \in S!Increasing(n, k) :
                   /\ \A u \in S!Increasing(n, k) : <<u, t>> \notin Lex(S!Increasing(n, k))
                   /\ S!CombBegin(n, k) \in Holding(S!Increasing(n, k), n, t)
<1> DEFINE T == S!Increasing(n, k)
           first == [x \in 1 .. k |-> IF x <= n THEN x ELSE 0]
           begin == S!CombBegin(n, k)
<1>0. \A K \in SUBSET Nat : K # {} => S!Min(K) \in K
  <2>1. \A K : S!Min(K) = A!Min(K)
    BY DEF S!Min, A!Min
  <2> QED
    BY <2>1, Least
<1>1. S!Min({k, n + 1}) \in 0 .. n + 1 /\ S!Min({0, n + 1}) \in 0 .. n + 1
  <2>1. S!Min({k, n + 1}) \in {k, n + 1} /\ \A u \in {k, n + 1} : S!Min({k, n + 1}) <= u
    <3>1. S!Min({k, n + 1}) = A!Min({k, n + 1})
      BY DEF S!Min, A!Min
    <3>2. {k, n + 1} \in SUBSET Nat /\ {k, n + 1} # {}
      OBVIOUS
    <3> QED
      BY <3>1, <3>2, Least
  <2>2. S!Min({0, n + 1}) \in {0, n + 1}
    <3>1. {0, n + 1} \in SUBSET Nat /\ {0, n + 1} # {}
      OBVIOUS
    <3> QED
      BY <1>0, <3>1
  <2>3. S!Min({k, n + 1}) <= n + 1
    BY <2>1
  <2> QED
    BY <2>1, <2>2, <2>3
<1>2. /\ begin.indices = first /\ begin.reach = S!Min({k, n + 1})
      /\ begin.steps = IF k = 0 \/ k > n THEN -1 ELSE 0
      /\ begin = [indices |-> begin.indices, steps |-> begin.steps, reach |-> begin.reach]
  BY DEF S!CombBegin, S!COMPLETE
<1>3. /\ S!CombEnd(n, k).steps = AllTaken(k) /\ S!CombEnd(n, k).reach <= n + 1
  <2>1. S!CombBegin(n, 0).steps = -1 /\ S!CombBegin(n, 0).reach = S!Min({0, n + 1})
    BY DEF S!CombBegin, S!COMPLETE
  <2>2. S!CombEnd(n, k).reach = S!Min({0, n + 1})
    BY <2>1 DEF S!CombEnd, S!CombBegin
  <2>3. S!CombEnd(n, k).steps = IF k = 0 THEN 0 ELSE -1
    BY <2>1 DEF S!CombEnd, S!CombBegin
  <2> QED
    BY <1>1, <2>2, <2>3 DEF AllTaken
<1>4. /\ T \in SUBSET [1 .. k -> Int] /\ IsFiniteSet(T)
      /\ k > n => T = {}
      /\ k = 0 => T = {<< >>}
  BY IncreasingSet
<1> HIDE DEF begin
<1>5. CASE k > n
  <2>1. begin.steps = AllTaken(k) /\ T = {}
    BY <1>2, <1>4, <1>5 DEF AllTaken
  <2>2. first \in [1 .. k -> Int]
    OBVIOUS
  <2>3. begin \in Exhausted(n, k)
    BY <1>1, <1>2, <2>1, <2>2 DEF Exhausted
  <2> QED
    BY <1>3, <2>1, <2>3 DEF begin
<1>6. CASE k <= n
  <2>1. first = [x \in 1 .. k |-> x]
    BY <1>6
  <2>2. first \in T
    <3>1. \A x \in 1 .. k : x \in 1 .. n
      BY <1>6
    <3>2. \A x \in 1 .. k - 1 : first[x] < first[x + 1]
      BY <2>1
    <3> QED
      BY <2>1, <3>1, <3>2 DEF S!Increasing
  <2>3. \A u \in T : \A x \in 1 .. k : first[x] <= u[x]
    BY <2>1, IncreasingIs
  <2> HIDE DEF first, T
  <2>4. \A u \in T : <<u, first>> \notin Lex(T)
    BY <1>4, <2>2, <2>3, PointwiseFirst
  <2>5. begin.steps = Numbered(T, first)
    <3>1. Len(first) = k /\ Sequential(T)
      <4>1. \A t \in T : Len(t) = k
        BY <1>4
      <4> QED
        BY <1>4, <2>2, <4>1, LexIsLess
    <3>2. CASE k = 0
      BY <1>2, <3>1, <3>2 DEF Numbered
    <3>3. CASE k # 0
      <4>1. Cardinality(Under(T, Lex(T), first)) = 0
        BY <1>4, <2>2, <2>4, <3>1, LexOrders, ListedFirst
      <4>2. begin.steps = 0
        BY <1>2, <1>6, <3>3
      <4> QED
        BY <3>1, <3>3, <4>1, <4>2 DEF Numbered
    <3> QED
      BY <3>2, <3>3
  <2>6. begin \in Holding(T, n, first)
    BY <1>1, <1>2, <2>5 DEF Holding
  <2> QED
    BY <1>3, <2>2, <2>4, <2>6 DEF begin, T
<1> QED
  BY <1>5, <1>6

(* a record all of whose fields change *)
Changed(it, d, u, f) == [it EXCEPT !.steps = d, !.indices = u, !.reach = f]

LEMMA AllChanged ==
    ASSUME NEW t, NEW st, NEW re, NEW it,
           it = [indices |-> t, steps |-> st, reach |-> re],
           NEW u, NEW d, NEW f
    PROVE  Changed(it, d, u, f) = [indices |-> u, steps |-> d, reach |-> f]
<1>1. /\ \A a, b, c, v : [[indices |-> a, steps |-> b, reach |-> c] EXCEPT !.steps = v]
                             = [indices |-> a, steps |-> v, reach |-> c]
      /\ \A a, b, c, v : [[indices |-> a, steps |-> b, reach |-> c] EXCEPT !.indices = v]
                             = [indices |-> v, steps |-> b, reach |-> c]
      /\ \A a, b, c, v : [[indices |-> a, steps |-> b, reach |-> c] EXCEPT !.reach = v]
                             = [indices |-> a, steps |-> b, reach |-> v]
  OBVIOUS
<1> DEFINE a == [it EXCEPT !.steps = d]
           b == [a EXCEPT !.indices = u]
<1>2. a = [indices |-> t, steps |-> d, reach |-> re]
  BY <1>1
<1> HIDE DEF a
<1>3. b = [indices |-> u, steps |-> d, reach |-> re]
  BY <1>1, <1>2
<1> HIDE DEF b
<1>4. [b EXCEPT !.reach = f] = [indices |-> u, steps |-> d, reach |-> f]
  BY <1>1, <1>3
<1>5. Changed(it, d, u, f) = [b EXCEPT !.reach = f]
  BY SMT DEF a, b, Changed
<1> QED
  BY <1>4, <1>5

LEMMA CombinationsNext ==
    ASSUME NEW n \in Nat, NEW k \in Nat, NEW t \in S!Increasing(n, k),
           NEW it \in Holding(S!Increasing(n, k), n, t)
    PROVE  \/ \E u \in S!Increasing(n, k) :
                /\ Follows(S!Increasing(n, k), Lex(S!Increasing(n, k)), t, u)
                /\ S!CombStep(n, it) \in Holding(S!Increasing(n, k), n, u)
           \/ /\ \A u \in S!Increasing(n, k) : <<t, u>> \notin Lex(S!Increasing(n, k))
              /\ S!CombStep(n, it) \in Exhausted(n, k)
<1> DEFINE T == S!Increasing(n, k)
           R == Lex(T)
           ahead == [j \in 1 .. k |-> t[j] + 1 + k - j]
           room == {j \in 1 .. k : ahead[j] <= n}
           from == IF room = {} THEN 1 ELSE S!Max(room)
           far == {it.reach} \cup {ahead[j] : j \in from .. k}
           u == [x \in 1 .. k |-> IF x < from THEN t[x] ELSE t[from] + 1 + x - from]
           next == S!CombStep(n, it)
<1>1. /\ T \in SUBSET [1 .. k -> Int] /\ IsFiniteSet(T) /\ T = S!Increasing(n, k)
      /\ k = 0 => T = {<< >>}
  BY IncreasingSet
<1>2. /\ it.indices = t /\ it.steps = Numbered(T, t) /\ it.reach \in 0 .. n + 1
      /\ it = [indices |-> it.indices, steps |-> it.steps, reach |-> it.reach]
  BY DEF Holding
<1>3. /\ t \in [1 .. k -> Int] /\ Len(t) = k
      /\ \A x \in 1 .. k : t[x] \in 1 .. n /\ x <= t[x] /\ t[x] + (k - x) <= n
      /\ \A x \in 1 .. k - 1 : t[x] < t[x + 1]
  <2>1. \A x \in 1 .. k - 1 : t[x] < t[x + 1]
    BY DEF S!Increasing
  <2> QED
    BY <2>1, IncreasingIs
<1>4. Sequential(T) /\ Orders(R, T) /\ \A v \in T : Len(v) = k
  <2>1. \A v \in T : Len(v) = k
    BY <1>1
  <2> QED
    BY <1>1, <2>1, LexIsLess, LexOrders
<1>5. CASE k = 0
  <2>1. T = {<< >>} /\ t = << >>
    BY <1>1, <1>5
  <2>2. \A v \in T : <<t, v>> \notin R
    <3>1. <<t, t>> \notin R
      BY <1>4 DEF Orders
    <3> QED
      BY <2>1, <3>1
  <2>3. next = [it EXCEPT !.steps = @ + 1]
    BY <1>2, <1>3, <1>5 DEF S!CombStep
  <2>4. it.steps = -1
    BY <1>2, <1>3, <1>5 DEF Numbered
  <2>5. next.indices = t /\ next.steps = 0 /\ next.reach = it.reach
        /\ next = [indices |-> next.indices, steps |-> next.steps, reach |-> next.reach]
    BY <1>2, <2>3, <2>4
  <2> HIDE DEF next
  <2>6. next \in Exhausted(n, k)
    BY <1>2, <1>3, <1>5, <2>5 DEF Exhausted, AllTaken
  <2> QED
    BY <2>2, <2>6 DEF next
<1>6. CASE k # 0
  <2>1. next = S!Counted([it EXCEPT
                  !.steps = IF room = {} THEN S!COMPLETE ELSE @,
                  !.indices = [x \in 1 .. k |-> IF x < from THEN @[x] ELSE @[from] + 1 + x - from],
                  !.reach = S!Max({@} \cup {ahead[j] : j \in from .. k})])
    BY <1>2, <1>3, <1>6 DEF S!CombStep
  <2> DEFINE made == [indices |-> u, steps |-> IF room = {} THEN -1 ELSE it.steps,
                      reach |-> S!Max(far)]
  <2>2. next = S!Counted(made)
    <3>1. [it EXCEPT
                  !.steps = IF room = {} THEN S!COMPLETE ELSE @,
                  !.indices = [x \in 1 .. k |-> IF x < from THEN @[x] ELSE @[from] + 1 + x - from],
                  !.reach = S!Max({@} \cup {ahead[j] : j \in from .. k})] = made
      <4> DEFINE d == IF room = {} THEN -1 ELSE it.steps
                 f == S!Max(far)
                 st == it.steps
                 re == it.reach
      <4>1. [it EXCEPT !.steps = d, !.indices = u, !.reach = f]
              = [indices |-> u, steps |-> d, reach |-> f]
        <5>1. it = [indices |-> t, steps |-> st, reach |-> re]
          BY <1>2
        <5> HIDE DEF u, d, f, st, re
        <5>2. Changed(it, d, u, f) = [indices |-> u, steps |-> d, reach |-> f]
          BY <5>1, AllChanged
        <5> QED
          BY <5>2 DEF Changed
      <4>2. it.indices = t /\ S!COMPLETE = -1
        BY <1>2 DEF S!COMPLETE
      <4> HIDE DEF ahead, room, from
      <4> QED
        BY <4>1, <4>2
    <3> QED
      BY <2>1, <3>1
  <2>3. \A j \in 1 .. k : ahead[j] \in 0 .. n + 1 /\ ahead[j] = t[j] + 1 + k - j
    <3> TAKE j \in 1 .. k
    <3>1. ahead[j] = t[j] + 1 + k - j
      OBVIOUS
    <3>2. t[j] \in 1 .. n /\ t[j] + (k - j) <= n
      BY <1>3
    <3> HIDE DEF ahead
    <3> QED
      BY <3>1, <3>2
  <2>4. from \in 1 .. k /\ (room # {} => from \in room /\ \A x \in room : x <= from)
    <3>1. room \in SUBSET (0 .. k) /\ room \in SUBSET (1 .. k)
      OBVIOUS
    <3> HIDE DEF room
    <3>2. CASE room = {}
      BY <1>6, <3>2
    <3>3. CASE room # {}
      BY <3>1, <3>3, GreatestOf
    <3> QED
      BY <3>2, <3>3
  <2>5. S!Max(far) \in 0 .. n + 1
    <3>1. far \in SUBSET (0 .. n + 1) /\ far # {}
      <4>1. \A j \in from .. k : j \in 1 .. k
        <5>1. from \in 1 .. k
          BY <2>4
        <5> HIDE DEF from
        <5> QED
          BY <5>1
      <4> HIDE DEF ahead, from
      <4> QED
        BY <1>2, <2>3, <4>1
    <3> HIDE DEF far
    <3>2. n + 1 \in Nat
      OBVIOUS
    <3> QED
      BY <3>1, <3>2, GreatestOf
  <2>6. \A x \in 1 .. k : t[x] \in Int /\ t[from] \in Int
    BY <1>3, <2>4
  <2> HIDE DEF far, ahead
  <2>7. CASE room = {}
    <3>1. \A v \in T : \A x \in 1 .. k : v[x] <= t[x]
      <4> SUFFICES ASSUME NEW v \in T, NEW x \in 1 .. k PROVE v[x] <= t[x]
        OBVIOUS
      <4>1. v[x] + (k - x) <= n /\ v[x] \in 1 .. n
        BY <1>1, IncreasingIs
      <4>2. ~(t[x] + 1 + k - x <= n)
        BY <2>3, <2>7
      <4>3. t[x] \in Int /\ v[x] \in Int /\ k - x \in Int
        <5>1. t[x] \in Int
          BY <1>3
        <5> QED
          BY <4>1, <5>1
      <4>4. t[x] + (k - x) >= n
        BY <4>2, <4>3
      <4> QED
        BY <4>1, <4>3, <4>4
    <3>2. \A v \in T : <<t, v>> \notin R
      <4> HIDE DEF T
      <4> QED
        BY <1>1, <3>1, PointwiseLast
    <3>3. u \in [1 .. k -> Int]
      <4> HIDE DEF from
      <4> QED
        BY <2>4, <2>6
    <3> HIDE DEF u
    <3>4. made = [indices |-> u, steps |-> -1, reach |-> S!Max(far)]
      BY <2>7
    <3>5. next = made
      BY <2>2, <3>4 DEF S!Counted, S!COMPLETE
    <3>6. next \in Exhausted(n, k)
      BY <1>6, <2>5, <3>3, <3>4, <3>5 DEF Exhausted, AllTaken
    <3> QED
      BY <3>2, <3>6
  <2>8. CASE room # {}
    <3>1. /\ from \in 1 .. k /\ t[from] + 1 + k - from <= n
          /\ \A x \in from + 1 .. k : x \in 1 .. k /\ ~(t[x] + 1 + k - x <= n)
      <4>1. \A x \in from + 1 .. k : x \in 1 .. k /\ ~(x <= from)
        BY <2>4
      <4> HIDE DEF from
      <4> QED
        BY <2>3, <2>4, <2>8, <4>1
    <3> HIDE DEF from, room
    <3>2. /\ \A x \in 1 .. from - 1 : x \in 1 .. k /\ u[x] = t[x]
          /\ \A x \in from .. k : x \in 1 .. k /\ u[x] = t[from] + 1 + x - from
          /\ u[from] = t[from] + 1
          /\ u \in [1 .. k -> Int]
      BY <2>6, <3>1
    <3> HIDE DEF u
    <3>3. ASSUME NEW x \in 1 .. k PROVE u[x] \in 1 .. n
      <4>1. CASE x < from
        <5>1. x \in 1 .. from - 1
          BY <3>1, <4>1
        <5>2. u[x] = t[x]
          BY <3>2, <5>1
        <5> QED
          BY <1>3, <5>2
      <4>2. CASE from <= x
        <5>1. u[x] = t[from] + 1 + x - from
          BY <3>2, <4>2
        <5>2. t[from] \in 1 .. n /\ t[from] + 1 + x - from <= t[from] + 1 + k - from
          BY <1>3, <3>1
        <5> QED
          BY <3>1, <4>2, <5>1, <5>2
      <4> QED
        BY <3>1, <4>1, <4>2
    <3>4. ASSUME NEW x \in 1 .. k - 1 PROVE u[x] < u[x + 1]
      <4>0. x \in 1 .. k /\ x + 1 \in 1 .. k /\ t[x] < t[x + 1] /\ t[x] \in Int /\ t[x + 1] \in Int
        BY <1>3, <2>6
      <4>1. CASE x + 1 < from
        <5>1. u[x] = t[x] /\ u[x + 1] = t[x + 1]
          BY <3>1, <3>2, <4>1
        <5> QED
          BY <4>0, <5>1
      <4>2. CASE x + 1 = from
        <5>1. u[x] = t[x] /\ u[x + 1] = t[x + 1] + 1
          BY <3>1, <3>2, <4>2
        <5> QED
          BY <4>0, <5>1
      <4>3. CASE from <= x
        <5>1. u[x] = t[from] + 1 + x - from /\ u[x + 1] = t[from] + 1 + (x + 1) - from
          BY <3>1, <3>2, <4>0, <4>3
        <5> QED
          BY <2>6, <3>1, <4>0, <5>1
      <4> QED
        BY <3>1, <4>0, <4>1, <4>2, <4>3
    <3>5. u \in T
      BY <3>2, <3>3, <3>4 DEF S!Increasing
    <3>6. ASSUME NEW v \in T, \A y \in 1 .. from : v[y] = u[y], NEW x \in from + 1 .. k
          PROVE  u[x] <= v[x]
      <4>1. x \in 1 .. k /\ from <= x
        BY <3>1
      <4>2. v[from] + (x - from) <= v[x] /\ v[x] \in 1 .. n
        BY <1>1, <3>1, <4>1, IncreasingIs
      <4>3. v[from] = t[from] + 1 /\ u[x] = t[from] + 1 + x - from
        BY <3>1, <3>2, <3>6, <4>1
      <4> QED
        BY <2>6, <3>1, <4>1, <4>2, <4>3
    <3>7. ASSUME NEW v \in T, NEW x \in from + 1 .. k PROVE v[x] <= t[x]
      <4>1. x \in 1 .. k /\ ~(t[x] + 1 + k - x <= n)
        BY <3>1
      <4>2. v[x] + (k - x) <= n /\ v[x] \in 1 .. n
        BY <1>1, <4>1, IncreasingIs
      <4> QED
        BY <2>6, <4>1, <4>2
    <3>8. Follows(T, R, t, u)
      <4> HIDE DEF T
      <4> QED
        BY <1>1, <3>1, <3>2, <3>5, <3>6, <3>7, NextInOrder, ZenonT(60)
    <3>9. Numbered(T, u) = it.steps + 1 /\ it.steps # -1
      <4>1. Cardinality(Under(T, R, u)) = Cardinality(Under(T, R, t)) + 1
        <5> HIDE DEF T, R
        <5> QED
          BY <1>1, <1>4, <3>5, <3>8, ListedNext
      <4>2. Cardinality(Under(T, R, t)) \in Nat
        <5>1. Cardinality(Under(T, R, t)) \in 0 .. Cardinality(T) - 1
          <6> HIDE DEF T, R
          <6> QED
            BY <1>1, <1>4, Listed
        <5> QED
          BY <5>1
      <4>3. it.steps = Cardinality(Under(T, R, t)) /\ Numbered(T, u) = Cardinality(Under(T, R, u))
        BY <1>2, <1>4, <1>6, <3>5 DEF Numbered
      <4> HIDE DEF T, R
      <4> QED
        BY <4>1, <4>2, <4>3
    <3>10. made = [indices |-> u, steps |-> it.steps, reach |-> S!Max(far)]
      BY <2>8
    <3>11. next = [indices |-> u, steps |-> it.steps + 1, reach |-> S!Max(far)]
      BY <2>2, <3>9, <3>10 DEF S!Counted, S!COMPLETE
    <3>12. next \in Holding(T, n, u)
      BY <2>5, <3>9, <3>11 DEF Holding
    <3> QED
      BY <3>5, <3>8, <3>12
  <2> QED
    BY <2>7, <2>8
<1> QED
  BY <1>5, <1>6

LEMMA CombinationsKeep ==
    ASSUME NEW s, Choosing(s), s.tool = "combinations"
    PROVE  \E w : Kept(s, w)
<1>1. Selector(s) /\ s.n \in Nat /\ s.k \in Nat
  BY Selects DEF Choosing, S!Selecting
<1>2. /\ Begin(s) = S!CombBegin(s.n, s.k) /\ Finish(s) = S!CombEnd(s.n, s.k)
      /\ Yields(s) = S!InOrder(S!Increasing(s.n, s.k))
      /\ \A it : Step(s, it) = S!CombStep(s.n, it)
  BY <1>1 DEF Selector, S!Begin, S!Finish, S!Yields, S!Step
<1> DEFINE T == S!Increasing(s.n, s.k)
<1>3. /\ Finish(s).steps = AllTaken(s.k) /\ Finish(s).reach <= s.n + 1
      /\ T = {} => Begin(s) \in Exhausted(s.n, s.k)
      /\ T # {} => \E t \in T : /\ \A u \in T : <<u, t>> \notin Lex(T)
                                /\ Begin(s) \in Holding(T, s.n, t)
  BY <1>1, <1>2, CombinationsBegin
<1>4. \A t \in T : \A it \in Holding(T, s.n, t) :
         \/ \E u \in T : Follows(T, Lex(T), t, u) /\ Step(s, it) \in Holding(T, s.n, u)
         \/ (\A u \in T : <<t, u>> \notin Lex(T)) /\ Step(s, it) \in Exhausted(s.n, s.k)
  BY <1>1, <1>2, CombinationsNext
<1>5. T \in SUBSET [1 .. s.k -> Int] /\ IsFiniteSet(T)
  BY <1>1, IncreasingSet
<1> HIDE DEF T
<1> QED
  BY <1>2, <1>3, <1>4, <1>5, ChoosingKeeps DEF T

(* non-decreasing sequences *)
LEMMA NonDecreasingIs ==
    ASSUME NEW n \in Nat, NEW k \in Nat, NEW t \in S!NonDecreasing(n, k)
    PROVE  /\ t \in [1 .. k -> Int] /\ Len(t) = k
           /\ \A x \in 1 .. k : t[x] \in 1 .. n
           /\ \A x, y \in 1 .. k : x <= y => t[x] <= t[y]
<1>1. /\ t \in [1 .. k -> 1 .. n] /\ Len(t) = k /\ t \in [1 .. k -> Int]
      /\ \A x \in 1 .. k - 1 : t[x] <= t[x + 1]
  BY DEF S!NonDecreasing
<1>2. \A x \in 1 .. k : t[x] \in 1 .. n
  BY <1>1
<1>3. ASSUME NEW x \in 1 .. k, NEW y \in 1 .. k, x <= y PROVE t[x] <= t[y]
  <2> DEFINE J == {z \in x .. k : ~(t[x] <= t[z])}
  <2>1. SUFFICES ASSUME J # {} PROVE FALSE
    BY <1>3
  <2>2. PICK z \in J : \A j \in J : z <= j
    <3>1. J \in SUBSET Nat
      OBVIOUS
    <3> HIDE DEF J
    <3> QED
      BY <2>1, <3>1, Least
  <2>3. z # x
    BY <1>2, <2>2
  <2>4. z - 1 \in x .. k /\ ~(z <= z - 1) /\ z - 1 \in 1 .. k - 1 /\ (z - 1) + 1 = z
    BY <2>2, <2>3
  <2>5. t[x] <= t[z - 1]
    BY <2>2, <2>4
  <2>6. t[z - 1] <= t[z]
    BY <1>1, <2>4
  <2>7. z \in Int /\ x \in Int /\ t[x] \in Int /\ t[z] \in Int /\ t[z - 1] \in Int
    BY <1>2, <2>2, <2>4
  <2>8. t[x] <= t[z]
    BY <2>5, <2>6, <2>7
  <2> QED
    BY <2>2, <2>8
<1> QED
  BY <1>1, <1>2, <1>3

LEMMA NonDecreasingSet ==
    ASSUME NEW n \in Nat, NEW k \in Nat
    PROVE  /\ S!NonDecreasing(n, k) \in SUBSET [1 .. k -> Int]
           /\ IsFiniteSet(S!NonDecreasing(n, k))
           /\ n = 0 /\ k # 0 => S!NonDecreasing(n, k) = {}
           /\ k = 0 => S!NonDecreasing(n, k) = {<< >>}
<1>1. S!NonDecreasing(n, k) \in SUBSET [1 .. k -> 1 .. n]
  BY DEF S!NonDecreasing
<1>2. IsFiniteSet(S!NonDecreasing(n, k))
  <2>1. IsFiniteSet(1 .. n)
    BY FS_Interval
  <2>2. IsFiniteSet([1 .. k -> 1 .. n])
    BY <2>1, FinitelyMany
  <2> QED
    BY <1>1, <2>2, FS_Subset
<1>3. ASSUME n = 0, k # 0, NEW t \in S!NonDecreasing(n, k) PROVE FALSE
  <2>1. k \in 1 .. k
    BY <1>3
  <2>2. t[k] \in 1 .. n
    BY <2>1, NonDecreasingIs
  <2> QED
    BY <1>3, <2>2
<1>4. ASSUME k = 0 PROVE S!NonDecreasing(n, k) = {<< >>}
  <2>1. 1 .. k = {} /\ 1 .. k - 1 = {}
    BY <1>4
  <2>2. << >> \in [1 .. k -> 1 .. n]
    BY <2>1
  <2>3. \A t \in [1 .. k -> 1 .. n] : t = << >>
    BY <2>1
  <2> QED
    BY <2>1, <2>2, <2>3 DEF S!NonDecreasing
<1>5. S!NonDecreasing(n, k) \in SUBSET [1 .. k -> Int]
  BY <1>1
<1> QED
  BY <1>2, <1>3, <1>4, <1>5

LEMMA ReplacementsBegin ==
    ASSUME NEW n \in Nat, NEW k \in Nat
    PROVE  /\ S!ReplEnd(n, k).steps = AllTaken(k) /\ S!ReplEnd(n, k).reach <= n + 1
           /\ S!NonDecreasing(n, k) = {} => S!ReplBegin(n, k) \in Exhausted(n, k)
           /\ S!NonDecreasing(n, k) # {} =>
                \E t \in S!NonDecreasing(n, k) :
                   /\ \A u \in S!NonDecreasing(n, k) : <<u, t>> \notin Lex(S!NonDecreasing(n, k))
                   /\ S!ReplBegin(n, k) \in Holding(S!NonDecreasing(n, k), n, t)
<1> DEFINE T == S!NonDecreasing(n, k)
           first == [x \in 1 .. k |-> 1]
           begin == S!ReplBegin(n, k)
<1>1. 1 \in 0 .. n + 1
  OBVIOUS
<1>2. /\ begin.indices = first /\ begin.reach = 1
      /\ begin.steps = IF n # 0 /\ k # 0 THEN 0 ELSE -1
      /\ begin = [indices |-> begin.indices, steps |-> begin.steps, reach |-> begin.reach]
  BY DEF S!ReplBegin, S!COMPLETE
<1>3. /\ S!ReplEnd(n, k).steps = AllTaken(k) /\ S!ReplEnd(n, k).reach <= n + 1
  <2>1. S!ReplBegin(n, 0).steps = -1
    BY DEF S!ReplBegin, S!COMPLETE
  <2>2. S!ReplEnd(n, k).reach = 1
    BY DEF S!ReplEnd, S!ReplBegin
  <2>3. S!ReplEnd(n, k).steps = IF k = 0 THEN 0 ELSE -1
    BY <2>1 DEF S!ReplEnd, S!ReplBegin
  <2> QED
    BY <2>2, <2>3 DEF AllTaken
<1>4. /\ T \in SUBSET [1 .. k -> Int] /\ IsFiniteSet(T)
      /\ n = 0 /\ k # 0 => T = {}
      /\ k = 0 => T = {<< >>}
  BY NonDecreasingSet
<1> HIDE DEF begin
<1>5. CASE n = 0 /\ k # 0
  <2>1. begin.steps = AllTaken(k) /\ T = {}
    BY <1>2, <1>4, <1>5 DEF AllTaken
  <2>2. first \in [1 .. k -> Int]
    OBVIOUS
  <2>3. begin \in Exhausted(n, k)
    BY <1>1, <1>2, <2>1, <2>2 DEF Exhausted
  <2> QED
    BY <1>3, <2>1, <2>3 DEF begin
<1>6. CASE n # 0 \/ k = 0
  <2>2. first \in T
    <3>1. \A x \in 1 .. k : 1 \in 1 .. n
      BY <1>6
    <3> QED
      BY <3>1 DEF S!NonDecreasing
  <2>3. \A u \in T : \A x \in 1 .. k : first[x] <= u[x]
    <3> SUFFICES ASSUME NEW u \in T, NEW x \in 1 .. k PROVE first[x] <= u[x]
      OBVIOUS
    <3>1. u[x] \in 1 .. n
      BY NonDecreasingIs
    <3> QED
      BY <3>1
  <2>4. \A u \in T : <<u, first>> \notin Lex(T)
    <3> HIDE DEF first, T
    <3> QED
      BY <1>4, <2>2, <2>3, PointwiseFirst
  <2>5. begin.steps = Numbered(T, first)
    <3>1. Len(first) = k /\ Sequential(T)
      <4>1. \A t \in T : Len(t) = k
        BY <1>4
      <4> QED
        BY <1>4, <2>2, <4>1, LexIsLess
    <3> HIDE DEF first, T
    <3>2. CASE k = 0
      BY <1>2, <3>1, <3>2 DEF Numbered
    <3>3. CASE k # 0
      <4>1. Cardinality(Under(T, Lex(T), first)) = 0
        BY <1>4, <2>2, <2>4, <3>1, LexOrders, ListedFirst
      <4>2. begin.steps = 0
        BY <1>2, <1>6, <3>3
      <4> QED
        BY <3>1, <3>3, <4>1, <4>2 DEF Numbered
    <3> QED
      BY <3>2, <3>3
  <2> HIDE DEF first, T
  <2>6. begin \in Holding(T, n, first)
    BY <1>1, <1>2, <2>5 DEF Holding
  <2> QED
    BY <1>3, <2>2, <2>4, <2>6 DEF begin, T
<1> QED
  BY <1>5, <1>6

LEMMA ReplacementsNext ==
    ASSUME NEW n \in Nat, NEW k \in Nat, NEW t \in S!NonDecreasing(n, k),
           NEW it \in Holding(S!NonDecreasing(n, k), n, t)
    PROVE  \/ \E u \in S!NonDecreasing(n, k) :
                /\ Follows(S!NonDecreasing(n, k), Lex(S!NonDecreasing(n, k)), t, u)
                /\ S!ReplStep(n, it) \in Holding(S!NonDecreasing(n, k), n, u)
           \/ /\ \A u \in S!NonDecreasing(n, k) : <<t, u>> \notin Lex(S!NonDecreasing(n, k))
              /\ S!ReplStep(n, it) \in Exhausted(n, k)
<1> DEFINE T == S!NonDecreasing(n, k)
           R == Lex(T)
           stop == {j \in 1 .. k : t[j] < n}
           from == IF stop = {} THEN 1 ELSE S!Max(stop)
           far == {it.reach, t[from] + 1, n + (IF from < k THEN 1 ELSE 0)}
           u == [x \in 1 .. k |-> IF x < from THEN t[x] ELSE t[from] + 1]
           next == S!ReplStep(n, it)
<1>1. /\ T \in SUBSET [1 .. k -> Int] /\ IsFiniteSet(T) /\ T = S!NonDecreasing(n, k)
      /\ k = 0 => T = {<< >>}
  BY NonDecreasingSet
<1>2. /\ it.indices = t /\ it.steps = Numbered(T, t) /\ it.reach \in 0 .. n + 1
      /\ it = [indices |-> it.indices, steps |-> it.steps, reach |-> it.reach]
  BY DEF Holding
<1>3. /\ t \in [1 .. k -> Int] /\ Len(t) = k
      /\ \A x \in 1 .. k : t[x] \in 1 .. n
      /\ \A x \in 1 .. k - 1 : t[x] <= t[x + 1]
  <2>1. \A x \in 1 .. k - 1 : t[x] <= t[x + 1]
    BY DEF S!NonDecreasing
  <2> QED
    BY <2>1, NonDecreasingIs
<1>4. Sequential(T) /\ Orders(R, T) /\ \A v \in T : Len(v) = k
  <2>1. \A v \in T : Len(v) = k
    BY <1>1
  <2> QED
    BY <1>1, <2>1, LexIsLess, LexOrders
<1>5. CASE k = 0
  <2>1. T = {<< >>} /\ t = << >>
    BY <1>1, <1>5
  <2>2. \A v \in T : <<t, v>> \notin R
    <3>1. <<t, t>> \notin R
      BY <1>4 DEF Orders
    <3> QED
      BY <2>1, <3>1
  <2>3. next = [it EXCEPT !.steps = @ + 1]
    BY <1>2, <1>3, <1>5 DEF S!ReplStep
  <2>4. it.steps = -1
    BY <1>2, <1>3, <1>5 DEF Numbered
  <2>5. next.indices = t /\ next.steps = 0 /\ next.reach = it.reach
        /\ next = [indices |-> next.indices, steps |-> next.steps, reach |-> next.reach]
    BY <1>2, <2>3, <2>4
  <2> HIDE DEF next
  <2>6. next \in Exhausted(n, k)
    BY <1>2, <1>3, <1>5, <2>5 DEF Exhausted, AllTaken
  <2> QED
    BY <2>2, <2>6 DEF next
<1>6. CASE k # 0
  <2>1. next = S!Counted([it EXCEPT
                  !.steps = IF stop = {} THEN S!COMPLETE ELSE @,
                  !.indices = [x \in 1 .. k |-> IF x < from THEN @[x] ELSE @[from] + 1],
                  !.reach = S!Max({@, it.indices[from] + 1, n + (IF from < k THEN 1 ELSE 0)})])
    BY <1>2, <1>3, <1>6 DEF S!ReplStep
  <2> DEFINE made == [indices |-> u, steps |-> IF stop = {} THEN -1 ELSE it.steps,
                      reach |-> S!Max(far)]
  <2>2. next = S!Counted(made)
    <3>1. [it EXCEPT
                  !.steps = IF stop = {} THEN S!COMPLETE ELSE @,
                  !.indices = [x \in 1 .. k |-> IF x < from THEN @[x] ELSE @[from] + 1],
                  !.reach = S!Max({@, it.indices[from] + 1, n + (IF from < k THEN 1 ELSE 0)})]
            = made
      <4> DEFINE d == IF stop = {} THEN -1 ELSE it.steps
                 f == S!Max(far)
                 st == it.steps
                 re == it.reach
      <4>1. [it EXCEPT !.steps = d, !.indices = u, !.reach = f]
              = [indices |-> u, steps |-> d, reach |-> f]
        <5>1. it = [indices |-> t, steps |-> st, reach |-> re]
          BY <1>2
        <5> HIDE DEF u, d, f, st, re
        <5>2. Changed(it, d, u, f) = [indices |-> u, steps |-> d, reach |-> f]
          BY <5>1, AllChanged
        <5> QED
          BY <5>2 DEF Changed
      <4>2. it.indices = t /\ S!COMPLETE = -1
        BY <1>2 DEF S!COMPLETE
      <4> HIDE DEF stop, from
      <4> QED
        BY <4>1, <4>2
    <3> QED
      BY <2>1, <3>1
  <2>4. from \in 1 .. k /\ (stop # {} => from \in stop /\ \A x \in stop : x <= from)
    <3>1. stop \in SUBSET (0 .. k) /\ stop \in SUBSET (1 .. k)
      OBVIOUS
    <3> HIDE DEF stop
    <3>2. CASE stop = {}
      BY <1>6, <3>2
    <3>3. CASE stop # {}
      BY <3>1, <3>3, GreatestOf
    <3> QED
      BY <3>2, <3>3
  <2>5. S!Max(far) \in 0 .. n + 1
    <3>1. far \in SUBSET (0 .. n + 1) /\ far # {}
      <4>1. t[from] \in 1 .. n
        BY <1>3, <2>4
      <4> HIDE DEF from
      <4>2. t[from] + 1 \in 0 .. n + 1 /\ n + (IF from < k THEN 1 ELSE 0) \in 0 .. n + 1
        BY <4>1
      <4> QED
        BY <1>2, <4>2
    <3> HIDE DEF far
    <3>2. n + 1 \in Nat
      OBVIOUS
    <3> QED
      BY <3>1, <3>2, GreatestOf
  <2>6. \A x \in 1 .. k : t[x] \in Int /\ t[from] \in Int
    BY <1>3, <2>4
  <2> HIDE DEF far
  <2>7. CASE stop = {}
    <3>1. \A v \in T : \A x \in 1 .. k : v[x] <= t[x]
      <4> SUFFICES ASSUME NEW v \in T, NEW x \in 1 .. k PROVE v[x] <= t[x]
        OBVIOUS
      <4>1. v[x] \in 1 .. n
        BY NonDecreasingIs
      <4>2. ~(t[x] < n) /\ t[x] \in 1 .. n
        BY <1>3, <2>7
      <4> QED
        BY <4>1, <4>2
    <3>2. \A v \in T : <<t, v>> \notin R
      <4> HIDE DEF T
      <4> QED
        BY <1>1, <3>1, PointwiseLast
    <3>3. u \in [1 .. k -> Int]
      <4> HIDE DEF from
      <4> QED
        BY <2>4, <2>6
    <3> HIDE DEF u
    <3>4. made = [indices |-> u, steps |-> -1, reach |-> S!Max(far)]
      BY <2>7
    <3>5. next = made
      BY <2>2, <3>4 DEF S!Counted, S!COMPLETE
    <3>6. next \in Exhausted(n, k)
      BY <1>6, <2>5, <3>3, <3>4, <3>5 DEF Exhausted, AllTaken
    <3> QED
      BY <3>2, <3>6
  <2>8. CASE stop # {}
    <3>1. /\ from \in 1 .. k /\ t[from] < n
          /\ \A x \in from + 1 .. k : x \in 1 .. k /\ ~(t[x] < n)
      <4>1. \A x \in from + 1 .. k : x \in 1 .. k /\ ~(x <= from)
        BY <2>4
      <4> HIDE DEF from
      <4> QED
        BY <2>4, <2>8, <4>1
    <3> HIDE DEF from, stop
    <3>2. /\ \A x \in 1 .. from - 1 : x \in 1 .. k /\ u[x] = t[x]
          /\ \A x \in from .. k : x \in 1 .. k /\ u[x] = t[from] + 1
          /\ u[from] = t[from] + 1
          /\ u \in [1 .. k -> Int]
      BY <2>6, <3>1
    <3> HIDE DEF u
    <3>3. ASSUME NEW x \in 1 .. k PROVE u[x] \in 1 .. n
      <4>1. CASE x < from
        <5>1. x \in 1 .. from - 1
          BY <3>1, <4>1
        <5>2. u[x] = t[x]
          BY <3>2, <5>1
        <5> QED
          BY <1>3, <5>2
      <4>2. CASE from <= x
        <5>1. u[x] = t[from] + 1
          BY <3>2, <4>2
        <5>2. t[from] \in 1 .. n
          BY <1>3, <3>1
        <5> QED
          BY <3>1, <5>1, <5>2
      <4> QED
        BY <3>1, <4>1, <4>2
    <3>4. ASSUME NEW x \in 1 .. k - 1 PROVE u[x] <= u[x + 1]
      <4>0. x \in 1 .. k /\ x + 1 \in 1 .. k /\ t[x] <= t[x + 1] /\ t[x] \in Int /\ t[x + 1] \in Int
        BY <1>3, <2>6
      <4>1. CASE x + 1 < from
        <5>1. u[x] = t[x] /\ u[x + 1] = t[x + 1]
          BY <3>1, <3>2, <4>1
        <5> QED
          BY <4>0, <5>1
      <4>2. CASE x + 1 = from
        <5>1. u[x] = t[x] /\ u[x + 1] = t[x + 1] + 1
          BY <3>1, <3>2, <4>2
        <5> QED
          BY <4>0, <5>1
      <4>3. CASE from <= x
        <5>1. u[x] = t[from] + 1 /\ u[x + 1] = t[from] + 1
          BY <3>1, <3>2, <4>0, <4>3
        <5> QED
          BY <2>6, <4>0, <5>1
      <4> QED
        BY <3>1, <4>0, <4>1, <4>2, <4>3
    <3>5. u \in T
      BY <3>2, <3>3, <3>4 DEF S!NonDecreasing
    <3>6. ASSUME NEW v \in T, \A y \in 1 .. from : v[y] = u[y], NEW x \in from + 1 .. k
          PROVE  u[x] <= v[x]
      <4>1. x \in 1 .. k /\ from <= x
        BY <3>1
      <4>2. v[from] <= v[x] /\ v[x] \in 1 .. n
        BY <1>1, <3>1, <4>1, NonDecreasingIs
      <4>3. v[from] = t[from] + 1 /\ u[x] = t[from] + 1
        BY <3>1, <3>2, <3>6, <4>1
      <4> QED
        BY <4>2, <4>3
    <3>7. ASSUME NEW v \in T, NEW x \in from + 1 .. k PROVE v[x] <= t[x]
      <4>1. x \in 1 .. k /\ ~(t[x] < n) /\ t[x] \in 1 .. n
        BY <1>3, <3>1
      <4>2. v[x] \in 1 .. n
        BY <1>1, <4>1, NonDecreasingIs
      <4> QED
        BY <4>1, <4>2
    <3>8. Follows(T, R, t, u)
      <4> HIDE DEF T
      <4> QED
        BY <1>1, <3>1, <3>2, <3>5, <3>6, <3>7, NextInOrder, ZenonT(60)
    <3>9. Numbered(T, u) = it.steps + 1 /\ it.steps # -1
      <4>1. Cardinality(Under(T, R, u)) = Cardinality(Under(T, R, t)) + 1
        <5> HIDE DEF T, R
        <5> QED
          BY <1>1, <1>4, <3>5, <3>8, ListedNext
      <4>2. Cardinality(Under(T, R, t)) \in Nat
        <5>1. Cardinality(Under(T, R, t)) \in 0 .. Cardinality(T) - 1
          <6> HIDE DEF T, R
          <6> QED
            BY <1>1, <1>4, Listed
        <5> QED
          BY <5>1
      <4>3. it.steps = Cardinality(Under(T, R, t)) /\ Numbered(T, u) = Cardinality(Under(T, R, u))
        BY <1>2, <1>4, <1>6, <3>5 DEF Numbered
      <4> HIDE DEF T, R
      <4> QED
        BY <4>1, <4>2, <4>3
    <3>10. made = [indices |-> u, steps |-> it.steps, reach |-> S!Max(far)]
      BY <2>8
    <3>11. next = [indices |-> u, steps |-> it.steps + 1, reach |-> S!Max(far)]
      BY <2>2, <3>9, <3>10 DEF S!Counted, S!COMPLETE
    <3>12. next \in Holding(T, n, u)
      BY <2>5, <3>9, <3>11 DEF Holding
    <3> QED
      BY <3>5, <3>8, <3>12
  <2> QED
    BY <2>7, <2>8
<1> QED
  BY <1>5, <1>6

LEMMA ReplacementsKeep ==
    ASSUME NEW s, Choosing(s), s.tool = "with_replacement"
    PROVE  \E w : Kept(s, w)
<1>1. Selector(s) /\ s.n \in Nat /\ s.k \in Nat
  BY Selects DEF Choosing, S!Selecting
<1>2. /\ Begin(s) = S!ReplBegin(s.n, s.k) /\ Finish(s) = S!ReplEnd(s.n, s.k)
      /\ Yields(s) = S!InOrder(S!NonDecreasing(s.n, s.k))
      /\ \A it : Step(s, it) = S!ReplStep(s.n, it)
  BY <1>1 DEF Selector, S!Begin, S!Finish, S!Yields, S!Step
<1> DEFINE T == S!NonDecreasing(s.n, s.k)
<1>3. /\ Finish(s).steps = AllTaken(s.k) /\ Finish(s).reach <= s.n + 1
      /\ T = {} => Begin(s) \in Exhausted(s.n, s.k)
      /\ T # {} => \E t \in T : /\ \A u \in T : <<u, t>> \notin Lex(T)
                                /\ Begin(s) \in Holding(T, s.n, t)
  BY <1>1, <1>2, ReplacementsBegin
<1>4. \A t \in T : \A it \in Holding(T, s.n, t) :
         \/ \E u \in T : Follows(T, Lex(T), t, u) /\ Step(s, it) \in Holding(T, s.n, u)
         \/ (\A u \in T : <<t, u>> \notin Lex(T)) /\ Step(s, it) \in Exhausted(s.n, s.k)
  BY <1>1, <1>2, ReplacementsNext
<1>5. T \in SUBSET [1 .. s.k -> Int] /\ IsFiniteSet(T)
  BY <1>1, NonDecreasingSet
<1> HIDE DEF T
<1> QED
  BY <1>2, <1>3, <1>4, <1>5, ChoosingKeeps DEF T

----------------------------------------------------------------------------
(* powerset *)

Powering(s) == s.tool = "powerset" /\ s.n \in Nat

LEMMA SomeIncreasing ==
    ASSUME NEW n \in Nat, NEW k \in 0 .. n
    PROVE  S!Increasing(n, k) # {}
<1> DEFINE first == [x \in 1 .. k |-> x]
<1>1. \A x \in 1 .. k : x \in 1 .. n
  OBVIOUS
<1>2. first \in [1 .. k -> 1 .. n]
  BY <1>1
<1>3. \A x \in 1 .. k - 1 : first[x] < first[x + 1]
  OBVIOUS
<1> QED
  BY <1>2, <1>3 DEF S!Increasing

Subsets(n) == UNION {S!Increasing(n, k) : k \in 0 .. n}

LEMMA SubsetsAre ==
    ASSUME NEW n \in Nat
    PROVE  /\ IsFiniteSet(Subsets(n)) /\ Sequential(Subsets(n))
           /\ \A t \in Subsets(n) : Len(t) \in 0 .. n /\ t \in S!Increasing(n, Len(t))
           /\ \A k \in 0 .. n : \A t \in S!Increasing(n, k) : t \in Subsets(n) /\ Len(t) = k
<1> DEFINE T == Subsets(n)
           K == {S!Increasing(n, k) : k \in 0 .. n}
           f == [k \in 0 .. n |-> S!Increasing(n, k)]
<1>1. IsFiniteSet(K)
  <2>1. f \in Surjection(0 .. n, K)
    BY DEF Surjection
  <2>2. IsFiniteSet(0 .. n)
    BY FS_Interval
  <2> HIDE DEF f, K
  <2> QED
    BY <2>1, <2>2, FS_Surjection
<1>2. \A U \in K : IsFiniteSet(U)
  BY IncreasingSet
<1>3. IsFiniteSet(T)
  <2> HIDE DEF K
  <2>1. IsFiniteSet(UNION K)
    BY <1>1, <1>2, FS_UNION
  <2> QED
    BY <2>1 DEF Subsets, K
<1>4. ASSUME NEW k \in 0 .. n, NEW t \in S!Increasing(n, k)
      PROVE  t \in T /\ Len(t) = k /\ t \in [1 .. k -> Int]
  BY <1>4, IncreasingIs DEF Subsets
<1>5. ASSUME NEW t \in T PROVE \E k \in 0 .. n : t \in S!Increasing(n, k)
  BY DEF Subsets
<1>6. ASSUME NEW t \in T
      PROVE  /\ Len(t) \in 0 .. n /\ t \in S!Increasing(n, Len(t))
             /\ Len(t) \in Nat /\ t \in [1 .. Len(t) -> Int]
  <2>1. PICK k \in 0 .. n : t \in S!Increasing(n, k)
    BY <1>5
  <2>2. Len(t) = k /\ t \in [1 .. k -> Int]
    BY <1>4, <2>1
  <2> QED
    BY <2>1, <2>2
<1> QED
  BY <1>3, <1>4, <1>6 DEF Sequential

(* the last of a length is followed by the first of the next *)
LEMMA NextLength ==
    ASSUME NEW n \in Nat, NEW t \in Subsets(n), NEW u \in Subsets(n), Len(u) = Len(t) + 1,
           \A v \in S!Increasing(n, Len(t)) : <<t, v>> \notin Lex(S!Increasing(n, Len(t))),
           \A v \in S!Increasing(n, Len(u)) : <<v, u>> \notin Lex(S!Increasing(n, Len(u)))
    PROVE  Follows(Subsets(n), Lex(Subsets(n)), t, u)
<1> DEFINE T == Subsets(n)
           R == Lex(T)
<1>1. \A v \in T : Len(v) \in 0 .. n /\ v \in S!Increasing(n, Len(v))
  BY SubsetsAre
<1>2. \A a, b : <<a, b>> \in R <=> a \in T /\ b \in T /\ S!Precedes(a, b)
  BY DEF Lex
<1>3. <<t, u>> \in R
  <2>1. Len(t) < Len(u)
    BY <1>1
  <2> QED
    BY <1>2, <2>1 DEF S!Precedes
<1>4. Orders(R, T)
  BY SubsetsAre, LexOrders
<1> HIDE DEF T, R
<1>5. ASSUME NEW v \in T, <<v, u>> \in R PROVE v = t \/ <<v, t>> \in R
  <2>1. v = t \/ <<v, t>> \in R \/ <<t, v>> \in R
    BY <1>4 DEF Orders, T
  <2>2. ASSUME <<t, v>> \in R PROVE FALSE
    <3>1. S!Precedes(t, v) /\ S!Precedes(v, u)
      BY <1>2, <1>5, <2>2
    <3>2. Len(t) \in Nat /\ Len(v) \in Nat /\ Len(u) \in Nat
      BY <1>1 DEF T
    <3>3. CASE Len(v) = Len(t)
      <4>1. S!Precedes(t, v) /\ v \in S!Increasing(n, Len(t)) /\ t \in S!Increasing(n, Len(t))
        BY <1>1, <3>1, <3>3 DEF T
      <4>2. <<t, v>> \in Lex(S!Increasing(n, Len(t)))
        BY <4>1 DEF Lex
      <4> QED
        BY <4>1, <4>2
    <3>4. CASE Len(v) = Len(u)
      <4>1. S!Precedes(v, u) /\ v \in S!Increasing(n, Len(u)) /\ u \in S!Increasing(n, Len(u))
        BY <1>1, <3>1, <3>4 DEF T
      <4>2. <<v, u>> \in Lex(S!Increasing(n, Len(u)))
        BY <4>1 DEF Lex
      <4> QED
        BY <4>1, <4>2
    <3>5. Len(t) <= Len(v) /\ Len(v) <= Len(u)
      BY <3>1, <3>2 DEF S!Precedes
    <3>6. \A a, b, c \in Nat : a <= b /\ b <= c /\ c = a + 1 => b = a \/ b = c
      OBVIOUS
    <3>7. Len(v) = Len(t) \/ Len(v) = Len(u)
      BY <3>2, <3>5, <3>6
    <3> QED
      BY <3>3, <3>4, <3>7
  <2> QED
    BY <2>1, <2>2
<1> QED
  BY <1>3, <1>5 DEF Follows, T, R

(* the next of a length is the next of all *)
LEMMA NextAmongAll ==
    ASSUME NEW n \in Nat, NEW k \in 0 .. n, NEW t \in S!Increasing(n, k), NEW u \in S!Increasing(n, k),
           Follows(S!Increasing(n, k), Lex(S!Increasing(n, k)), t, u)
    PROVE  Follows(Subsets(n), Lex(Subsets(n)), t, u)
<1> DEFINE T == Subsets(n)
           L == S!Increasing(n, k)
<1>1. \A v \in T : Len(v) \in 0 .. n /\ v \in S!Increasing(n, Len(v))
  BY SubsetsAre
<1>2. t \in T /\ u \in T /\ Len(t) = k /\ Len(u) = k
  BY SubsetsAre
<1> HIDE DEF T, L
<1>3. \A a, b : <<a, b>> \in Lex(T) <=> a \in T /\ b \in T /\ S!Precedes(a, b)
  BY DEF Lex
<1>4. \A a, b : <<a, b>> \in Lex(L) <=> a \in L /\ b \in L /\ S!Precedes(a, b)
  BY DEF Lex
<1>5. <<t, u>> \in Lex(T)
  BY <1>2, <1>3, <1>4 DEF Follows, L
<1>6. ASSUME NEW v \in T, <<v, u>> \in Lex(T) PROVE v = t \/ <<v, t>> \in Lex(T)
  <2>1. S!Precedes(v, u) /\ Len(v) \in Nat
    BY <1>1, <1>3, <1>6
  <2>2. CASE Len(v) = k
    <3>1. v \in L /\ u \in L /\ t \in L
      BY <1>1, <2>2 DEF L
    <3>2. <<v, u>> \in Lex(L)
      BY <1>4, <2>1, <3>1
    <3>3. v = t \/ <<v, t>> \in Lex(L)
      BY <3>1, <3>2 DEF Follows, L
    <3> QED
      BY <1>2, <1>3, <1>4, <3>3
  <2>3. CASE Len(v) # k
    <3>1. Len(v) < Len(t)
      BY <1>2, <2>1, <2>3 DEF S!Precedes
    <3>2. S!Precedes(v, t)
      BY <3>1 DEF S!Precedes
    <3> QED
      BY <1>2, <1>3, <3>2
  <2> QED
    BY <2>2, <2>3
<1> QED
  BY <1>5, <1>6 DEF Follows, T

(* the iterators of powerset at t *)
OfLength(n, t) ==
    [set_size : {Len(t)}, comb_iter : Holding(S!Increasing(n, Len(t)), n, t),
     comb_end : {S!CombEnd(n, Len(t))}]

LEMMA PowerFirst ==
    ASSUME NEW n \in Nat, NEW k \in 0 .. n
    PROVE  \E t \in S!Increasing(n, k) :
               /\ Len(t) = k
               /\ \A u \in S!Increasing(n, k) : <<u, t>> \notin Lex(S!Increasing(n, k))
               /\ S!PowerAt(n, k) \in OfLength(n, t)
<1> DEFINE L == S!Increasing(n, k)
<1>1. L # {}
  BY SomeIncreasing
<1>2. PICK t \in L : /\ \A u \in L : <<u, t>> \notin Lex(L)
                     /\ S!CombBegin(n, k) \in Holding(L, n, t)
  BY <1>1, CombinationsBegin
<1>3. Len(t) = k
  BY SubsetsAre
<1>4. S!PowerAt(n, k) \in OfLength(n, t)
  BY <1>2, <1>3 DEF S!PowerAt, OfLength
<1> QED
  BY <1>2, <1>3, <1>4

LEMMA PowersetKeeps ==
    ASSUME NEW s, Powering(s)
    PROVE  \E w : Kept(s, w)
<1>1. s.tool = "powerset" /\ Selector(s) /\ s.n \in Nat
  BY Selects DEF Powering, S!Selecting
<1> DEFINE n == s.n
           T == Subsets(n)
           R == Lex(T)
           On == [t \in T |-> OfLength(n, t)]
           last == S!PowerAt(n, n + 1)
           Done == {last}
<1>2. /\ Begin(s) = S!PowerAt(n, 0) /\ Finish(s) = last
      /\ Yields(s) = S!InOrder(T)
      /\ \A it : Step(s, it) = S!PowerStep(n, it)
      /\ \A it : Value(s, it) = it.comb_iter.indices
      /\ \A it, other : Same(s, it, other) <=>
              it.set_size = other.set_size /\ it.comb_iter.steps = other.comb_iter.steps
      /\ \A it : Inner(s, it) <=> it.comb_iter.reach <= n + 1
  <2>1. Begin(s) = S!PowerAt(n, 0) /\ Finish(s) = last
    BY <1>1 DEF Selector, S!Begin, S!Finish
  <2>2. Yields(s) = S!InOrder(T)
    BY <1>1 DEF Selector, S!Yields, Subsets
  <2>3. \A it : Step(s, it) = S!PowerStep(n, it)
    BY <1>1 DEF Selector, S!Step
  <2>4. \A it : Value(s, it) = it.comb_iter.indices
    BY <1>1 DEF Selector, S!Value
  <2>5. \A it, other : Same(s, it, other) <=>
              it.set_size = other.set_size /\ it.comb_iter.steps = other.comb_iter.steps
    BY <1>1 DEF Selector, S!Same, S!PowerSame
  <2>6. \A it : Inner(s, it) <=> it.comb_iter.reach <= n + 1
    BY <1>1 DEF Selector, S!Inside
  <2> QED
    BY <2>1, <2>2, <2>3, <2>4, <2>5, <2>6
<1>3. /\ IsFiniteSet(T) /\ Sequential(T)
      /\ \A t \in T : Len(t) \in 0 .. n /\ t \in S!Increasing(n, Len(t))
      /\ \A k \in 0 .. n : \A t \in S!Increasing(n, k) : t \in T /\ Len(t) = k
  BY <1>1, SubsetsAre
<1>4. Orders(R, T) /\ Yields(s) = Listing(T, R)
  BY <1>2, <1>3, LexOrders, InOrderIs
<1>5. \A t, u : <<t, u>> \in R <=> t \in T /\ u \in T /\ S!Precedes(t, u)
  BY DEF Lex
<1>6. n \in Nat /\ Done = {last} /\ \A t \in T : On[t] = OfLength(n, t)
  BY <1>1
<1>7. last.set_size = n + 1 /\ last.comb_iter.reach <= n + 1
  <2>1. S!Increasing(n, n + 1) = {}
    BY <1>6, IncreasingSet
  <2>2. S!CombBegin(n, n + 1) \in Exhausted(n, n + 1)
    BY <1>6, <2>1, CombinationsBegin
  <2>3. S!CombBegin(n, n + 1).reach \in 0 .. n + 1
    BY <2>2 DEF Exhausted
  <2> QED
    BY <1>6, <2>3 DEF S!PowerAt
<1>8. ASSUME NEW t \in T, NEW it \in On[t]
      PROVE  /\ it.set_size = Len(t) /\ it.comb_iter.indices = t
             /\ it.comb_iter.steps = Numbered(S!Increasing(n, Len(t)), t)
             /\ it.comb_iter.reach <= n + 1
             /\ it.comb_iter \in Holding(S!Increasing(n, Len(t)), n, t)
             /\ it.comb_end = S!CombEnd(n, Len(t))
             /\ it = [set_size |-> it.set_size, comb_iter |-> it.comb_iter,
                      comb_end |-> it.comb_end]
  <2>1. it \in OfLength(n, t)
    BY <1>6
  <2>2. /\ it.comb_iter \in Holding(S!Increasing(n, Len(t)), n, t)
        /\ it.set_size = Len(t) /\ it.comb_end = S!CombEnd(n, Len(t))
        /\ it = [set_size |-> it.set_size, comb_iter |-> it.comb_iter,
                 comb_end |-> it.comb_end]
    BY <2>1 DEF OfLength
  <2> DEFINE c == it.comb_iter
  <2>3. c.indices = t /\ c.steps = Numbered(S!Increasing(n, Len(t)), t) /\ c.reach \in 0 .. n + 1
    BY <2>2 DEF Holding
  <2> QED
    BY <1>6, <2>2, <2>3
<1> HIDE DEF n, T, R, On, last, Done
<1>9. \E t \in T : (\A u \in T : <<u, t>> \notin R) /\ Begin(s) \in On[t]
  <2>1. 0 \in 0 .. n
    BY <1>6
  <2>2. PICK t \in S!Increasing(n, 0) : Len(t) = 0 /\ S!PowerAt(n, 0) \in OfLength(n, t)
    BY <1>6, <2>1, PowerFirst
  <2>3. t \in T
    BY <1>3, <2>1
  <2>4. \A u \in T : <<u, t>> \notin R
    <3> SUFFICES ASSUME NEW u \in T, S!Precedes(u, t) PROVE FALSE
      BY <1>5
    <3>1. Len(u) \in 0 .. n /\ u \in S!Increasing(n, Len(u))
      BY <1>3
    <3>2. Len(u) = 0
      BY <1>6, <2>2, <3>1 DEF S!Precedes
    <3>3. u = << >> /\ t = << >>
      BY <1>6, <3>1, <3>2, IncreasingSet
    <3> QED
      BY <3>3 DEF S!Precedes, S!Less
  <2> QED
    BY <1>2, <1>6, <2>2, <2>3, <2>4
<1>10. ASSUME NEW t \in T, NEW it \in On[t]
       PROVE  \/ \E u \in T : Follows(T, R, t, u) /\ Step(s, it) \in On[u]
              \/ (\A u \in T : <<t, u>> \notin R) /\ Step(s, it) \in Done
  <2> DEFINE k == Len(t)
             L == S!Increasing(n, k)
             c == it.comb_iter
             next == S!CombStep(n, c)
  <2>1. /\ k \in 0 .. n /\ k \in Nat /\ t \in L /\ c \in Holding(L, n, t)
        /\ it.set_size = k /\ it.comb_end = S!CombEnd(n, k)
        /\ it = [set_size |-> it.set_size, comb_iter |-> c, comb_end |-> it.comb_end]
    BY <1>3, <1>6, <1>8
  <2>2. S!CombEnd(n, k).steps = AllTaken(k)
    BY <1>6, <2>1, CombinationsBegin
  <2>3. Step(s, it) = IF next.steps = AllTaken(k) THEN S!PowerAt(n, k + 1)
                      ELSE [it EXCEPT !.comb_iter = next]
    BY <1>2, <2>1, <2>2 DEF S!PowerStep
  <2> HIDE DEF next, k, c
  <2>4. \/ \E u \in L : Follows(L, Lex(L), t, u) /\ next \in Holding(L, n, u)
        \/ (\A u \in L : <<t, u>> \notin Lex(L)) /\ next \in Exhausted(n, k)
    BY <1>6, <2>1, CombinationsNext DEF next
  <2>5. CASE \E u \in L : Follows(L, Lex(L), t, u) /\ next \in Holding(L, n, u)
    <3>1. PICK u \in L : Follows(L, Lex(L), t, u) /\ next \in Holding(L, n, u)
      BY <2>5
    <3>2. u \in T /\ Len(u) = k
      BY <1>3, <2>1
    <3>3. Follows(T, R, t, u)
      BY <1>6, <2>1, <3>1, NextAmongAll DEF T, R
    <3>4. next.steps = Numbered(L, u)
      BY <3>1 DEF Holding
    <3>5. Numbered(L, u) # AllTaken(k)
      <4>1. L \in SUBSET [1 .. k -> Int] /\ IsFiniteSet(L)
        BY <1>6, <2>1, IncreasingSet
      <4> HIDE DEF L
      <4> QED
        BY <2>1, <4>1, NumbersTell
    <3>6. Step(s, it) = [set_size |-> k, comb_iter |-> next, comb_end |-> S!CombEnd(n, k)]
      <4>1. Step(s, it) = [it EXCEPT !.comb_iter = next]
        BY <2>3, <3>4, <3>5
      <4> QED
        BY <2>1, <4>1
    <3>7. Step(s, it) \in On[u]
      BY <1>6, <3>1, <3>2, <3>6 DEF OfLength
    <3> QED
      BY <3>2, <3>3, <3>7
  <2>6. CASE (\A u \in L : <<t, u>> \notin Lex(L)) /\ next \in Exhausted(n, k)
    <3>1. Step(s, it) = S!PowerAt(n, k + 1)
      <4>1. next.steps = AllTaken(k)
        BY <2>6 DEF Exhausted
      <4> QED
        BY <2>3, <4>1
    <3>2. CASE k = n
      <4>1. \A u \in T : <<t, u>> \notin R
        <5> SUFFICES ASSUME NEW u \in T, S!Precedes(t, u) PROVE FALSE
          BY <1>5
        <5>1. Len(u) \in 0 .. n /\ u \in S!Increasing(n, Len(u)) /\ Len(t) = n
          BY <1>3, <3>2 DEF k
        <5>2. Len(u) = n
          BY <1>6, <5>1 DEF S!Precedes
        <5>3. u \in L
          BY <3>2, <5>1, <5>2
        <5>4. <<t, u>> \in Lex(L)
          BY <2>1, <5>3 DEF Lex
        <5> QED
          BY <2>6, <5>3, <5>4
      <4> QED
        BY <1>6, <3>1, <3>2, <4>1 DEF last
    <3>3. CASE k # n
      <4>1. k + 1 \in 0 .. n
        BY <1>6, <2>1, <3>3
      <4>2. PICK u \in S!Increasing(n, k + 1) :
                /\ Len(u) = k + 1
                /\ \A v \in S!Increasing(n, k + 1) : <<v, u>> \notin Lex(S!Increasing(n, k + 1))
                /\ S!PowerAt(n, k + 1) \in OfLength(n, u)
        BY <1>6, <4>1, PowerFirst
      <4>3. u \in T
        BY <1>3, <4>1
      <4>4. Follows(T, R, t, u)
        <5>1. Len(u) = Len(t) + 1 /\ t \in Subsets(n) /\ u \in Subsets(n)
          BY <4>2, <4>3 DEF k, T
        <5>2. \A v \in S!Increasing(n, Len(t)) : <<t, v>> \notin Lex(S!Increasing(n, Len(t)))
          BY <2>6 DEF k
        <5>3. \A v \in S!Increasing(n, Len(u)) : <<v, u>> \notin Lex(S!Increasing(n, Len(u)))
          BY <4>2
        <5> QED
          BY <1>6, <5>1, <5>2, <5>3, NextLength DEF T, R
      <4> QED
        BY <1>6, <3>1, <4>2, <4>3, <4>4
    <3> QED
      BY <3>2, <3>3
  <2> QED
    BY <2>4, <2>5, <2>6
<1>11. ASSUME NEW t \in T, NEW it \in On[t]
       PROVE  /\ Value(s, it) = t /\ Inner(s, it)
              /\ ~Same(s, it, last) /\ ~Same(s, last, it)
  <2>1. it.set_size \in 0 .. n /\ it.comb_iter.indices = t /\ it.comb_iter.reach <= n + 1
    BY <1>3, <1>8
  <2>2. it.set_size # last.set_size
    BY <1>6, <1>7, <2>1
  <2> QED
    BY <1>2, <2>1, <2>2
<1>12. Same(s, last, last) /\ Inner(s, last)
  BY <1>2, <1>7
<1>13. Lists(s, T, R, On, Done)
  BY <1>2, <1>3, <1>4, <1>6, <1>9, <1>10, <1>11, <1>12 DEF Lists
<1>14. Parts(s, T, On, Done)
  <2>1. ASSUME NEW t \in T, NEW u \in T, NEW it \in On[t], NEW other \in On[u]
        PROVE  Same(s, it, other) <=> t = u
    <3>1. /\ it.set_size = Len(t) /\ other.set_size = Len(u)
          /\ it.comb_iter.steps = Numbered(S!Increasing(n, Len(t)), t)
          /\ other.comb_iter.steps = Numbered(S!Increasing(n, Len(u)), u)
      BY <1>8
    <3>2. Same(s, it, other) <=>
             /\ Len(t) = Len(u)
             /\ Numbered(S!Increasing(n, Len(t)), t) = Numbered(S!Increasing(n, Len(u)), u)
      BY <1>2, <3>1
    <3>3. ASSUME Len(t) = Len(u)
          PROVE  Numbered(S!Increasing(n, Len(t)), t) = Numbered(S!Increasing(n, Len(t)), u)
                    <=> t = u
      <4> DEFINE k == Len(t)
                 L == S!Increasing(n, k)
      <4>1. k \in Nat /\ t \in L /\ u \in L
        BY <1>3, <3>3
      <4> HIDE DEF k
      <4>2. L \in SUBSET [1 .. k -> Int] /\ IsFiniteSet(L)
        BY <1>6, <4>1, IncreasingSet
      <4> HIDE DEF L
      <4>3. Numbered(L, t) = Numbered(L, u) <=> t = u
        BY <4>1, <4>2, NumbersTell
      <4> QED
        BY <4>3 DEF L, k
    <3> QED
      BY <3>2, <3>3
  <2> QED
    BY <1>6, <1>11, <1>12, <2>1 DEF Parts
<1> QED
  BY <1>13, <1>14, ListsKeeps

----------------------------------------------------------------------------
(* permutations *)

Permuting(s) == s.tool = "permutations" /\ \E m \in Nat : s.elems \in [1 .. m -> Int]

(* every part of a set in order has a first element *)
LEMMA FirstOf ==
    ASSUME NEW T, IsFiniteSet(T), NEW R, Orders(R, T), NEW J \in SUBSET T, J # {}
    PROVE  \E u \in J : \A v \in J : <<v, u>> \notin R
<1> DEFINE K == {Cardinality(Under(T, R, u)) : u \in J}
<1>1. K \in SUBSET Nat /\ K # {}
  <2>1. \A u \in T : Cardinality(Under(T, R, u)) \in Nat
    <3> TAKE u \in T
    <3>1. Cardinality(Under(T, R, u)) \in 0 .. Cardinality(T) - 1
      BY Listed
    <3> QED
      BY <3>1
  <2> QED
    BY <2>1
<1>2. A!Min(K) \in K /\ \A c \in K : A!Min(K) <= c
  <2> HIDE DEF K
  <2> QED
    BY <1>1, Least
<1>3. PICK u \in J : Cardinality(Under(T, R, u)) = A!Min(K)
  BY <1>2
<1>4. ASSUME NEW v \in J, <<v, u>> \in R PROVE FALSE
  <2>1. Cardinality(Under(T, R, v)) < Cardinality(Under(T, R, u))
    BY <1>4, UnderGrows
  <2>2. Cardinality(Under(T, R, u)) <= Cardinality(Under(T, R, v))
    BY <1>2, <1>3
  <2>3. Cardinality(Under(T, R, u)) \in Nat /\ Cardinality(Under(T, R, v)) \in Nat
    BY <1>1
  <2> QED
    BY <2>1, <2>2, <2>3
<1> QED
  BY <1>4

Swaps(m) == {g \in [1 .. m -> 1 .. m] : \A x, y \in 1 .. m : g[x] = g[y] => x = y}

LEMMA RearrangementsAre ==
    ASSUME NEW m \in Nat, NEW t \in [1 .. m -> Int]
    PROVE  S!Rearrangements(t) = {[x \in 1 .. m |-> t[f[x]]] : f \in Swaps(m)}
<1>1. DOMAIN t = 1 .. m
  OBVIOUS
<1> QED
  BY <1>1 DEF S!Rearrangements, Swaps

LEMMA SomeRearrangement ==
    ASSUME NEW m \in Nat, NEW elems \in [1 .. m -> Int]
    PROVE  /\ S!Rearrangements(elems) \in SUBSET [1 .. m -> Int]
           /\ IsFiniteSet(S!Rearrangements(elems)) /\ S!Rearrangements(elems) # {}
<1> DEFINE T == S!Rearrangements(elems)
           E == {elems[x] : x \in 1 .. m}
           f == [x \in 1 .. m |-> elems[x]]
<1>1. T = {[x \in 1 .. m |-> elems[g[x]]] : g \in Swaps(m)}
  BY RearrangementsAre
<1>2. IsFiniteSet(E)
  <2>1. f \in Surjection(1 .. m, E)
    BY DEF Surjection
  <2>2. IsFiniteSet(1 .. m)
    BY FS_Interval
  <2> HIDE DEF f, E
  <2> QED
    BY <2>1, <2>2, FS_Surjection
<1>3. T \in SUBSET [1 .. m -> E]
  BY <1>1 DEF Swaps
<1>4. IsFiniteSet([1 .. m -> E])
  <2> HIDE DEF E
  <2> QED
    BY <1>2, FinitelyMany
<1>5. IsFiniteSet(T)
  <2> HIDE DEF T, E
  <2> QED
    BY <1>3, <1>4, FS_Subset
<1>6. T \in SUBSET [1 .. m -> Int]
  <2>1. \A e \in E : e \in Int
    OBVIOUS
  <2> HIDE DEF T, E
  <2> QED
    BY <1>3, <2>1
<1>7. T # {}
  <2>1. [x \in 1 .. m |-> x] \in Swaps(m)
    BY DEF Swaps
  <2> QED
    BY <1>1, <2>1
<1> QED
  BY <1>5, <1>6, <1>7

(* the rearrangements of a rearrangement are the same *)
LEMMA SameRearrangements ==
    ASSUME NEW m \in Nat, NEW elems \in [1 .. m -> Int], NEW t \in S!Rearrangements(elems)
    PROVE  S!Rearrangements(t) = S!Rearrangements(elems)
<1>1. /\ t \in [1 .. m -> Int]
      /\ S!Rearrangements(elems) = {[x \in 1 .. m |-> elems[g[x]]] : g \in Swaps(m)}
  BY SomeRearrangement, RearrangementsAre
<1>2. S!Rearrangements(t) = {[x \in 1 .. m |-> t[g[x]]] : g \in Swaps(m)}
  BY <1>1, RearrangementsAre
<1>3. PICK f \in Swaps(m) : t = [x \in 1 .. m |-> elems[f[x]]]
  BY <1>1
<1>4. f \in [1 .. m -> 1 .. m] /\ \A x, y \in 1 .. m : f[x] = f[y] => x = y
  BY DEF Swaps
<1>5. f \in Surjection(1 .. m, 1 .. m)
  <2>1. f \in Injection(1 .. m, 1 .. m)
    BY <1>4 DEF Injection, IsInjective
  <2>2. IsFiniteSet(1 .. m)
    BY FS_Interval
  <2> QED
    BY <2>1, <2>2, FS_Injection
<1>6. ASSUME NEW g \in Swaps(m)
      PROVE  \E h \in Swaps(m) : [x \in 1 .. m |-> t[g[x]]] = [x \in 1 .. m |-> elems[h[x]]]
  <2> DEFINE h == [x \in 1 .. m |-> f[g[x]]]
  <2>1. g \in [1 .. m -> 1 .. m] /\ \A x, y \in 1 .. m : g[x] = g[y] => x = y
    BY DEF Swaps
  <2>2. h \in Swaps(m)
    BY <1>4, <2>1 DEF Swaps
  <2>3. \A x \in 1 .. m : t[g[x]] = elems[h[x]]
    BY <1>3, <2>1
  <2> HIDE DEF h
  <2> QED
    BY <2>2, <2>3
<1>7. ASSUME NEW h \in Swaps(m)
      PROVE  \E g \in Swaps(m) : [x \in 1 .. m |-> elems[h[x]]] = [x \in 1 .. m |-> t[g[x]]]
  <2> DEFINE g == [x \in 1 .. m |-> CHOOSE y \in 1 .. m : f[y] = h[x]]
  <2>1. h \in [1 .. m -> 1 .. m] /\ \A x, y \in 1 .. m : h[x] = h[y] => x = y
    BY DEF Swaps
  <2>2. \A x \in 1 .. m : g[x] \in 1 .. m /\ f[g[x]] = h[x]
    <3> TAKE x \in 1 .. m
    <3>1. \E y \in 1 .. m : f[y] = h[x]
      BY <1>5, <2>1 DEF Surjection
    <3> QED
      BY <3>1
  <2>3. g = [x \in 1 .. m |-> g[x]]
    OBVIOUS
  <2> HIDE DEF g
  <2>4. g \in [1 .. m -> 1 .. m]
    BY <2>2, <2>3
  <2>5. ASSUME NEW x \in 1 .. m, NEW y \in 1 .. m, g[x] = g[y] PROVE x = y
    <3>1. f[g[x]] = h[x] /\ f[g[y]] = h[y]
      BY <2>2
    <3>2. h[x] = h[y]
      BY <2>5, <3>1
    <3> QED
      BY <2>1, <3>2
  <2>6. g \in Swaps(m)
    BY <2>4, <2>5 DEF Swaps
  <2>7. \A x \in 1 .. m : t[g[x]] = elems[h[x]]
    BY <1>3, <2>2
  <2> QED
    BY <2>6, <2>7
<1> DEFINE T(g) == [x \in 1 .. m |-> t[g[x]]]
           E(g) == [x \in 1 .. m |-> elems[g[x]]]
<1>8. /\ S!Rearrangements(t) = {T(g) : g \in Swaps(m)}
      /\ S!Rearrangements(elems) = {E(g) : g \in Swaps(m)}
      /\ \A g \in Swaps(m) : \E h \in Swaps(m) : T(g) = E(h)
      /\ \A h \in Swaps(m) : \E g \in Swaps(m) : E(h) = T(g)
  BY <1>1, <1>2, <1>6, <1>7
<1> HIDE DEF T, E
<1> QED
  BY <1>8

LEMMA PermutationsKeep ==
    ASSUME NEW s, Permuting(s)
    PROVE  \E w : Kept(s, w)
<1>1. s.tool = "permutations" /\ Selector(s)
  BY Selects DEF Permuting, S!Selecting
<1>2. PICK m \in Nat : s.elems \in [1 .. m -> Int]
  BY DEF Permuting
<1> DEFINE elems == s.elems
           All == S!Rearrangements(elems)
           T == IF elems = << >> THEN {} ELSE All
           R == Lex(T)
           Rank(t) == Cardinality(Under(T, R, t))
           On == [t \in T |-> [working_set : {t}, steps : {Rank(t)}]]
           last == [working_set |-> S!Sorted(elems), steps |-> -1]
           Done == {last}
<1>3. /\ Begin(s) = [working_set |-> S!Sorted(elems), steps |-> IF elems # << >> THEN 0 ELSE -1]
      /\ Finish(s).steps = -1
      /\ Yields(s) = IF elems = << >> THEN << >> ELSE S!InOrder(All)
      /\ \A it : Step(s, it) = S!PermStep(it)
      /\ \A it : Value(s, it) = it.working_set
      /\ \A it, other : Same(s, it, other) <=> it.steps = other.steps
      /\ \A it : Inner(s, it)
  <2>1. Begin(s) = [working_set |-> S!Sorted(elems), steps |-> IF elems # << >> THEN 0 ELSE -1]
    BY <1>1 DEF Selector, S!Begin, S!PermAt, S!COMPLETE
  <2>2. Finish(s).steps = -1
    BY <1>1 DEF Selector, S!Finish, S!PermAt, S!COMPLETE
  <2>3. Yields(s) = IF elems = << >> THEN << >> ELSE S!InOrder(All)
    BY <1>1 DEF Selector, S!Yields
  <2>4. \A it : Step(s, it) = S!PermStep(it)
    BY <1>1 DEF Selector, S!Step
  <2>5. \A it : Value(s, it) = it.working_set
    BY <1>1 DEF Selector, S!Value
  <2>6. \A it, other : Same(s, it, other) <=> it.steps = other.steps
    <3>1. \A it, other : S!Same(s, it, other) <=> it.steps = other.steps
      BY <1>1 DEF S!Same
    <3> QED
      BY <1>1, <3>1 DEF Selector
  <2>7. \A it : Inner(s, it)
    BY <1>1 DEF Selector, S!Inside
  <2> QED
    BY <2>1, <2>2, <2>3, <2>4, <2>5, <2>6, <2>7
<1>4. /\ All \in SUBSET [1 .. m -> Int] /\ IsFiniteSet(All) /\ All # {}
      /\ \A t \in All : S!Rearrangements(t) = All
  <2> HIDE DEF elems
  <2>1. elems \in [1 .. m -> Int]
    BY <1>2 DEF elems
  <2> QED
    BY <2>1, SomeRearrangement, SameRearrangements
<1> HIDE DEF elems, All
<1>5. T \in SUBSET [1 .. m -> Int] /\ IsFiniteSet(T)
  BY <1>4, FS_EmptySet
<1>6. T # {} => T = All /\ elems # << >>
  OBVIOUS
<1>7. T = {} => elems = << >>
  BY <1>4
<1>8. Sequential(T) /\ Orders(R, T) /\ \A t, u : <<t, u>> \in R <=> t \in T /\ u \in T /\ S!Less(t, u)
  <2> HIDE DEF T
  <2> QED
    BY <1>5, LexIsLess, LexOrders
<1>9. Yields(s) = Listing(T, R)
  <2>1. CASE elems = << >>
    <3>1. T = {} /\ Cardinality(T) = 0
      BY <2>1, FS_EmptySet
    <3>2. Listing(T, R) = << >>
      <4> HIDE DEF T, R
      <4>1. 1 .. Cardinality(T) = {}
        BY <3>1
      <4>2. DOMAIN Listing(T, R) = {} /\ Listing(T, R) = [k \in {} |-> Listing(T, R)[k]]
        BY <4>1 DEF Listing
      <4> QED
        BY <4>2
    <3> QED
      BY <1>3, <2>1, <3>2
  <2>2. CASE elems # << >>
    <3>1. T = All
      BY <2>2
    <3>2. S!InOrder(T) = Listing(T, R)
      <4> HIDE DEF T
      <4> QED
        BY <1>5, <1>8, InOrderIs
    <3> QED
      BY <1>3, <2>2, <3>1, <3>2
  <2> QED
    BY <2>1, <2>2
<1> HIDE DEF T, R, Rank
<1>10. ASSUME T # {}
       PROVE  /\ S!Sorted(elems) \in T
              /\ \A u \in T : <<u, S!Sorted(elems)>> \notin R
  <2>1. \E t \in T : \A u \in T : <<u, t>> \notin R
    BY <1>5, <1>8, <1>10, FirstOf
  <2>2. \E t \in All : \A u \in All : ~S!Less(u, t)
    BY <1>6, <1>8, <1>10, <2>1
  <2>3. S!Sorted(elems) \in All /\ \A u \in All : ~S!Less(u, S!Sorted(elems))
    BY <2>2 DEF S!Sorted, All
  <2> QED
    BY <1>6, <1>8, <1>10, <2>3
<1>11. \A t \in T : Rank(t) \in Nat
  <2> TAKE t \in T
  <2>1. Rank(t) \in 0 .. Cardinality(T) - 1
    BY <1>5, <1>8, Listed DEF Rank
  <2> QED
    BY <2>1
<1>12. ASSUME NEW t \in T, NEW u \in T PROVE Rank(t) = Rank(u) <=> t = u
  <2>1. Listing(T, R)[Rank(t) + 1] = t /\ Listing(T, R)[Rank(u) + 1] = u
    BY <1>5, <1>8, Listed DEF Rank
  <2> QED
    BY <2>1
<1>13. \A t \in T : \A it \in On[t] : it.working_set = t /\ it.steps = Rank(t)
  OBVIOUS
<1>14. T = {} => Begin(s) \in Done
  BY <1>3, <1>7
<1>15. ASSUME T # {}
       PROVE  \E t \in T : (\A u \in T : <<u, t>> \notin R) /\ Begin(s) \in On[t]
  <2> DEFINE first == S!Sorted(elems)
  <2>1. first \in T /\ \A u \in T : <<u, first>> \notin R
    BY <1>10, <1>15
  <2>2. Rank(first) = 0
    BY <1>5, <1>8, <2>1, ListedFirst DEF Rank
  <2>3. Begin(s) = [working_set |-> first, steps |-> 0]
    BY <1>3, <1>6, <1>15
  <2> HIDE DEF first
  <2>4. Begin(s) \in On[first]
    BY <2>1, <2>2, <2>3
  <2> QED
    BY <2>1, <2>4
<1>16. ASSUME NEW t \in T, NEW it \in On[t]
       PROVE  \/ \E u \in T : Follows(T, R, t, u) /\ Step(s, it) \in On[u]
              \/ (\A u \in T : <<t, u>> \notin R) /\ Step(s, it) \in Done
  <2> DEFINE Later == S!Later(t)
             next == CHOOSE u \in Later : \A v \in Later : ~S!Less(v, u)
  <2>1. it.working_set = t /\ it.steps = Rank(t) /\ T = All /\ S!Rearrangements(t) = All
    BY <1>4, <1>6, <1>13
  <2>2. \A u : u \in Later <=> u \in T /\ <<t, u>> \in R
    BY <1>8, <2>1 DEF S!Later
  <2>3. Step(s, it) = IF Later = {} THEN [working_set |-> S!Sorted(t), steps |-> -1]
                      ELSE [working_set |-> next, steps |-> it.steps + 1]
    BY <1>3, <2>1 DEF S!PermStep, S!COMPLETE
  <2>4. S!Sorted(t) = S!Sorted(elems)
    BY <2>1 DEF S!Sorted, All
  <2> HIDE DEF Later
  <2>5. CASE Later = {}
    <3>1. \A u \in T : <<t, u>> \notin R
      BY <2>2, <2>5
    <3>2. Step(s, it) = last
      BY <2>3, <2>4, <2>5
    <3> QED
      BY <3>1, <3>2
  <2>6. CASE Later # {}
    <3>1. Later \in SUBSET T /\ IsFiniteSet(T) /\ Orders(R, T)
      BY <1>5, <1>8, <2>2
    <3>2. \E u \in Later : \A v \in Later : <<v, u>> \notin R
      BY <2>6, <3>1, FirstOf
    <3>3. \E u \in Later : \A v \in Later : ~S!Less(v, u)
      BY <1>8, <3>1, <3>2
    <3>4. next \in Later /\ \A v \in Later : ~S!Less(v, next)
      BY <3>3
    <3>5. Step(s, it) = [working_set |-> next, steps |-> Rank(t) + 1]
      BY <2>1, <2>3, <2>6
    <3> HIDE DEF next
    <3>6. next \in T /\ <<t, next>> \in R
      BY <2>2, <3>4
    <3>7. ASSUME NEW v \in T, <<v, next>> \in R PROVE v = t \/ <<v, t>> \in R
      <4>1. v \notin Later
        BY <1>8, <3>4, <3>7
      <4>2. <<t, v>> \notin R
        BY <2>2, <4>1
      <4> QED
        BY <1>8, <4>2 DEF Orders
    <3>8. Follows(T, R, t, next)
      BY <3>6, <3>7 DEF Follows
    <3>9. Rank(next) = Rank(t) + 1
      BY <1>5, <1>8, <3>6, <3>8, ListedNext DEF Rank
    <3>10. Step(s, it) \in On[next]
      BY <3>5, <3>6, <3>9
    <3> QED
      BY <3>6, <3>8, <3>10
  <2> QED
    BY <2>5, <2>6
<1>17. \A t \in T : \A it \in On[t] :
          /\ Value(s, it) = t
          /\ ~Same(s, it, Finish(s)) /\ ~Same(s, Finish(s), it)
          /\ ~Same(s, it, last) /\ ~Same(s, last, it)
  <2> SUFFICES ASSUME NEW t \in T, NEW it \in On[t]
               PROVE  /\ Value(s, it) = t
                      /\ ~Same(s, it, Finish(s)) /\ ~Same(s, Finish(s), it)
                      /\ ~Same(s, it, last) /\ ~Same(s, last, it)
    OBVIOUS
  <2>1. it.working_set = t /\ it.steps \in Nat /\ last.steps = -1
    BY <1>11, <1>13
  <2>2. it.steps # Finish(s).steps /\ it.steps # last.steps
    BY <1>3, <2>1
  <2> HIDE DEF last, On
  <2> QED
    BY <1>3, <2>1, <2>2
<1>18. /\ Same(s, last, Finish(s)) /\ Same(s, Finish(s), last) /\ Same(s, last, last)
       /\ Same(s, Finish(s), Finish(s))
  <2>1. last.steps = -1
    OBVIOUS
  <2> HIDE DEF last
  <2> QED
    BY <1>3, <2>1
<1>19. \A it : it \in Done <=> it = last
  OBVIOUS
<1>20. \A t, u \in T : \A it \in On[t], other \in On[u] : Same(s, it, other) <=> t = u
  <2> SUFFICES ASSUME NEW t \in T, NEW u \in T, NEW it \in On[t], NEW other \in On[u]
               PROVE  Same(s, it, other) <=> t = u
    OBVIOUS
  <2>1. it.steps = Rank(t) /\ other.steps = Rank(u)
    BY <1>13
  <2> QED
    BY <1>3, <1>12, <2>1
<1> HIDE DEF On, last, Done
<1>21. Lists(s, T, R, On, Done)
  BY <1>3, <1>5, <1>8, <1>9, <1>14, <1>15, <1>16, <1>17, <1>18, <1>19 DEF Lists
<1>22. Parts(s, T, On, Done)
  BY <1>17, <1>18, <1>19, <1>20 DEF Parts
<1> QED
  BY <1>21, <1>22, ListsKeeps

----------------------------------------------------------------------------
(* a walk in closed form *)
Stepping(s) ==
    \/ Several(s) \/ One(s) \/ Longest(s) \/ Turning(s)
    \/ Ranging(s) \/ Repeating(s) \/ s.tool = "endless"

(* a walk through the elements of a set *)
Picking(s) ==
    \/ Compressing(s) \/ Slicing(s) \/ Joining(s)
    \/ Choosing(s) \/ Powering(s) \/ Permuting(s) \/ Crossing(s)

(* the tools a client can have are among these *)
LEMMA SourcesAre ==
    ASSUME NEW s \in Sources
    PROVE  Stepping(s) \/ Picking(s)
<1>1. Allowed(s)
  BY SourcesAssumption
<1>2. ASSUME NEW D, NEW q \in Seq(D)
      PROVE  Len(q) \in Nat /\ q \in [1 .. Len(q) -> D] /\ (q # << >> => Len(q) # 0)
  BY <1>2
<1>3. /\ s.sizes \in Seq(Nat) => \E m \in Nat : s.sizes \in [1 .. m -> Nat]
      /\ s.sizes \in Seq(Nat) \ {<< >>} => \E m \in Nat \ {0} : s.sizes \in [1 .. m -> Nat]
  BY <1>2
<1>4. /\ s.elems \in Seq(Int) => \E m \in Nat : s.elems \in [1 .. m -> Int]
      /\ s.selectors \in Seq(BOOLEAN) => \E m \in Nat : s.selectors \in [1 .. m -> BOOLEAN]
  BY <1>2
<1>5. CASE s.tool \in {"zip", "imap", "zip_longest", "from_iterable", "product", "chain"}
  BY <1>1, <1>3, <1>5
     DEF Allowed, Stepping, Several, Longest, Picking, Joining, Crossing
<1>6. CASE s.tool \in {"combinations", "with_replacement", "permutations", "powerset", "compress"}
  BY <1>1, <1>4, <1>6
     DEF Allowed, Picking, Choosing, Permuting, Powering, Compressing
<1>7. CASE s.tool \in {"accumulate", "reversed", "starmap", "tuple_starmap", "cycle", "wrapped",
                       "enumerate", "repeat", "endless"}
  BY <1>1, <1>7 DEF Allowed, Stepping, One, Turning, Repeating
<1>8. CASE s.tool \in {"slice", "range"}
  BY <1>1, <1>8 DEF Allowed, Stepping, Ranging, Picking, Slicing
<1> QED
  BY <1>1, <1>5, <1>6, <1>7, <1>8 DEF Allowed

LEMMA SteppingFaithful ==
    ASSUME NEW s, Stepping(s)
    PROVE  /\ P!Faithful(s, WalkOf(s))
           /\ Told(s) => Apart(s)
           /\ s.tool \in A!Adapting => Bounded(s)
<1>1. CASE Several(s)
  BY <1>1, SeveralFaithful
<1>2. CASE One(s)
  BY <1>2, EnumerateFaithful, AccumulateFaithful, ReversedFaithful,
     StarmapFaithful, TupleStarmapFaithful, WrappedFaithful DEF One
<1>3. CASE Longest(s)
  BY <1>3, LongestFaithful
<1>4. CASE Turning(s)
  BY <1>4, CycleFaithful DEF Told
<1>5. CASE Ranging(s)
  <2>1. s.tool = "range" /\ s.tool \notin A!Adapting
    BY <1>5 DEF Ranging, A!Adapting, A!Straight
  <2> QED
    BY <1>5, <2>1, RangeFaithful, RangeApart DEF Told
<1>6. CASE Repeating(s)
  <2>1. s.tool \notin A!Adapting
    BY <1>6 DEF Repeating, A!Adapting, A!Straight
  <2> QED
    BY <1>6, <2>1, RepeatFaithful
<1>7. CASE s.tool = "endless"
  <2>1. s.tool \notin A!Adapting
    BY <1>7 DEF A!Adapting, A!Straight
  <2> QED
    BY <1>7, <2>1, EndlessFaithful DEF Told
<1> QED
  BY <1>1, <1>2, <1>3, <1>4, <1>5, <1>6, <1>7 DEF Stepping

LEMMA SteppingKept ==
    ASSUME NEW s, Stepping(s)
    PROVE  Kept(s, WalkOf(s))
<1>1. /\ P!Faithful(s, WalkOf(s))
      /\ Told(s) => Apart(s)
      /\ s.tool \in A!Adapting => Bounded(s)
  BY SteppingFaithful
<1>2. Told(s) => P!Tells(s, WalkOf(s))
  BY <1>1, TellsFrom
<1>3. ASSUME NEW p \in 1 .. P!Many(s) + 1, NEW it, P!Stands(s, WalkOf(s), it, p)
      PROVE  Inner(s, it)
  <2>1. s.tool \notin S!Selecting
    BY DEF Stepping, Several, One, Longest, Turning, Ranging, Repeating, S!Selecting
  <2>2. it = After(s, p) \/ it = Finish(s)
    <3>1. P!Many(s) = Len(Yields(s))
      BY DEF P!Many
    <3>2. WalkOf(s)[p] = After(s, p)
      BY <3>1 DEF WalkOf
    <3> QED
      BY <1>3, <3>2 DEF P!Stands
  <2>3. s.tool \in A!Adapting => A!Inside(s, it)
    BY <1>1, <2>2 DEF Bounded
  <2> QED
    BY <2>1, <2>3 DEF Inner
<1> QED
  BY <1>1, <1>2, <1>3 DEF Kept

LEMMA PickingKept ==
    ASSUME NEW s, Picking(s)
    PROVE  \E w : Kept(s, w)
<1>1. CASE Compressing(s)
  BY <1>1, CompressKeeps
<1>2. CASE Slicing(s)
  BY <1>2, SliceKeeps
<1>3. CASE Joining(s)
  BY <1>3, ChainKeeps, FromIterableKeeps DEF Joining
<1>4. CASE Choosing(s)
  BY <1>4, CombinationsKeep, ReplacementsKeep DEF Choosing
<1>5. CASE Powering(s)
  BY <1>5, PowersetKeeps
<1>6. CASE Permuting(s)
  BY <1>6, PermutationsKeep
<1>7. CASE Crossing(s)
  BY <1>7, ProductKeeps
<1> QED
  BY <1>1, <1>2, <1>3, <1>4, <1>5, <1>6, <1>7 DEF Picking

Walk == [s \in Sources |-> IF Stepping(s) THEN WalkOf(s) ELSE CHOOSE w : Kept(s, w)]

LEMMA AllKept ==
    \A s \in Sources :
        /\ Kept(s, Walk[s]) /\ P!Faithful(s, Walk[s])
        /\ Stepping(s) => Walk[s] = WalkOf(s)
<1> SUFFICES ASSUME NEW s \in Sources
             PROVE  Kept(s, Walk[s]) /\ (Stepping(s) => Walk[s] = WalkOf(s))
  BY DEF Kept
<1>1. CASE Stepping(s)
  BY <1>1, SteppingKept DEF Walk
<1>2. CASE ~Stepping(s)
  <2>1. \E w : Kept(s, w)
    BY <1>2, PickingKept, SourcesAre
  <2>2. Walk[s] = CHOOSE w : Kept(s, w)
    BY <1>2 DEF Walk
  <2> QED
    BY <1>2, <2>1, <2>2
<1> QED
  BY <1>1, <1>2

LEMMA AlwaysPlaced == Spec => []P!Placed(Walk)
<1>1. P!Init => P!Placed(Walk)
  BY P!PlacedInit
<1>2. P!Placed(Walk) /\ [P!Next]_(P!vars) => P!Placed(Walk)'
  BY AllKept, P!PlacedStep
<1>3. P!Spec => []P!Placed(Walk)
  BY <1>1, <1>2, PTL DEF P!Spec
<1> QED
  BY <1>3, SameSystem

(* what that says of one iterator *)
LEMMA PlacedIs ==
    ASSUME P!Placed(Walk), NEW i \in DOMAIN iter
    PROVE  /\ source \in Sources /\ Kept(source, Walk[source])
           /\ Past = P!Many(source) + 1 /\ P!Many(source) \in Nat
           /\ iter[i].place \in 1 .. P!Many(source) + 1
           /\ P!Stands(source, Walk[source], iter[i].it, iter[i].place)
           /\ Stepping(source) =>
                /\ Walk[source] = WalkOf(source)
                /\ \/ iter[i].it = After(source, iter[i].place)
                   \/ iter[i].it = Finish(source) /\ iter[i].place = Past
           /\ AtEnd(i) <=> iter[i].place = Past
<1>1. /\ source \in Sources /\ yields = Yields(source)
      /\ iter[i].place \in 1 .. P!Past
      /\ P!Stands(source, Walk[source], iter[i].it, iter[i].place)
  BY DEF P!Placed
<1>2. /\ Kept(source, Walk[source]) /\ P!Faithful(source, Walk[source])
      /\ Stepping(source) => Walk[source] = WalkOf(source)
  BY <1>1, AllKept
<1>3. P!Many(source) \in Nat /\ P!Many(source) = Len(Yields(source))
  BY <1>2 DEF P!Faithful, P!YieldsSequence, P!Many
<1>4. Past = P!Many(source) + 1 /\ P!Past = Past
  BY <1>1, <1>3 DEF Past, P!Past
<1>5. iter[i].place \in 1 .. P!Many(source) + 1
  BY <1>1, <1>4
<1>6. WalkOf(source)[iter[i].place] = After(source, iter[i].place)
  BY <1>3, <1>5 DEF WalkOf
<1>7. AtEnd(i) <=> iter[i].place = Past
  BY <1>1, <1>2, <1>4, <1>5 DEF AtEnd, P!Faithful
<1>8. Stepping(source) => \/ iter[i].it = After(source, iter[i].place)
                          \/ iter[i].it = Finish(source) /\ iter[i].place = Past
  BY <1>1, <1>2, <1>4, <1>6 DEF P!Stands
<1> QED
  BY <1>1, <1>2, <1>3, <1>4, <1>5, <1>7, <1>8

(* Whatever clients do with iterators of zip, zip_longest, imap and product *)
(* of any number of inputs of any lengths, enumerate, accumulate, reversed, *)
(* starmap, compress, slice, chain, chain.from_iterable, cycle,             *)
(* combinations with and without replacement, powerset, permutations, an    *)
(* input with a sentinel, range of numbers of any width, count and repeat:  *)
(* a loop ends after the last element, no sooner and no later, and no       *)
(* iterator goes further.                                                   *)
THEOREM ToolsLoopsEnd == Spec => []EndFoundAtPast
<1>1. P!Spec => []P!EndFoundAtPast
  BY AllKept, P!LoopsEnd
<1> QED
  BY <1>1, SameSystem, PTL

(* An iterator is never at a place beyond the one after the last element,   *)
(* where a client that asks == before each increment stops.                 *)
THEOREM TypeCorrect == Spec => []TypeOK
<1>1. P!Spec => []P!TypeOK
  BY AllKept, P!TypeCorrect
<1> QED
  BY <1>1, SameSystem, PTL

(* They are input iterators over what the tools promise.                    *)
THEOREM ToolsImplement == Spec => ImplementsInputIterator
<1>1. P!Spec => P!ImplementsInputIterator
  BY AllKept, P!FaithfulImplements
<1> QED
  BY <1>1, SameSystem, SamePromise

(* Inputs of different lengths are never read past their ends.              *)
THEOREM ToolsStayInside == Spec => []StaysInside
<1>1. ASSUME P!Placed(Walk), NEW i \in DOMAIN iter
      PROVE  /\ source.tool \in S!Selecting => S!Inside(source, iter[i].it)
             /\ source.tool \in A!Adapting => A!Inside(source, iter[i].it)
  <2>1. Inner(source, iter[i].it)
    BY <1>1, PlacedIs DEF Kept
  <2> QED
    BY <2>1 DEF Inner
<1>2. P!Placed(Walk) => StaysInside
  BY <1>1 DEF StaysInside
<1> QED
  BY <1>2, AlwaysPlaced, PTL

(* == of two iterators, copies, ends and those of other inputs' lengths      *)
(* included, is equality of their places, but for the tools where it cannot *)
(* be, and for cycle, whose places are equal a turn apart.                  *)
THEOREM ToolsEquality == Spec => []EqualIffSamePlaceOrTurn
<1>1. ASSUME P!Placed(Walk)
      PROVE  EqualIffSamePlaceOrTurn
  <2>1. CASE DOMAIN iter = {}
    BY <2>1 DEF EqualIffSamePlaceOrTurn, EqualIffSamePlace
  <2>2. CASE DOMAIN iter # {}
    <3>1. source \in Sources /\ (Stepping(source) \/ Picking(source)) /\ Kept(source, Walk[source])
      BY <1>1, <2>2, PlacedIs, SourcesAre
    <3>2. CASE Turning(source)
      <4>1. source.tool = "cycle" /\ Stepping(source)
        BY <3>2 DEF Turning, Stepping
      <4>2. ASSUME NEW i \in DOMAIN iter, NEW j \in DOMAIN iter
            PROVE  Same(source, iter[i].it, iter[j].it) <=>
                       \/ iter[i].place = iter[j].place
                       \/ /\ iter[i].place # Past /\ iter[j].place # Past
                          /\ (iter[i].place - iter[j].place) % source.n = 0
        <5>1. /\ Past = P!Many(source) + 1
              /\ iter[i].place \in 1 .. P!Many(source) + 1
              /\ iter[j].place \in 1 .. P!Many(source) + 1
              /\ P!Stands(source, WalkOf(source), iter[i].it, iter[i].place)
              /\ P!Stands(source, WalkOf(source), iter[j].it, iter[j].place)
          BY <1>1, <4>1, PlacedIs
        <5> QED
          BY <3>2, <5>1, CycleTurns
      <4> QED
        BY <4>1, <4>2 DEF EqualIffSamePlaceOrTurn
    <3>3. CASE ~Turning(source) /\ ~Told(source)
      BY <3>3 DEF Told, EqualIffSamePlaceOrTurn
    <3>4. CASE Told(source)
      <4>1. source.tool # "cycle"
        BY <3>1, <3>4 DEF Told, Stepping, Turning, Several, One, Longest, Ranging, Repeating,
           Picking, Compressing, Slicing, Joining, Choosing, Powering, Permuting, Crossing
      <4>2. P!Tells(source, Walk[source])
        BY <3>1, <3>4 DEF Kept
      <4>3. ASSUME NEW i \in DOMAIN iter, NEW j \in DOMAIN iter
            PROVE  Same(source, iter[i].it, iter[j].it) <=> iter[i].place = iter[j].place
        BY <1>1, <4>2, PlacedIs DEF P!Tells
      <4> QED
        BY <4>1, <4>3 DEF EqualIffSamePlaceOrTurn, EqualIffSamePlace
    <3> QED
      BY <3>2, <3>3, <3>4
  <2> QED
    BY <2>1, <2>2
<1> QED
  BY <1>1, AlwaysPlaced, PTL

LEMMA IntegralRanges ==
    ASSUME P!Placed(Walk), Integral, NEW i \in DOMAIN iter
    PROVE  Ranging(source) /\ source.kind # "float"
<1>1. /\ Stepping(source) \/ Picking(source)
      /\ source.tool = "range" /\ source.kind # "float"
  BY PlacedIs, SourcesAre DEF Integral
<1> QED
  BY <1>1 DEF Stepping, Several, One, Longest, Turning, Repeating,
     Picking, Compressing, Slicing, Joining, Choosing, Powering, Permuting, Crossing

(* README.md:259: size() of a range of integers of any width, up or down, is *)
(* the number of steps that a loop over it makes.                           *)
THEOREM SizeIsLength == Spec => []SizeCountsElements
<1>1. ASSUME P!Placed(Walk), Integral, NEW i \in DOMAIN iter
      PROVE  \/ iter[i].it.is_end
             \/ ~AtEnd(i) /\ iter[i].place <= C!Size(source)
             \/ AtEnd(i) /\ iter[i].place = C!Size(source) + 1
  <2>1. C!Size(source) = P!Many(source)
    BY <1>1, IntegralRanges, RangeMembers
  <2> QED
    BY <1>1, <2>1, PlacedIs
<1>2. P!Placed(Walk) => SizeCountsElements
  BY <1>1 DEF SizeCountsElements
<1> QED
  BY <1>2, AlwaysPlaced, PTL

(* README.md:262: an iterator that has been incremented n times yields what  *)
(* operator[] has at n.                                                     *)
THEOREM IndexIsElement == Spec => []IndexIsNth
<1>1. ASSUME P!Placed(Walk), Integral, NEW i \in DOMAIN iter, ~AtEnd(i)
      PROVE  iter[i].it.value = C!Index(source, iter[i].place - 1)
  <2>1. Ranging(source) /\ source.tool = "range" /\ Stepping(source)
    BY <1>1, IntegralRanges DEF Integral, Stepping
  <2>2. /\ iter[i].place \in 1 .. P!Many(source)
        /\ iter[i].it = After(source, iter[i].place)
    BY <1>1, <2>1, PlacedIs
  <2>3. After(source, iter[i].place).value = Number(source, iter[i].place)
    BY <2>1 DEF After, Number
  <2> QED
    BY <1>1, <2>1, <2>2, <2>3, IntegralRanges, RangeMembers
<1>2. P!Placed(Walk) => IndexIsNth
  BY <1>1 DEF IndexIsNth
<1> QED
  BY <1>2, AlwaysPlaced, PTL

============================================================================
