------------------------- MODULE SharedBufferProofs -------------------------
(***************************************************************************)
(* chunked, batched and sliding_window, for inputs of any length, pieces of *)
(* any size and any number of Iterators and copies: they keep inside the    *)
(* input, equality is that of places, and what they yield is an              *)
(* InputIterator's.                                                         *)
(***************************************************************************)
EXTENDS SharedBuffer, TLAPS

----------------------------------------------------------------------------
(* Arithmetic *)

LEMMA MinOfTwo ==
    ASSUME NEW x \in Nat, NEW y \in Nat
    PROVE  Min({x, y}) = IF x <= y THEN x ELSE y
<1>1. CASE x <= y
  BY <1>1 DEF Min
<1>2. CASE ~(x <= y)
  BY <1>2 DEF Min
<1> QED
  BY <1>1, <1>2

LEMMA Quotient ==
    ASSUME NEW x \in Nat, NEW y \in Nat \ {0}
    PROVE  /\ x \div y \in Nat /\ x % y \in 0 .. y - 1
           /\ x = ((x \div y) * y) + (x % y)
<1>1. x \in Int /\ y \in Int /\ y > 0 /\ x >= 0
  OBVIOUS
<1>2. x % y \in 0 .. y - 1
  BY <1>1
<1>3. x \div y \in Int
  BY <1>1
<1>4. x = ((x \div y) * y) + (x % y)
  BY <1>1
<1>5. x \div y >= 0
  BY <1>1
<1> QED
  BY <1>1, <1>2, <1>3, <1>4, <1>5

(* the quotient is the only number of whole ys in x *)
LEMMA QuotientOf ==
    ASSUME NEW q \in Nat, NEW y \in Nat \ {0}, NEW r \in 0 .. y - 1
    PROVE  (q * y + r) \div y = q
OBVIOUS

LEMMA Times ==
    ASSUME NEW k \in Nat, NEW y \in Nat
    PROVE  /\ k * y \in Nat /\ (k + 1) * y = k * y + y /\ 0 * y = 0 /\ 1 * y = y
           /\ \A j \in Nat : k < j => k * y + y <= j * y
<1>1. k * y \in Nat /\ (k + 1) * y = k * y + y /\ 0 * y = 0 /\ 1 * y = y
  OBVIOUS
<1>2. ASSUME NEW j \in Nat, k < j
      PROVE  k * y + y <= j * y
  <2>1. PICK d \in Nat : j = k + 1 + d
    <3>1. j - k - 1 \in Nat /\ j = k + 1 + (j - k - 1)
      BY <1>2
    <3> QED
      BY <3>1
  <2>2. d * y \in Nat
    OBVIOUS
  <2>3. j * y = k * y + y + d * y
    BY <2>1
  <2> QED
    BY <1>1, <2>2, <2>3
<1> QED
  BY <1>1, <1>2

----------------------------------------------------------------------------
(* Pieces and places *)

Tools == {"chunked", "batched", "sliding_window"}
Sizes == tool \in Tools /\ length \in 0 .. MaxLen /\ size \in 0 .. MaxSize

LEMMA SizesAreNumbers == Sizes => length \in Nat /\ size \in Nat /\ End \in Nat \ {0}
BY BoundsAssumption DEF Sizes, End

LEMMA Piecing ==
    ASSUME NEW p \in Nat, NEW n \in Nat
    PROVE  /\ DOMAIN From(p, n) = 1 .. n /\ Len(From(p, n)) = n
           /\ p >= 1 => From(p, n) \in Seq(Nat)
           /\ \A k \in 1 .. n : From(p, n)[k] = p + k - 1
           /\ From(p, n) = << >> <=> n = 0
           /\ \A m \in Nat : p >= 1 /\ p + n - 1 <= m => From(p, n) \in Seq(1 .. m)
<1>1. \A k \in 1 .. n : p + k - 1 \in Nat
  OBVIOUS
<1>2. From(p, n) \in Seq(Nat) /\ Len(From(p, n)) = n
  BY <1>1 DEF From
<1>3. DOMAIN From(p, n) = 1 .. n /\ \A k \in 1 .. n : From(p, n)[k] = p + k - 1
  BY DEF From
<1>4. From(p, n) = << >> <=> n = 0
  BY <1>2
<1>5. ASSUME NEW m \in Nat, p >= 1, p + n - 1 <= m
      PROVE  From(p, n) \in Seq(1 .. m)
  <2>1. \A k \in 1 .. n : p + k - 1 \in 1 .. m
    BY <1>5
  <2> QED
    BY <2>1 DEF From
<1> QED
  BY <1>2, <1>3, <1>4, <1>5

LEMMA NoPieces == ASSUME size = 0 PROVE Past = 1
<1>1. Pieces = << >>
  BY DEF Pieces
<1>2. Len(Pieces) = 0
  BY <1>1
<1> QED
  BY <1>2 DEF Past

(* chunked makes as many pieces as it takes to reach the end *)
LEMMA ChunkPieces ==
    ASSUME Sizes, size # 0, tool = "chunked"
    PROVE  /\ Past \in Nat \ {0} /\ length <= (Past - 1) * size
           /\ Past > 1 => (Past - 2) * size < length
           /\ \A k \in 1 .. Past - 1 :
                 Pieces[k] = From((k - 1) * size + 1, Min({size, End - ((k - 1) * size + 1)}))
<1> DEFINE x == length + size - 1
           q == x \div size
<1>1. length \in Nat /\ size \in Nat \ {0} /\ x \in Nat
  BY SizesAreNumbers
<1>2. q \in Nat /\ x % size \in 0 .. size - 1 /\ x = (q * size) + (x % size)
  BY <1>1, Quotient
<1>3. Pieces = [k \in 1 .. q |->
                  From((k - 1) * size + 1, Min({size, End - ((k - 1) * size + 1)}))]
  BY DEF Pieces
<1>4. Len(Pieces) = q /\ Past = q + 1
  BY <1>2, <1>3 DEF Past
<1>5. PICK r \in 0 .. size - 1 : length + size - 1 = (q * size) + r
  BY <1>2
<1> HIDE DEF q, x
<1>6. length <= q * size
  BY <1>1, <1>2, <1>5, Times
<1>7. q > 0 => (q - 1) * size < length
  <2> SUFFICES ASSUME q > 0 PROVE (q - 1) * size < length
    OBVIOUS
  <2>1. q - 1 \in Nat /\ q - 1 + 1 = q
    BY <1>2
  <2>2. q * size = (q - 1) * size + size /\ (q - 1) * size \in Nat
    BY <1>1, <2>1, Times
  <2> QED
    BY <1>1, <1>5, <2>2
<1>8. Past - 1 = q /\ Past - 2 = q - 1
  BY <1>2, <1>4
<1> QED
  BY <1>2, <1>3, <1>4, <1>6, <1>7, <1>8

(* what a batch has at least, and how many have one more *)
Less == length \div size
More == length % size

LEMMA BatchPieces ==
    ASSUME Sizes, size # 0, tool = "batched"
    PROVE  /\ Past = Min({size, length}) + 1 /\ Past \in Nat \ {0}
           /\ \A k \in 1 .. Past - 1 :
                 Pieces[k] = From((k - 1) * Less + Min({k - 1, More}) + 1,
                                  IF k <= More THEN Less + 1 ELSE Less)
<1>1. length \in Nat /\ size \in Nat \ {0} /\ Min({size, length}) \in Nat
  BY SizesAreNumbers, MinOfTwo
<1>2. Pieces = [k \in 1 .. Min({size, length}) |->
                  From((k - 1) * Less + Min({k - 1, More}) + 1,
                       IF k <= More THEN Less + 1 ELSE Less)]
  BY DEF Pieces, Less, More
<1>3. Len(Pieces) = Min({size, length})
  BY <1>1, <1>2
<1>4. Past = Min({size, length}) + 1
  BY <1>3 DEF Past
<1>5. Past - 1 = Min({size, length})
  BY <1>1, <1>4
<1>6. \A k \in 1 .. Past - 1 :
         Pieces[k] = From((k - 1) * Less + Min({k - 1, More}) + 1, IF k <= More THEN Less + 1 ELSE Less)
  BY <1>2, <1>5, Zenon
<1>7. Past \in Nat \ {0}
  BY <1>1, <1>4
<1> QED
  BY <1>4, <1>6, <1>7, Zenon

LEMMA WindowPieces ==
    ASSUME Sizes, size # 0, tool = "sliding_window"
    PROVE  /\ Past = IF size <= End THEN End - size + 1 ELSE 1
           /\ \A k \in 1 .. Past - 1 : Pieces[k] = From(k, size)
<1>1. length \in Nat /\ size \in Nat \ {0} /\ End = length + 1
  BY SizesAreNumbers DEF End
<1>2. Min({size, length + 1}) = IF size <= End THEN size ELSE End
  BY <1>1, MinOfTwo
<1>3. Pieces = [k \in 1 .. (length + 1) - Min({size, length + 1}) |-> From(k, size)]
  BY DEF Pieces
<1> DEFINE n == (length + 1) - Min({size, length + 1})
<1>4. n \in Nat /\ n = IF size <= End THEN End - size ELSE 0
  BY <1>1, <1>2
<1> HIDE DEF n
<1>5. Pieces = [k \in 1 .. n |-> From(k, size)]
  BY <1>3 DEF n
<1>6. Len(Pieces) = n
  BY <1>4, <1>5
<1>7. Past = n + 1 /\ Past - 1 = n
  BY <1>4, <1>6 DEF Past
<1> QED
  BY <1>1, <1>4, <1>5, <1>7

LEMMA PastIsNumber == Sizes => Past \in Nat \ {0}
<1>1. CASE size = 0
  BY <1>1, NoPieces
<1>2. CASE Sizes /\ size # 0 /\ tool = "sliding_window"
  BY <1>2, WindowPieces, SizesAreNumbers
<1> QED
  BY <1>1, <1>2, ChunkPieces, BatchPieces DEF Sizes, Tools

----------------------------------------------------------------------------
(* Filling a buffer *)

IterRec ==
    [sub : 1 .. End, buf : Bufs, total : 0 .. length, count : 0 .. MaxSize, place : Stale .. Past]

(* where sub_iter_ is when the piece at place k is in the buffer *)
SubAt(k) ==
    IF k >= Past THEN End
    ELSE CASE tool = "chunked" -> Min({k * size + 1, End})
           [] tool = "batched" -> k * Less + Min({k, More}) + 1
           [] tool = "sliding_window" -> k + size - 1

(* what the buffer has at place k; sliding_window leaves in it what it had  *)
(* when there are no more windows                                           *)
Holds(piece, k) ==
    /\ piece \in Seq(1 .. End)
    /\ k < Past => piece = Pieces[k]
    /\ k = Past /\ tool # "sliding_window" => piece = << >>

(* where an Iterator stands, that has come to place k: chunks and batches of *)
(* size 0 leave begin() where it is, which is not where end() is             *)
StandsAt(it, k) ==
    /\ size # 0 \/ tool = "sliding_window" => it.sub = SubAt(k)
    /\ tool = "batched" /\ k < Past => it.total = length /\ it.count = k

(* the sub_iter_ that begin() and end() give the constructor, for a place *)
Starts(p, place) ==
    \/ place = 1 /\ p = IF tool = "sliding_window" /\ size = 0 THEN End ELSE 1
    \/ place = Past /\ p = End

(* a filling, of it, for place k *)
Fills(r, it, k) ==
    /\ r.it \in IterRec /\ r.it.buf = it.buf /\ r.it.place = it.place
    /\ Holds(r.piece, k) /\ StandsAt(r.it, k)

LEMMA ChunkFills ==
    ASSUME Sizes, size # 0, tool = "chunked", NEW k \in 1 .. Past, NEW it \in IterRec,
           it.sub = SubAt(k - 1), NEW old
    PROVE  Fills(Chunk(it, old), it, k)
<1> DEFINE before == (k - 1) * size
           n == Min({size, End - it.sub})
<1>1. length \in Nat /\ size \in Nat \ {0} /\ End = length + 1 /\ Past \in Nat \ {0}
  BY SizesAreNumbers, PastIsNumber DEF End
<1>2. /\ before \in Nat /\ k * size = before + size
      /\ k < Past => before < length
      /\ k = Past => length <= before
  <2>1. k - 1 \in Nat /\ k - 1 + 1 = k
    OBVIOUS
  <2>2. before \in Nat /\ k * size = before + size
    BY <1>1, <2>1, Times
  <2>3. ASSUME k < Past PROVE before < length
    <3>1. Past - 2 \in Nat /\ (k - 1 = Past - 2 \/ k - 1 < Past - 2) /\ (Past - 2) * size < length
      BY <1>1, <2>3, ChunkPieces
    <3>2. (Past - 2) * size \in Nat /\ before <= (Past - 2) * size
      BY <1>1, <2>1, <3>1, Times
    <3> QED
      BY <1>1, <2>2, <3>1, <3>2
  <2>4. k = Past => length <= before
    BY <1>1, ChunkPieces
  <2> QED
    BY <2>2, <2>3, <2>4
<1> HIDE DEF before
<1>3. SubAt(k - 1) = Min({before + 1, End})
  BY <1>1 DEF SubAt, before
<1>4. Chunk(it, old).piece = From(it.sub, n) /\ Chunk(it, old).it = [it EXCEPT !.sub = @ + n]
  BY DEF Chunk
<1>5. it.sub = IF k < Past THEN before + 1 ELSE End
  BY <1>1, <1>2, <1>3, MinOfTwo
<1>6. End - it.sub \in Nat
  BY <1>1, <1>2, <1>5
<1>7. n = IF size <= End - it.sub THEN size ELSE End - it.sub
  BY <1>1, <1>6, MinOfTwo
<1> HIDE DEF n
<1>8. it.sub + n = SubAt(k) /\ SubAt(k) \in 1 .. End
  <2>1. CASE k < Past
    <3>1. SubAt(k) = Min({before + size + 1, End})
      <4>1. SubAt(k) = Min({k * size + 1, End})
        BY <1>1, <2>1 DEF SubAt
      <4>2. k * size + 1 = before + size + 1
        BY <1>2
      <4> QED
        BY <4>1, <4>2
    <3> QED
      BY <1>1, <1>2, <1>5, <1>7, <2>1, <3>1, MinOfTwo
  <2>2. CASE k = Past
    BY <1>1, <1>5, <1>7, <2>2 DEF SubAt
  <2> QED
    BY <1>1, <2>1, <2>2
<1>9. [it EXCEPT !.sub = @ + n] = [it EXCEPT !.sub = SubAt(k)]
  BY <1>8 DEF IterRec
<1>10. Holds(From(it.sub, n), k)
  <2>5. it.sub \in 1 .. End /\ End \in Nat
    BY <1>1 DEF IterRec
  <2>6. n \in Nat
    BY <1>1, <1>6, <1>7
  <2>1. it.sub \in Nat /\ n \in Nat /\ it.sub + n - 1 <= End /\ it.sub >= 1 /\ End \in Nat
    BY <1>8, <2>5, <2>6
  <2>2. From(it.sub, n) \in Seq(1 .. End)
    BY <2>1, Piecing
  <2>3. k < Past => From(it.sub, n) = Pieces[k]
    BY <1>1, <1>5, ChunkPieces DEF n, before
  <2>4. k = Past => From(it.sub, n) = << >>
    BY <1>1, <1>5, <1>7, <2>1, Piecing
  <2> QED
    BY <2>2, <2>3, <2>4 DEF Holds
<1> QED
  BY <1>4, <1>8, <1>9, <1>10 DEF Fills, StandsAt, IterRec

(* the first More batches have one element more than the others, and size   *)
(* of them have all the elements                                            *)
LEMMA BatchCounts ==
    ASSUME Sizes, size # 0, tool = "batched"
    PROVE  /\ Less \in Nat /\ More \in 0 .. size - 1 /\ length = size * Less + More
           /\ length < size => Less = 0 /\ More = length
           /\ \A k \in 1 .. size : k * Less \in Nat /\ k * Less <= size * Less
           /\ \A k \in 1 .. size : BatchSize(length, k - 1) = IF k <= More THEN Less + 1 ELSE Less
<1>1. length \in Nat /\ size \in Nat \ {0}
  BY SizesAreNumbers
<1>2. Less \in Nat /\ More \in 0 .. size - 1 /\ length = (Less * size) + More
  BY <1>1, Quotient DEF Less, More
<1>3. Less * size = size * Less
  BY <1>1, <1>2
<1>4. length < size => Less = 0
  <2> SUFFICES ASSUME length < size, Less # 0 PROVE FALSE
    OBVIOUS
  <2>1. size <= Less * size /\ Less * size \in Nat
    BY <1>1, <1>2, Times
  <2> QED
    BY <1>1, <1>2, <2>1
<1>5. ASSUME NEW k \in 1 .. size
      PROVE  k * Less \in Nat /\ k * Less <= size * Less
  <2>1. k \in Nat /\ (k = size \/ k < size)
    BY <1>1
  <2>2. k * Less \in Nat /\ (k < size => k * Less + Less <= size * Less)
    BY <1>1, <1>2, <2>1, Times
  <2>3. size * Less \in Nat
    BY <1>1, <1>2, Times
  <2> QED
    BY <1>2, <2>1, <2>2, <2>3
<1>6. ASSUME NEW k \in 1 .. size
      PROVE  BatchSize(length, k - 1) = IF k <= More THEN Less + 1 ELSE Less
  <2> DEFINE q == More \div k
  <2>1. More \in Nat /\ k \in Nat \ {0} /\ k - 1 + 1 = k
    BY <1>1, <1>2
  <2>2. q \in Nat /\ More % k \in 0 .. k - 1 /\ More = (q * k) + (More % k)
    BY <2>1, Quotient
  <2>3. BatchSize(length, k - 1) = Less + Min({1, q})
    BY <2>1 DEF BatchSize, Less, More
  <2>4. PICK r \in 0 .. k - 1 : More = (q * k) + r
    BY <2>2
  <2> HIDE DEF q
  <2>5. q = 0 => More < k
    BY <2>1, <2>4
  <2>6. q # 0 => k <= More
    <3> SUFFICES ASSUME q # 0 PROVE k <= More
      OBVIOUS
    <3>1. k <= q * k /\ q * k \in Nat
      BY <2>1, <2>2, Times
    <3> QED
      BY <2>1, <2>4, <3>1
  <2>7. Min({1, q}) = IF k <= More THEN 1 ELSE 0
    BY <2>1, <2>2, <2>5, <2>6, MinOfTwo
  <2> QED
    BY <1>2, <2>3, <2>7
<1>7. length = size * Less + More /\ (length < size => Less = 0 /\ More = length)
  BY <1>1, <1>2, <1>3, <1>4
<1> QED
  BY <1>2, <1>5, <1>6, <1>7, Zenon

LEMMA BatchFills ==
    ASSUME Sizes, size # 0, tool = "batched", NEW k \in 1 .. Past, NEW it \in IterRec,
           it.sub = SubAt(k - 1), it.total = length, it.count = k - 1
    PROVE  Fills(Batch(it), it, k)
<1> DEFINE before == (k - 1) * Less
           n == BatchSize(it.total, it.count)
<1>1. length \in Nat /\ size \in Nat \ {0} /\ End = length + 1 /\ Past \in Nat \ {0}
  BY SizesAreNumbers, PastIsNumber DEF End
<1>2. /\ Less \in Nat /\ More \in Nat /\ More < size /\ length = size * Less + More
      /\ length < size => Less = 0 /\ More = length
  BY <1>1, BatchCounts
<1>3. Past = (IF size <= length THEN size ELSE length) + 1
  BY <1>1, BatchPieces, MinOfTwo
<1>4. k - 1 \in Nat /\ k - 1 + 1 = k /\ before \in Nat /\ k * Less = before + Less
  BY <1>2, Times
<1> HIDE DEF before
<1>5. it.sub = before + Min({k - 1, More}) + 1
  BY <1>1 DEF SubAt, before
<1>6. CASE k < Past
  <2>1. k \in 1 .. size /\ k - 1 < size
    BY <1>1, <1>3, <1>6
  <2>2. n = IF k <= More THEN Less + 1 ELSE Less
    BY <2>1, BatchCounts
  <2>3. it.count < size
    BY <2>1
  <2>4. /\ Batch(it).piece = From(it.sub, n)
        /\ Batch(it).it = [it EXCEPT !.sub = @ + n, !.count = @ + 1]
    BY <2>3 DEF Batch
  <2> HIDE DEF n
  <2>5. SubAt(k) = before + Less + Min({k, More}) + 1
    BY <1>1, <1>4, <1>6 DEF SubAt
  <2>6. it.sub + n = SubAt(k) /\ it.sub \in Nat /\ n \in Nat
    BY <1>2, <1>4, <1>5, <2>1, <2>2, <2>5, MinOfTwo
  <2>7. SubAt(k) \in 1 .. End
    <3>1. before + Less <= size * Less /\ size * Less \in Nat
      BY <1>1, <1>2, <1>4, <2>1, BatchCounts, Times
    <3> QED
      BY <1>1, <1>2, <1>4, <2>1, <2>5, <3>1, MinOfTwo
  <2>8. Holds(From(it.sub, n), k)
    <3>1. it.sub + n - 1 <= End /\ it.sub >= 1 /\ End \in Nat
      BY <1>1, <2>6, <2>7 DEF IterRec
    <3>2. From(it.sub, n) \in Seq(1 .. End)
      BY <2>6, <3>1, Piecing
    <3>3. From(it.sub, n) = Pieces[k]
      BY <1>1, <1>5, <1>6, <2>2, BatchPieces DEF before
    <3> QED
      BY <1>6, <3>2, <3>3 DEF Holds
  <2>9. Batch(it).it = [sub |-> SubAt(k), buf |-> it.buf, total |-> length, count |-> k,
                        place |-> it.place]
    <3> DEFINE one == [it EXCEPT !.sub = @ + n]
    <3>1. one = [sub |-> SubAt(k), buf |-> it.buf, total |-> length, count |-> k - 1,
                 place |-> it.place]
      BY <2>6 DEF IterRec
    <3>2. [it EXCEPT !.sub = @ + n, !.count = @ + 1] = [one EXCEPT !.count = @ + 1]
      BY Zenon
    <3> HIDE DEF one
    <3>3. [one EXCEPT !.count = @ + 1]
              = [sub |-> SubAt(k), buf |-> it.buf, total |-> length, count |-> k,
                 place |-> it.place]
      BY <1>4, <3>1
    <3> QED
      BY <2>4, <3>2, <3>3
  <2>10. k \in 0 .. MaxSize /\ length \in 0 .. length
    BY <1>1, <2>1, BoundsAssumption DEF Sizes
  <2>11. /\ Batch(it).it \in IterRec /\ Batch(it).it.buf = it.buf
         /\ Batch(it).it.place = it.place /\ StandsAt(Batch(it).it, k)
    BY <2>7, <2>9, <2>10 DEF StandsAt, IterRec
  <2> QED
    BY <2>4, <2>8, <2>11 DEF Fills
<1>7. CASE k = Past
  <2>1. it.sub = End /\ SubAt(k) = End
    <3>1. SubAt(k) = End
      BY <1>1, <1>7 DEF SubAt
    <3>2. CASE size <= length
      <4>1. k - 1 = size
        BY <1>1, <1>3, <1>7, <3>2
      <4>2. before = size * Less
        BY <4>1 DEF before
      <4>3. Min({size, More}) = More
        BY <1>1, <1>2, MinOfTwo
      <4> QED
        BY <1>1, <1>2, <1>5, <3>1, <4>1, <4>2, <4>3
    <3>3. CASE length < size
      <4>1. k - 1 = length /\ Less = 0 /\ More = length
        BY <1>1, <1>2, <1>3, <1>7, <3>3
      <4>2. before = 0 /\ Min({length, length}) = length
        BY <1>1, <4>1, MinOfTwo DEF before
      <4> QED
        BY <1>1, <1>5, <3>1, <4>1, <4>2
    <3> QED
      BY <1>1, <3>2, <3>3
  <2>2. From(End, 0) = << >> /\ << >> \in Seq(1 .. End)
    BY <1>1, Piecing
  <2>3. CASE it.count < size
    <3>1. k \in 1 .. size /\ k = length + 1 /\ length < size
      BY <1>1, <1>3, <1>7, <2>3
    <3>2. n = 0
      <4>1. n = IF k <= More THEN Less + 1 ELSE Less
        BY <3>1, BatchCounts
      <4>2. ~(k <= More) /\ Less = 0
        BY <1>1, <1>2, <3>1
      <4> HIDE DEF n
      <4> QED
        BY <4>1, <4>2
    <3>3. /\ Batch(it).piece = From(it.sub, n)
          /\ Batch(it).it = [it EXCEPT !.sub = @ + n, !.count = @ + 1]
      BY <2>3 DEF Batch
    <3> HIDE DEF n
    <3>4. Batch(it).it = [sub |-> End, buf |-> it.buf, total |-> it.total, count |-> k,
                          place |-> it.place]
      <4> DEFINE one == [it EXCEPT !.sub = @ + n]
      <4>1. one = [sub |-> End, buf |-> it.buf, total |-> it.total, count |-> k - 1,
                   place |-> it.place]
        BY <1>1, <2>1, <3>2 DEF IterRec
      <4>2. [it EXCEPT !.sub = @ + n, !.count = @ + 1] = [one EXCEPT !.count = @ + 1]
        BY Zenon
      <4> HIDE DEF one
      <4>3. [one EXCEPT !.count = @ + 1]
                = [sub |-> End, buf |-> it.buf, total |-> it.total, count |-> k,
                   place |-> it.place]
        BY <1>4, <4>1
      <4> QED
        BY <3>3, <4>2, <4>3
    <3>5. k \in 0 .. MaxSize /\ End \in 1 .. End
      BY <1>1, <3>1, BoundsAssumption DEF Sizes
    <3>6. Batch(it).it \in IterRec
      BY <3>4, <3>5 DEF IterRec
    <3>7. Batch(it).piece = << >>
      BY <2>1, <2>2, <3>2, <3>3
    <3>8. Holds(Batch(it).piece, k) /\ StandsAt(Batch(it).it, k)
      BY <1>1, <1>7, <2>1, <2>2, <3>4, <3>7 DEF Holds, StandsAt
    <3> QED
      BY <3>4, <3>6, <3>8 DEF Fills
  <2>4. CASE ~(it.count < size)
    <3>1. Batch(it).piece = << >> /\ Batch(it).it = it
      BY <2>4 DEF Batch
    <3> QED
      BY <1>1, <1>7, <2>1, <2>2, <3>1 DEF Fills, Holds, StandsAt
  <2> QED
    BY <2>3, <2>4
<1> QED
  BY <1>1, <1>6, <1>7

LEMMA SlideFills ==
    ASSUME Sizes, size # 0, tool = "sliding_window", NEW k \in 2 .. Past, NEW it \in IterRec,
           it.sub = SubAt(k - 1), NEW old, old = Pieces[k - 1]
    PROVE  Fills(Slide(it, old), it, k)
<1>1. /\ length \in Nat /\ size \in Nat \ {0} /\ End = length + 1 /\ Past \in Nat
      /\ Past = End - size + 1 /\ size <= End
  BY SizesAreNumbers, WindowPieces DEF End
<1>2. it.sub = k + size - 2 /\ it.sub \in Nat
  BY <1>1 DEF SubAt, IterRec
<1>3. old = From(k - 1, size) /\ k - 1 \in Nat \ {0}
  BY <1>1, WindowPieces
<1>4. Len(old) = size /\ old \in Seq(Nat) /\ \A x \in 1 .. size : old[x] = k - 1 + x - 1
  <2>1. k - 1 >= 1
    BY <1>1, <1>3
  <2>2. old \in Seq(Nat)
    <3>1. PICK p \in Nat : p = k - 1 /\ p >= 1
      BY <1>3
    <3>2. From(p, size) \in Seq(Nat)
      BY <1>1, <3>1, Piecing
    <3> QED
      BY <1>3, <3>1, <3>2
  <2>3. Len(old) = size /\ \A x \in 1 .. size : old[x] = k - 1 + x - 1
    <3>1. PICK p \in Nat : p = k - 1
      BY <1>3
    <3>2. Len(From(p, size)) = size /\ \A x \in 1 .. size : From(p, size)[x] = p + x - 1
      BY <1>1, Piecing
    <3> QED
      BY <1>3, <3>1, <3>2
  <2> QED
    BY <2>2, <2>3
<1> DEFINE new == Tail(old) \o <<it.sub + 1>>
<1>5. Slide(it, old).piece = new /\ Slide(it, old).it = [it EXCEPT !.sub = @ + 1]
  BY DEF Slide
<1>6. new \in Seq(Nat) /\ Len(new) = size
  BY <1>1, <1>2, <1>4
<1>12. \A x \in 1 .. size : new[x] = IF x < size THEN old[x + 1] ELSE it.sub + 1
  BY <1>1, <1>2, <1>4
<1> HIDE DEF new
<1>7. ASSUME NEW x \in 1 .. size
      PROVE  new[x] = k + x - 1
  <2>1. CASE x < size
    <3>1. new[x] = old[x + 1] /\ x + 1 \in 1 .. size
      BY <1>1, <1>12, <2>1
    <3>2. old[x + 1] = k - 1 + (x + 1) - 1
      BY <1>4, <3>1
    <3> QED
      BY <1>1, <3>1, <3>2
  <2>2. CASE x = size
    <3>1. new[x] = it.sub + 1
      BY <1>1, <1>12, <2>2
    <3> QED
      BY <1>1, <1>2, <2>2, <3>1
  <2> QED
    BY <1>1, <2>1, <2>2
<1>8. new = From(k, size)
  <2>1. DOMAIN new = 1 .. size /\ new = [x \in DOMAIN new |-> new[x]]
    BY <1>1, <1>6
  <2> QED
    BY <1>7, <2>1 DEF From
<1>9. k \in Nat /\ k >= 1 /\ k + size - 1 <= End
  BY <1>1
<1>10. Holds(new, k)
  <2>1. new \in Seq(1 .. End)
    BY <1>1, <1>8, <1>9, Piecing
  <2>2. k < Past => new = Pieces[k]
    BY <1>1, <1>8, WindowPieces
  <2> QED
    BY <2>1, <2>2 DEF Holds
<1>11. it.sub + 1 = SubAt(k) /\ it.sub + 1 \in 1 .. End
  <2>1. it.sub + 1 = k + size - 1 /\ (k = Past => k + size - 1 = End)
    BY <1>1, <1>2
  <2>2. k < Past => SubAt(k) = k + size - 1
    BY <1>1 DEF SubAt
  <2>3. k = Past => SubAt(k) = End
    BY <1>1 DEF SubAt
  <2> QED
    BY <1>1, <1>9, <2>1, <2>2, <2>3
<1> QED
  BY <1>5, <1>10, <1>11 DEF Fills, StandsAt, IterRec

(* begin() and end() *)
LEMMA WindowFills ==
    ASSUME Sizes, tool = "sliding_window", NEW k, NEW it \in IterRec,
           Starts(it.sub, k)
    PROVE  Fills(Window(it), it, k)
<1> DEFINE n == Min({size, End - it.sub})
           to == IF n = size /\ n # 0 THEN it.sub + n - 1 ELSE it.sub + n
<1>1. length \in Nat /\ size \in Nat /\ End = length + 1 /\ Past \in Nat \ {0}
  BY SizesAreNumbers, PastIsNumber DEF End
<1>2. Window(it).piece = From(it.sub, n) /\ Window(it).it = [it EXCEPT !.sub = to]
  BY DEF Window, IterRec
<1>3. /\ it.sub \in 1 .. End
      /\ \/ k = 1 /\ it.sub = IF size = 0 THEN End ELSE 1
         \/ k = Past /\ it.sub = End
  BY DEF IterRec, Starts
<1>4. n = IF size <= End - it.sub THEN size ELSE End - it.sub
  BY <1>1, <1>3, MinOfTwo
<1> HIDE DEF n
<1>5. to = SubAt(k) /\ SubAt(k) \in 1 .. End
  <2>1. CASE size = 0
    BY <1>1, <1>3, <1>4, <2>1, NoPieces DEF SubAt
  <2>2. CASE size # 0
    <3>1. Past = IF size <= End THEN End - size + 1 ELSE 1
      BY <2>2, WindowPieces
    <3>2. CASE k = Past
      <4>1. SubAt(k) = End
        BY <1>1, <2>2, <3>2 DEF SubAt
      <4>2. to = End
        BY <1>1, <1>3, <1>4, <2>2, <3>1, <3>2
      <4> QED
        BY <1>1, <4>1, <4>2
    <3>3. CASE k # Past
      <4>1. k = 1 /\ 1 < Past /\ size <= length
        BY <1>1, <1>3, <2>2, <3>1, <3>3
      <4>2. SubAt(k) = 1 + size - 1
        BY <1>1, <2>2, <4>1 DEF SubAt
      <4> QED
        BY <1>1, <1>3, <1>4, <2>2, <4>1, <4>2
    <3> QED
      BY <3>2, <3>3
  <2> QED
    BY <2>1, <2>2
<1>6. Holds(From(it.sub, n), k)
  <2>1. n \in Nat /\ it.sub \in Nat /\ it.sub >= 1 /\ it.sub + n - 1 <= End /\ End \in Nat
    BY <1>1, <1>3, <1>4
  <2>2. From(it.sub, n) \in Seq(1 .. End)
    BY <2>1, Piecing
  <2>3. ASSUME k < Past PROVE From(it.sub, n) = Pieces[k]
    <3>1. k = 1 /\ size # 0
      BY <1>1, <1>3, <2>3, NoPieces
    <3>2. size <= length
      BY <1>1, <2>3, <3>1, WindowPieces
    <3>3. it.sub = 1 /\ n = size
      BY <1>1, <1>3, <1>4, <2>3, <3>1, <3>2
    <3> QED
      BY <1>1, <2>3, <3>1, <3>3, WindowPieces
  <2> QED
    BY <2>2, <2>3 DEF Holds
<1> HIDE DEF to
<1> QED
  BY <1>2, <1>5, <1>6 DEF Fills, StandsAt, IterRec

(* an Iterator of the end, whatever fills it, gets nothing *)
LEMMA EndFills ==
    ASSUME Sizes, size # 0, tool # "sliding_window", NEW it \in IterRec, it.sub = End,
           tool = "batched" => it.total = 0 /\ it.count = 0
    PROVE  Fills(Filled(it), it, Past)
<1>1. length \in Nat /\ size \in Nat \ {0} /\ End \in Nat \ {0} /\ Past \in Nat \ {0}
  BY SizesAreNumbers, PastIsNumber
<1>5. SubAt(Past) = End
  BY <1>1 DEF SubAt
<1>2. From(End, 0) = << >> /\ << >> \in Seq(1 .. End) /\ SubAt(Past) = End
  BY <1>1, <1>5, Piecing
<1>3. CASE tool = "chunked"
  <2> DEFINE n == Min({size, End - it.sub})
  <2>1. n = 0
    BY <1>1, MinOfTwo
  <2>2. Filled(it).piece = From(End, n) /\ Filled(it).it = [it EXCEPT !.sub = @ + n]
    BY <1>3 DEF Filled, Chunk
  <2> HIDE DEF n
  <2>3. [it EXCEPT !.sub = @ + n] = it
    BY <1>1, <2>1 DEF IterRec
  <2>4. Filled(it).piece = << >> /\ Filled(it).it = it
    BY <1>2, <2>1, <2>2, <2>3
  <2> QED
    BY <1>1, <1>2, <1>3, <2>4 DEF Fills, Holds, StandsAt
<1>4. CASE tool = "batched"
  <2> DEFINE n == BatchSize(it.total, it.count)
  <2>1. n = 0
    <3>1. 0 \div size = 0 /\ 0 % size = 0 /\ 0 \div (0 + 1) = 0
      <4>1. 0 * size + 0 = 0 /\ 0 * 1 + 0 = 0 /\ 0 \in 0 .. size - 1
        BY <1>1
      <4>2. 0 \div size = 0 /\ 0 \div 1 = 0
        BY <1>1, <4>1, QuotientOf
      <4>3. 0 % size = 0
        BY <1>1
      <4> QED
        BY <4>2, <4>3
    <3>2. Min({1, 0}) = 0
      BY MinOfTwo
    <3>3. n = (0 \div size) + Min({1, (0 % size) \div (0 + 1)})
      BY <1>4 DEF BatchSize
    <3> HIDE DEF n
    <3>4. Min({1, (0 % size) \div (0 + 1)}) = 0
      BY <3>1, <3>2
    <3> QED
      BY <3>1, <3>3, <3>4
  <2> HIDE DEF n
  <2>2. /\ Filled(it).piece = From(it.sub, n)
        /\ Filled(it).it = [it EXCEPT !.sub = @ + n, !.count = @ + 1]
    BY <1>1, <1>4 DEF Filled, Batch, n
  <2>3. Filled(it).it = [sub |-> End, buf |-> it.buf, total |-> 0, count |-> 1, place |-> it.place]
    <3> DEFINE one == [it EXCEPT !.sub = @ + n]
    <3>1. one = [sub |-> End, buf |-> it.buf, total |-> 0, count |-> 0, place |-> it.place]
      BY <1>1, <1>4, <2>1 DEF IterRec
    <3>2. [it EXCEPT !.sub = @ + n, !.count = @ + 1] = [one EXCEPT !.count = @ + 1]
      BY Zenon
    <3> HIDE DEF one
    <3>3. [one EXCEPT !.count = @ + 1]
              = [sub |-> End, buf |-> it.buf, total |-> 0, count |-> 1, place |-> it.place]
      BY <3>1
    <3> QED
      BY <2>2, <3>2, <3>3
  <2>4. 1 \in 0 .. MaxSize /\ 0 \in 0 .. length /\ End \in 1 .. End
    BY <1>1, BoundsAssumption DEF Sizes
  <2>5. Filled(it).it \in IterRec
    BY <2>3, <2>4 DEF IterRec
  <2>6. Filled(it).piece = << >>
    BY <1>2, <2>1, <2>2
  <2>7. Holds(Filled(it).piece, Past) /\ StandsAt(Filled(it).it, Past)
    BY <1>1, <1>2, <2>3, <2>6 DEF Holds, StandsAt
  <2> QED
    BY <2>3, <2>5, <2>7 DEF Fills
<1> QED
  BY <1>3, <1>4 DEF Sizes, Tools

(* where nothing is asked for there is nothing to come *)
LEMMA NothingFills ==
    ASSUME Sizes, size = 0, tool # "sliding_window", NEW it \in IterRec, it.count = 0
    PROVE  Fills(Filled(it), it, 1)
<1>1. length \in Nat /\ End \in Nat \ {0} /\ Past = 1 /\ it.sub \in 1 .. End
  BY SizesAreNumbers, NoPieces DEF IterRec
<1>2. From(it.sub, 0) = << >> /\ << >> \in Seq(1 .. End)
  BY <1>1, Piecing
<1>3. CASE tool = "chunked"
  <2> DEFINE n == Min({size, End - it.sub})
  <2>1. n = 0
    BY <1>1, MinOfTwo
  <2>2. Filled(it).piece = From(it.sub, n) /\ Filled(it).it = [it EXCEPT !.sub = @ + n]
    BY <1>3 DEF Filled, Chunk
  <2> HIDE DEF n
  <2>3. [it EXCEPT !.sub = @ + n] = it
    BY <1>1, <2>1 DEF IterRec
  <2>4. Filled(it).piece = << >> /\ Filled(it).it = it
    BY <1>2, <2>1, <2>2, <2>3
  <2> QED
    BY <1>1, <1>2, <1>3, <2>4 DEF Fills, Holds, StandsAt
<1>4. CASE tool = "batched"
  <2>1. Filled(it).piece = << >> /\ Filled(it).it = it
    BY <1>4 DEF Filled, Batch
  <2> QED
    BY <1>1, <1>2, <2>1 DEF Fills, Holds, StandsAt
<1> QED
  BY <1>3, <1>4 DEF Sizes, Tools

(* so all of begin() and end() ... *)
LEMMA FirstFills ==
    ASSUME Sizes, NEW p, NEW place, Starts(p, place), NEW b \in Bufs
    PROVE  LET it == [sub |-> p, buf |-> b, total |-> End - p, count |-> 0, place |-> place]
           IN  it \in IterRec /\ Fills(Filled(it), it, place)
<1> DEFINE it == [sub |-> p, buf |-> b, total |-> End - p, count |-> 0, place |-> place]
<1>1. length \in Nat /\ size \in Nat /\ End = length + 1 /\ Past \in Nat \ {0} /\ MaxSize \in Nat
  BY SizesAreNumbers, PastIsNumber, BoundsAssumption DEF End
<1>2. p \in 1 .. End /\ place \in 1 .. Past
  BY <1>1 DEF Starts
<1>3. End - p \in 0 .. length
  BY <1>1, <1>2
<1>4. it \in IterRec
  BY <1>1, <1>2, <1>3 DEF IterRec, Stale
<1>5. it.sub = p /\ it.total = End - p /\ it.count = 0 /\ it.buf = b /\ it.place = place
  OBVIOUS
<1> HIDE DEF it
<1>6. ASSUME tool = "sliding_window" PROVE Fills(Filled(it), it, place)
  <2>1. Fills(Window(it), it, place)
    BY <1>4, <1>5, <1>6, WindowFills
  <2>2. Filled(it) = Window(it)
    BY <1>6 DEF Filled
  <2> QED
    BY <2>1, <2>2
<1>7. ASSUME tool # "sliding_window", size = 0 PROVE Fills(Filled(it), it, place)
  <2>1. place = 1
    BY <1>2, <1>7, NoPieces
  <2> QED
    <3>1. Fills(Filled(it), it, 1)
      BY <1>4, <1>5, <1>7, <2>1, NothingFills
    <3> QED
      BY <2>1, <3>1
<1>8. ASSUME tool # "sliding_window", size # 0, place = 1, p = 1 PROVE Fills(Filled(it), it, place)
  <2>2. SubAt(0) = 1
    <3>1. CASE tool = "chunked"
      <4>1. SubAt(0) = Min({0 * size + 1, End})
        BY <1>1, <1>8, <3>1 DEF SubAt
      <4>2. 0 * size + 1 = 1
        BY <1>1
      <4> QED
        BY <1>1, <4>1, <4>2, MinOfTwo
    <3>2. CASE tool = "batched"
      <4>1. SubAt(0) = 0 * Less + Min({0, More}) + 1
        BY <1>1, <1>8, <3>2 DEF SubAt
      <4>2. Less \in Nat /\ More \in Nat
        BY <1>1, <1>8, <3>2, BatchCounts
      <4>3. 0 * Less = 0 /\ Min({0, More}) = 0
        BY <4>2, MinOfTwo
      <4> QED
        BY <4>1, <4>3
    <3> QED
      BY <1>8, <3>1, <3>2 DEF Sizes, Tools
  <2>3. 1 \in 1 .. Past /\ 1 - 1 = 0 /\ End - 1 = length
    BY <1>1
  <2>4. CASE tool = "chunked"
    <3>1. it.sub = SubAt(1 - 1)
      BY <1>5, <1>8, <2>2, <2>3
    <3>2. Fills(Chunk(it, << >>), it, 1)
      BY <1>4, <1>8, <2>3, <2>4, <3>1, ChunkFills
    <3>3. Filled(it) = Chunk(it, << >>)
      BY <2>4 DEF Filled
    <3> QED
      BY <1>8, <3>2, <3>3
  <2>5. CASE tool = "batched"
    <3>1. it.sub = SubAt(1 - 1) /\ it.total = length /\ it.count = 1 - 1
      BY <1>5, <1>8, <2>2, <2>3
    <3>2. Fills(Batch(it), it, 1)
      BY <1>4, <1>8, <2>3, <2>5, <3>1, BatchFills
    <3>3. Filled(it) = Batch(it)
      BY <2>5 DEF Filled
    <3> QED
      BY <1>8, <3>2, <3>3
  <2> QED
    BY <1>8, <2>4, <2>5 DEF Sizes, Tools
<1>9. ASSUME tool # "sliding_window", size # 0, place = Past, p = End PROVE Fills(Filled(it), it, place)
  <2>1. End - End = 0
    BY <1>1
  <2>2. Fills(Filled(it), it, Past)
    BY <1>4, <1>5, <1>9, <2>1, EndFills
  <2> QED
    BY <1>9, <2>2
<1> QED
  BY <1>4, <1>6, <1>7, <1>8, <1>9 DEF it, Starts

(* ... and all of ++ *)
LEMMA NextFills ==
    ASSUME Sizes, NEW it \in IterRec, it.place \in 1 .. Past - 1,
           StandsAt(it, it.place), NEW old, Holds(old, it.place)
    PROVE  Fills(Refilled(it, old), it, it.place + 1)
<1> DEFINE k == it.place + 1
<1>1. Past \in Nat \ {0} /\ it.place \in Nat \ {0} /\ it.place < Past
  BY PastIsNumber
<1>2. k \in 2 .. Past /\ k - 1 = it.place /\ k \in 1 .. Past
  BY <1>1
<1>3. size # 0
  BY <1>1, NoPieces
<1>4. it.sub = SubAt(k - 1) /\ old = Pieces[k - 1]
  BY <1>1, <1>2, <1>3 DEF StandsAt, Holds
<1>5. tool = "batched" => it.total = length /\ it.count = k - 1
  BY <1>1, <1>2 DEF StandsAt
<1> HIDE DEF k
<1>6. CASE tool = "chunked"
  <2>1. Fills(Chunk(it, old), it, k)
    BY <1>2, <1>3, <1>4, <1>6, ChunkFills
  <2> QED
    BY <1>6, <2>1 DEF Refilled, k
<1>7. CASE tool = "batched"
  <2>1. Fills(Batch(it), it, k)
    BY <1>2, <1>3, <1>4, <1>5, <1>7, BatchFills
  <2> QED
    BY <1>7, <2>1 DEF Refilled, k
<1>8. CASE tool = "sliding_window"
  <2>1. Fills(Slide(it, old), it, k)
    BY <1>2, <1>3, <1>4, <1>8, SlideFills
  <2> QED
    BY <1>8, <2>1 DEF Refilled, k
<1> QED
  BY <1>6, <1>7, <1>8 DEF Sizes, Tools

----------------------------------------------------------------------------
(* The invariants: every buffer alive is some Iterator's, and an Iterator    *)
(* whose buffer is not another's by now stands at its place in the input.   *)

Buffers ==
    /\ DOMAIN iter \subseteq Its /\ iter \in [DOMAIN iter -> IterRec]
    /\ DOMAIN buffer = {iter[i].buf : i \in DOMAIN iter} /\ DOMAIN buffer \subseteq Bufs
    /\ \A b \in DOMAIN buffer : buffer[b] \in Seq(1 .. End)

InPlace ==
    \A i \in DOMAIN iter : Fresh(i) =>
        Holds(Piece(i), iter[i].place) /\ StandsAt(iter[i], iter[i].place)

Core == Sizes /\ Buffers /\ InPlace

LEMMA TypeFromCore == Core => TypeOK
BY DEF Core, Sizes, Buffers, IterRec, TypeOK

(* operators that depend on the input alone *)
LEMMA SameInput ==
    ASSUME UNCHANGED fixed
    PROVE  /\ End' = End /\ Past' = Past /\ Pieces' = Pieces /\ IterRec' = IterRec
           /\ Sizes' <=> Sizes
           /\ \A piece, k : Holds(piece, k)' <=> Holds(piece, k)
           /\ \A it, k : StandsAt(it, k)' <=> StandsAt(it, k)
<1>1. tool' = tool /\ length' = length /\ size' = size
  BY DEF fixed
<1>2. End' = End /\ Pieces' = Pieces
  BY <1>1 DEF End, Pieces, From
<1>3. Past' = Past
  BY <1>2 DEF Past
<1>4. IterRec' = IterRec /\ (Sizes' <=> Sizes)
  BY <1>1, <1>2, <1>3 DEF IterRec, Sizes
<1>5. \A piece, k : Holds(piece, k)' <=> Holds(piece, k)
  BY <1>1, <1>2, <1>3 DEF Holds
<1>6. \A k : SubAt(k)' = SubAt(k)
  BY <1>1, <1>2, <1>3 DEF SubAt, Less, More
<1>7. \A it, k : StandsAt(it, k)' <=> StandsAt(it, k)
  BY <1>1, <1>2, <1>3, <1>6 DEF StandsAt
<1> QED
  BY <1>2, <1>3, <1>4, <1>5, <1>7

(* What a step has to show: that the buffers it leaves are those of its      *)
(* Iterators, and that each Iterator it leaves in place either is as it was, *)
(* with its buffer, or has just come to its place.                          *)
LEMMA KeepsCore ==
    ASSUME Core, UNCHANGED fixed,
           DOMAIN iter' \subseteq Its, iter' \in [DOMAIN iter' -> IterRec],
           DOMAIN buffer' = {iter'[i].buf : i \in DOMAIN iter'},
           \A b \in DOMAIN buffer' : buffer'[b] \in Seq(1 .. End),
           \A i \in DOMAIN iter' : iter'[i].place # Stale =>
               Holds(buffer'[iter'[i].buf], iter'[i].place) /\ StandsAt(iter'[i], iter'[i].place)
    PROVE  Core'
<1>1. /\ End' = End /\ IterRec' = IterRec /\ Sizes'
      /\ \A piece, k : Holds(piece, k)' <=> Holds(piece, k)
      /\ \A it, k : StandsAt(it, k)' <=> StandsAt(it, k)
  BY SameInput DEF Core
<1>2. DOMAIN buffer' \subseteq Bufs
  BY DEF IterRec
<1>3. Buffers'
  BY <1>1, <1>2 DEF Buffers
<1>4. InPlace'
  BY <1>1 DEF InPlace, Fresh, Piece
<1> QED
  BY <1>1, <1>3, <1>4 DEF Core

LEMMA CoreInit == Init => Core
<1> SUFFICES ASSUME Init PROVE Core
  OBVIOUS
<1>1. Sizes
  BY DEF Init, Sizes, Tools
<1>2. DOMAIN iter = {} /\ DOMAIN buffer = {} /\ iter = << >>
  BY DEF Init
<1>3. iter \in [DOMAIN iter -> IterRec]
  BY <1>2
<1> QED
  BY <1>1, <1>2, <1>3 DEF Core, Buffers, InPlace

LEMMA Starting ==
    ASSUME NEW i, Begin(i) \/ Finish(i)
    PROVE  \E p, place : place \in {1, Past} /\ Starts(p, place) /\ Make(i, p, place)
<1>1. CASE Begin(i)
  <2> DEFINE p == IF tool = "sliding_window" /\ size = 0 THEN End ELSE 1
  <2>1. Starts(p, 1) /\ Make(i, p, 1)
    BY <1>1 DEF Begin, Starts
  <2> QED
    BY <2>1
<1>2. CASE Finish(i)
  <2>1. Starts(End, Past) /\ Make(i, End, Past)
    BY <1>2 DEF Finish, Starts
  <2> QED
    BY <2>1
<1> QED
  BY <1>1, <1>2

LEMMA MakeKeeps ==
    ASSUME Core, NEW i \in Its, NEW p, NEW place, Starts(p, place), Make(i, p, place)
    PROVE  Core'
<1>1. PICK b \in Bufs \ DOMAIN buffer :
         LET filled == Filled([sub |-> p, buf |-> b, total |-> End - p, count |-> 0,
                               place |-> place])
         IN  buffer' = Put(buffer, b, filled.piece) /\ iter' = Put(iter, i, filled.it)
  BY DEF Make
<1> DEFINE it == [sub |-> p, buf |-> b, total |-> End - p, count |-> 0, place |-> place]
           r == Filled(it)
<1>2. Fills(r, it, place) /\ it.buf = b /\ it.place = place
  BY FirstFills DEF Core
<1> HIDE DEF it
<1>3. buffer' = Put(buffer, b, r.piece) /\ iter' = Put(iter, i, r.it)
  BY <1>1 DEF it
<1> HIDE DEF r
<1>4. /\ r.it \in IterRec /\ r.it.buf = b /\ r.it.place = place
      /\ Holds(r.piece, place) /\ StandsAt(r.it, place) /\ r.piece \in Seq(1 .. End)
  BY <1>2 DEF Fills, Holds
<1>5. i \notin DOMAIN iter /\ UNCHANGED fixed
  BY DEF Make
<1>6. /\ DOMAIN iter' = DOMAIN iter \cup {i} /\ iter'[i] = r.it
      /\ \A j \in DOMAIN iter : iter'[j] = iter[j]
      /\ iter' = [j \in DOMAIN iter' |-> iter'[j]]
  BY <1>3, <1>5 DEF Put
<1>7. /\ DOMAIN buffer' = DOMAIN buffer \cup {b} /\ buffer'[b] = r.piece
      /\ \A c \in DOMAIN buffer : c # b /\ buffer'[c] = buffer[c]
  BY <1>3 DEF Put
<1>8. \A j \in DOMAIN iter : iter[j] \in IterRec /\ iter[j].buf \in DOMAIN buffer
  BY DEF Core, Buffers
<1>9. iter' \in [DOMAIN iter' -> IterRec]
  BY <1>4, <1>6, <1>8
<1>10. DOMAIN buffer' = {iter'[j].buf : j \in DOMAIN iter'}
  BY <1>4, <1>6, <1>7 DEF Core, Buffers
<1>11. \A c \in DOMAIN buffer' : buffer'[c] \in Seq(1 .. End)
  BY <1>4, <1>7 DEF Core, Buffers
<1>12. \A j \in DOMAIN iter' : iter'[j].place # Stale =>
          Holds(buffer'[iter'[j].buf], iter'[j].place) /\ StandsAt(iter'[j], iter'[j].place)
  BY <1>4, <1>6, <1>7, <1>8 DEF Core, InPlace, Fresh, Piece
<1>13. DOMAIN iter' \subseteq Its
  BY <1>6 DEF Core, Buffers
<1> QED
  BY <1>5, <1>9, <1>10, <1>11, <1>12, <1>13, KeepsCore

LEMMA CopyKeeps ==
    ASSUME Core, NEW i \in Its, NEW j \in Its, Copy(i, j)
    PROVE  Core'
<1>1. i \in DOMAIN iter /\ j \notin DOMAIN iter /\ buffer' = buffer /\ UNCHANGED fixed
  BY DEF Copy, Fresh
<1>2. /\ DOMAIN iter' = DOMAIN iter \cup {j} /\ iter'[j] = iter[i]
      /\ \A k \in DOMAIN iter : iter'[k] = iter[k]
      /\ iter' = [k \in DOMAIN iter' |-> iter'[k]]
  BY <1>1 DEF Copy, Put
<1>3. \A k \in DOMAIN iter : iter[k] \in IterRec
  BY DEF Core, Buffers
<1>4. iter' \in [DOMAIN iter' -> IterRec] /\ DOMAIN iter' \subseteq Its
  BY <1>1, <1>2, <1>3 DEF Core, Buffers
<1>5. DOMAIN buffer' = {iter'[k].buf : k \in DOMAIN iter'}
  BY <1>1, <1>2 DEF Core, Buffers
<1>6. \A k \in DOMAIN iter' : iter'[k].place # Stale =>
         Holds(buffer'[iter'[k].buf], iter'[k].place) /\ StandsAt(iter'[k], iter'[k].place)
  BY <1>1, <1>2 DEF Core, InPlace, Fresh, Piece
<1>7. \A c \in DOMAIN buffer' : buffer'[c] \in Seq(1 .. End)
  BY <1>1 DEF Core, Buffers
<1> QED
  BY <1>1, <1>4, <1>5, <1>6, <1>7, KeepsCore

(* the buffers that nothing refers to any more go *)
LEMMA ReferredKeeps ==
    ASSUME Core, UNCHANGED fixed, buffer' = Referred(buffer, iter'),
           DOMAIN iter' \subseteq DOMAIN iter, iter' = [k \in DOMAIN iter' |-> iter'[k]],
           \A k \in DOMAIN iter' : \E was \in DOMAIN iter : iter'[k] = iter[was]
    PROVE  Core'
<1>1. \A k \in DOMAIN iter : iter[k] \in IterRec /\ iter[k].buf \in DOMAIN buffer
  BY DEF Core, Buffers
<1>2. iter' \in [DOMAIN iter' -> IterRec] /\ DOMAIN iter' \subseteq Its
  BY <1>1 DEF Core, Buffers
<1>3. /\ DOMAIN buffer' = {iter'[k].buf : k \in DOMAIN iter'}
      /\ \A c \in DOMAIN buffer' : buffer'[c] = buffer[c]
  BY DEF Referred
<1>4. \A c \in DOMAIN buffer' : buffer'[c] \in Seq(1 .. End)
  BY <1>1, <1>3 DEF Core, Buffers
<1>5. ASSUME NEW k \in DOMAIN iter', iter'[k].place # Stale
      PROVE  Holds(buffer'[iter'[k].buf], iter'[k].place) /\ StandsAt(iter'[k], iter'[k].place)
  <2>1. PICK was \in DOMAIN iter : iter'[k] = iter[was]
    OBVIOUS
  <2>2. buffer'[iter'[k].buf] = buffer[iter[was].buf]
    BY <1>3, <2>1
  <2> QED
    BY <1>5, <2>1, <2>2 DEF Core, InPlace, Fresh, Piece
<1> QED
  BY <1>2, <1>3, <1>4, <1>5, KeepsCore

LEMMA AssignKeeps ==
    ASSUME Core, NEW i \in Its, NEW j \in Its, Assign(i, j)
    PROVE  Core'
<1>1. /\ i \in DOMAIN iter /\ j \in DOMAIN iter /\ iter' = [iter EXCEPT ![i] = iter[j]]
      /\ buffer' = Referred(buffer, iter') /\ UNCHANGED fixed
  BY DEF Assign, Fresh
<1>2. /\ DOMAIN iter' = DOMAIN iter /\ iter' = [k \in DOMAIN iter' |-> iter'[k]]
      /\ \A k \in DOMAIN iter' : \E was \in DOMAIN iter : iter'[k] = iter[was]
  BY <1>1
<1> QED
  BY <1>1, <1>2, ReferredKeeps

LEMMA DestroyKeeps ==
    ASSUME Core, NEW i \in Its, Destroy(i)
    PROVE  Core'
<1>1. iter' = Drop(iter, i) /\ buffer' = Referred(buffer, iter') /\ UNCHANGED fixed
  BY DEF Destroy
<1>2. /\ DOMAIN iter' \subseteq DOMAIN iter /\ iter' = [k \in DOMAIN iter' |-> iter'[k]]
      /\ \A k \in DOMAIN iter' : \E was \in DOMAIN iter : iter'[k] = iter[was]
  BY <1>1 DEF Drop
<1> QED
  BY <1>1, <1>2, ReferredKeeps

(* ++: those that share i's buffer become Stale, i comes to its next place  *)
LEMMA Incremented ==
    ASSUME Core, NEW i \in Its, Fresh(i), ~AtEnd(i)
    PROVE  LET r == Refilled(iter[i], Piece(i))
               after == After(i, r.it)
           IN  /\ i \in DOMAIN iter /\ iter[i] \in IterRec
               /\ iter[i].place \in 1 .. Past - 1 /\ iter[i].place + 1 # Stale
               /\ r.piece \in Seq(1 .. End) /\ Holds(r.piece, iter[i].place + 1)
               /\ DOMAIN after = DOMAIN iter
               /\ \A j \in DOMAIN iter : after[j] \in IterRec /\ after[j].buf = iter[j].buf
               /\ after[i].place = iter[i].place + 1 /\ StandsAt(after[i], iter[i].place + 1)
               /\ \A j \in DOMAIN iter : j # i =>
                     IF iter[j].buf = iter[i].buf THEN after[j].place = Stale
                     ELSE after[j] = iter[j]
<1> DEFINE r == Refilled(iter[i], Piece(i))
           after == After(i, r.it)
           k == iter[i].place + 1
<1>1. i \in DOMAIN iter /\ iter[i] \in IterRec /\ Past \in Nat \ {0}
  BY PastIsNumber DEF Fresh, Core, Buffers
<1>2. iter[i].place \in 1 .. Past - 1
  BY <1>1 DEF Fresh, AtEnd, IterRec, Stale
<1>3. Fills(r, iter[i], k)
  <2>1. Holds(Piece(i), iter[i].place) /\ StandsAt(iter[i], iter[i].place) /\ Sizes
    BY <1>1 DEF Core, InPlace
  <2> QED
    BY <1>1, <1>2, <2>1, NextFills
<1> HIDE DEF r
<1>4. /\ r.it \in IterRec /\ r.it.buf = iter[i].buf /\ r.it.place = iter[i].place
      /\ StandsAt(r.it, k) /\ Holds(r.piece, k) /\ r.piece \in Seq(1 .. End)
  BY <1>3 DEF Fills, Holds
<1>5. /\ DOMAIN after = DOMAIN iter
      /\ after[i] = [r.it EXCEPT !.place = @ + 1]
      /\ \A j \in DOMAIN iter : j # i =>
            after[j] = IF iter[j].buf = iter[i].buf THEN [iter[j] EXCEPT !.place = Stale]
                       ELSE iter[j]
  BY <1>1, <1>4 DEF After
<1>6. k \in 1 .. Past /\ k # Stale /\ k \in Stale .. Past /\ Stale \in Stale .. Past
  BY <1>1, <1>2 DEF Stale
<1> HIDE DEF after
<1>7. /\ after[i] \in IterRec /\ after[i].buf = iter[i].buf /\ after[i].place = k
      /\ StandsAt(after[i], k)
  BY <1>4, <1>5, <1>6 DEF IterRec, StandsAt
<1>8. ASSUME NEW j \in DOMAIN iter, j # i
      PROVE  /\ after[j] \in IterRec /\ after[j].buf = iter[j].buf
             /\ IF iter[j].buf = iter[i].buf THEN after[j].place = Stale ELSE after[j] = iter[j]
  <2>1. iter[j] \in IterRec
    BY DEF Core, Buffers
  <2>2. CASE iter[j].buf = iter[i].buf
    <3>1. after[j] = [iter[j] EXCEPT !.place = Stale]
      BY <1>5, <1>8, <2>2
    <3> QED
      BY <1>6, <2>1, <2>2, <3>1 DEF IterRec
  <2>3. CASE iter[j].buf # iter[i].buf
    BY <1>5, <1>8, <2>1, <2>3
  <2> QED
    BY <2>2, <2>3
<1>9. \A j \in DOMAIN iter : after[j] \in IterRec /\ after[j].buf = iter[j].buf
  BY <1>7, <1>8
<1> QED
  BY <1>1, <1>2, <1>4, <1>5, <1>6, <1>7, <1>8, <1>9 DEF after, r

LEMMA PreIncrementKeeps ==
    ASSUME Core, NEW i \in Its, PreIncrement(i)
    PROVE  Core'
<1> DEFINE r == Refilled(iter[i], Piece(i))
           after == After(i, r.it)
           b == iter[i].buf
           k == iter[i].place + 1
<1>1. /\ Fresh(i) /\ ~AtEnd(i) /\ UNCHANGED fixed
      /\ buffer' = [buffer EXCEPT ![b] = r.piece] /\ iter' = after
  BY DEF PreIncrement
<1>2. /\ i \in DOMAIN iter /\ r.piece \in Seq(1 .. End) /\ Holds(r.piece, k)
      /\ DOMAIN after = DOMAIN iter
      /\ \A j \in DOMAIN iter : after[j] \in IterRec /\ after[j].buf = iter[j].buf
      /\ after[i].place = k /\ StandsAt(after[i], k)
      /\ \A j \in DOMAIN iter : j # i =>
            IF iter[j].buf = b THEN after[j].place = Stale ELSE after[j] = iter[j]
  BY <1>1, Incremented
<1>3. after = [j \in DOMAIN after |-> after[j]]
  BY DEF After
<1> HIDE DEF after, r, k
<1>4. iter' \in [DOMAIN iter' -> IterRec] /\ DOMAIN iter' \subseteq Its
  BY <1>1, <1>2, <1>3 DEF Core, Buffers
<1>5. b \in DOMAIN buffer /\ DOMAIN buffer' = DOMAIN buffer
  BY <1>1, <1>2 DEF Core, Buffers
<1>6. buffer'[b] = r.piece /\ \A c \in DOMAIN buffer : c # b => buffer'[c] = buffer[c]
  BY <1>1, <1>5
<1>7. DOMAIN buffer' = {iter'[j].buf : j \in DOMAIN iter'}
  <2>1. {iter'[j].buf : j \in DOMAIN iter'} = {iter[j].buf : j \in DOMAIN iter}
    BY <1>1, <1>2
  <2> QED
    BY <1>5, <2>1 DEF Core, Buffers
<1>8. \A c \in DOMAIN buffer' : buffer'[c] \in Seq(1 .. End)
  BY <1>2, <1>5, <1>6 DEF Core, Buffers
<1>9. ASSUME NEW j \in DOMAIN iter', iter'[j].place # Stale
      PROVE  Holds(buffer'[iter'[j].buf], iter'[j].place) /\ StandsAt(iter'[j], iter'[j].place)
  <2>1. CASE j = i
    BY <1>1, <1>2, <1>6, <2>1
  <2>2. CASE j # i
    <3>1. j \in DOMAIN iter /\ iter'[j] = iter[j] /\ iter[j].buf # b
      BY <1>1, <1>2, <1>9, <2>2
    <3>2. iter[j].buf \in DOMAIN buffer /\ buffer'[iter[j].buf] = buffer[iter[j].buf]
      BY <1>6, <3>1 DEF Core, Buffers
    <3> QED
      BY <1>9, <3>1, <3>2 DEF Core, InPlace, Fresh, Piece
  <2> QED
    BY <2>1, <2>2
<1> QED
  BY <1>1, <1>4, <1>7, <1>8, <1>9, KeepsCore

(* j, which i++ gives, is Stale from the first *)
LEMMA PostIncrementKeeps ==
    ASSUME Core, NEW i \in Its, NEW j \in Its, PostIncrement(i, j)
    PROVE  Core'
<1> DEFINE r == Refilled(iter[i], Piece(i))
           after == After(i, r.it)
           b == iter[i].buf
           k == iter[i].place + 1
           old == [iter[i] EXCEPT !.place = Stale]
<1>1. /\ Fresh(i) /\ ~AtEnd(i) /\ j \notin DOMAIN iter /\ UNCHANGED fixed
      /\ buffer' = [buffer EXCEPT ![b] = r.piece] /\ iter' = Put(after, j, old)
  BY DEF PostIncrement
<1>2. /\ i \in DOMAIN iter /\ r.piece \in Seq(1 .. End) /\ Holds(r.piece, k)
      /\ DOMAIN after = DOMAIN iter
      /\ \A x \in DOMAIN iter : after[x] \in IterRec /\ after[x].buf = iter[x].buf
      /\ after[i].place = k /\ StandsAt(after[i], k)
      /\ \A x \in DOMAIN iter : x # i =>
            IF iter[x].buf = b THEN after[x].place = Stale ELSE after[x] = iter[x]
  BY <1>1, Incremented
<1>3. old \in IterRec /\ old.buf = b /\ old.place = Stale
  <2>1. iter[i] \in IterRec /\ Past \in Nat
    BY <1>2, PastIsNumber DEF Core, Buffers
  <2> QED
    BY <2>1 DEF IterRec, Stale
<1> HIDE DEF after, r, k, old
<1>4. /\ DOMAIN iter' = DOMAIN iter \cup {j} /\ iter'[j] = old
      /\ \A x \in DOMAIN iter : iter'[x] = after[x]
      /\ iter' = [x \in DOMAIN iter' |-> iter'[x]]
  BY <1>1, <1>2 DEF Put
<1>5. iter' \in [DOMAIN iter' -> IterRec] /\ DOMAIN iter' \subseteq Its
  BY <1>2, <1>3, <1>4 DEF Core, Buffers
<1>6. b \in DOMAIN buffer /\ DOMAIN buffer' = DOMAIN buffer
  BY <1>1, <1>2 DEF Core, Buffers
<1>7. buffer'[b] = r.piece /\ \A c \in DOMAIN buffer : c # b => buffer'[c] = buffer[c]
  BY <1>1, <1>6
<1>8. DOMAIN buffer' = {iter'[x].buf : x \in DOMAIN iter'}
  <2>1. {iter'[x].buf : x \in DOMAIN iter'} = {iter[x].buf : x \in DOMAIN iter}
    BY <1>2, <1>3, <1>4
  <2> QED
    BY <1>6, <2>1 DEF Core, Buffers
<1>9. \A c \in DOMAIN buffer' : buffer'[c] \in Seq(1 .. End)
  BY <1>2, <1>6, <1>7 DEF Core, Buffers
<1>10. ASSUME NEW x \in DOMAIN iter', iter'[x].place # Stale
       PROVE  Holds(buffer'[iter'[x].buf], iter'[x].place) /\ StandsAt(iter'[x], iter'[x].place)
  <2>1. x # j /\ x \in DOMAIN iter /\ iter'[x] = after[x]
    BY <1>3, <1>4, <1>10
  <2>2. CASE x = i
    BY <1>2, <1>7, <2>1, <2>2
  <2>3. CASE x # i
    <3>1. iter'[x] = iter[x] /\ iter[x].buf # b
      BY <1>2, <1>10, <2>1, <2>3
    <3>2. iter[x].buf \in DOMAIN buffer /\ buffer'[iter[x].buf] = buffer[iter[x].buf]
      BY <1>7, <2>1, <3>1 DEF Core, Buffers
    <3> QED
      BY <1>10, <2>1, <3>1, <3>2 DEF Core, InPlace, Fresh, Piece
  <2> QED
    BY <2>2, <2>3
<1> QED
  BY <1>1, <1>5, <1>8, <1>9, <1>10, KeepsCore

LEMMA CoreNext == Core /\ [Next]_vars => Core'
<1> SUFFICES ASSUME Core, [Next]_vars PROVE Core'
  OBVIOUS
<1>1. CASE UNCHANGED <<fixed, buffer, iter>>
  <2>1. /\ IterRec' = IterRec /\ End' = End /\ Sizes'
        /\ \A piece, k : Holds(piece, k)' <=> Holds(piece, k)
        /\ \A it, k : StandsAt(it, k)' <=> StandsAt(it, k)
    BY <1>1, SameInput DEF Core
  <2> QED
    BY <1>1, <2>1 DEF Core, Buffers, InPlace, Fresh, Piece
<1>2. ASSUME NEW i \in Its, Deref(i) PROVE UNCHANGED <<fixed, buffer, iter>>
  BY <1>2 DEF Deref
<1>3. UNCHANGED vars => UNCHANGED <<fixed, buffer, iter>>
  BY DEF vars, fixed
<1>4. CASE \E i, j \in Its : Copy(i, j) \/ Assign(i, j) \/ PostIncrement(i, j)
  BY <1>4, CopyKeeps, AssignKeeps, PostIncrementKeeps
<1>5. CASE \E i \in Its : Begin(i) \/ Finish(i)
  BY <1>5, Starting, MakeKeeps
<1>6. CASE \E i \in Its : PreIncrement(i) \/ Destroy(i)
  BY <1>6, PreIncrementKeeps, DestroyKeeps
<1> QED
  BY <1>1, <1>2, <1>3, <1>4, <1>5, <1>6 DEF Next

LEMMA CoreAlways == Spec => []Core
BY CoreInit, CoreNext, PTL DEF Spec

----------------------------------------------------------------------------
(* The buffers alive are those of the Iterators alive, in any order of        *)
(* copies, assignments, increments and destructions, and what they hold are  *)
(* positions in the input.                                                  *)
THEOREM TypeCorrect == Spec => []TypeOK
BY CoreAlways, TypeFromCore, PTL

LEMMA PieceInside ==
    ASSUME End \in Nat, NEW p \in Nat \ {0}, NEW n \in Nat \ {0}, p + n <= End
    PROVE  From(p, n) # << >> /\ \A x \in DOMAIN From(p, n) : From(p, n)[x] < End
<1>1. DOMAIN From(p, n) = 1 .. n /\ \A x \in 1 .. n : From(p, n)[x] = p + x - 1
  BY Piecing
<1>2. From(p, n) # << >>
  BY Piecing
<1>3. ASSUME NEW x \in 1 .. n PROVE p + x - 1 < End
  OBVIOUS
<1> QED
  BY <1>1, <1>2, <1>3

(* sub_iter_ is further on at each place *)
LEMMA ChunksInside ==
    ASSUME Sizes, size # 0, tool = "chunked", NEW k \in 1 .. Past - 1
    PROVE  /\ Pieces[k] # << >> /\ \A x \in DOMAIN Pieces[k] : Pieces[k][x] < End
           /\ \A m \in 1 .. Past - 1 : k < m => SubAt(k) < SubAt(m)
<1>1. length \in Nat /\ size \in Nat \ {0} /\ End = length + 1 /\ Past \in Nat \ {0}
  BY SizesAreNumbers, PastIsNumber DEF End
<1>2. ASSUME NEW m \in 1 .. Past - 1
      PROVE  (m - 1) * size \in Nat /\ (m - 1) * size < length /\ m * size = (m - 1) * size + size
  <2>1. m - 1 \in Nat /\ m - 1 + 1 = m /\ Past - 2 \in Nat /\ Past > 1
    BY <1>1
  <2>2. (m - 1) * size \in Nat /\ m * size = (m - 1) * size + size /\ (Past - 2) * size \in Nat
    BY <1>1, <2>1, Times
  <2>3. (Past - 2) * size < length
    BY <1>1, <2>1, ChunkPieces
  <2>4. m - 1 = Past - 2 \/ m - 1 < Past - 2
    BY <1>1
  <2>5. m - 1 < Past - 2 => (m - 1) * size + size <= (Past - 2) * size
    BY <1>1, <2>1, Times
  <2> QED
    BY <1>1, <2>2, <2>3, <2>4, <2>5
<1> DEFINE before == (k - 1) * size
           n == Min({size, End - (before + 1)})
<1>3. before \in Nat /\ before < length
  BY <1>2
<1>4. Pieces[k] = From(before + 1, n)
  BY <1>1, ChunkPieces
<1> HIDE DEF before
<1>5. n \in Nat \ {0} /\ before + 1 + n <= End /\ before + 1 \in Nat \ {0}
  BY <1>1, <1>3, MinOfTwo
<1> HIDE DEF n
<1>6. From(before + 1, n) # << >> /\ \A x \in DOMAIN From(before + 1, n) : From(before + 1, n)[x] < End
  BY <1>1, <1>5, PieceInside
<1>7. ASSUME NEW m \in 1 .. Past - 1, k < m
      PROVE  SubAt(k) < SubAt(m)
  <2>1. SubAt(k) = Min({k * size + 1, End}) /\ SubAt(m) = Min({m * size + 1, End})
    BY <1>1 DEF SubAt
  <2>2. k * size \in Nat /\ m * size \in Nat /\ (m - 1) * size \in Nat
    BY <1>1, <1>2, Times
  <2>3. k * size <= (m - 1) * size
    <3>1. k \in Nat /\ m - 1 \in Nat /\ (k = m - 1 \/ k < m - 1)
      BY <1>1, <1>7
    <3> QED
      BY <1>1, <2>2, <3>1, Times
  <2>4. (m - 1) * size < length /\ m * size = (m - 1) * size + size
    BY <1>2
  <2>5. SubAt(k) = k * size + 1
    BY <1>1, <2>1, <2>2, <2>3, <2>4, MinOfTwo
  <2>6. SubAt(m) = m * size + 1 \/ SubAt(m) = End
    BY <1>1, <2>1, <2>2, MinOfTwo
  <2> QED
    BY <1>1, <2>2, <2>3, <2>4, <2>5, <2>6
<1> QED
  BY <1>4, <1>6, <1>7

LEMMA BatchesInside ==
    ASSUME Sizes, size # 0, tool = "batched", NEW k \in 1 .. Past - 1
    PROVE  /\ Pieces[k] # << >> /\ \A x \in DOMAIN Pieces[k] : Pieces[k][x] < End
           /\ \A m \in 1 .. Past - 1 : k < m => SubAt(k) < SubAt(m)
<1>1. length \in Nat /\ size \in Nat \ {0} /\ End = length + 1 /\ Past \in Nat \ {0}
  BY SizesAreNumbers, PastIsNumber DEF End
<1>2. Less \in Nat /\ More \in Nat /\ More < size /\ length = size * Less + More
  BY <1>1, BatchCounts
<1>3. Past = (IF size <= length THEN size ELSE length) + 1
  BY <1>1, BatchPieces, MinOfTwo
<1>4. ASSUME NEW m \in 1 .. Past - 1 PROVE m \in 1 .. size /\ (Less = 0 => m <= More)
  <2>1. m \in 1 .. size /\ m <= length
    BY <1>1, <1>3
  <2>2. Less = 0 => length = More
    BY <1>1, <1>2
  <2> QED
    BY <2>1, <2>2
<1> DEFINE before == (k - 1) * Less
           n == IF k <= More THEN Less + 1 ELSE Less
           first == before + Min({k - 1, More}) + 1
<1>5. Pieces[k] = From(first, n)
  BY <1>1, BatchPieces
<1>6. before \in Nat /\ k * Less = before + Less /\ k - 1 \in Nat
  <2>1. k - 1 \in Nat /\ k - 1 + 1 = k
    OBVIOUS
  <2> QED
    BY <1>2, <2>1, Times
<1>7. before + Less <= size * Less /\ size * Less \in Nat
  BY <1>1, <1>2, <1>4, <1>6, BatchCounts, Times
<1> HIDE DEF before
<1>8. first \in Nat \ {0} /\ n \in Nat \ {0} /\ first + n <= End
  BY <1>1, <1>2, <1>4, <1>6, <1>7, MinOfTwo
<1> HIDE DEF first, n
<1>9. From(first, n) # << >> /\ \A x \in DOMAIN From(first, n) : From(first, n)[x] < End
  BY <1>1, <1>8, PieceInside
<1>10. ASSUME NEW m \in 1 .. Past - 1, k < m
       PROVE  SubAt(k) < SubAt(m)
  <2>1. /\ SubAt(k) = k * Less + Min({k, More}) + 1
        /\ SubAt(m) = m * Less + Min({m, More}) + 1
    BY <1>1 DEF SubAt
  <2>2. k * Less \in Nat /\ m * Less \in Nat /\ k * Less + Less <= m * Less
    <3>1. k \in Nat /\ m \in Nat
      OBVIOUS
    <3> QED
      BY <1>2, <1>10, <3>1, Times
  <2>3. Min({k, More}) = (IF k <= More THEN k ELSE More) /\ Min({m, More}) = IF m <= More THEN m ELSE More
    BY <1>2, MinOfTwo
  <2>4. Less = 0 => m <= More
    BY <1>4
  <2> QED
    BY <1>2, <1>10, <2>1, <2>2, <2>3, <2>4
<1> QED
  BY <1>5, <1>9, <1>10

(* a window does not reach the end but for the last place *)
LEMMA WindowsInside ==
    ASSUME Sizes, size # 0, tool = "sliding_window"
    PROVE  /\ \A k \in 1 .. Past - 1 :
                 Pieces[k] # << >> /\ \A x \in DOMAIN Pieces[k] : Pieces[k][x] < End
           /\ \A k, m \in 1 .. Past : k < m => SubAt(k) < SubAt(m)
<1>1. /\ length \in Nat /\ size \in Nat \ {0} /\ End = length + 1 /\ Past \in Nat \ {0}
      /\ Past = IF size <= End THEN End - size + 1 ELSE 1
  BY SizesAreNumbers, PastIsNumber, WindowPieces DEF End
<1>2. ASSUME NEW k \in 1 .. Past - 1
      PROVE  Pieces[k] # << >> /\ \A x \in DOMAIN Pieces[k] : Pieces[k][x] < End
  <2>1. Pieces[k] = From(k, size)
    BY <1>1, WindowPieces
  <2>2. k \in Nat \ {0} /\ k + size <= End
    BY <1>1
  <2> QED
    BY <1>1, <2>1, <2>2, PieceInside
<1>3. ASSUME NEW k \in 1 .. Past, NEW m \in 1 .. Past, k < m
      PROVE  SubAt(k) < SubAt(m)
  <2>1. k < Past /\ SubAt(k) = k + size - 1
    BY <1>1, <1>3 DEF SubAt
  <2>2. m < Past => SubAt(m) = m + size - 1
    BY <1>1 DEF SubAt
  <2>3. m = Past => SubAt(m) = End
    BY <1>1 DEF SubAt
  <2> QED
    BY <1>1, <1>3, <2>1, <2>2, <2>3
<1> QED
  BY <1>2, <1>3

LEMMA PiecesInside ==
    ASSUME Sizes, NEW k \in 1 .. Past - 1
    PROVE  Pieces[k] # << >> /\ \A x \in DOMAIN Pieces[k] : Pieces[k][x] < End
<1>1. size # 0
  BY NoPieces
<1> QED
  BY <1>1, ChunksInside, BatchesInside, WindowsInside DEF Sizes, Tools

(* batched counts instead of looking for the end, and yet no more than any   *)
(* other does it go beyond it; and a piece that may be looked at is some.    *)
THEOREM Inside == Spec => []StaysInside
<1>1. Core => StaysInside
  <2> SUFFICES ASSUME Core, NEW i \in DOMAIN iter
               PROVE  /\ iter[i].sub <= End
                      /\ Fresh(i) /\ ~AtEnd(i) =>
                             Piece(i) # << >> /\ \A k \in DOMAIN Piece(i) : Piece(i)[k] < End
    BY DEF StaysInside
  <2>1. iter[i] \in IterRec /\ Sizes /\ Past \in Nat \ {0} /\ End \in Nat
    BY SizesAreNumbers, PastIsNumber DEF Core, Buffers
  <2>2. iter[i].sub <= End
    BY <2>1 DEF IterRec
  <2>3. ASSUME Fresh(i), ~AtEnd(i)
        PROVE  Piece(i) # << >> /\ \A k \in DOMAIN Piece(i) : Piece(i)[k] < End
    <3>1. iter[i].place \in 1 .. Past - 1
      BY <2>1, <2>3 DEF Fresh, AtEnd, IterRec, Stale
    <3>2. Piece(i) = Pieces[iter[i].place]
      BY <2>1, <2>3, <3>1 DEF Core, InPlace, Holds
    <3> QED
      BY <2>1, <3>1, <3>2, PiecesInside
  <2> QED
    BY <2>2, <2>3
<1> QED
  BY <1>1, CoreAlways, PTL

(* operator== of Iterators that are not Stale is equality of places: of      *)
(* sub_iter_ alone for windows, and for chunks and batches, whose last piece *)
(* leaves sub_iter_ at the end, with the test for an empty buffer. When there *)
(* is no piece that is begin() == end(): a window longer than the input has   *)
(* begin() at the end, and begin() of size 0, that is not there, is done.     *)
THEOREM EqualByPlace == Spec => []EqualIffSamePlace
<1>1. Core => EqualIffSamePlace
  <2> SUFFICES ASSUME Core, NEW i \in DOMAIN iter, NEW j \in DOMAIN iter, Fresh(i), Fresh(j)
               PROVE  Equal(i, j) <=> iter[i].place = iter[j].place
    BY DEF EqualIffSamePlace
  <2>1. Sizes /\ Past \in Nat \ {0}
    BY PastIsNumber DEF Core
  <2>2. /\ iter[i].place \in 1 .. Past /\ iter[j].place \in 1 .. Past
        /\ size # 0 \/ tool = "sliding_window" =>
              iter[i].sub = SubAt(iter[i].place) /\ iter[j].sub = SubAt(iter[j].place)
        /\ iter[i].sub \in Int /\ iter[j].sub \in Int
    BY <2>1 DEF Core, Buffers, InPlace, StandsAt, IterRec, Fresh, Stale
  <2>3. CASE size = 0
    <3>1. iter[i].place = 1 /\ iter[j].place = 1
      BY <2>1, <2>2, <2>3, NoPieces
    <3>2. tool = "sliding_window" => iter[i].sub = iter[j].sub
      BY <2>2, <3>1
    <3>3. tool # "sliding_window" => Done(i) /\ Done(j)
      BY <2>3, <3>1, NoPieces DEF Core, InPlace, Holds, Done
    <3> QED
      BY <3>1, <3>2, <3>3 DEF Equal
  <2>4. CASE size # 0 /\ tool = "sliding_window"
    <3>1. Equal(i, j) <=> SubAt(iter[i].place) = SubAt(iter[j].place)
      BY <2>2, <2>4 DEF Equal
    <3>2. iter[i].place < iter[j].place => SubAt(iter[i].place) < SubAt(iter[j].place)
      BY <2>1, <2>2, <2>4, WindowsInside
    <3>3. iter[j].place < iter[i].place => SubAt(iter[j].place) < SubAt(iter[i].place)
      BY <2>1, <2>2, <2>4, WindowsInside
    <3> QED
      BY <2>1, <2>2, <2>4, <3>1, <3>2, <3>3
  <2>5. CASE size # 0 /\ tool # "sliding_window"
    <3>1. ASSUME NEW x \in {i, j} PROVE Done(x) <=> iter[x].place = Past
      <4>1. /\ x \in DOMAIN iter /\ Fresh(x) /\ iter[x].place \in 1 .. Past
            /\ Holds(Piece(x), iter[x].place)
        BY <2>2 DEF Core, InPlace
      <4>2. iter[x].place = Past => Done(x)
        BY <2>5, <4>1 DEF Holds, Done
      <4>3. ASSUME iter[x].place # Past PROVE ~Done(x)
        <5>1. iter[x].place \in 1 .. Past - 1 /\ Piece(x) = Pieces[iter[x].place]
          BY <2>1, <4>1, <4>3 DEF Holds
        <5> QED
          BY <2>1, <5>1, PiecesInside DEF Done
      <4> QED
        BY <4>2, <4>3
    <3>2. ASSUME iter[i].place # Past, iter[j].place # Past
          PROVE  iter[i].sub = iter[j].sub <=> iter[i].place = iter[j].place
      <4>1. iter[i].place \in 1 .. Past - 1 /\ iter[j].place \in 1 .. Past - 1
        BY <2>1, <2>2, <3>2
      <4>2. /\ iter[i].place < iter[j].place => SubAt(iter[i].place) < SubAt(iter[j].place)
            /\ iter[j].place < iter[i].place => SubAt(iter[j].place) < SubAt(iter[i].place)
        BY <2>1, <2>5, <4>1, ChunksInside, BatchesInside DEF Sizes, Tools
      <4> QED
        BY <2>1, <2>2, <2>5, <4>1, <4>2
    <3>3. Equal(i, j) <=> (Done(i) <=> Done(j)) /\ (Done(i) \/ iter[i].sub = iter[j].sub)
      BY <2>5 DEF Equal, Done
    <3>4. Done(i) <=> iter[i].place = Past
      BY <3>1
    <3>5. Done(j) <=> iter[j].place = Past
      BY <3>1
    <3> QED
      BY <3>2, <3>3, <3>4, <3>5
  <2> QED
    BY <2>3, <2>4, <2>5
<1> QED
  BY <1>1, CoreAlways, PTL

----------------------------------------------------------------------------
(* What an increment leaves of those that share the buffer has to have been *)
(* at the same place: the others were Stale before.                         *)

Sharing ==
    \A i, j \in DOMAIN iter :
        Fresh(i) /\ Fresh(j) /\ iter[i].buf = iter[j].buf => iter[i].place = iter[j].place

(* each Iterator is as some was, but for those that are Stale, and has the   *)
(* buffer to itself if it is not                                            *)
LEMMA KeepsSharing ==
    ASSUME Sharing, NEW new \in SUBSET DOMAIN iter',
           \A k \in DOMAIN iter' \ new : iter'[k].place # Stale =>
               \E was \in DOMAIN iter : iter'[k] = iter[was],
           \A k \in new, j \in DOMAIN iter' :
               k # j /\ iter'[j].buf = iter'[k].buf => iter'[j].place = Stale
    PROVE  Sharing'
<1> SUFFICES ASSUME NEW k \in DOMAIN iter', NEW j \in DOMAIN iter', k # j,
                    iter'[k].place # Stale, iter'[j].place # Stale,
                    iter'[k].buf = iter'[j].buf
             PROVE  iter'[k].place = iter'[j].place
  BY DEF Sharing, Fresh, Stale
<1>1. k \notin new /\ j \notin new
  OBVIOUS
<1>2. PICK m \in DOMAIN iter : iter'[k] = iter[m]
  BY <1>1
<1>3. PICK n \in DOMAIN iter : iter'[j] = iter[n]
  BY <1>1
<1> QED
  BY <1>2, <1>3 DEF Sharing, Fresh

LEMMA MakeShares ==
    ASSUME Core, Sharing, NEW i \in Its, NEW p, NEW place, Starts(p, place), Make(i, p, place)
    PROVE  /\ Sharing' /\ i \notin DOMAIN iter /\ DOMAIN iter' = DOMAIN iter \cup {i}
           /\ iter'[i].place = place
           /\ \A j \in DOMAIN iter : iter'[j] = iter[j]
<1>1. PICK b \in Bufs \ DOMAIN buffer :
         LET filled == Filled([sub |-> p, buf |-> b, total |-> End - p, count |-> 0,
                               place |-> place])
         IN  buffer' = Put(buffer, b, filled.piece) /\ iter' = Put(iter, i, filled.it)
  BY DEF Make
<1> DEFINE it == [sub |-> p, buf |-> b, total |-> End - p, count |-> 0, place |-> place]
           r == Filled(it)
<1>2. Fills(r, it, place) /\ it.buf = b /\ it.place = place
  BY FirstFills DEF Core
<1> HIDE DEF it
<1>3. iter' = Put(iter, i, r.it) /\ i \notin DOMAIN iter
  BY <1>1 DEF it, Make
<1> HIDE DEF r
<1>4. /\ DOMAIN iter' = DOMAIN iter \cup {i} /\ iter'[i] = r.it
      /\ \A j \in DOMAIN iter : iter'[j] = iter[j]
  BY <1>3 DEF Put
<1>5. r.it.buf = b /\ r.it.place = place
  BY <1>2 DEF Fills
<1>6. \A j \in DOMAIN iter : iter'[j].buf # iter'[i].buf
  BY <1>4, <1>5 DEF Core, Buffers
<1>7. {i} \in SUBSET DOMAIN iter'
  BY <1>4
<1>8. \A k \in {i}, j \in DOMAIN iter' :
         k # j /\ iter'[j].buf = iter'[k].buf => iter'[j].place = Stale
  BY <1>4, <1>6
<1>9. \A k \in DOMAIN iter' \ {i} : \E was \in DOMAIN iter : iter'[k] = iter[was]
  BY <1>4
<1>10. Sharing'
  BY <1>7, <1>8, <1>9, KeepsSharing
<1> QED
  BY <1>3, <1>4, <1>5, <1>10

(* copies, assignments and destructions *)
LEMMA RearrangedShares ==
    ASSUME Sharing, \A k \in DOMAIN iter' : \E was \in DOMAIN iter : iter'[k] = iter[was]
    PROVE  Sharing'
<1>1. {} \in SUBSET DOMAIN iter'
  OBVIOUS
<1> QED
  BY <1>1, KeepsSharing

(* ++, whose copy j, if there is one, is Stale *)
LEMMA IncrementShares ==
    ASSUME Core, Sharing, NEW i \in Its, Fresh(i), ~AtEnd(i), NEW j,
           LET after == After(i, Refilled(iter[i], Piece(i)).it)
           IN  \/ iter' = after /\ j = i
               \/ /\ j \notin DOMAIN iter
                  /\ iter' = Put(after, j, [iter[i] EXCEPT !.place = Stale])
    PROVE  /\ Sharing' /\ i \in DOMAIN iter /\ iter[i].place \in 1 .. Past - 1
           /\ DOMAIN iter' = DOMAIN iter \cup {j} /\ iter'[i].place = iter[i].place + 1
           /\ j # i => iter'[j].place = Stale
           /\ \A k \in DOMAIN iter : k # i =>
                 iter'[k].place = IF iter[k].buf = iter[i].buf THEN Stale ELSE iter[k].place
<1> DEFINE after == After(i, Refilled(iter[i], Piece(i)).it)
           b == iter[i].buf
<1>1. /\ i \in DOMAIN iter /\ iter[i] \in IterRec /\ iter[i].place \in 1 .. Past - 1
      /\ DOMAIN after = DOMAIN iter
      /\ \A k \in DOMAIN iter : after[k].buf = iter[k].buf
      /\ after[i].place = iter[i].place + 1
      /\ \A k \in DOMAIN iter : k # i =>
            IF iter[k].buf = b THEN after[k].place = Stale ELSE after[k] = iter[k]
  BY Incremented
<1>2. \/ iter' = after /\ j = i
      \/ j \notin DOMAIN iter /\ iter' = Put(after, j, [iter[i] EXCEPT !.place = Stale])
  OBVIOUS
<1> HIDE DEF after
<1>3. /\ DOMAIN iter' = DOMAIN iter \cup {j}
      /\ \A k \in DOMAIN iter : iter'[k] = after[k]
      /\ j # i => iter'[j].place = Stale
  <2>1. CASE iter' = after /\ j = i
    BY <1>1, <2>1
  <2>2. CASE j \notin DOMAIN iter /\ iter' = Put(after, j, [iter[i] EXCEPT !.place = Stale])
    <3>1. [iter[i] EXCEPT !.place = Stale].place = Stale
      BY <1>1 DEF IterRec
    <3> QED
      BY <1>1, <2>2, <3>1 DEF Put
  <2> QED
    BY <1>2, <2>1, <2>2
<1>4. {i} \in SUBSET DOMAIN iter'
  BY <1>1, <1>3
<1>5. ASSUME NEW k \in DOMAIN iter' \ {i}, iter'[k].place # Stale
      PROVE  k \in DOMAIN iter /\ iter'[k] = iter[k] /\ iter'[k].buf # iter'[i].buf
  <2>1. k \in DOMAIN iter
    BY <1>3, <1>5
  <2> QED
    BY <1>1, <1>3, <1>5, <2>1
<1>6. Sharing'
  BY <1>4, <1>5, KeepsSharing
<1>7. \A k \in DOMAIN iter : k # i =>
         iter'[k].place = IF iter[k].buf = b THEN Stale ELSE iter[k].place
  BY <1>1, <1>3
<1> QED
  BY <1>1, <1>3, <1>6, <1>7

----------------------------------------------------------------------------
(* Each step is a step of InputIterator *)

At == [i \in DOMAIN iter |-> iter[i].place]

LEMMA CopyBar ==
    ASSUME Sharing, NEW i \in Its, NEW j \in Its, Copy(i, j)
    PROVE  Promise!Copy(i, j) /\ Sharing'
<1>1. /\ i \in DOMAIN iter /\ j \notin DOMAIN iter /\ iter' = Put(iter, j, iter[i])
      /\ UNCHANGED <<fixed, got>>
  BY DEF Copy, Fresh
<1>2. /\ DOMAIN iter' = DOMAIN iter \cup {j} /\ iter'[j] = iter[i]
      /\ \A k \in DOMAIN iter : iter'[k] = iter[k]
  BY <1>1 DEF Put
<1>3. At' = Put(At, j, At[i])
  BY <1>1, <1>2 DEF At, Put
<1>4. Sharing'
  BY <1>1, <1>2, RearrangedShares
<1> QED
  BY <1>1, <1>3, <1>4, SameInput DEF Promise!Copy, Put, Promise!Put, At

LEMMA AssignBar ==
    ASSUME Sharing, NEW i \in Its, NEW j \in Its, Assign(i, j)
    PROVE  Promise!Assign(i, j) /\ Sharing'
<1>1. /\ i \in DOMAIN iter /\ j \in DOMAIN iter /\ iter' = [iter EXCEPT ![i] = iter[j]]
      /\ UNCHANGED <<fixed, got>>
  BY DEF Assign, Fresh
<1>2. /\ DOMAIN iter' = DOMAIN iter /\ iter'[i] = iter[j]
      /\ \A k \in DOMAIN iter : k # i => iter'[k] = iter[k]
  BY <1>1
<1>3. At' = [At EXCEPT ![i] = At[j]]
  BY <1>1, <1>2 DEF At
<1>4. Sharing'
  BY <1>1, <1>2, RearrangedShares
<1> QED
  BY <1>1, <1>3, <1>4, SameInput DEF Promise!Assign, At

LEMMA DestroyBar ==
    ASSUME Sharing, NEW i \in Its, Destroy(i)
    PROVE  Promise!Destroy(i) /\ Sharing'
<1>1. i \in DOMAIN iter /\ iter' = Drop(iter, i) /\ UNCHANGED <<fixed, got>>
  BY DEF Destroy
<1>2. DOMAIN iter' = DOMAIN iter \ {i} /\ \A k \in DOMAIN iter' : iter'[k] = iter[k]
  BY <1>1 DEF Drop
<1>3. At' = Drop(At, i)
  BY <1>2 DEF At, Drop
<1>4. Sharing'
  BY <1>2, RearrangedShares
<1> QED
  BY <1>1, <1>3, <1>4, SameInput DEF Promise!Destroy, Drop, Promise!Drop, At

LEMMA MakeBar ==
    ASSUME Core, Sharing, NEW i \in Its, NEW p, NEW place, Starts(p, place), Make(i, p, place)
    PROVE  Promise!Construct(i, place) /\ Sharing'
<1>1. UNCHANGED <<fixed, got>>
  BY DEF Make
<1>2. /\ Sharing' /\ i \notin DOMAIN iter /\ DOMAIN iter' = DOMAIN iter \cup {i}
      /\ iter'[i].place = place /\ \A j \in DOMAIN iter : iter'[j] = iter[j]
  BY MakeShares
<1>3. At' = Put(At, i, place)
  BY <1>2 DEF At, Put
<1> QED
  BY <1>1, <1>2, <1>3, SameInput DEF Promise!Construct, Put, Promise!Put, At

LEMMA PiecesAreMany == ASSUME Sizes PROVE DOMAIN Pieces = 1 .. Past - 1
<1>1. Past \in Nat \ {0} /\ length \in Nat /\ size \in Nat
  BY PastIsNumber, SizesAreNumbers
<1>2. CASE size = 0
  BY <1>2 DEF Pieces, Past
<1>3. CASE size # 0 /\ tool = "chunked"
  <2>1. (length + size - 1) \div size \in Nat
    BY <1>1, <1>3, Quotient
  <2> QED
    BY <1>3, <2>1 DEF Pieces, Past
<1>4. CASE size # 0 /\ tool = "batched"
  <2>1. Min({size, length}) \in Nat
    BY <1>1, MinOfTwo
  <2> QED
    BY <1>4, <2>1 DEF Pieces, Past
<1>5. CASE size # 0 /\ tool = "sliding_window"
  <2>1. (length + 1) - Min({size, length + 1}) \in Nat
    BY <1>1, MinOfTwo
  <2> QED
    BY <1>5, <2>1 DEF Pieces, Past
<1> QED
  BY <1>2, <1>3, <1>4, <1>5 DEF Sizes, Tools

(* an Iterator that can be looked at has the piece of its place *)
LEMMA Usable ==
    ASSUME Core, NEW i, Fresh(i), ~AtEnd(i)
    PROVE  Promise!CanUse(i) /\ Piece(i) = Pieces[At[i]] /\ At[i] = iter[i].place
<1>1. /\ i \in DOMAIN iter /\ Sizes /\ Past \in Nat \ {0} /\ iter[i] \in IterRec
      /\ Holds(Piece(i), iter[i].place)
  BY PastIsNumber DEF Fresh, Core, Buffers, InPlace
<1>2. iter[i].place \in 1 .. Past - 1
  BY <1>1 DEF Fresh, AtEnd, IterRec, Stale
<1>3. Piece(i) = Pieces[iter[i].place]
  BY <1>1, <1>2 DEF Holds
<1>4. iter[i].place \in DOMAIN Pieces
  BY <1>1, <1>2, PiecesAreMany
<1>5. At[i] = iter[i].place
  BY <1>1 DEF At
<1> QED
  BY <1>1, <1>3, <1>4, <1>5 DEF Promise!CanUse, At

LEMMA DerefBar ==
    ASSUME Core, Sharing, NEW i \in Its, Deref(i)
    PROVE  Promise!Deref(i) /\ Sharing'
<1>1. Fresh(i) /\ ~AtEnd(i) /\ got' = Piece(i) /\ UNCHANGED <<fixed, iter>>
  BY DEF Deref
<1>2. Promise!CanUse(i) /\ got' = Pieces[At[i]]
  BY <1>1, Usable
<1>3. Sharing'
  BY <1>1, RearrangedShares
<1> QED
  BY <1>1, <1>2, <1>3, SameInput DEF Promise!Deref, At

(* those that an increment makes Stale, and were not *)
Sharers(i) ==
    {k \in DOMAIN iter \ {i} : iter[k].buf = iter[i].buf /\ iter[k].place # Stale}

LEMMA MovedBar ==
    ASSUME Core, Sharing, NEW i \in Its, Fresh(i), ~AtEnd(i), NEW j,
           LET after == After(i, Refilled(iter[i], Piece(i)).it)
           IN  \/ iter' = after /\ j = i
               \/ /\ j \notin DOMAIN iter
                  /\ iter' = Put(after, j, [iter[i] EXCEPT !.place = Stale])
    PROVE  /\ Sharing' /\ Sharers(i) \in SUBSET Promise!Equals(i)
           /\ At' = IF j = i THEN Promise!Moved(i, Sharers(i))
                    ELSE Put(Promise!Moved(i, Sharers(i)), j, Stale)
<1>1. /\ Sharing' /\ i \in DOMAIN iter /\ iter[i].place \in 1 .. Past - 1
      /\ DOMAIN iter' = DOMAIN iter \cup {j} /\ iter'[i].place = iter[i].place + 1
      /\ j # i => iter'[j].place = Stale
      /\ \A k \in DOMAIN iter : k # i =>
            iter'[k].place = IF iter[k].buf = iter[i].buf THEN Stale ELSE iter[k].place
  BY IncrementShares
<1>2. j = i \/ j \notin DOMAIN iter
  OBVIOUS
<1>3. Sharers(i) \in SUBSET Promise!Equals(i)
  BY <1>1 DEF Sharers, Sharing, Fresh, Promise!Equals, At
<1> DEFINE moved == Promise!Moved(i, Sharers(i))
<1>4. /\ DOMAIN moved = DOMAIN iter
      /\ \A k \in DOMAIN iter :
            moved[k] = IF k = i THEN iter[i].place + 1
                       ELSE IF k \in Sharers(i) THEN Stale ELSE iter[k].place
      /\ moved = [k \in DOMAIN moved |-> moved[k]]
  BY <1>1 DEF Promise!Moved, Promise!Stale, Stale
<1> HIDE DEF moved
<1>5. \A k \in DOMAIN iter : iter'[k].place = moved[k]
  BY <1>1, <1>4 DEF Sharers
<1>6. CASE j = i
  <2>1. DOMAIN iter' = DOMAIN iter
    BY <1>1, <1>6
  <2> QED
    BY <1>1, <1>3, <1>4, <1>5, <1>6, <2>1 DEF At, moved
<1>7. CASE j \notin DOMAIN iter /\ j # i
  <2>1. At' = Put(moved, j, Stale)
    BY <1>1, <1>4, <1>5, <1>7 DEF At, Put
  <2> QED
    BY <1>1, <1>3, <1>7, <2>1 DEF moved
<1> QED
  BY <1>1, <1>2, <1>6, <1>7

LEMMA PreIncrementBar ==
    ASSUME Core, Sharing, NEW i \in Its, PreIncrement(i)
    PROVE  Promise!PreIncrement(i) /\ Sharing'
<1>1. /\ Fresh(i) /\ ~AtEnd(i) /\ UNCHANGED <<fixed, got>>
      /\ iter' = After(i, Refilled(iter[i], Piece(i)).it)
  BY DEF PreIncrement
<1>2. /\ Sharing' /\ Sharers(i) \in SUBSET Promise!Equals(i)
      /\ At' = Promise!Moved(i, Sharers(i))
  BY <1>1, MovedBar
<1>3. Promise!CanUse(i)
  BY <1>1, Usable
<1> QED
  BY <1>1, <1>2, <1>3, SameInput DEF Promise!PreIncrement, At

LEMMA PostIncrementBar ==
    ASSUME Core, Sharing, NEW i \in Its, NEW j \in Its, PostIncrement(i, j)
    PROVE  Promise!PostIncrement(i, j) /\ Sharing'
<1>1. /\ Fresh(i) /\ ~AtEnd(i) /\ j \notin DOMAIN iter /\ UNCHANGED <<fixed, got>>
      /\ iter' = Put(After(i, Refilled(iter[i], Piece(i)).it), j,
                     [iter[i] EXCEPT !.place = Stale])
  BY DEF PostIncrement
<1>2. j # i
  BY <1>1 DEF Fresh
<1>3. /\ Sharing' /\ Sharers(i) \in SUBSET Promise!Equals(i)
      /\ At' = Put(Promise!Moved(i, Sharers(i)), j, Stale)
  BY <1>1, <1>2, MovedBar
<1>4. Promise!CanUse(i) /\ j \notin DOMAIN At
  BY <1>1, Usable DEF At
<1>5. \E stale \in SUBSET Promise!Equals(i), p \in {At[i], Promise!Stale} :
         At' = Promise!Put(Promise!Moved(i, stale), j, p)
  <2>1. At' = Promise!Put(Promise!Moved(i, Sharers(i)), j, Promise!Stale)
    BY <1>3 DEF Put, Promise!Put, Promise!Stale, Stale
  <2> QED
    BY <1>3, <2>1
<1> QED
  BY <1>1, <1>3, <1>4, <1>5, SameInput DEF Promise!PostIncrement, At

LEMMA NextBar ==
    ASSUME Core, Sharing, [Next]_vars
    PROVE  [Promise!Next]_(Promise!vars) /\ Sharing'
<1>1. CASE UNCHANGED vars
  <2>1. UNCHANGED fixed /\ iter' = iter /\ got' = got
    BY <1>1 DEF vars, fixed
  <2>2. At' = At /\ Sharing'
    BY <2>1, RearrangedShares DEF At
  <2> QED
    BY <2>1, <2>2, SameInput DEF Promise!vars, At
<1>2. ASSUME NEW i \in Its, NEW j \in Its, Copy(i, j) \/ Assign(i, j) \/ PostIncrement(i, j)
      PROVE  Promise!Next /\ Sharing'
  BY <1>2, CopyBar, AssignBar, PostIncrementBar DEF Promise!Next
<1>3. ASSUME NEW i \in Its, Begin(i) \/ Finish(i)
      PROVE  Promise!Next /\ Sharing'
  <2>1. PICK p, place : place \in {1, Past} /\ Starts(p, place) /\ Make(i, p, place)
    BY <1>3, Starting
  <2>2. Promise!Construct(i, place) /\ Sharing'
    BY <2>1, MakeBar
  <2> QED
    BY <2>1, <2>2 DEF Promise!Next, Promise!Past, Past
<1>4. ASSUME NEW i \in Its, Deref(i) \/ PreIncrement(i) \/ Destroy(i)
      PROVE  Promise!Next /\ Sharing'
  BY <1>4, DerefBar, PreIncrementBar, DestroyBar DEF Promise!Next
<1> QED
  BY <1>1, <1>2, <1>3, <1>4 DEF Next

(* chunked, batched and sliding_window implement InputIterator: that copies  *)
(* share one buffer, refilled under them, is no more than an InputIterator   *)
(* may do to its copies.                                                    *)
THEOREM BuffersImplement == Spec => ImplementsInputIterator
<1>1. Init => Promise!Init /\ Sharing
  BY DEF Init, Promise!Init, Sharing
<1>2. Core /\ Sharing /\ [Next]_vars => [Promise!Next]_(Promise!vars) /\ Sharing'
  BY NextBar
<1> QED
  BY <1>1, <1>2, CoreAlways, PTL DEF Spec, ImplementsInputIterator, Promise!Spec

============================================================================
