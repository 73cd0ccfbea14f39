---------------------------- MODULE SharedBuffer ----------------------------
(***************************************************************************)
(* chunked, batched and sliding_window: Iterators that keep the current    *)
(* piece of the input in a vector or deque held by a shared_ptr, which     *)
(* the copies of an Iterator share.                                        *)
(*                                                                         *)
(* The input's elements are their positions, 1 to length; a buffer holds   *)
(* positions, as the program's holds iterators of the input.               *)
(*                                                                         *)
(* An operator named Wrong... is a plausible mistake in the definition     *)
(* that follows it; nothing uses it.                                       *)
(***************************************************************************)
EXTENDS Naturals, Sequences, FiniteSetsExt, PartialFunctions

CONSTANTS
    MaxLen,    \* bound: the longest input
    MaxSize,   \* bound: the largest size asked for
    Its,       \* the client's Iterator objects
    Bufs       \* the buffers that exist at the same time

ASSUME BoundsAssumption == MaxLen \in Nat /\ MaxSize \in Nat
ASSUME BufsAssumption == Cardinality(Bufs) >= Cardinality(Its)

VARIABLES
    tool,     \* "chunked", "batched" or "sliding_window"
    length,   \* the number of elements of container_
    size,     \* chunk_size_, num_batches_ or window_size_
    buffer,   \* the contents of each buffer alive
    iter,     \* live Iterators: sub_iter_, the buffer they refer to, size_ and
              \* count_ of batched, and the place they have come to (history)
    got       \* what the last dereference yielded (history)

vars == <<tool, length, size, buffer, iter, got>>
fixed == <<tool, length, size>>

End == length + 1
From(p, n) == [k \in 1 .. n |-> p + k - 1]

----------------------------------------------------------------------------
(* The pieces, defined on the whole input at once. A place is the number of *)
(* a piece, or one more than the last; Stale is that of an Iterator whose   *)
(* buffer another has refilled.                                             *)

Stale == 0

Pieces ==
    IF size = 0 THEN << >>
    ELSE CASE tool = "chunked" ->
                [k \in 1 .. (length + size - 1) \div size |->
                    LET first == (k - 1) * size + 1
                    IN  From(first, Min({size, End - first}))]
           [] tool = "batched" ->
                LET less == length \div size
                    more == length % size      \* so many have one element more
                IN  [k \in 1 .. Min({size, length}) |->
                        From((k - 1) * less + Min({k - 1, more}) + 1,
                             IF k <= more THEN less + 1 ELSE less)]
           [] tool = "sliding_window" ->
                [k \in 1 .. (length + 1) - Min({size, length + 1}) |-> From(k, size)]

Past == Len(Pieces) + 1

----------------------------------------------------------------------------
(* Filling a buffer: what it then holds, and the Iterator. it.total and     *)
(* it.count are size_ and count_ of batched.                                *)

(* refill_chunk *)
Chunk(it, old) ==
    LET n == Min({size, End - it.sub})
    IN  [piece |-> From(it.sub, n), it |-> [it EXCEPT !.sub = @ + n]]

(* the remainder is handed out one batch too long *)
WrongBatchSize(total, count) ==
    total \div size + Min({1, ((total % size) + 1) \div (count + 1)})

BatchSize(total, count) ==
    total \div size + Min({1, (total % size) \div (count + 1)})

(* refill_batch, which never looks for the end *)
Batch(it) ==
    IF it.count < size
    THEN LET n == BatchSize(it.total, it.count)
         IN  [piece |-> From(it.sub, n),
              it |-> [it EXCEPT !.sub = @ + n, !.count = @ + 1]]
    ELSE [piece |-> << >>, it |-> it]

(* the last read element is passed *)
WrongWindow(it) ==
    LET n == Min({size, End - it.sub})
    IN  [piece |-> From(it.sub, n), it |-> [it EXCEPT !.sub = @ + n]]

(* it stays there although there are fewer than size *)
WrongStop(it) ==
    LET n == Min({size, End - it.sub})
    IN  [piece |-> From(it.sub, n),
         it |-> [it EXCEPT !.sub = IF n # 0 THEN @ + n - 1 ELSE @]]

(* the constructor of sliding_window, which stays at the last element read *)
Window(it) ==
    LET n == Min({size, End - it.sub})
    IN  [piece |-> From(it.sub, n),
         it |-> [it EXCEPT !.sub = IF n = size /\ n # 0 THEN @ + n - 1 ELSE @ + n]]

(* operator++ of sliding_window *)
Slide(it, old) ==
    [piece |-> Tail(old) \o <<it.sub + 1>>, it |-> [it EXCEPT !.sub = @ + 1]]

Filled(it) ==
    CASE tool = "chunked" -> Chunk(it, << >>)
      [] tool = "batched" -> Batch(it)
      [] tool = "sliding_window" -> Window(it)

Refilled(it, old) ==
    CASE tool = "chunked" -> Chunk(it, old)
      [] tool = "batched" -> Batch(it)
      [] tool = "sliding_window" -> Slide(it, old)

----------------------------------------------------------------------------
Piece(i) == buffer[iter[i].buf]

(* done of chunked and batched *)
Done(i) == Piece(i) = << >>

(* only the positions are compared *)
WrongEqual(i, j) == iter[i].sub = iter[j].sub

(* operator== *)
Equal(i, j) ==
    IF tool = "sliding_window" THEN iter[i].sub = iter[j].sub
    ELSE Done(i) = Done(j) /\ (Done(i) \/ iter[i].sub = iter[j].sub)

(* the buffers alive when the Iterators are those of its *)
Referred(bufs, its) == [b \in {its[i].buf : i \in DOMAIN its} |-> bufs[b]]

Fresh(i) == i \in DOMAIN iter /\ iter[i].place # Stale
AtEnd(i) == iter[i].place = Past

Init ==
    /\ tool \in {"chunked", "batched", "sliding_window"}
    /\ length \in 0 .. MaxLen
    /\ size \in 0 .. MaxSize
    /\ buffer = << >>
    /\ iter = << >>
    /\ got = << >>

(* The constructor, of a sub_iter_ at p. The place is history: it is where  *)
(* the client has asked to be.                                              *)
Make(i, p, place) ==
    /\ i \notin DOMAIN iter
    /\ \E b \in Bufs \ DOMAIN buffer :
           LET filled == Filled([sub |-> p, buf |-> b, total |-> End - p, count |-> 0,
                                 place |-> place])
           IN  buffer' = Put(buffer, b, filled.piece) /\ iter' = Put(iter, i, filled.it)
    /\ UNCHANGED <<fixed, got>>

(* begin(): that of sliding_window is made of the end when size is 0 *)
Begin(i) == Make(i, IF tool = "sliding_window" /\ size = 0 THEN End ELSE 1, 1)

(* end() *)
Finish(i) == Make(i, End, Past)

Copy(i, j) ==
    /\ Fresh(i) /\ j \notin DOMAIN iter
    /\ iter' = Put(iter, j, iter[i])
    /\ UNCHANGED <<fixed, buffer, got>>

Assign(i, j) ==
    /\ i # j /\ i \in DOMAIN iter /\ Fresh(j)
    /\ iter' = [iter EXCEPT ![i] = iter[j]]
    /\ buffer' = Referred(buffer, iter')
    /\ UNCHANGED <<fixed, got>>

(* operator* and operator-> refer to the buffer *)
Deref(i) ==
    /\ Fresh(i) /\ ~AtEnd(i)
    /\ got' = Piece(i)
    /\ UNCHANGED <<fixed, buffer, iter>>

(* the Iterators after i was incremented: those of its buffer are Stale *)
After(i, it) ==
    [j \in DOMAIN iter |->
        IF j = i THEN [it EXCEPT !.place = @ + 1]
        ELSE IF iter[j].buf = it.buf THEN [iter[j] EXCEPT !.place = Stale]
        ELSE iter[j]]

PreIncrement(i) ==
    /\ Fresh(i) /\ ~AtEnd(i)
    /\ LET refilled == Refilled(iter[i], Piece(i))
       IN  /\ buffer' = [buffer EXCEPT ![iter[i].buf] = refilled.piece]
           /\ iter' = After(i, refilled.it)
    /\ UNCHANGED <<fixed, got>>

(* j = i++ *)
PostIncrement(i, j) ==
    /\ Fresh(i) /\ ~AtEnd(i) /\ j \notin DOMAIN iter
    /\ LET refilled == Refilled(iter[i], Piece(i))
       IN  /\ buffer' = [buffer EXCEPT ![iter[i].buf] = refilled.piece]
           /\ iter' = Put(After(i, refilled.it), j, [iter[i] EXCEPT !.place = Stale])
    /\ UNCHANGED <<fixed, got>>

(* the buffer goes with the first Iterator that refers to it *)
WrongDestroy(i) ==
    /\ i \in DOMAIN iter
    /\ iter' = Drop(iter, i)
    /\ buffer' = Drop(buffer, iter[i].buf)
    /\ UNCHANGED <<fixed, got>>

Destroy(i) ==
    /\ i \in DOMAIN iter
    /\ iter' = Drop(iter, i)
    /\ buffer' = Referred(buffer, iter')
    /\ UNCHANGED <<fixed, got>>

Next ==
    \/ \E i, j \in Its : Copy(i, j) \/ Assign(i, j) \/ PostIncrement(i, j)
    \/ \E i \in Its : Begin(i) \/ Finish(i) \/ Deref(i) \/ PreIncrement(i) \/ Destroy(i)

Spec == Init /\ [][Next]_vars

----------------------------------------------------------------------------
(* Every buffer alive is some Iterator's, and every Iterator's is alive.    *)
TypeOK ==
    /\ length \in 0 .. MaxLen /\ size \in 0 .. MaxSize
    /\ DOMAIN buffer = {iter[i].buf : i \in DOMAIN iter}
    /\ DOMAIN iter \subseteq Its /\ DOMAIN buffer \subseteq Bufs
    /\ \A b \in DOMAIN buffer : buffer[b] \in Seq(1 .. End)
    /\ iter \in [DOMAIN iter -> [sub : 1 .. End, buf : Bufs, total : 0 .. length,
                                 count : 0 .. MaxSize, place : Stale .. Past]]

(* No piece goes beyond the input, though batched never looks for its end,  *)
(* and a piece the client may look at is not empty.                         *)
StaysInside ==
    \A i \in DOMAIN iter :
        /\ iter[i].sub <= End
        /\ Fresh(i) /\ ~AtEnd(i) =>
               Piece(i) # << >> /\ \A k \in DOMAIN Piece(i) : Piece(i)[k] < End

(* operator== tells Iterators at the same place from others, the end from   *)
(* the last piece, and an Iterator that was moved from its copies; when     *)
(* there is no piece, begin() is end(): size 0 (test_chunked.cpp:78), and a *)
(* window that does not fit (test_sliding_window.cpp:62).                   *)
EqualIffSamePlace ==
    \A i, j \in DOMAIN iter : Fresh(i) /\ Fresh(j) =>
        (Equal(i, j) <=> iter[i].place = iter[j].place)

Promise == INSTANCE InputIterator
    WITH yields <- Pieces, at <- [i \in DOMAIN iter |-> iter[i].place]

(* An Iterator yields the pieces README.md:770-847 shows, each once and in  *)
(* order, whatever is done with the Iterators it shares no buffer with.     *)
ImplementsInputIterator == Promise!Spec

(* The Iterator that i++ returns yields the piece i was at (README.md:98:   *)
(* the iterators are InputIterators "and behave as such").                  *)
PostIncrementYieldsCurrent ==
    [][\A i, j \in Its : PostIncrement(i, j) => buffer'[iter'[j].buf] = Piece(i)]_vars

============================================================================
