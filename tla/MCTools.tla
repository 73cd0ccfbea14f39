------------------------------- MODULE MCTools -------------------------------
(* Every tool on small inputs: all ranges of a width and all slices. *)
EXTENDS Tools, TLC

Lists(V, most) == UNION {[1 .. n -> V] : n \in 0 .. most}

Selections ==
    [tool : {"combinations"}, n : 0 .. 4, k : 0 .. 5]
    \cup [tool : {"with_replacement"}, n : 0 .. 3, k : 0 .. 3]
    \cup [tool : {"powerset"}, n : 0 .. 4]
    \cup [tool : {"permutations"}, elems : Lists(1 .. 3, 3) \cup {<<2, 1, 2, 1>>}]
    \cup [tool : {"product"}, sizes : Lists(0 .. 3, 3) \ {<< >>}]

RangesOf(kind) ==
    LET V == C!Values(kind)
    IN  {C!Range1(kind, v) : v \in V} \cup {C!Range2(kind, u, v) : u, v \in V}
        \cup {C!Range3(kind, u, v, w) : u, v, w \in V} \cup {C!Count(kind, u, w) : u, w \in V}

Countings ==
    {s \in UNION {RangesOf(kind) : kind \in {"unsigned", "narrow", "int", "float"}} : C!Fits(s)}
    \cup {C!Repeat(n) : n \in -1 .. 3} \cup {C!Endless}

Slices ==
    {A!Slice(n, random, start, stop, step) :
        n \in 0 .. 4, random \in BOOLEAN, start, stop \in -2 .. 5, step \in -1 .. 3}

Adaptors ==
    [tool : {"zip", "imap"}, sizes : Lists(0 .. 3, 3)]
    \cup [tool : {"zip_longest"}, sizes : Lists(0 .. 3, 3)]
    \cup [tool : {"compress"}, n : 0 .. 3, selectors : Lists(BOOLEAN, 4)]
    \cup [tool : {"enumerate"}, n : 0 .. 4, start : {-1, 0, 3}]
    \cup [tool : {"accumulate", "reversed", "starmap", "tuple_starmap", "cycle", "wrapped"}, n : 0 .. 4]
    \cup [tool : {"chain"}, sizes : Lists(0 .. 3, 3) \ {<< >>}]
    \cup [tool : {"from_iterable"}, sizes : Lists(0 .. 3, 3)]
    \cup {s \in Slices : A!Fits(s)}

MCSources == Selections \cup Countings \cup Adaptors

Symmetric == Permutations(Its)
============================================================================
