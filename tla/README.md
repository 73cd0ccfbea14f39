# Verification of cppitertools

cppitertools is a header-only C++17 library of lazy range adaptors: the tools of
Python's itertools and a few more. Nothing in it runs concurrently, persists
data or sends messages. What makes it hard is that every tool hands out
*iterators*, small mutable objects that a client may copy, assign, compare,
dereference, increment and destroy in any order, and that some of these objects
share state with each other or do work in a destructor. The specifications here
are about exactly that: the states that sequences of legal calls on several
objects can reach.

1. [The system](#1-the-system): the inventory of parts and what makes them correct
2. [The modules](#2-the-modules): how state and actions correspond to the code
3. [What is checked](#3-what-is-checked): each run, its bounds, and what it shows
4. [What is proved](#4-what-is-proved)
5. [Disagreements between code and documentation](#5-disagreements-between-code-and-documentation)
6. [What is not modelled](#6-what-is-not-modelled)
7. [Plan](#7-plan)

To repeat a run: `tlc -config MCGroupBy.cfg MCGroupBy.tla`; to check a proof
module: `tlapm GroupByProofs.tla`.

## 1. The system

Paths are relative to `src/cppitertools/`. A tool's function returns an object
that owns its input or refers to it; `begin()` and `end()` of that object make
iterators, and only the iterators do any work.

| Part | State of one iterator | Shared between iterators |
|---|---|---|
| `groupby.hpp` | `sub_iter_`, `item_`, `current_key_group_pair_` | each `Group` points to the iterator that made it (`owner_`), each `GroupIterator` to its `Group`; `~Group` advances the owner |
| `filter.hpp`, `filterfalse.hpp`, `takewhile.hpp`, `dropwhile.hpp`, `unique_everseen.hpp` | `sub_iter_`, `item_`; the first element is read at first use, from const members | the predicate; that of `unique_everseen` has state, the set of elements seen |
| `chunked.hpp`, `batched.hpp`, `sliding_window.hpp` | `sub_iter_`, a `shared_ptr` to a buffer; `size_` and `count_` of `batched` | an iterator's copies share its buffer |
| `combinations.hpp`, `combinations_with_replacement.hpp`, `powerset.hpp` | a vector of iterators of the input, `steps_`; `powerset` holds an iterator of `combinations` | nothing that changes: `powerset` shares its `combinations` objects |
| `permutations.hpp` | `working_set_`, `steps_` | nothing |
| `product.hpp` | a tuple of iterators | nothing |
| `range.hpp`, `count.hpp`, `repeat.hpp` | a number; floating ranges also `steps_taken_`; whether it is `end()`; `repeat` without a count: a pointer | nothing |
| `zip.hpp`, `zip_longest.hpp`, `imap.hpp`, `starmap.hpp`, `enumerate.hpp`, `reversed.hpp`, `slice.hpp`, `compress.hpp`, `cycle.hpp` | one or more iterators of the inputs, a counter | nothing |
| `accumulate.hpp` | an iterator and `acc_val_` | the function |
| `chain.hpp` | `index_` and a tuple of iterators; `from_iterable`: `top_level_iter_`, `sub_iter_p_`, and `sub_iterable_` by value or by reference | nothing |
| `sorted.hpp` | an iterator into a vector of iterators | that vector, one of two that a view fills at the first const or non-const `begin()` and that move with it |
| `unique_justseen.hpp` | `imap` over `groupby` | as `groupby` |
| `internal/iterbase.hpp` | `DerefHolder` (`item_` above), `dumb_next`, `dumb_advance`, function objects for the pipe form, of which those of `sorted` and its like hold a comparator or function in a mutable member | that member, between applications of one object |
| `internal/iteratoriterator.hpp` | an index into a vector of iterators | the vector |
| `internal/iterator_wrapper.hpp` | a variant of `begin()`'s and `end()`'s type | nothing |
| `internal/iter_tuples.hpp`, `itertools.hpp` | none | nothing |

Parts interact by calls only: a tool's iterator calls the operators of its
input's iterators, the user's function, and in four places another tool
(`imap` is `starmap` over `zip`, `powerset` uses `combinations`, `count` is a
`range`, `unique_justseen` maps over `groupby`). In `groupby` the calls go both ways:
the iterator makes and destroys Groups, whose destructor and whose iterators
increment the iterator. And the client interacts with all of them: the loops the
examples write are a component of their own here (`GroupLoop`).

What is hard here, and therefore what the properties are about (PROJECT.json
lists every case with its line):

* **Sequences of calls on several objects.** Which of a Group, its
  GroupIterators, a Group moved out of it and the outer iterator advances the
  shared position; assignment over an object whose old part still has a
  destructor to run; the copy that `it++` returns.
* **State read earlier and used later.** The element held in `item_` against
  `sub_iter_`; the key a Group stored; a buffer refilled under a copy; the view
  `sorted` keeps.
* **Laziness in const members.** The first `!=`, `*` or `++` of a filtering
  iterator reads the input; each mix of these must find the same first element.
* **Ownership.** `chain.from_iterable` iterators own the container they are in when
  the input yields it by value, `sorted` views own the container their vectors
  point into; copies and moves must not leave positions in what is gone.
* **A step that fails half way.** A comparator that throws while a vector is
  being filled and sorted.
* **Edges.** Lengths and sizes 0, 1, equal to and beyond the input's; inputs of
  different lengths; empty inputs among others; iterators of the input that
  must not be moved past its end; numbers at the limits of their type.
* **`operator==` as the only end test.** Several tools compare less than the
  whole iterator, so that equality with `end()` is right and other comparisons
  may not be.

What makes each part correct:

* *All tools* (README.md:98, "All iterators that work over another iterable are
  tagged as InputIterators and behave as such"): an iterator goes through one
  sequence of elements, defined on the whole input at once, one per increment;
  `==` with `end()` holds after the last one, no sooner and no later; equal
  iterators are at the same place; no iterator of the input leaves it.
* *groupby*: groups are the maximal runs of equal keys; a group yields only
  elements of its run; the next group starts at a change of key, however the
  last one was left (groupby.hpp:188).
* *filtering tools*: each element is read, and the predicate called on it, at
  most once (test_mixed.cpp:49).
* *buffering tools*: pieces never reach beyond the input; a buffer lives as long
  as an iterator refers to it.
* *chain.from_iterable*: a position that may be used is in a container that exists,
  and it is the container the iterator says it is in.
* *sorted*: a view meets each element once, in the order asked for; another
  `begin()` does not disturb iterators that exist.
* *loops*: a range-for loop over `groupby` or `unique_justseen` enters every run
  once and ends, whatever its body does with the Group.
* *range*: `size()` is the number of elements and `[n]` is the nth
  (README.md:259-262).

## 2. The modules

| Module | About | Extended or used by |
|---|---|---|
| `PartialFunctions` | `Put`, `Drop`, `Forget`: the live objects of a kind are a function on their names | all |
| `InputIterator` | abstract: what README.md:98 promises | `LazyFilter`, `SharedBuffer`, `PlainIterator`, as `Promise` |
| `Grouping` | abstract: walks over the maximal runs | `GroupBy`, as `G` |
| `GroupBy` | `groupby.hpp` | `MCGroupBy`, `GroupLoop`, `GroupByProofs`; through `GroupLoop`, `GroupLoopProofs` |
| `GroupLoop` | the range-for loops over `groupby` and `unique_justseen` | `MCGroupLoop`, `GroupLoopProofs` |
| `LazyFilter` | the five filtering tools | `MCLazyFilter`, `LazyFilterProofs` |
| `SharedBuffer` | the three buffering tools | `MCSharedBuffer`, `SharedBufferProofs` |
| `HeldChain` | `chain.from_iterable` over containers yielded by value | `MCHeldChain`, `HeldChainProofs` |
| `Sorted` | `sorted`, its pipe form, and `IteratorIterator` | `MCSorted`, `SortedProofs` |
| `PlainIterator` | a client of iterators that share nothing | `Tools`, `PlainIteratorProofs` |
| `Selections` | `combinations`, `combinations_with_replacement`, `powerset`, `permutations`, `product` | `Tools`, as `S` |
| `Counting` | `range`, `count`, `repeat` with and without a count | `Tools`, as `C` |
| `Adaptors` | the tools that iterate over their inputs as they are, and `IteratorWrapper` | `Tools`, as `A` |
| `Tools` | any tool of the three modules above under `PlainIterator`'s client | `MCTools`, `ToolsProofs` |

The `MC...` modules hold the finite sets that TLC works with and the symmetry of
the object names. Operators named `Wrong...` are plausible mistakes in the
operator that follows them. No specification uses them: each property is
known to fail when one of them replaces its right counterpart.

**Common conventions.** An input is a sequence of elements, and an iterator of
the input is a position in it, from 1 to `End`, the position of `end()`. A
user's function or an element is symbolic wherever no property depends on what
it computes. A client is the `Next` of the module: any number of named objects,
on which it calls any operation at any time that the language and the
documentation allow. A dereference or an increment needs an iterator that is
not at the end; everything else a client must not do is named at the guard that
forbids it. Variables marked *(history)* in the modules record what the
properties compare with; no guard of the code's own behaviour reads them, except
that the place of an iterator says whether the *client* may use it and caps the
number of increments (`MaxPlace`).

### GroupBy and Grouping

| Variable | Code |
|---|---|
| `keys` | the key function's value for each element of `container_` |
| `iter` | the `Iterator`s: `sub` is `sub_iter_`, `item` the element `item_` holds (0: none) |
| `pair` | the iterators whose `current_key_group_pair_` has a value, with its Group |
| `group` | the `Group`s: `owner_`, `key_`, `completed` |
| `cursor` | the `GroupIterator`s not at their end: `group_p_` |

Actions: `Construct`, `Copy`, `Assign`, `Deref` (`set_key_group_pair`),
`PreIncrement`, `PostIncrement`, `Destroy` are the Iterator's; `GroupBegin`,
`GroupIncrement`, `GroupBreak` a Group's begin and its iterators;
`MoveGroup` and `DestroyMoved` a Group's move constructor and the destructor of a
moved-out Group. Every action that ends a Group includes the loop of its
destructor (`OwnerAfter`), which is one step because nothing else runs in
between.

Three client habits that code compiles and runs with, and that break its promises,
are constants: `"assign_open"` (assigning over an iterator whose Group is
unfinished), `"keep_moved"` (advancing an iterator while a Group moved out of it
is unfinished) and `KeyAliases` (a key function that returns a reference into
its argument, for an input that yields values). Without them `GroupBy`
implements `Grouping`, which has no Groups, flags or destructors: walks that are
inside a run or between runs. The mapping is `at = sub_iter_` and `open =` the
iterators with an unfinished Group.

### LazyFilter

`iter` holds `sub_iter_` and `item_` of each iterator and counts its reads and
predicate calls. `Initialised` is `init_if_first_use`, which every observing
member calls first; `Settled` is what follows a read (`skip_failures`,
`skip_passes` or `check_current`). An iterator's place, for the refinement, is
where a client *would* find it if it looked now, so that the lazy first read is
invisible to the abstract specification: a stutter. The mapping counts with `Rank`
how many elements the tool yields before that place. `seen` belongs to the one predicate
object of `unique_everseen`; the habit `"share_seen"` lets several of its
iterators be used.

### SharedBuffer

`buffer` maps each live buffer to its contents; `iter` holds `sub_iter_` and the
buffer's name, so sharing is explicit. Copies of an iterator that has been
incremented are `Stale`: an InputIterator's copies need not survive an
increment, so `InputIterator` allows a Stale copy to be assigned to and
destroyed only. `Pieces` defines the chunks, batches and windows on the whole
input. `Begin` and `Finish` are `begin()` and `end()`, which differ in the position
they give the constructor (`Make`). They are two actions because the position is
not a function of the place: with size 0, or a window longer than the input, there is
no piece and both are at the one place there is, but `end()` is made of the end, `begin()`
of `chunked` and `batched` stays at the first element, and `begin()` of `sliding_window`
goes to the end.

### GroupLoop

The program of `examples/groupby_examples.cpp` and of the README, over `GroupBy`:
`pc` is its place, `tool` what it loops over, `seen` what the current pass has read
(history). Each step is one call on the loop's own objects: the iterator `It`, the
end `Last`, the Group in the pair, a local variable the body may move it into,
and the iterator of the inner loop. In `"held"` the body chooses: skip the
Group, read it, read a part of it and break off, or move it out first.
`unique_justseen` dereferences by making a Group, beginning it and taking one
element (`JustSeen`). `Keep`, in `KeepingSpec` only, is the body that pushes
its Groups into a container that outlives the pass.

### HeldChain

`sizes` is the input, one length per container; `iter` holds `top_level_iter_`,
which container `sub_iterable_` holds (`held`), and `sub_iter_p_` and `sub_end_p_`
as positions that name the *Iterator whose container they are in* (`of`). That name
is what matters: a copy has its own container and positions in another's.
Replacing or destroying a container turns the positions in it to `Freed`
(`Without`). The client may only assign to or destroy an Iterator whose position
is freed (`Lost`). That a copy can be lost through no action of its own is the
`held_chain_copies` run; the other runs show that nothing worse happens. `Elements`
is the set of the containers' elements, `Before` their order, and `Rank` the number
of an element in it, which is the place an Iterator must have come to.

### Sorted

`type` says whether containers have a const `begin()`, without which the view is
filled by its constructor, and whether elements are inside the container
(`std::array`), so that moving it moves them. `store` holds the containers, the
client's and those that views own; `view` the `SortedItersHolder`s: their
container, comparator, and the two vectors, whose contents are in `cells`;
`partial` the object `sorted(compare)` that the pipe form applies; `iter` the
`IteratorIterator`s. `Populated` is `populate_sorted_iters`: nothing if the vector
is not empty, else the iterators in any order `std::sort` allows, and, when
`Throwing`, also what a throwing comparator or `++` leaves behind. `Move`
leaves an empty holder behind. Two client rules: the client's container does not grow
once a view of it has been begun, and a view that owns an inline
container is moved only before that.

### PlainIterator, Selections, Counting, Adaptors, Tools

Iterators of these tools are values: a copy shares nothing. `PlainIterator` is
the client, with the operators of the tool (`Begin`, `Finish`, `Step`, `Value`,
`Same`, `HasEnd`) and its promise (`Yields`) as operator constants; three
modules define these operators from the code, one set per tool, and `Tools` puts
them together and instantiates the client. A *source* is a tool with its arguments, chosen in
`Init` and never changed. `Yields` never refers to the algorithm: it is the
sequence of all selections in lexicographic order, the multiples of the step
before the stop, the elements whose selector is true, and so on. Where the code
loops over its iterators and stops at the first that fits, the model names that one:
`CombStep` and `ReplStep` the last index that has room to move, `ProductStep` the last
input that does not wrap around. `Allowed` says which sources there can be: any
number of inputs of any lengths, and arguments of the tool's types that keep the
client's rules `Fits`; it is an assumption of `Tools` (`SourcesAssumption`), which TLC
checks of the sources of the `tools` run and the theorems rest on.

`Counting` keeps the widths of numbers: `Stored` is the conversion to a type of
`Width` bits, `Computed` the promotion to int, and the four kinds are unsigned,
narrower than int, int, and floating without rounding. `Fits` asks that the last
increment is a number of the type, and, of ranges that have elements, that the distance
`size()` divides is one; of the others `size()` is 0 before it computes any. For int, an overflow is
undefined in C++; `Fits` keeps the passing run away from it, and the wrap-around
only matters outside `Fits`. `Adaptors` does the same for `slice`'s
`DifferenceType`.

**Fairness.** A client may stop at any time, so the modules of the parts assume none,
and there that a loop ends is stated as safety, by the place at which `end()` is found
and by a bound on the increments before it. `GroupLoop` is a program, and a
sequential program that can take a step takes one: weak fairness of its next
step, `WF_loopVars(LoopNext)`, nothing about which step the body chooses. The body
can not read for ever, because a Group is finite; so `Terminates` holds by
what `++` and `~Group` do, not by the choice.

## 3. What is checked

TLC finishes the `sorted` run in about two minutes and every other one in less than
one. Deadlock is checked in all but the two of `GroupLoop`, where the program ends:
elsewhere a client can always destroy or construct something.

| Run | Bounds | Shows |
|---|---|---|
| `groupby` | 2 keys, up to 3 elements, 2 iterators, 3 Groups, 2 GroupIterators | types, `ItemFresh`, `OpenGroupInRun`, `OneOpenGroup`, `NextGroupAtKeyChange`, `AssignTakesPosition`, refinement of `Grouping` |
| `group_loop` | 3 keys, up to 5 elements, every choice of the body | `NextRunEntered`, `YieldsOwnRun`, `Terminates` |
| `lazy_filter` | 3 elements, inputs up to 4 long, every predicate, 2 iterators | types, `StandsOnYielded`, `ReadsOnce`, `PostIncrementYieldsCurrent`, refinement of `InputIterator` |
| `shared_buffer` | inputs up to 5 long, sizes 0 to 4, 3 iterators and buffers | types, `StaysInside`, `EqualIffSamePlace`, refinement of `InputIterator` |
| `held_chain` | up to 3 containers of up to 2 elements, 3 iterators | types, `PointsIntoItsContainer`, `YieldsAllInOrder` |
| `sorted` | 2 views, 1 iterator, containers of up to 2 elements and 2 values, containers with and without a const `begin()` and with inline elements or not | types, `EachElementOnce`, `SortedAsAsked`, `IteratorsStay` |
| `tools` | 2 iterators over each of: selections from inputs up to 4 long of lengths up to 5, with replacement 3 and 3, permutations of up to 3 elements, equal ones too, and of `<<2, 1, 2, 1>>`, products of 1 to 3 inputs of 0 to 3 elements; every range of 3-bit numbers of four kinds that fits, repeats of -1 to 3 and without a count; up to 3 inputs of 0 to 3 elements, selectors up to 4 long, slices of up to 4 elements with start and stop from -2 to 5 and step from -1 to 3 in 4-bit differences, 40 elements of `cycle` | types, `EndFoundAtPast`, `EqualIffSamePlaceOrTurn`, `StaysInside`, `SizeCountsElements`, `IndexIsNth`, refinement of `InputIterator` |
| `groupby_assign_open`, `group_loop_keep_moved`, `shared_buffer_post`, `held_chain_copies`, `sorted_throwing` | as above or smaller | section 5 |

Why the bounds are enough to meet the interesting cases:

* *Objects.* Most properties relate at most two iterators, and the third object
  in `shared_buffer` lets two share a buffer while a third has its own; in
  `held_chain` it is a copy of a copy, which outlives the one between. In
  `groupby` three Groups are a pair's, one moved out of it and the next one. In
  `sorted` two views are one moved to the other or two of the same container; each
  has two vectors, and an iterator of one of them is there while any of the four is
  filled, moved or destroyed.
* *Inputs.* Three elements with two keys have all shapes of runs: one run, a run of
  two before or after one of one, three runs of which two have the same key;
  the loop's five elements have a run of two between others, left in the middle.
  Four elements for a filter have skipped elements before, between and after
  the kept ones, and repetitions. Three containers have an empty one first,
  between, last, and two empty ones in a row. Two elements are enough for a vector
  that is not sorted, or to lack one of them.
* *Sizes.* Sizes go from 0 to beyond the input's length, so that equal, shorter,
  longer, divisible and indivisible all occur; there, and with size 0, `begin()` and
  `end()` of the buffering tools are made apart and must be equal. `MaxPlace`, 40, is above the number of
  elements of every source, so that it never stops an iterator that is not at
  the end, except for `cycle`, which it cuts off, and `repeat` without a count.
* *Numbers.* With 3 bits every combination of signs, of stops on and off
  the steps, and of ends at both limits of the type occurs; the
  width enters the code through overflow alone.

Object names, and the elements or keys where only equality matters, are model
values under symmetry. The runs of `GroupLoop`, which check a property
under fairness, have none.

What the properties say beyond the refinements: `ItemFresh` and
`StandsOnYielded` relate the cached element to the position, which a refinement
alone would see only if the client looked; `StaysInside` is about iterators of
the input that the tools never show; the equality properties state
comparisons that range-for loops never make. `EqualIffSamePlaceOrTurn` names the
tools whose `operator==` is only good for finding the end: `product` compares as
different only iterators that differ in every input, floating ranges with a negative
step and `repeat` without a count compare as different even to their copies, and
`cycle` compares equal a whole turn later. In `Sorted`, `IteratorsStay` is about the
second `begin()` of a view with iterators out, and `SortedAsAsked` also about a
partial that is applied twice.

## 4. What is proved

TLC's runs are about a few objects and short inputs. The theorems hold for every
value of the constants.

**GroupBy** (`GroupByProofs`), for any key set, any length
bound and any number of iterators, Groups and GroupIterators:

* `TypeCorrect` and `ItemsFresh`: types, and `ItemFresh`, whatever the client does, the
  habits included.
* `AssignmentCopies` (with `Habits = {}`): `AssignTakesPosition`.
* `GroupsStayInRuns`, `GroupsAreAlone` and `GroupsFollowRuns` (with `Habits = {}` and
  `KeyAliases = FALSE`): `OpenGroupInRun`, `OneOpenGroup` and `NextGroupAtKeyChange`.
* `GroupByImplementsGrouping` (the same assumptions): the refinement.

The inductive invariant is `Core /\ Runs`. `Core` adds two facts to the types
without which they are not inductive: a pair's Group belongs to
its iterator (`PairOwned`), and the owner of an unfinished Group is alive
(`OwnerAlive`); the first keeps `ResetPair` from destroying another's Group, the
second keeps `~Group` from advancing an iterator that is gone. `Runs` adds to
the three properties that the owner of an unfinished Group has its pair set
(`OpenHasPair`): `operator*` makes a Group only where there is no pair, so without it a
second Group could be made beside one that was moved out and is unfinished. The
three properties need each other: that
an iterator between groups is at a change of key follows from the run its last
Group was in, and that this run is known follows from there being one Group. The
lemmas `OwnerAfterType` and those on `LoopStops` say where the destructor's loop
leaves the owner, and each action then has its own lemma.

**GroupLoop** (`GroupLoopProofs`), for inputs of any length, any keys and every choice
the bodies make:

* `LoopIsClient`: `LoopSpec` implies `GroupBy`'s `Spec`, so every theorem above holds of
  the program too.
* `RunsEnteredInOrder` and `RunsReadInOrder` (with `Habits = {}` and
  `KeyAliases = FALSE`): `NextRunEntered` and `YieldsOwnRun`.

The inductive invariant is `LoopInv`, beside `Core` and `Runs`. What it adds is where
the iterator is: between two passes at the end of the last pass's run (`Between`);
in a pass there too, unless a Group is unfinished, and then that Group's run is the
pass's (`Inside`); and while the body reads, at the element that comes next, or after
`*` at the last one read (`Reading`). Without it `++`, which relies on the destructor of
a Group for the rest of the run, could not be shown to reach the next run's
first element. `RunEndJoins` says that the end of the run from an element of it is the
end of the run from its start, which makes a Group left in the middle the same as
one read to its end.

**LazyFilter** (`LazyFilterProofs`), for inputs of any length, any predicate and
any number of iterators:

* `TypeCorrect` and `ElementsReadOnce`: types, and `ReadsOnce`, whatever the client
  does, the habit `"share_seen"` included.
* `OnYielded`, `FiltersImplement` and `PostIncrementYields` (with `Habits = {}`):
  `StandsOnYielded`, the refinement of `InputIterator`, and
  `PostIncrementYieldsCurrent`.

The inductive invariant is `Core /\ Inside`. `Core` adds to the types where the reads
of an iterator have come to (`Placed`): none as long as `item_` is empty, and then it is
at the beginning or at the end; otherwise up to `item_`, which is the current element
unless it is at the end. `Inside` says what `unique_everseen`'s predicate has seen when
an iterator stands somewhere: exactly the elements up to that one; without it, "was not
seen" could not be related to "is the first of its kind". `SkipLoopStops` and
`SkipLoopEnds` say where the skipping loop ends and that it does, so that the place of an
iterator (`Found`) is unique (`FoundIs`); the lemmas on `Rank` turn places in the input
into places in what is yielded. A first look changes no `Found`, which makes it a
stutter of `InputIterator`.

**SharedBuffer** (`SharedBufferProofs`), for inputs and sizes of any length, 0 included,
and any number of iterators and buffers:

* `TypeCorrect`, `Inside`, `EqualByPlace`, `BuffersImplement`: types, `StaysInside`,
  `EqualIffSamePlace` and the refinement.

`Core` says that an iterator that is not Stale stands in the input where its place says
(`SubAt`, in closed form for each tool, and left open for chunks and batches of size 0,
whose `begin()` and `end()` are at different positions and the same place), that its buffer
holds the piece at that place
(`Holds`), and that `batched` has counted as many pieces (`StandsAt`). The lemmas
`...Fills` show that each constructor and increment leads from one place to the
next; for `batched`, whose pieces differ by one in size, they are about quotients
and remainders. The refinement needs `Sharing` besides: iterators that share a buffer
and are not Stale are at the same place, so that an increment makes Stale only what
`InputIterator` lets it. This proof met two overlapping cases in `Pieces` for
size 0, of which TLC had silently taken the first; the definition now has one.

**Sorted** (`SortedProofs`), for containers of any length and any number of views,
vectors and iterators:

* `TypeCorrect` and `IteratorsKept`: types, and `IteratorsStay`, throwing comparators
  included.
* `EachOnce` and `AsAsked` (with `Throwing = FALSE`): `EachElementOnce` and
  `SortedAsAsked`. With `Throwing = TRUE` they are false (section 5).

`Core` adds to the types that no two views own one container (`Owners`), that each
vector is one of one view's two and a moved-out view has none (`VectorsApart`), and that
a view compares as was asked, as does the partial (`AsksWhatWasAsked`). `InOrder`
says that every filled vector is one of the orders that the comparator allows for the
container as it is now; it needs the ownership of `Core`, since filling,
moving or destroying one view must leave the vectors of the others in place.

**HeldChain** (`HeldChainProofs`), for any number of containers of any sizes, empty
ones included, and any number of Iterators:

* `PositionsHold`: `PointsIntoItsContainer`.
* `TypeCorrect` and `AllInOrder`: types, and `YieldsAllInOrder`.

The inductive invariant `Inv` says where *every* Iterator stands (`Stands`): its
position is freed, or it is in an Iterator that exists and that holds the
container the position is taken for. The property alone does not
say that the holder exists, so that making an Iterator of that name, or assigning
to one, could break it. `WithoutHeld` says that
replacing a container frees exactly the positions in it, `ReplaceHeld` that an
Iterator nobody stands in may be replaced by any that stands, and each action is
a combination of the two. `NextSubStops`, with `Least`, says where the search for
a container that is not empty ends. The two other theorems add `AllCount`: the place
of an Iterator is the `Rank` of its element, or `Past` at the end. It counts
the elements before one as a set, so that passing over empty containers
(`NextSubCounts`) adds none.

**Plain iterators** (`PlainIteratorProofs`). A source is *faithful* if its
iterators have a walk, the iterator `begin()` returns and what `++` makes of it,
along which `*` is the promised sequence and only the last one equals `end()`. These
are conditions on five operators, with no client in them. Given a walk for every
source:

* `StaysPlaced`: every iterator a client holds is the walk's at its place, or
  one that `end()` made (the inductive invariant `Placed`).
* `TypeCorrect`, `LoopsEnd`: no iterator goes past the end, and a loop ends
  exactly after the last element.
* `EqualityIsPlace`: if equality tells the places of the walk apart, it does so
  for all iterators.
* `FaithfulImplements`: the tool implements `InputIterator`.

**Tools** (`ToolsProofs`). All 22 tools of `Selections`, `Counting` and `Adaptors`
are faithful, for any number of inputs of every length, numbers of every width and
all arguments that `Allowed` admits. Hence every property of the `tools` run is a
theorem, with no assumption but those that `Tools` states:

* `TypeCorrect` and `ToolsLoopsEnd`: types and `EndFoundAtPast`.
* `ToolsImplement`: the refinement of `InputIterator`.
* `ToolsStayInside`: `StaysInside`.
* `ToolsEquality`: `EqualIffSamePlaceOrTurn`.
* `SizeIsLength` and `IndexIsElement`: `SizeCountsElements` and `IndexIsNth`.

`SourcesAre` splits the tools into two kinds.

* *Walks in closed form* (`Stepping`): `zip`, `imap`, `zip_longest`, `enumerate`,
  `accumulate`, `reversed`, `starmap` over a container and over a tuple, `cycle`, `range`,
  `repeat` with and without a count, and an input with a sentinel. `After(s, p)` is the
  iterator after `p - 1` increments, and each tool's lemma shows that `Step` leads
  from one to the next. For `range` this needs that the conversions to the type are
  the identity where `Fits` holds; `size()`, computed with a division that cuts towards 0,
  is compared with the number of multiples by `RoundedUp`; for `cycle` the lemma
  `Rest` says what equality a turn apart is.
* *Walks through a set in order* (`Picking`): `compress`, `slice`, `chain`,
  `chain.from_iterable`, the two `combinations`, `powerset`, `permutations` and `product`.
  Their promise is a set of elements and a total order (`Orders`), and `Listing` is the
  sequence of the set in that order. `Lists` states what is asked of such a tool:
  `begin()` is at the first of the set, `++` goes to the one that `Follows`, and past the
  last to `end()`. `ListsKeeps` makes a walk of it, with `WalkIn`, which takes the place
  of an induction along the walk: the shortest stretch that `Step` does not make
  can be shortened. For the selections `NextInOrder` is the central lemma: what follows
  a tuple in lexicographic order is one more at an index, where nothing that agrees with the
  tuple up to there is greater after it, and nothing that agrees with the new
  one is less. It is what `operator++` does, for
  combinations of one length, with repetitions, and for `product`.

The lemmas on numbers and sets (`Multiples`, `RoundedUp`, `Rest`, `FirstDifference`,
`FinitelyMany`, `GreatestOf`) replace inductions by the least element of a set of
naturals and by counting finite sets, as the prover has no induction over data. For the same reason
the promises of `Counting`, `Adaptors` and `Selections` count (`Cardinality`) rather than fold.

**Only model-checked:** `Terminates` of `GroupLoop`, which is liveness under fairness and out
of the prover's reach, as is `ENABLED`. Every invariant and action property that a passing run
checks, and each refinement, is also a theorem. No module declares a
`RECURSIVE` operator. The theorems are about the same definitions that
the runs check. Their assumptions are those on the constants, which TLC evaluates, and
where named `Habits = {}`, `KeyAliases = FALSE` or `Throwing = FALSE`, the client that
keeps the library's rules; the runs of section 5 show what the others meet.

## 5. Disagreements between code and documentation

Each of these is a run in which TLC finds the property violated by what the code does.

* `groupby_assign_open` (groupby.hpp:98): `operator=` assigns the position
  first and destroys the old Group after that; the destructor of an unfinished Group then
  advances the position just assigned.
* `group_loop_keep_moved` (groupby.hpp:121): a Group moved out of the pair leaves a
  completed one behind, so `++` advances nothing while the moved Group is
  unfinished, and the loop that stores its Groups in a vector never ends. The
  counterexample is a behaviour of the program, under its fairness.
* `shared_buffer_post` (chunked.hpp:92, and the same in `batched` and
  `sliding_window`): the copy `it++` returns shares the buffer that the
  increment refills.
* `held_chain_copies` (chain.hpp:280): the copy of an iterator over containers yielded by
  value points into the container that the original owns, and dangles when
  that is destroyed or goes on to the next container.
* `sorted_throwing` (sorted.hpp:83): a `begin()` that throws leaves a vector that
  the next `begin()` takes as sorted.

Others are met by the models and kept out of the passing runs by a client rule,
which is named where the model states it:

* groupby.hpp:183: the key is stored as the key function returns it; a reference
  into the held element makes the Group compare each element's key with itself
  (`KeyAliases`).
* unique_everseen.hpp:30: the set of seen elements is shared by all iterators,
  and a copy of a fresh one finds its first element after the original has marked it
  as seen, so that `*it++` yields a later element (`"share_seen"`).
* range.hpp:51: a range of an unsigned type whose last increment leaves the type goes on
  for ever, while `size()` is finite (`Counting`'s `Fits`).
* slice.hpp:32 and 101: a slice with a negative stop moves a random access iterator
  before `begin()`, though the slice is empty, as test/test_slice.cpp:118
  says of invalid ranges (`Adaptors`' `Fits`).

## 6. What is not modelled

* `iter_tuples.hpp`, `itertools.hpp`, and most of `iterbase.hpp`: type
  computations and includes. Of the function objects of the pipe form, the one with
  a comparator is in `Sorted`; the others keep a function or a number that does not
  change.
* `IterIterWrapper`'s `at()`, `[]` and reverse iterators, which forward to the vector's
  and change nothing. Pieces of the buffering tools, which are such wrappers, are
  modelled by the positions they hold.
* `product()` of no inputs, which is an array of one empty tuple.
* `const_iterator`s of tools other than `sorted`, and value categories: the same code
  over another type.
* Exceptions thrown by user functions or allocations outside `sorted`, and misuse the
  library cannot detect, such as a Group that outlives its iterator. These are guards
  of the client, or listed as hazards without a property.
* `steps_` of the selecting tools is unbounded in the model and an int in the
  code.

## 7. Plan

The order was: `groupby` first, as the tool with the most state and the only one whose
objects act on each other; then the tools whose iterators share state; then
those whose iterators are values, behind one client; then the tools whose iterators
own what they point into, and the programs that loop. The proofs went along the same
line, and have reached every safety property of the passing runs. What is left, in order:

1. Facts about the promises themselves, which the refinements only refer to: that
   `Sorted`'s views agree when two of them are over one container, that the groups of
   `Grouping` partition the input.
2. Shorter proofs: the lemma `Least` and those on finite sets in order are in more than
   one proof module and could be in one that the others extend.
3. Loops over other tools nested in one another (`groupby` over `filter`, `chain` over
   `chunked`), with the inner tool's increments as the outer's input.
