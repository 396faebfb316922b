# A TLA+ model of PGM-index

PGM-index is a header-only C++ library of learned indexes: a sorted array is
approximated by linear segments that predict the position of a key up to an
error epsilon. On top of the static index the library has a dynamic container,
a log-structured hierarchy of sorted arrays, and variants of the index: with a
table on top, with a compressed bit vector, in a file, and on points of several
dimensions. A tuner searches for an epsilon. This directory holds TLA+ modules
for the algorithms of all these, TLC configurations that check them on small
instances, and TLAPS proofs, for every instance, about the dynamic container with its
queries and iterators, the linear model and its threads, the static index, the mapped index
and its file, and the tuner.

All paths below are relative to `src/`; `dynamic` is
`include/pgm/pgm_index_dynamic.hpp`, `static` is `include/pgm/pgm_index.hpp`,
`plm` is `include/pgm/piecewise_linear_model.hpp`, `variants` is
`include/pgm/pgm_index_variants.hpp`, `softfloat` is `include/pgm/softfloat.hpp`,
`sdsl` is `include/pgm/sdsl.hpp`.

## Inventory

| Component | State | Operations | What makes it correct |
|---|---|---|---|
| `DynamicPGMIndex`, updates (`dynamic` 38-261) | `used_levels`, `levels`, `pgms`, fixed base and level numbers | two constructors, `insert_or_assign`, `erase`, the flush in `insert` and `pairwise_merge`, `find` | it is an ordered map; vectors cover the levels in use; no level outgrows its size; each index fits its level |
| its queries (`dynamic` 263-395) | none beyond locals of the loops | `range`, `lower_bound`, `begin`, `end`, `empty`, `count`, `size` | the answers of the ordered map |
| `merge`, `lower_bound_bl` (`dynamic` 421-463) | none | merging an older range below a newer one; branchless binary search | sorted output, newest item of each key; the position `std::lower_bound` is defined by |
| `LoserTree` (`dynamic` 471-546) | `losers`, `k` | construction, `min_source`, `delete_min_insert` | the winner is the smallest key, newest level first |
| `Iterator` (`dynamic` 551-667) | `current`, `iterators`, `tree`, `unconsumed_count`, `initialized` | `++`, `*`, `==` | an increment moves to the next live element; a walk ends |
| `OptimalPiecewiseLinearModel` (`plm` 44-296) | two hulls, four extreme points, counters | `add_point`, `get_segment`, `reset` | accepts a point exactly if one line fits all; the segment misses no point by more than epsilon plus rounding |
| `make_segmentation`, `make_segmentation_par` (`plm` 298-380) | one model; chunks and threads | segmentation of a sequence | every key in one segment; the chunks' results in order |
| `PGMIndex` (`static`) | `n`, `first_key`, `segments`, `levels_offsets` | `build`, `segment_for_key`, `search` | the range returned holds the sought key, or its rank |
| `SoftFloat` (`softfloat`) | exponent and mantissa | conversions, `*`, `/` | an error below a half wherever nothing is lost to a width |
| `OneLevelPGMIndex`, `BucketingPGMIndex`, `EliasFanoPGMIndex` (`variants` 56, 356-642) | a table of cells, or an `sd_vector` of the segments' keys | construction, `search` | as `PGMIndex` |
| `sd_vector` (`sdsl` 10150-10530) | high parts in unary, low parts packed | construction, `[]`, rank, select | it holds the numbers it was made from |
| `CompressedPGMIndex` (`variants` 58-350) | levels of compressed segments | construction, `search` | as `PGMIndex` |
| `MappedPGMIndex` (`variants` 653-865) | a file and its mapping | write, load, `lower_bound`, `upper_bound`, `count`, `contains` | what is loaded is what was written; the queries of a multiset |
| `MultidimensionalPGMIndex` (`variants` 881-1213), Morton codes (`include/pgm/morton_nd.hpp`) | Morton codes, an index on them; the iterator's corners, position and misses | `contains`, `begin`, `range`, `++`, `knn` | the points of a box, each once |
| tuner (`tuner/`) | bounds and measurements of a search | two searches for epsilon | it ends, in the bounds given, with an epsilon that meets the constraint |
| C interface (`c-interface/`) | handles | wrappers | errors do not cross the boundary |
| benchmark, examples, tests, vendored `args.hxx`, `catch.hpp`, the rest of `sdsl` | | | outside the library |

The parts interact by plain calls. The dynamic container owns one `PGMIndex` per
level from `min_index_level` on, built over the level's array and asked for a
window before each search in it. `PGMIndex::build` feeds a
`OptimalPiecewiseLinearModel` through `make_segmentation_par` once per level and
turns each canonical segment into a slope, a `SoftFloat`, and an intercept. The
variants use the same `build`: the bucketing one and the Elias-Fano one replace the
descent by a table or a predecessor search, the mapped one derives from `PGMIndex` and
puts its members and the keys in a file. The multidimensional container owns a `PGMIndex` on Morton codes. The tuner
builds and measures one index after the other. An iterator of the dynamic container
holds a pointer to it and positions in its arrays. Only `make_segmentation_par` has
threads, for at least 2^15 points, and only the mapped file outlives a process.

The class `SoftFloat` that the headers of the index name is declared in `softfloat`, which
none of them includes (they include `softfloat_v2.h`, which has no such class): the model is
of the build where it is included before them, the only one that compiles.

What is hard here is history and boundaries more than concurrency: pairs, overwritten
values and tombstones that move through levels over many operations; state that
several conditions keep in step (`used_levels`, `levels`, `pgms`); loops that stop
early on what earlier iterations remembered; the arithmetic at the ends of arrays,
of levels, of buckets and of the key type; a file that may be half written; searches
whose next step depends on a measurement. `PROJECT.json` lists each hazard with its line
and the property that would show it going wrong.

## Modules

```
OrderedMap                 the abstract map
  ^ implemented by
DynamicPGM                 updates and find        -> DynamicPGMProofs
  ^ levels as maps, justified by
LevelArrays                merge, lower_bound_bl
  ^ EXTENDS
DynamicRange               range, on the real merge      -> DynamicRangeProofs
DynamicQueries             lower_bound, begin
  ^ EXTENDS, with LoserTree
DynamicIterator            a query, and the walk from    -> DynamicIteratorProofs
                           the iterator it returns

PiecewiseLinearModel       operators: add_point, get_segment, make_segmentation(_par)
                                                         -> PiecewiseLinearModelProofs
  ^ EXTENDS                    SoftFloat   the type of a slope
Segmentation               the model fed point by point; -> SegmentationProofs
                           chunks segmented by threads
PGMIndex                   build, segment_for_key, search  (also EXTENDS SoftFloat)
  ^ EXTENDS
BucketingPGMIndex          top_level
EliasFanoPGMIndex          pred, on SparseVector (sdsl's sd_vector)
MappedPGMIndex             the file, and the queries on duplicates
  ^ EXTENDS all three
VariantIndexes             an instance is any of the four   -> VariantIndexesProofs

Morton                     the codes of points
  ^ EXTENDS
MultidimensionalPGMIndex   contains, begin, range and its iterator
Tuner                      the two searches              -> TunerProofs

NaturalLemmas              induction and recursion on natural numbers, for the proofs
```

The answers of `DynamicRange`, `DynamicQueries` and `DynamicIterator` are stated with the
operators of `OrderedMap`.

Each `MC...` module extends one of these for TLC and adds the sets its
configurations need.

**OrderedMap** is what the documentation of the container promises: a function from
keys to a value or `Absent`, changed by one assignment or one erasure at a time, and
the answers the queries are compared with.

**DynamicPGM** has the members that change: `used_levels`, `levels`, `pgms`. A level
is a map from keys to items, since its array is sorted with unique keys; an index is
the set of keys it was built on. Actions: the two constructors are `Init`;
`InsertOrAssign` and `Erase` are `insert` of a value or a tombstone, which overwrites
in the buffer (`Overwrite`, `dynamic` 115-119), inserts there (`InsertInBuffer`,
121-125), or flushes into a level in use or a new one (`FlushToUsedLevel`,
`FlushToNewLevel`, 127-144, with `pairwise_merge` 68-112). A whole call is one action:
nothing runs between its statements. `find` is an operator on the state; a level with
an index is searched only in the window the index gives, so a key its index does not
know may be missed.

**LevelArrays** is the other side of that abstraction: `merge` loop by loop and
`lower_bound_bl`. **DynamicRange** runs `range` on it: a slice of each level, found with
`lower_bound_bl` and an upper bound, is merged below what newer levels gave by the same
actions of `merge` that the flushes use, which the module also runs on their own, on every
pair of small arrays.

**DynamicQueries** runs `lower_bound` and `begin` one level per action on arbitrary
contents of the levels (any content can be reached by some updates, so it is not
restricted to what a bounded history gives). **DynamicIterator** goes on from there: the
iterator the call returned, with its tree (**LoserTree**, a function from positions to
entries) set up by the first increment, and an increment split at each call of `step`.

**PiecewiseLinearModel** is a record of the class's members and `add_point`,
`get_segment`, `make_segmentation` and the chunks of `make_segmentation_par` as operators
on it; **Segmentation** feeds it all point sequences of a bounded grid and remembers the
points in history variables, then cuts the same sequence into chunks that threads segment
in any order.

**PGMIndex** builds an index level by level over each input of a set and then answers
searches, one level of the descent per action. Reading outside `segments` and a
`logic_error` are states of their own. `Floating` is part of the instance: `"SoftFloat"`
computes with **SoftFloat**, which has no zero, truncates, and reads a guard bit it may not
have set (either value is tried); `"float"` is a built-in type, which a `SoftFloat` can only
reach by way of `int64_t`. Division and multiplication are the overloads for `int` the code
calls (`softfloat` 172-175, 190-193): the denominator of a slope and the distance of a key are
narrowed to an `int` of `INT_BITS` bits, the sign extended, and the shift by `MANT_BITS` drops
what does not fit `WORD_BITS`. The three widths stand for 32, 23 and 64.

**BucketingPGMIndex**, **EliasFanoPGMIndex** with **SparseVector**, and
**MappedPGMIndex** add their state and replace `search` or add to it;
**VariantIndexes** composes the four, so that one run builds all of them with the same
`build` and holds their searches to the same properties. The file of a mapped index is a
sequence of units, one per member, size or element, written one per action, with the
process gone after any of them. A file is loaded as the constructor does it, without a look at
the header: of one that was not patched the keys begin at its first unit, and what lengths
read from it would make of the other members is the state `"undefined"`. What is asked of such
an object is not followed.

**MultidimensionalPGMIndex** constructs a container and runs one query on it: `contains`,
`begin`, or the walk of a box, one code of `advance` per action. Of its inner index only
what run Index shows of one with accurate slopes is assumed: `search` returns any range that
holds the lower bound; for a code above the last one it ends at `n`, or, where the codes end
in a run of equal ones, anywhere behind the run's beginning.

**Tuner** takes a measured time and a guess for anything, and the size of an index for a
function that never grows with epsilon. A measurement is begun in one step and ends in
another, or never: it builds an index with `double` slopes and upper levels.

## Runs

Every run below passes unless it says otherwise. `PROJECT.json` names the mutant of
each property: a definition marked "Variant for testing the properties" replaces the
one after it, and TLC then finds the property violated.

| Run | Question | Bounds |
|---|---|---|
| Base2 | types, vector lengths, sizes, freshness of indexes | base 2, buffer of 3, 5 keys, 1 value, levels up to 4, bulk loads of up to 5 pairs, `levels.resize` to 3 slots instead of 32 so that `levels` has to grow |
| Base4 | an ordered map, as `find` sees it | base 4, buffer of 5, 6 keys, bulk loads of up to 17 pairs (duplicates included) |
| Merge | `merge`, `lower_bound_bl`, `range` | all pairs of arrays over 4 keys, live or erased, with and without `SkipDeleted`; keys sought between and beyond; `range` on all contents of 3 levels over 3 keys, with bounds among, below and above them and in the wrong order |
| Reads | `lower_bound`, also as `begin` calls it; winner of the tree, counter, the successor of each element, the end of each walk | all contents of 3 levels over 3 keys, all arguments, so that the tree has a padding leaf or not |
| Segments | hulls against a direct test for a line; how far a segment's line, through its rounded intercept, passes from its points; the chunks of 2 and 4 threads | epsilon 1, 6 points, distances 0, 1 and 3 in x, 1-2 in y |
| Index | when `SoftFloat` is accurate; the segment the descent ends in; the range returned; the variants' own state; the mapped file and its queries | Epsilon 1; EpsilonRecursive 0 and 1, levels scanned and bisected, one thread and two (chunks from 6 points on instead of 2^15); slopes of `SoftFloat` with 10 bits of mantissa, words of 22 and an `int` of 6, and of a built-in type where no upper levels are built; keys up to 63; tables of 3, 5 and 8 buckets; all sorted inputs of 1-5 keys out of 7 (1-4 for the variants), also followed by the largest key, inputs of 7 runs (5 for tables and vectors), single keys five apart or four equal ones, and for the mapped index runs longer than any range; every key up to just above the last sought, and the largest below `KeyMax` |
| Multidimensional | the points of a box; `bigmin`; `contains`; an increment returns, unless the codes end in a run | two coordinates, up to 4 points below 3 (duplicates included, and one too wide), all boxes with corners below 4 and one up to the largest corner, `miss_threshold` 1 instead of 64 |
| Tuner | bounds, end and answer of both searches | epsilons 2-14, first step 1 instead of 2048, every time among five around `max_time` and its tolerance, all sizes in four steps |
| PastTheEnd | violation: a range that ends before `n` for keys above the last, with a run of duplicates at the end | inputs of 1-7 keys, EpsilonRecursive 1, `SoftFloat` |
| SoftSlopes | violation: a key that is present and outside the range | short inputs, `SoftFloat`, one level |
| LastBucket | violation: a key in the last bucket and not in its segment | a table of two buckets over the whole key type |
| SkippedPoint | violation: an element of the box that the walk leaves out | as Multidimensional |

One value is enough in `Base2` and `Base4`: an update never looks at a value, only at
whether it is a tombstone, and the proof below holds for every set of values. The map is
looked at in `Base4` only: with base 2 and these bounds a flush finds its target empty,
while base 4 merges into levels that hold items.

Why the bounds are enough. A flush in base 2 needs four different keys, a level is
passed over once it holds the next flush, and the last level is merged into when keys
are overwritten or erased, so five keys and levels up to 4 reach every branch of
`insert` and `pairwise_merge`; the checks of a mutant in each branch confirm it. In
`lower_bound` and `range` a level interacts with the set of what newer levels left,
which three levels and three keys tell apart; the same holds for the iterator, with
a tree of two or four leaves. Six points are enough for a hull to be pruned and the
pruned point to matter afterwards (the shortest counterexample of the mutant of
`AcceptsOnlyStabbable` has six), and for a chunk that holds duplicates only. Seven runs give
indexes of three levels, on which a scan with EpsilonRecursive = 1 starts behind the first
segment; with five a bucket holds several segments or none, and the bit vector of segment keys
has low parts of more than one bit. With an `int` of 6 bits and keys up to 63 a distance may
become negative, so the searches of Index are made with and without loss. Grids of side 3 have boxes whose
codes are interrupted twice, and four points are enough to miss twice, jump, and stop
again. Twelve epsilons let the steps double three times before a bound stops them.

Symmetry is used for keys and values in `DynamicPGM` only, where keys are compared for
equality alone. Deadlock is not checked where a run ends by design: the iterator at
`end()`, a query answered, a merge that has returned, the last point added, an index that
failed an assertion.

Fairness is weak, and stated for what is one sequential call that runs until it returns: a
query of the dynamic container and the increments by a caller that loops up to `end()`,
`advance` of the multidimensional iterator, and a search of the tuner, except that no
measurement has to end: `SearchEnds` is that a search ends or a measurement lasts for ever.
Nothing else needs fairness.

## What the violations show

Four runs are expected to fail; each is a disagreement between the code and a
comment or test of it.

* PastTheEnd: after a run of duplicates at the end of the input, a search for a larger
  key may return a range that ends before `n`, and all its keys are smaller. Without
  such a run, and with accurate slopes, it does not happen (`EndInRangeUnlessRun`), so the levels of the dynamic
  container, whose keys are distinct, are not affected.
* SoftSlopes: `SoftFloat(0)` is the number 1, so the first key of a segment, whose distance
  is 0, is predicted a slope's length away, and may be outside the range.
* LastBucket: where the buckets end at the top of the key type, `K(i) * step`
  (`variants` 406) wraps to 0 and the last bucket ends where it begins.
* SkippedPoint: `advance` steps over the element it has jumped to (`variants` 1088-1091).
  Only such elements are left out (`NoneSkippedUnlessBigmin`).

The errors of a slope are of the arithmetic and not of the search. What an index promises is
therefore stated for keys on whose way no segment predicts with an error of a half or more
(`Accurate`), and it is a question of its own where `SoftFloat` is accurate: `ProductsAccurate`
checks that nothing but the widths, and a distance of 0 on a steep line, leads it further astray.
`StaysInBounds` has no such condition: the next intercept limits every prediction, so an
assertion never fails, however wrong a product is. `IsAnOrderedMap` takes the index of a
level of the dynamic container to be accurate on the level's keys, which SoftSlopes shows to be more than the code guarantees.

Other disagreements are plain from the code or were met while modelling. The model has them,
unless it says so here, and they are kept out of the instances or of a property's condition:

* Dynamic container. `used_levels` is not "1 + last level whose size is greater than 0"
  (`dynamic` 54), since merging into the last level drops erased pairs and may empty it.
  A stored key equal to `numeric_limits<K>::max()`
  ties with exhausted sequences in the loser tree (`dynamic` 531), and the iterator may then
  read past a level: the key is kept out of Reads.
* Static index. A search for the largest key scans past the sentinel (`static` 148), with
  that key stored or not: it is not sought. The range has up to `2*Epsilon+2` positions, not
  `2*Epsilon+1` (`static` 48). With the largest key twice at the end of the input the key of
  the extra segment (`static` 102) wraps around: inputs have it once.
* Slopes. A key distance, and the denominator of a slope, are narrowed to an `int`
  (`static` 270): of keys more than 2^31 apart in one segment most are not in the range
  returned (a program misses 911 of the 1000 `uint64_t` keys `i*i*1000003`). A built-in
  `Floating`, the default of the variants, gets a slope without its fraction, and keys are
  missed wherever slopes are below one. Both are what `Accurate` leaves out. Exponents from
  24 on shift by a negative count (`softfloat` 210), which the model leaves out.
* Building. A level line is closed by an extra segment (`static` 100), and so is, zero and one
  being the same number to `SoftFloat`, a line of slope one. Two keys that become one line and
  an extra segment are two keys again, and `build` goes on until memory is exhausted: with
  `PGMIndex<uint32_t, 1, 4>` on the keys 0, 1, 2, 4, and with any upper levels whose slopes are
  truncated to zero. The instances have `EpsilonRecursive` 1 and `SoftFloat` where they have upper
  levels, with which every build ends.
* Elias-Fano. For keys above the last one, where `ef.size() + 1` is a power of two, `pred`
  selects a zero that does not exist and an assertion of `sdsl` fails
  (`EndsBelowPowerOfTwo`).
* Mapped index. Made from a file of keys it never sets `first_key` (`variants` 697): a smaller
  key is not raised to the first one (`NotRaised`), and without upper levels the search takes
  the segment before the first. The constructor that maps a file (`variants` 707) looks
  neither at the header, which is patched last, nor at the stream: of a file that was not completed
  it makes an object with other keys, so `LoadedIsWrittenIfPatched` has its condition.
* Points. `contains` (`variants` 938) joins its two conditions with `||` and affirms every point
  that is not above the last one; it is only checked for what it denies. The jump of `advance`
  searches a range that, as in PastTheEnd, may end inside a run of duplicates at the end of the
  codes; it then lands on elements already passed, and the walk never ends. That is the
  condition of `AdvanceReturnsUnlessRun`. Corners that are not a box but whose codes are in order make
  `advance` run forever; range's precondition excludes them. An iterator of `begin()` shows
  its first point at every step (`variants` 1076), so `YieldsPointsOfBox` is about those of
  `range`. The postfix `++` returns the advanced copy. `knn` takes the k-th of fewer points
  and clips its box by the number of points (`variants` 992-1031).
* Tuner. A search for a space that ends within the tolerance reports `lo` (`tuner/tuner.hpp` 296) and
  not the epsilon it measured, whose index may be far larger than the space, so
  `ReportsFastestThatFits` is about searches whose bounds met. The search
  for a time looks neither below the last step down nor above the last step up, and may say
  "not possible" where an epsilon there would do. What is measured is an index with upper
  levels and slopes of `double`, which may never be built.

## Proofs

What is proved holds for every value of the constants, under the assumptions named in
the modules, which TLC evaluates on each of its runs.

| Module | Theorem | States |
|---|---|---|
| `DynamicPGMProofs` | `AlwaysIInv` | the inductive invariant of the updates |
| | `TypeCorrect`, `AlwaysVectorsCoverUsedLevels`, `AlwaysLevelsFit`, `AlwaysIndexesFresh` | the four invariants of run Base2 |
| | `ImplementsOrderedMap` | `Spec => IsAnOrderedMap` |
| `DynamicRangeProofs` | `AlwaysRangeInv` | the inductive invariant of `merge` and `range` |
| | `AlwaysOutputIsLevel`, `AlwaysMergesNewestFirst` | what `merge` writes |
| | `AlwaysFindsLowerBound` | `lower_bound_bl` finds the lower bound |
| | `AlwaysRangeIsExact` | `range` is the map's answer |
| `DynamicIteratorProofs` | `TreeStarts`, `TreeSteps` | `init` builds a tree, `delete_min_insert` keeps it one |
| | `TreeWinner` | the root is the first sequence with the smallest key |
| | `AlwaysIInv` | the inductive invariant of queries, tree and walk |
| | `AlwaysLowerBoundIsFirst` | the answers of the queries |
| | `AlwaysUnconsumedCounted`, `AlwaysMinSourceIsSmallest`, `AlwaysNewestComesFirst` | the state of the iterator between its steps |
| | `AlwaysAdvancesToSuccessor` | an increment moves to the next live element |
| `SegmentationProofs` | `AlwaysIInv` | the inductive invariant of `make_segmentation` |
| | `AlwaysAcceptsOnlyStabbable`, `AlwaysRefusesOnlyUnstabbable` | `add_point` accepts a point exactly if a line still passes |
| | `AlwaysLineWithinEpsilon` | how far the line of a segment, through its rounded intercept, passes from its points |
| | `AlwaysThreadsCoverInput`, `AlwaysThreadsKeepOrder` | what the threads of `make_segmentation_par` compute, in any order |
| `VariantIndexesProofs` | `AlwaysInv` | the inductive invariant of an index built, searched and kept in a file |
| | `AlwaysStaysInBounds`, `AlwaysRightmostSegment` | the descent of a search, or the table or vector it goes by |
| | `AlwaysFirstOccurrenceInRange`, `AlwaysLowerBoundInRange`, `AlwaysEndInRangeUnlessRun` | the range it returns |
| | `AlwaysLoadedIsWrittenIfPatched`, `AlwaysHeaderVouches` | what is in the file |
| | `AlwaysQueriesAgree` | the queries of a mapped index |
| | `AlwaysVectorHoldsKeys`, `AlwaysPredRecoversKey` | the `sd_vector` of an Elias-Fano index, and `pred` |
| `TunerProofs` | `AlwaysIInv` | the inductive invariant of the searches |
| | `AlwaysMeasuresInBounds`, `AlwaysReportsSmallestInTime`, `AlwaysReportsFastestThatFits` | the three invariants of run Tuner |

### Updates

The assumptions of `DynamicPGM`: the key set is finite (a level's size is a number);
tombstone and absent are not values; the level numbers are in the order the constructor
gives them; and `SizeAssumption` and `BulkAssumption` state the facts about the sizes that
are used, since they come from arithmetic on powers: a full buffer and one item fit the
level below it, each level is at least twice as large as the one above, and the level the
constructor picks for `n` pairs has room for them.

The inductive invariant `IInv` is the four invariants together with `Len(levels) >= 2`.
None of them is inductive alone: that a flush finds room (`LevelsFit`) needs that the
level it picks exists and that the levels beyond `used_levels` are empty; that the
vectors cover the levels in use needs the type; that the index of the target is fresh
needs that `pgms` has a slot for it. The extra conjunct is what the first insertion
needs: it makes `used_levels` count a level whose slot the constructors made. The
argument for `LevelsFit` is that `slots_required(i)` counts all that a flush brings to
level `i` (`FlushFits`, `MergedLevel`), so that the merged level is no larger than what
was found to fit, or, in a new level, no larger than the sum of all sizes above it.

`ImplementsOrderedMap` rests on `FindIsNewest`: under `IInv` an index hides nothing, so
`find` is the newest item of a key, unless it is a tombstone. `BufferFind` and
`FlushFind` then show that an update changes the newest item of its own key only, to
the new one; for a flush this needs that a tombstone is dropped only where no older
item can remain, which is the comparison of the merged level with `used_levels - 1`.

### Merge and range

Assumed: keys are integers, a deleted item is not a value. The arrays have any length and
`range` any number of levels.

`MergeInv` says what the output holds while the loop runs: exactly the pairs of the
prefixes passed so far that are to be kept (`Merged`), in order, and no more of them than
were passed. Alone it is not inductive, as the next pair to be written may be below the
last: `Synchronized` adds that whatever one range has passed is below all that is left of
the other. `ReplaceOlder` is the step that needs it most, where a key of both ranges is
passed in both. `RangeInv` adds that between two merges the result is what levels `0` to
`i - 1` hold in the bounds, newest first (`NewestPairs`).

`lower_bound_bl` is a recursive function of the number of steps, `Bracketed` the
invariant of its loop: the position sought stays in the bracket, whose size falls below 2
before the steps run out (`LowerBoundFound`). The upper bound of the slices is a linear
scan and is found directly (`UpperBoundFound`).

### The loser tree

Assumed: keys are integers. The number of sequences is any natural number above 0.

A tree of `k` leaves, `k` a power of two, gives every position a span of leaves (`Spans`), halved
from parent to child; that such spans exist is proved by doubling `k` (`PowerOfTwo`).
`TreeOn` says that positions have winners, that each inner node's loser is the winner of
the child that lost, and that the root's entry is the winner of all. `init_winner`
establishes it from the leaves to the root (`InitWinners`). `delete_min_insert` replaces
the winner's leaf and climbs: below the current position the tree is one for the new
keys, above it still one for the old keys, whose winner the old leaf was at every position of the
path (`PathWinners`), so the losers stored along it are the winners of the siblings, which is
all the climb compares with (`ClimbStep`). From this `TreeWinner` reads off the smallest key, of equal keys the first
sequence; a padding leaf never wins, being last.

### Queries and iterator

Assumed: the key set is a finite set of integers below `KeyMax` (a stored
`numeric_limits<K>::max()` is a case where the code is wrong, see above) and the levels
are no more than the largest `Source`, a `uint8_t`: there are fewer than 64 levels. Levels
have any content.

`IInv` has five parts. `QueryInv`: every key seen on a level passed and in reach of the
loop is in `erased` unless it is the one kept, and what is in `erased` is dead; it makes
`LoopEnds`, that stopping early loses nothing. `ResultInv`: the answer is the first live
element. `TreeInv`: the iterators are in the order of the levels, the counter counts those
not at their end, and the tree is one on their current keys. `WalkInv`: between increments
every level stands at its first key above the current one; while an increment skips,
levels may stand at the key just taken (`After`), and nothing live lies between that and
the current one (`Taken`). `NewestComesFirst` and `AdvancesToSuccessor` need all five: the tree
gives the smallest key at the newest level that stands there, and only `After` says that
all holders of that key do stand there.

### The linear model

Assumed: epsilon is a natural number above 0, as the `static_assert(Epsilon > 0)` of every
index has it; x does not decrease, which `make_segmentation` relies on, nor y, which is a
position in the data wherever the library calls it. `MaxPoints` is any number, so a segment has
any number of points. Coordinates are exact integers here as in the model: the theorems do not
say that `int64_t` and `__int128` are wide enough.

The two ends of a point's interval are alike up to a reflection of the y axis, so the
argument about the hulls is made once, for a side that is 1 or -1; the orientation of
three points seen from that side is `Turn`, and every comparison of slopes in the code is
the sign of one (`SlopeTurns`). `VectorOrder`, that of three vectors to the right the middle
one has the middle slope, is the arithmetic behind all the lemmas on slopes.

`Hulls` is the invariant. Each hull turns to one side only (`Chain`); the steepest line
and the least steep one, whose ends the rectangle keeps, separate the upper ends of *all*
intervals from the lower ones (`Separates`), which is that a line passes; and the points
pruned are not missed (`Reaches`). The last is the delicate one: a
pruned point may well be the start of the extreme line to some point of the plane. It is
not to any point that can still come: one to the right of all points so far, between the two
extreme lines. Only for those does `Hulls` claim that the extreme line starts on what is left of
the hull from its start on.

With a new upper end either nothing changes (`HullsStay`) or the search along the lower
hull stops at the tangent (`Tangent`: slopes fall along a chain up to it and rise after
it, which is why the search may stop at the first that rises), the new line separates
(`NewSteepest`), and pruning and the new start keep the hulls (`Pruned`,
`HullsTurn`). `UpperEndTried` and `LowerEndTried` carry this over to the code's two steps,
the second of which starts from what the first one left: with slope1 taken before the
first, which the first does not change.

A point outside leaves no line since the ends of the extreme lines with the new one are
two pairs of intervals whose slopes contradict (`OutsideUnstabbable`). That the
segment's line passes near its points follows from its being one that separates: the
rounding of the intercept, an integer division, moves it by at most a half (`Follows`). What a
prediction makes of the slope is not part of it.

### Segmentations

`make_segmentation` is a recursive function of the number of points fed. `Feeds` is the
invariant of its loop: the model has the hulls of the open segment's points, `IsSegmentation`
holds of those closed: each is the segment of a run of points that begins at its first x and
that the next point does not fit. `MakeSegmentation` draws from it that the last segment at or
below an x approximates the point there (`SegmentationCovers`).

For the parallel version `Threads` says that the result of a chunk that is done is the
segmentation of that chunk, so the order in which they are done leaves no trace. That the chunks
share no x (`ChunksApart`) is what skipping the duplicates is for; `ChunksJoined` follows chunk by
chunk. `ThreadsKeepOrder` also bounds the number of segments: between the beginnings of two
successive segments of one chunk no line fits all the points, so the sequential segmentation
has a beginning there (`BeginsBetween`), and only a chunk's first segment may lack one.

### The static index, in memory and mapped

Assumed: `ParametersAssumption`, which is that the input is sorted, not empty and within the key
type, Epsilon is positive and keys are unsigned. The number of keys, levels, threads and both
epsilons are arbitrary. The theorems about searches have hypotheses, named and used in them:

* `Regular`: the largest key of the type is stored at most once, and not sought; a bucketing
  index has a table that fits (`Tabled`), an Elias-Fano index segments that begin at different
  keys; a key below the first is raised to it, which an index made from a file does not
  do. Each leaves out a case in which the code is wrong (above). Slopes are of either
  `Floating`, and nothing is asked of their products.
* `Accurate`, inside the properties about answers and not in `StaysInBounds`: on each level the segment
  that serves the key predicts with an error below a half.
* `Tabled`: the cells are wide enough for the number of segments, which the constructor checks;
  there are no more parts than keys; and every part begins at a distance from the first key
  that is a key. Without the last the start of a part wraps around to zero, the case of
  run `LastBucket`.
* `Distinct`: no run of equal keys ends just below the largest key of the type. Where one does,
  the last two segments may have one key, of which the `sd_vector` has the bit once.
* `AlwaysRightmostSegment` also asks that upper levels are scanned or no run of equal keys ends
  just below the largest key of the type. Where one does, the last two segments of a level
  may have one key, and a bisection may be led to the first of them: the search is still
  right, and the other theorems need no such hypothesis.
* `AlwaysEndInRangeUnlessRun` and `AlwaysQueriesAgree` (`Served`): the last key is there once, or,
  for a query, the key is not above it. The runs allow one case more, an input whose keys are all equal.

`IsLevelOf` is what is known of a level: its segments are in order up to a sentinel, their
intercepts are positions of what it indexes, up to epsilon past its end, and with a product that is off by less than a half a segment that serves
a key predicts a position (`Predicts`) at most epsilon + 1 below the points at or before the
key, and at most epsilon above those at or after it. `SumsFollow` is the arithmetic: as the error of a segment is known at the points, and its line
rises, keys between two points lie between their positions. The limit put by the next intercept keeps both, since
that segment approximates its own first point (`Clamped`). `LevelClosed` adds the extra
segment of the end, and the sentinel.

`BuildInv` says that all levels built so far are levels of the points they index, which are the
keys, with a run's end moved into the gap behind it (`KeyPoints`), or the first keys of the
level below. A level is built with a segmentation, sequential or parallel, and of both only
`IsSegmentation` is used. `SearchInv` says what a level has reached (`HasReached`):
a segment of its own, whatever the products (`Within`), and if they are accurate one
that serves the key (`Lands`). For the first, the limit by the next intercept keeps a position
within the level below, where a scan or a bisection finds an end (`ScanWithin`,
`BisectWithin`); for the second, `Narrowed` turns the prediction into a part of the level below that holds the last
segment at or below the key, `ScanLands` and `BisectLands` find it there, by the
scan and by the bisection. From the prediction of the lowest level follow the
theorems about the range (`OccurrenceInRange`, `AbsentInRange`, `EndOfRange`).

`MappedInv` says that a file holds, or begins to hold, the image of an index that was complete
(`IsWritten`): its units are a prefix of `ImageOf`, header 0 (`IsPartial`), or all of it and the
header patched (`IsPatched`). A crash keeps either. It takes the definition of the image to see
that no prefix vouches (`PartialUnpatched`), and that reading the lengths back finds each member
where it was put (`ReadBack`). Of an object loaded from a prefix nothing is claimed; `Searched`
keeps it out of the invariants of a search.

An `sd_vector` keeps of each number the high part in unary, a one for each number after as many
zeros, and the low part packed. `Represents` says so of a bit vector and an array; `BitsCounted`
that the place of the i-th one has i ones and its high part in zeros before it, so that
`select_1` finds the i-th number and `select_0` the end of those with a lesser high part. From there rank
goes down while low parts are not below the one asked for (`StepsTaken`). `StoresAnswers`
then gives rank, `[]` and select of every vector made of ascending numbers (`VectorStores`), whatever
widths `HighestBit` makes of them. `PredIs` is what `pred` computes of these, `PredFinds` that it is the last
segment at or below the key. `VectorInv` says that the vector is the one of the segments'
keys, and where a search has come with it; the exception, keys above the last one with
`ef.size() + 1` a power of two, is `EndsBelowPowerOfTwo`, in which the search stops before a
wrong answer and which the run `Index` excepts too.

The table of a bucketing index gives for each part of the keys the first segment at or above its
start (`PartBegins`). The code looks for it from the cell before on, and leaves the first cell at
0 and the last at the end: by induction over the cells (`CellsBegin`) it
finds the same as from the beginning, since the starts rise (`PartsInOrder`) and none wraps
around. The last segment at or below a key begins before the part that follows that of the
key, and the segment right before the key's own part is at or below its start, so
counting within the part, less one, ends at it (`PartCounted`, `SegmentFor`), also where
that is the segment before the part. `TableInv` says that the table is the one of the segments.
Keys before the first and after the last are answered without a search (`OffTheKeys`,
`SkippedInRange`).

For the queries `Splits` gives the positions at which the keys below and up to the one sought
end. The search inside the range is then exact (`LowerBoundIn`, `UpperBoundIn`); what takes
an argument is the doubling of the step in `upper_bound` (`StrideFacts`): it
stops since a power of two exceeds any length, and the last window holds the end of the run.

### The tuner

Assumed: bounds with `0 < lo_eps < hi_eps`, sizes that do not grow with epsilon. Times, and
guesses, are arbitrary. The searches share `lo` and `hi`; `MeasuringInv` says which epsilon a measurement in
progress is of, at each step of them. For the time `IInv` needs only that they
stay in the bounds, and for the space what is known of the epsilons outside them, which
is what makes the last bound met the smallest epsilon known to fit.

### Induction and recursion

The library's induction theorems have an operator for a parameter, which the installed provers
cannot instantiate. `NaturalLemmas` states induction for a set of numbers instead
(`SetInduction`, from a least element of every set of naturals), and that a function given
by a first value and its steps exists (`RecursionExists`). On them rest the proofs about
`lower_bound_bl`, `live_pairs`, `next_pow2`, `init_winner`, `delete_min_insert`,
`Positioned` and `make_segmentation`, which are recursive functions in the model. The one
definition with `2^j`, the stride of `upper_bound`, needs that powers grow; it is proved by
counting subsets (`PowersOfTwo`), as `^` itself has no fact in the library.

### Only model-checked

* All liveness (`WalkEnds`, `AdvanceReturnsUnlessRun`, `SearchEnds`): fairness and ENABLED are
  outside the prover.
* The search of `EliasFanoPGMIndex` on segments with one key: `Regular` leaves it out.
* When `SoftFloat` is accurate (`ProductsAccurate`): its mantissas, exponents and truncations
  are powers of two, shifts and loops.
* An input of several equal keys and nothing else, where a larger one is sought
  (`EndInRangeUnlessRun`, `QueriesAgree`).
* The multidimensional container (`YieldsPointsOfBox`, `BigminIsLowest`,
  `NoneSkippedUnlessBigmin`, `ContainsDeniesOnlyAbsent`): the codes are sums over
  the bits of coordinates, folds that take an operator, and no fact about such a fold can be
  stated for every operator.

## Not modelled

* Exceptions in the middle of an update (`bad_alloc`): the code promises nothing after one.
* Use of an iterator after the container changed: neither documented nor tested.
* Widths other than those of the keys and of `SoftFloat`'s arithmetic: `uint8_t` level numbers,
  `__int128` coordinates, `int32_t` intercepts, bases and level numbers so large that
  `max_size` shifts past the word, and the rounding of a built-in type, exact up to
  2^24 for `float`. `Product` takes the sum with the intercept for exact. Keys are unsigned in `PGMIndex`;
  with signed ones `max() + 1` is undefined instead of 0.
* An empty `PGMIndex` has no level to search; the dynamic container never asks one.
* `CompressedPGMIndex`: it cannot be instantiated with a `Floating` of this repository, so
  there is no behaviour to model.
* `knn` and the postfix `++` of the multidimensional iterator (see above).
* Of `sdsl` everything but the `sd_vector`: it is vendored and not used. Its bit vectors and
  their select supports are taken as given. Of `morton_nd.hpp` the table-driven
  implementation, which is not used either.
* `softfloat_v2.h`: included and never used by an index; its copy is not even included.
* Measuring, fitting and printing in the tuner; the C interface, whose wrappers have no
  state; the benchmark, examples and tests.

## Plan

Done: the dynamic container (updates, queries, iterator), its array algorithms, the
linear model with its threads, the static index with software slopes, the variants that
compile, the mapped file, the multidimensional container, the tuner. Proved: all safety
properties of the dynamic container, the loser tree, the linear model and its threads and the
tuner; those of the static index, the bucketing index with its table, the Elias-Fano index with its vector and
the mapped index as far as stated above.

Left: proofs about the codes of the multidimensional container, which need a theory of
folds, and a bound on the error of `SoftFloat` for all widths.
