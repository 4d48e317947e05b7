# TLA+ models of the sr-index

This directory models the sub-sampled r-index of this repository in TLA+. TLC
model-checks the models on small instances and TLAPS checks the proofs. Source
paths below are relative to `src/include/sr-index/` unless they start with
`src/`.

## The system

The library builds compressed full-text indexes from a text and answers `Locate`
(all positions of a pattern) and `Count` (the range of the suffix array of the
suffixes that start with it). It is sequential: one thread builds, stores the
intermediate items in a cache directory, loads the index and queries it. What
makes it hard is arithmetic on positions and ranks across several orders (text
order, BWT order, order of the kept samples), and a recursion that has to find
values it did not store.

| Component | State | Operations | Depends on |
|---|---|---|---|
| Storage and serialization (`index_base.h`, `io.h`) | items by key, streams | load an item from the cache or a stream, serialize | cache files |
| Base items (`construct_sdsl.h`, `construct_base.h`, `construct_big_bwt.h`, `config.h`) | cache files: text, suffix array, BWT, run heads and tails, alphabet | one stage per item, skipped when its file exists | sdsl (external) |
| Sub-sampling (`sampling.h`) | loop registers | `computeSampling` | sorted samples, required samples |
| Construction helpers (`construct.h`) | loop registers | links from marks to samples, `computeSubmarksValidity`, bit vectors | cache files |
| `RLEString` (`rle_string.hpp`) | run heads, block and per-symbol bit vectors | rank, rank with report, select on runs, split in runs | sdsl vectors |
| Phi, toehold, validators, predecessor (`phi.h`, `toehold.h`, `tools.h`, `sequence_ops.h`) | none kept; recursion and loop registers | phi, walk over a range, last value of a range | the index items |
| r-index (`r_index.h`, `index_base.h`, `lf.h`) | items, `index_` | construct, load, `Locate`, `Count`, serialize | all of the above |
| sr-index (`sr_index.h`: `SrIndex`, `SrIndexValidMark`, `SrIndexValidArea`) | sub-samples, sub-marks, validity marks and areas | the same | r-index |
| Psi (`psi.h`, `enc_vector.hpp`) | per symbol: run boundaries, sampled, with saved ranks | rank, select, runs, splits, forward runs | BWT, alphabet |
| r-csa, sr-csa (`r_csa.h`, `sr_csa.h`, `sr_csa_psi.h`) | mirror image on Psi | the same | Psi and the above |
| Command line (`src/sr-index-cli.cpp`, `src/sri_cli_utils.h`) | accumulated totals | build, count, breakdown | sr-index |

How they interact: `construct(index, file, config)` runs the stages in order;
each stage reads files that earlier ones wrote and the last step calls
`index.load(config)`. `load` wires the items to function objects: `Locate` calls
LF for every symbol, keeps *toehold data*, asks `ComputeToehold` for the value of
the last position of the range, reports it and calls the range walk with a
callback that collects the values.

Vocabulary. A *sample* is the text position of a BWT-run tail, a *mark* that of a
run head. phi of a value finds its predecessor mark, takes the sample of the run
before that mark's run and adds the distance. The sr-index keeps only some
samples and the marks linked to them (*sub-marks*). A sub-mark followed by
dropped marks is *invalid*: phi through it may be wrong, except (valid-area
variant) within its *area*.

What makes each component correct:

- sub-sampling: no gap wider than the rate, extremes and required samples kept,
  nothing kept without need;
- sub-mark validity: reads in bounds, reports sound, complete and in order;
- construction: each loop gets the arguments it was written for; the extreme
  marks survive; every tail is fewer than rate LF steps from a sampled one;
- query: the range is exactly the matching suffixes after every symbol; each
  reported value is the suffix-array entry of its position; a trusted value is
  right; the search for the toehold ends;
- Psi and `RLEString`: every query answers as the BWT itself does, at every block or
  sample boundary;
- the files: a directory shared by classes, rates and interrupted builds never gives
  an index an item that is incomplete or another's;
- the streams: items are read in the order they were written, and an object never
  mixes the items of two indexes;
- the whole: `Locate` reports every occurrence once and nothing else, `Count`
  their number, and every call returns.

The hard behaviours are listed with their source lines under `hazards` in
`PROJECT.json`.

## Modules

| Module | Models | Notes |
|---|---|---|
| `Subsampling` | `computeSampling` | one action per loop iteration; the calls that may happen are the constant `Jobs`, and `LegalJob` says what a call may look like |
| `SubmarksValidity` | `computeSubmarksValidity` with the iterators and the report of `constructSubsamplingForwardMarksValidity` | the unchecked iterator is `read`; `Jobs` and `LegalJob` as above |
| `TextBWT` | text, suffix array, BWT, alphabet, runs | operators only; arrays are functions on `0..n-1`, ranges are half-open, as in the code |
| `SrIndexBuild` | `constructRIndex`, `constructSRI`, `constructSRIValidMark` | a phase per stage; instantiates `Subsampling` and `SubmarksValidity` and runs them step by step |
| `IndexData` | the variables that construction and queries of both families share: text, suffix array, index; rank, runs and LF on the BWT | extended by the modules of both families |
| `PsiLinks` | LF and psi on positions, the links between marks and samples, the runs by alphabet | operators only |
| `Locate` | queries on a loaded index of any of the four classes | see below |
| `Psi` | `constructPsi`, `PsiCoreRLE` over `enc_vector`'s samples, `PsiCoreBV`, `Psi` | the scan object `RunOps` is the sequence of runs it hands out |
| `RleString` | `RLEString` and the older `rle_string` | block ends and per-symbol marks as sets; the older class keeps its own operation names |
| `CsaBuild` | the constructions of the twelve classes that navigate with psi | `layout` says how samples are addressed: by BWT position (`SrCSA`), by symbol and run (`SrCSASlim`), or built from the runs of psi (`SrCSAWithPsiRun`); instantiates the two loops on reversed lists |
| `CsaLocate` | queries of those classes, and of `CSARaw` | states what the psi core answers on the BWT; `Psi` shows that it does |
| `Csa` | construction, load, then queries | extends the two, whose actions it interleaves; implements `LocateSpec` too |
| `CsaReload` | the same, written to a stream and read back before it is queried | expected violation |
| `BuildCache` | the stages of every construction, with guards, files and stops | what a file holds is an item, cut, or wrong |
| `IndexStream` | keys, `serialize` and `load` of every class, the storage, shared or not | one definition per class and method, composed as the classes inherit |
| `LocateSpec` | what a query promises | abstract: reports occurrences in any order, each once |
| `SrIndex` | construction, load, then any number of queries | extends `SrIndexBuild` and `Locate`, whose actions it interleaves; implements `LocateSpec` |
| `CliCount` | the `count` command | uses the contract of `Count` that `RangeIsSuffix` checks |
| `LocateInvariant` | the inductive invariant of `Locate` | definitions only, so that TLC checks it too |
| `CsaInvariant` | the inductive invariant of `CsaLocate` | definitions only |
| `Subsampling_proofs`, `SubmarksValidity_proofs` | proofs about the two loops | see Proofs |
| `TextLemmas` | lemmas about the text, its suffix array and BWT, ranks, LF, psi, the orders of the runs and the backward search, for both families | |
| `SrIndex_proofs` | the stack of calls and the steps of a query; construction; the whole, and its refinement | |
| `Csa_proofs` | the psi-based family: construction, where phi may be trusted, queries; the whole, and its refinement | |
| `RleString_proofs` | runs and blocks; rank, select, run data and ranges of the run-length encoded string | |
| `IndexStream_proofs` | the classes' keys and orders; the steps of loads and streams | |
| `BuildCache_proofs` | the stages of the classes and their guards; the steps of a build | |
| `MC*` | instances for TLC | |

Operators and actions named `Faulty...` next to a definition are variants of it
with a plausible mistake. No specification uses them. Each is there to show that
the property it is paired with under `mutants` in `PROJECT.json` would notice.

### State and actions of `Locate`

| Variable | In the code |
|---|---|
| `ix` | items of the loaded index: `bwt`, `run`, `C`, `sampled`/`samples` (`SAMPLES_IDX`, `SAMPLES`), `marks` (the ones of the `MARKS` bit vector, in order), `markToSample`, `invalid` (the zeros of `VALID_MARKS`), `area` (`VALID_AREAS`) |
| `pat`, `left`, `range`, `toehold` | `t_pattern`, `i + 1`, `range`, `toehold_data` of `RIndexBase::Locate` |
| `jump` | `RunDataExt` and `n_jumps` of `ComputeSAValue` |
| `frames` | the call stack of `computeForRuns`/`compute`: runs still to visit (the last one first) and the level |
| `value`, `valid` | `t_prev_value` / `t_value`, `t_validity` |
| `out` | values given to `t_report` |
| `stage`, `op`, `found` | where the query is; which call; the final range, for the properties |

`Query` calls `Locate` or `Count`. `SearchStep` is one iteration of the backward
search, `SearchEnd` its exit, `ToeholdJump` one iteration of `ComputeSAValue`,
`ToeholdReport` the report of the toehold and the entry of the walk. `PhiStep` is
the plain loop of `RIndex`. The recursion is unrolled: `TakeSample` and `TakePhi`
(`SrIndex`), `ReportTrusted` and `UseSample` (the two variants with validity),
`Descend` for the recursive call of all of them. A frame whose runs are all
visited disappears with the step that visits its last run, as a call returns.
`Top.level >= rate` distinguishes the branch of `compute` that only uses phi. For
class "r" all runs count as sampled, so that one action serves both
`ComputeToehold`s; the jump never happens there.

The tail of a run is sampled exactly when the run is not cut on the right
(`isEnd`) and its rank is in `sampled`. After the first report from a run
`isEnd` is cleared as `update_run` does.

`CsaLocate` has the same variables and mirrors these actions: the toehold is the
first position of the range, the walk goes from left to right, `ToeholdJump` is a
psi step, and the level starts at 1. Three things differ. A run of the range may hold
suffixes of several symbols, which `SplitRun` follows one by one. `SrCSA` cuts ranges at
sub-sampled positions rather than at runs. `isStart` (a head that may be sampled) is computed
anew at each step, and for the first toehold step the code compares the range before the step with the
run, so a range that starts at a head does not ask for that head's sample: the search then
takes up to *rate* psi steps, one more than elsewhere, and `ToeholdBounded` says so.

### State and actions of `BuildCache`

| Variable | In the code |
|---|---|
| `files` | the cache directory: an item, `Cut` (opened, not closed) or `Wrong` (computed from something else than the right items) |
| `fileMap` | `Config::file_map`, where it differs from the rule of names; empty in a new process |
| `build` | the running `construct`: class, rate, stage, group of files and how many of them are closed |
| `stops` | where processes stopped |
| `loaded`, `result` | indexes that were built and loaded right; how the last build ended |

`Start` calls `construct`, in the process of the build before or in a new one.
`SkipStage` is a guard that finds its file, `OpenGroup` opens the files a stage writes
together, `CloseFile` completes one of them, `Load` is the final `index.load(config)`
and `Stop` kills the process. Each stage lists its guards and, for each file it writes,
the items that file is computed from; a file is right if all of those were.

### State and actions of `IndexStream`

| Variable | In the code |
|---|---|
| `objs` | index objects: class, `subsample_rate_`, `key_prefix_`, which storage, loads done; as history, the index of the first load (`index`) and whether an object on the way was loaded a second time (`again`) |
| `storage` | `GenericStorage` of each object, and one that objects share as in the benchmarks' factories |
| `streams` | serialized indexes: the items in the order written |
| `loading` | the load that runs: its object, the next item of `loadAllItems`, its source and, of a stream, the items read |

`Create` is a constructor, `LoadConfig` and `LoadStream` are the starts of the two `load`s, `LoadItem` is
`loadItem` or `loadBVRank` for the next item (`LoadRaw` is `loadRawItem`), `Serialize` writes every item the object's storage holds.
A second load brings no items, because `loadRawItem` finds them all, but a second `load(istream)` does replace
`subsample_rate_` in the classes that read it: the object then has the items of one rate and the
number of another, and saves both to the streams it writes. `WholeIndex` states exactly that. The rank and select supports of
the marks and of the sub-sample index, which are `sd_vector`s, write no bytes and are left out. The validity marks
are a `bit_vector`: the rank that the valid-area classes keep of them is an item of its own (`validMarksRank`), written
between the marks and the areas. It has the key of its vector with `_rank` in a storage, and that key with another
type in a cache (`KeyRole`). An object that reads a stream has a
storage of its own: its default constructor leaves the key prefix empty, so in a shared storage
it would look for another rate's items, and no caller does that.

### Abstractions

- Suffix sorting, the BWT and `char2comp` come from sdsl: they are defined by
  what they return.
- Bit vectors with rank and select are sets or sorted arrays. `RLEString` is
  represented in `Locate` by what its operations return, and so is psi in `CsaLocate`;
  `RleString` and `Psi` check that the structures return that.
- Symbols are natural numbers, 0 being the terminator. The input has no inner
  zero: `constructText` throws on one.
- Patterns are non-empty and use symbols of the text. A symbol that is not in the
  text is looked up in sdsl's table, an empty pattern leads the code to an
  undefined select.
- `SrIndexBuild` and `CsaBuild` run once, from an empty cache, and compute values;
  `BuildCache` runs many times and abstracts the values to which item they are.
- A `Stop` leaves the file being written cut and the earlier ones complete: writes that
  the operating system reorders are not modelled.
- `enc_vector`'s delta code is the sequence of values it decodes, with the samples'
  positions, on which the scans depend.
- Machine words: texts are far below the limits of the word size, and the
  subtractions that could underflow are the ones the type invariants look at (`-1`
  would leave `Nat`).

## Runs

| Run | Bounds | Shows |
|---|---|---|
| `subsampling` | positions below 7, rate 1..4, two required samples, both directions | gap bound, extremes kept, sparseness, termination |
| `submarks_validity` | all mark sets below 7, all sub-samples with the first mark | reads in bounds, reports sound, complete and in order, termination |
| `sr_index_small` | all binary texts up to 8 symbols, rates 2, 3, 5, patterns up to 2 | ten invariants of construction and queries |
| `sr_index_tests` | the two texts of `src/test/locate_tests.cpp` and `src/test/sampling_test.cpp`, rates 1, 2, 4, 6, 8, patterns up to 3 | reported values and the inductive invariant of the proofs, with more symbols and longer runs |
| `sr_index_promise` | all binary texts up to 5 symbols, rates 2, 3, patterns up to 2 | refinement of `LocateSpec`, liveness |
| `psi` | all binary texts up to 8 symbols, sample density 4 | both psi cores against the BWT: points, run data, splits |
| `rle_string` | all strings up to 6 of 3 symbols, block sizes 1, 2, 3 | both strings against the plain one |
| `csa` | all binary texts up to 6 symbols and "abcabcababc", rates 1, 2, 3, patterns up to 3, all twelve classes | five invariants and refinement of `LocateSpec` |
| `build_cache` | up to 3 builds of 5 classes at 2 rates, 1 stop | complete and right items after sharing, stops and restarts |
| `index_stream` | 2 objects of all classes, 2 rates, 2 texts, 2 loads each, a shared storage | order of items, no mixing |
| `csa_reload` | "abcabcababc", rate 6, patterns up to 2 | expected violation, see below |
| `cli_count` | binary texts up to 3 symbols, up to 2 patterns | expected violation, see below |

Bounds. `MaxText` bounds the text or its positions, `Symbols` the alphabet,
`Rates` and `MaxRate` the sub-sampling rate, `MaxPattern` the pattern length and
`MaxPatterns` the pattern file. Why they are enough:

- Seven positions hold every order of a dropped, a required and two kept samples
  with any slack up to the rate; `FaultyKeepAtDistance` and the others fail well
  below the bound.
- With 8 binary symbols (9 with the terminator) there are texts of eight runs, sub-marks are
  dropped, areas of more than two positions occur, and toeholds that need two LF steps.
  Each branch of the walk is taken: sample, descent, level limit, trusted and untrusted
  phi, in the variants that have it.
- The test texts add an alphabet of five symbols, a rate (8) that leaves few samples,
  and patterns of three symbols, whose search can end early with an empty range (so can
  those of `sr_index_promise`).

- Eight binary symbols give psi lists with more runs of one symbol than the sample density
  of 4, so that scans start at a second sample; three symbols and six positions give strings
  with more runs than two blocks hold for every block size.
- Three builds and one stop hold every pattern of the guards: a build, an interrupted one of
  another class or rate, and a third that finds what both left. The five classes are the
  largest of each layout (their stages contain those of the others) and the r-csa, whose
  stages read files of both families. Rates are model values, under symmetry: only names
  tell them apart. With `MaxStops = 2` the run passes as well (13 million states, a few minutes).
- Two objects and two loads each hold every case of an item that is already in the storage:
  from the object's own first load, or from another object. How a rate that a second load
  changed travels takes a third object, which `IndexIsWhole` covers.

`CHECK_DEADLOCK FALSE` is used where the system really stops: the two loops and the
command end, `psi` and `rle_string` only construct, `build_cache` stops at its bound of builds,
and in `index_stream` objects made without a rate, when nothing is serialized yet, have nothing
to load. `SrIndex` and `Csa` may always be asked again, so deadlock is checked there: a
query that cannot go on is an error.

Each property states in its comment what it is about. Some remarks:

- `OnlyTornStagesHurt` names the stops after which a later build may load wrong items or
  throw, by excluding them (`Harmless`). A guard is written first in most stages, so a stop
  inside a stage is harmless only in the few that write the guard last; a stop between two
  stages is harmless except in the layout "psi" after the sub-sample indices were stored
  and before the sub-marks: the next stage looks the indices up by a name that only the process
  that stored them can resolve. The library documents no promise about interrupted builds, so
  this is a description and not a finding.
- `BuiltStaysBuilt` has no such exception: an index that was loaded once is never damaged.

- `LoadedIndexIsRight` says of the index what the queries rest on (`IndexIsRight`): items of the right
  shape, a sample within reach of every tail, phi right through every valid mark and every
  area (`PhiRightWhenTrusted`), and phi right after *rate* LF steps without a sampled tail
  (`PhiRightPastSamples`), all that `SrIndex` has, whose values carry no flag.
- `PendingIsRest` is the invariant behind the order of the reports: the runs on
  the stack are the images, after *level* LF steps, of exactly the positions not
  reported yet.

### Fairness

The program is sequential, so the code's own steps are weakly fair: the loops in
the two small modules, and in `SrIndex` everything after the base items
(`Loading`) and every step of a query (`Answering`). The base items are sdsl's
work and no property needs them to finish. A caller need not ask: `Query` has no
fairness.

### Expected violations

`csa_reload`: `SrCSAWithPsiRun` and its validity classes do not serialize the rate
(`sr_csa_psi.h:47`), while `SrCSA` and `SrIndex` do. An index read back into a default-constructed
object walks with rate 1, takes phi unchecked after one psi step and reports wrong positions. The
serialize test of `src/test/locate_tests.cpp:195` states that the index read back gives the
expected positions; it asks a single pattern.

`cli_count`: `test_count` adds `second - first + 1` for the half-open range
`Count` reports (`src/sr-index-cli.cpp:83`), so the printed total is one too high
for every pattern. `src/README.md:75` says that the operation returns the number
of times a pattern occurs.

## Proofs

Checked by TLAPS, for all values of the constants that satisfy the named assumptions: the
calls of the two loops are legal (`JobsAssumption`, in each of the two modules; discharged for the
construction by `CallsAreLegal`), the texts are sequences of positive symbols, the
rates positive and the classes the four of the code (`BuildAssumption`), the bound on the pattern
length is a natural number (`PatternAssumption`), the classes built in a directory or loaded are some of those of the
code, and no rate is the mark of an item that has none (`BuildCacheAssumption`, `IndexStreamAssumption`), strings are not empty and
block sizes positive (`StringsAssumption`, `BlocksAssumption`). TLC
evaluates them on every run.

### The two loops

`Subsampling_proofs`: `TypeOK`, `GapBounded`, `ExtremesKept` and `Sparse` are
invariants for every list of positions, rate and set of required samples.

- `GapBounded` is not inductive: a step that drops `prev` needs `last` to be a
  kept sample behind it. `Frontier` says where `last` and `prev` stand and that
  the required samples behind `prev` were kept.
- `Sparse` needs the reason a sample was kept to outlive the step that kept it
  (`Justified`); `DistWidens` turns a distance at that step into one between any
  kept samples further out, in either scan direction.

`SubmarksValidity_proofs`: `TypeOK`, `ReadsInBounds`, `ReportsSound` and
`ReportsComplete` for all lists of marks and sub-marks.

- `Position` says where the iterator over the marks stands: at the current
  sub-mark in the loop, strictly between it and the next one while skipping.
  `MarkLeft` concludes that a mark is left, because the next sub-mark is one.
- `ReportsPassed` and `PassedReported` tie the reports to the sub-marks passed;
  order and completeness follow. `NewEntrySound` and `NothingDropped` are the two
  facts about a step: the next mark read is the first dropped one, or there is
  none.

### The BWT-based family, from text to answers

`SrIndex_proofs` concludes for `SrIndex`, without further hypotheses, that every safety
property of `sr_index_small` is an invariant for every text, class, rate and pattern
(`SystemIsTyped`, `SearchIsRight`, `ReportsAreRight`, `NothingIsLost`, `TrustedValuesAreRight`,
`ToeholdLoopEnds`, `CallsAreLegal`, `ExtremesSurvive`, `SamplesWithinReach`,
`LoadedIsRight`), and that `SrIndex` implements `LocateSpec` (`Implements`).

*Construction.* `BuildInv` says what each stage finds. While a loop runs its own inductive
invariant holds, taken over from its proofs by INSTANCE; once it is done its result is what the
item of the index holds (`SamplingInv`, `ValidityInv`). `LoopsCalledLegally` is needed for the step
that hands a loop its arguments: the loops' invariants hold only of legal calls. When
construction ends, the items are compared with what the queries need (`LoadedIsRight`):

- a sample within reach: the gap bound of the sub-sampling in text positions is a number of LF steps;
- phi through a mark: going from a mark to a position without passing another mark, in text order, the
  neighbour in the suffix array moves along, since both are then inside one BWT run at every
  step (`PhiThrough`);
- phi where it is trusted: with a valid sub-mark no mark was dropped in between; within an area the
  first dropped mark lies behind (`ReportsSound` and `ReportsComplete` of the merge);
- phi past samples: if *rate* LF steps from a position pass no sampled tail, the mark that phi's predecessor
  search would have to find was not dropped, because the gap bound would have kept its sample.

*Queries.* `QueryInv` (`LocateInvariant`) is preserved by every action of `Locate` on a right index
(`StepKeeps`) and implies the properties (`SafetyFollows`). Its parts, and why each is needed:

- `SearchInv` and `FoundInv`: the range is that of the suffixes that start with what was searched; LF of a range
  is the range of the longer pattern.
- `ToeholdInv`: the toehold data lead from the tail they name to the last position of the range, as many
  steps back as symbols were searched since they were taken. Without it nothing says that
  the sample found belongs to this range.
- `JumpInv`: the jumps pass no sampled tail, which with `SamplesWithinReach` bounds them.
- `StackInv`: each pending run at level *l* is the image under *l* LF steps of an interval of positions; these intervals
  are disjoint, in order, and cover exactly what was not reported. The intervals are what
  `PendingIsRest` speaks of, and the order makes the last run the next to report.
- `WalkInv`: the held value is the entry of the position just reported or, when trusted, of the next.

*Refinement.* A report step adds a position that was not reported, since suffix-array entries are distinct; the
answer ends when as many were reported as the range holds.

### The psi-based family, from text to answers

`Csa_proofs` concludes for `Csa`, that is for all twelve classes and every text, rate and pattern, every
property of the run `csa`: `CsaCallsAreLegal`, `CsaPhiIsTrusted`, `CsaReportsAreRight`, `CsaNothingIsLost`,
`CsaToeholdLoopEnds`, and the refinement of `LocateSpec` (`CsaImplementsPromise`). It assumes `CsaAssumption` (the texts,
classes and rates are some of those the code can be given) and `PatternAssumption`.

*Construction.* `BuildInv` (`CsaIsBuiltRight`) says what each stage finds. What the other family does not need:

- psi is the inverse of LF, and both only depend on the BWT; so the mark that `MarkToSample` computes through LF, one
  position and psi is the neighbour in the suffix array (`Follows`). The layout "psi" links *k* to *k + 1* without a
  search, because in the order of the alphabet psi takes each run's end to the next run's head.
- The two loops read their lists from the end of the text. `SamplingJobIs` and `ValidityJobIs` give what they
  are called with; the loops' own theorems are taken over by INSTANCE, and their results are turned round again.
- The three layouts hold the same samples under other addresses: the positions of the heads, their order in the
  alphabet, or the runs of psi. `SubStored` and `AllStored` name a sample by its run, whatever its address.

`IndexBecomesRight` compares that with what the queries take for granted (`IndexIsRight`). The two facts that
are not about items are `PhiBecomesTrusted` (validity and areas lose no dropped mark) and `PhiPastDropped` (if fewer than *rate* psi
steps reach no sampled head, the mark phi needs was not dropped, because the gap bound would have kept its sample).

*Queries.* `QueryInv` (`CsaInvariant`) mirrors that of `Locate`: the order of the suffix array is reversed, psi stands
for LF. What is new in it:

- a run of the range may be cut where `SrCSA` has a sample, which says nothing of BWT runs, so `PieceOf` has two
  cases; the images of a run are cut at symbols and runs (`Cuts`), and `Image` says that between two cuts
  psi took neighbours to neighbours and passed no sampled head on its way;
- the positions a pending run stands for are named by its level (`Origin`), since a call may be at any level
  up to *rate* + 1;
- the flag that a run starts at its head may be unset although it does (the first toehold step), never set when it
  does not (`TellsRun`, `SampleAhead`): that is why the toehold takes *rate* steps and not one fewer.

*The whole.* `SystemInv` is `BuildInv` and `QueryInv` together; loading joins them, since before it no register of a
query says anything. The refinement is the same argument as for `SrIndex`, from left to right.

### Storage and streams

`IndexStream_proofs` concludes `WholeIndex` (`IndexIsWhole`) for any number of objects and loads and all rates,
texts and classes. `ClassFacts` and `KeyFacts` are what it needs of a class, proved for each of them: `serialize` writes the items in
the order `loadAllItems` asks for, behind the rate where `load` reads it; a rank comes after
its vector, so that `loadBVRank` reads no more than the rank; each item has a key and no key
has two; and a key says the role of the item in every class of a family (`RoleAt`), which is why
objects that share a storage cannot take one item for another. `StreamInv` is about every moment of a load:

- `ItemsRight` and `Present`: what an object finds under its keys belongs to its index, and during a first load
  the items before `loading.at` are there. At a later load all are, so nothing is read (`LoadItemStep`).
- `EmptyInv` and `SharedInv`: at a first load an object's own storage is empty, and a shared one has
  nothing under its keys but what its text and the rate of the key determine.
- `SourceRight` and `StreamsInv`: the next item of a stream is the one that is due.
- `RateInv`: the rate is that of the items as long as nothing was loaded twice.

### Files of construction

`BuildCache_proofs` concludes `BuiltStaysBuilt` (`BuiltIndexesStay`) for all sets of classes and rates, and any number
of builds and of stops, harmless or not, in one directory. `GuardsOf` names the guards under which a file is ever written, and
the lemmas up to `ClassIsGood` go through the stages of every class:

- every file a stage writes has one of its guards among those of the stage (`Good`), and a stage writes one
  of its own guards, so that it ends with a guard in the directory;
- the guards of each item that a class loads are items it loads too, or the only guard of one of its stages (`Protected`).

`BuiltInv` joins them. A build that ended has passed all its stages, so that the guards of what it loaded right are in the
directory (`Progress`, `Kept`). A stage that would write one of these files has one of these guards and is
skipped; a stage that is under way has opened none of them (`Untouched`), wherever it stops. That part has to be
remembered: the first files of a stage may be its own guards, which from then on say nothing about
whether it may run.

It also concludes `OnlyTornStagesHurt` (`OnlyTornStagesHurtHolds`), for the same sets: unless a process stopped inside a
stage that tears, or between the sub-sample heads and tails of the layout "psi", no build ends wrong or throws. The
guards alone do not give that; what a stage reads must have been left by an earlier one, even if that one was skipped:

- `Needs` says which files are in the directory when a guard is: all that the stages it guards write. It is empty of
  other files for the items that a stage may leave half done and that the next build writes again (`Retry`), which come first in
  their stage, under a guard that comes after (`Tidy`).
- A `Chain` is a list of stages of which each reads only what those before it leave, whether they ran or were skipped.
  Chains are joined (`ChainConcat`, `ChainAppend`), and `ClassChain` joins them to the stages of each class, for all that it loads.
- `CleanInv` is the invariant: every file in the directory is whole and of its name, and what it `Needs` is there
  (`Settled`), but for the files that the stage under way has opened (`Clean`), where a sub-sample index is looked up by a name that
  only its process registered until the tails are stored (`Linked`). Only a harmless stop may leave an opened file behind, and then one to be retried.

### The run-length encoded string

`RleString_proofs` concludes all three properties of `rle_string` (`RleAnswersAsTheString`, `RleRunDataIsRight`,
`RleRangesSplit`) for every non-empty string and every block size (`StringsAssumption`, `BlocksAssumption`), for `RLEString` and for the
older `rle_string`. `IInv` only says that a structure is what construction makes of its string; the argument is in
what that structure means:

- `Represents` lists it: the runs tile the string (`Tiled`), the marks of a symbol are the last positions of its runs counted
  in that symbol alone, and the block ends are the last positions of every *b*-th run except that of the string.
- The scan from a block's end starts at the first run of that block and adds run lengths, which `select` takes from the
  marks of the runs' symbols. It meets the runs of the block with their true bounds, and the first of them that ends past the position is
  the one that holds it (`EndPast`, `EndFrom`), also where the position is a block's first or last.
- Counting a symbol by runs is counting it by positions (`Count`, `Within`): with it rank, and the
  ranks with reports, follow from the runs before the one found, and `select` is the inverse.

`TextLemmas` gives the facts about runs, by INSTANCE: they speak of no variable.

### Only model-checked

- Termination and the other liveness properties (`Terminates`, `Builds`, `Answers`): TLAPS 1.4.5 has no ENABLED.
- `PointQueriesAgree`, `RunQueriesAgree` and `RangesSplitExactly` of `Psi`: what its decoding loops return
  is checked on the binary texts of the run `psi`. `Csa` states what psi answers on the BWT, so its
  theorems say nothing of how the psi cores store it.

## Not modelled

See `components` in `PROJECT.json` for the status of each part.

- `construct_big_bwt.h` runs an external program and converts its files to the same items.
- `breakdown` reports sizes and changes nothing.
- Code no index uses: `PhiBackwardForRangeWithValidityOriginal`, the older searches for the last
  value of a range (`toehold.h`, `tools.h`), `sparse_hyb_vector.hpp`, most of `coder.h`.
- The bytes of `RLEString`, `PsiCore` and `enc_vector` in a stream: `IndexStream` stops at
  items.
- The `build` and `breakdown` commands, the argument parser, benchmarks and plots.
- The two undefined inputs named under `hazards`: a byte that is not in the text and an
  empty pattern. Both leave the repository (sdsl's tables, a select of rank 0).
- Supports that point into their vectors after copies (`sparse_sd_vector.hpp`): pointers are not
  modelled.

## Plan

What is left is proofs about `Psi`, the one data structure that is checked over bounded symbol lists only.
