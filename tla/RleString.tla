------------------------------- MODULE RleString -------------------------------
(***************************************************************************)
(* The run-length encoded string (rle_string.hpp), in its two versions:    *)
(* RLEString, which the indexes use for the BWT, and the older rle_string, *)
(* whose operations keep their own names here.  Both store the run heads,  *)
(* per symbol a bit vector with the last position of each run marked, and  *)
(* a bit vector over the whole string with the end of every B-th run       *)
(* marked.  The position of a run is found from the last marked block end  *)
(* by adding run lengths.                                                  *)
(***************************************************************************)
EXTENDS TextBWT, FiniteSetsExt

CONSTANTS
  Strings,  \* the input strings: functions on 0..n-1
  Blocks    \* the block sizes, in runs (the library's default is 2)

\* A string is an array of symbols and not empty: an index passes at least the terminator.
ASSUME StringsAssumption ==
  \A s \in Strings : Size(s) \in Nat \ {0} /\ s \in [0..(Size(s) - 1) -> Nat]

ASSUME BlocksAssumption == \A b \in Blocks : b \in Nat \ {0}

VARIABLES
  str,      \* the input
  rle       \* the structure built from it

vars == <<str, rle>>

None == [none |-> TRUE]

\* Bit vectors are their set of marked positions; rank excludes the position, select
\* counts from 1.  The wavelet tree over the run heads answers the same for a symbol.
BvRank(marks, i) == Cardinality({m \in marks : m < i})
BvSelect(marks, k) == Ascending(marks)[k - 1]
HeadsOf(s, c) == {k \in DOMAIN s.heads : s.heads[k] = c}

-----------------------------------------------------------------------------
(* Construction.                                                           *)

\* The bug: the mark is put one position late, on the head of the next run.
FaultyBlockEnds(runs, b) ==
  {runs[k].end : k \in {j \in DOMAIN runs : j % b = b - 1 /\ j + 1 \in DOMAIN runs}}

\* The end of every b-th run is marked, but never the end of the string.
BlockEnds(runs, b) ==
  {runs[k].end - 1 : k \in {j \in DOMAIN runs : j % b = b - 1 /\ j + 1 \in DOMAIN runs}}

\* The positions of c are numbered; the last one of each run is marked.
PerSymbol(string, runs, c) ==
  LET IsC(p) == string[p] = c
      Index(p) == Cardinality({q \in 0..(p - 1) : IsC(q)})
  IN [size  |-> Cardinality({p \in DOMAIN string : IsC(p)}),
      marks |-> {Index(runs[k].end - 1) : k \in {j \in DOMAIN runs : runs[j].c = c}}]

Construct(string, b) ==
  LET runs == RunsOf(string)
  IN [n |-> Size(string), r |-> Size(runs), b |-> b,
      heads |-> [k \in DOMAIN runs |-> runs[k].c],
      blockEnds |-> BlockEnds(runs, b),
      symbol |-> [c \in 0..Max(Range(string)) |-> PerSymbol(string, runs, c)]]

-----------------------------------------------------------------------------
(* Runs.                                                                   *)

\* The k-th run among the runs of its own symbol, in the numbering of that symbol.
ComputeSymbolRunData(s, k) ==
  LET c == s.heads[k]
      rnk == BvRank(HeadsOf(s, c), k)
      marks == s.symbol[c].marks
  IN [rnk |-> rnk, c |-> c,
      start |-> IF rnk = 0 THEN 0 ELSE BvSelect(marks, rnk) + 1,
      end |-> BvSelect(marks, rnk + 1) + 1]

ComputeRunLength(s, k) ==
  LET run == ComputeSymbolRunData(s, k) IN run.end - run.start

BlockStart(s, block) == IF block = 0 THEN 0 ELSE BvSelect(s.blockEnds, block) + 1

\* The runs as a scan meets them that starts at a block: each starts where the one before
\* it ends (computeBothRunData along the loop of every caller).
ScanFrom(s, block) ==
  LET first == block * s.b
      end[k \in first..(s.r - 1)] ==
        (IF k = first THEN BlockStart(s, block) ELSE end[k - 1]) + ComputeRunLength(s, k)
  IN [k \in first..(s.r - 1) |->
        [rnk |-> k, c |-> s.heads[k], end |-> end[k],
         start |-> IF k = first THEN BlockStart(s, block) ELSE end[k - 1]]]

\* The run with position i, and the same run among those of its symbol.
RankSoftRun(s, i) ==
  LET scan == ScanFrom(s, BvRank(s.blockEnds, i))
  IN scan[Min({k \in DOMAIN scan : scan[k].end > i})]

-----------------------------------------------------------------------------
(* RLEString.                                                              *)

At(s, i) == s.heads[RankSoftRun(s, i).rnk]

\* The position of the rnk-th c, rnk counting from 1.
Select(s, rnk, c) ==
  LET marks  == s.symbol[c].marks
      ofC    == BvRank(marks, rnk - 1)
      offset == IF ofC = 0 THEN rnk - 1 ELSE rnk - 1 - (BvSelect(marks, ofC) + 1)
      run    == BvSelect(HeadsOf(s, c), ofC + 1)
  IN ScanFrom(s, run \div s.b)[run].start + offset

\* How many of the c are in runs that end before the one with the position.
SymbolStart(s, rank, c) == IF rank = 0 THEN 0 ELSE BvSelect(s.symbol[c].marks, rank) + 1

Known(s, c) == c \in DOMAIN s.symbol /\ s.symbol[c].size > 0

Rank(s, i, c) ==
  LET run == RankSoftRun(s, i)
  IN IF ~Known(s, c) THEN 0
     ELSE IF i = s.n THEN s.symbol[c].size
     ELSE SymbolStart(s, BvRank(HeadsOf(s, c), run.rnk), c)
            + (IF run.c = c THEN i - run.start ELSE 0)

\* The bug: the run that covers the position is not counted.
FaultyRankReport(s, i, c) ==
  LET run == RankSoftRun(s, i)
      before == BvRank(HeadsOf(s, c), run.rnk)
  IN IF ~Known(s, c) THEN [rank |-> 0, run |-> 0, cover |-> FALSE]
     ELSE IF i = s.n THEN [rank |-> s.symbol[c].size, cover |-> FALSE,
                           run |-> Cardinality(s.symbol[c].marks)]
     ELSE [rank |-> Rank(s, i, c), run |-> before, cover |-> run.c = c]

\* rank with a report: the run rank counts the covering run, when the symbol matches.
RankReport(s, i, c) ==
  LET run   == RankSoftRun(s, i)
      ofC   == ComputeSymbolRunData(s, run.rnk)
      cover == run.c = c
      before == BvRank(HeadsOf(s, c), run.rnk)
  IN IF ~Known(s, c) THEN [rank |-> 0, run |-> 0, cover |-> FALSE]
     ELSE IF i = s.n THEN [rank |-> s.symbol[c].size, cover |-> FALSE,
                           run |-> Cardinality(s.symbol[c].marks)]
     ELSE [rank  |-> IF cover THEN ofC.start + (i - run.start) ELSE SymbolStart(s, before, c),
           run   |-> IF cover THEN ofC.rnk + 1 ELSE before,
           cover |-> cover]

\* rank of the symbol at i, with its run (from 0) in the string and among its symbol's.
RankAt(s, i) ==
  LET run == RankSoftRun(s, i)
      ofC == ComputeSymbolRunData(s, run.rnk)
  IN [rank |-> ofC.start + (i - run.start), c |-> run.c, run |-> run.rnk,
      start |-> run.start, end |-> run.end, symbolRun |-> ofC.rnk]

SelectOnRuns(s, rnk, c) == BvSelect(HeadsOf(s, c), rnk)

\* The runs that cover [first..last), whole: also one for an empty range.
SplitInRuns(s, first, last) ==
  LET scan == ScanFrom(s, BvRank(s.blockEnds, first))
      from == RankSoftRun(s, first).rnk
      to   == Min({k \in DOMAIN scan : k >= from /\ scan[k].end >= last})
  IN {scan[k] : k \in from..to}

-----------------------------------------------------------------------------
(* rle_string.  select counts from 0, ranges are inclusive.                *)

run_at(s, k) == ComputeRunLength(s, k)

\* The position a scan is at when it comes to run k; r is the run count, one past the last.
PositionAt(scan, k) ==
  IF k = Min(DOMAIN scan) THEN scan[k].start ELSE scan[k - 1].end

FirstNotBefore(scan, r, i) == Min({k \in Min(DOMAIN scan)..r : PositionAt(scan, k) >= i})

StepBack(scan, stop, i) == IF PositionAt(scan, stop) > i THEN stop - 1 ELSE stop

Landed(scan, run, i) ==
  [run |-> run, dist |-> i - scan[run].start, end |-> scan[run].end - 1]

\* The scan of run_of, rank and run_of_position: it adds whole runs while it is before i,
\* then steps back one run if it went past i.
ScanTo(s, i) ==
  LET scan == ScanFrom(s, BvRank(s.blockEnds, i))
  IN Landed(scan, StepBack(scan, FirstNotBefore(scan, s.r, i), i), i)

run_of(s, i) == LET to == ScanTo(s, i) IN <<to.run, to.end>>

run_of_position(s, i) == ScanTo(s, i).run

run_range(s, j) == LET run == ScanFrom(s, j \div s.b)[j] IN <<run.start, run.end - 1>>

select(s, i, c) == Select(s, i + 1, c)

rank(s, i, c) ==
  LET to == ScanTo(s, i)
      rk == BvRank(HeadsOf(s, c), to.run)
      tail == IF s.heads[to.run] = c THEN to.dist ELSE 0
  IN IF ~Known(s, c) THEN 0
     ELSE IF i = s.n THEN s.symbol[c].size
     ELSE IF rk = 0 THEN tail ELSE BvSelect(s.symbol[c].marks, rk) + 1 + tail

\* The bug: the last run keeps its own end, beyond the range.
Faulty_break_range(s, l, r, c) ==
  LET runL == run_of(s, l)
      runR == run_of(s, r)
      Run(j) == run_range(s, BvSelect(HeadsOf(s, c), j + 1))
      rankL == BvRank(HeadsOf(s, c), runL[1])
      rankR == BvRank(HeadsOf(s, c), runR[1])
  IN IF runL[1] = runR[1] THEN {<<l, r>>}
     ELSE {<<l, runL[2]>>} \cup {Run(j) : j \in (rankL + 1)..rankR}

\* The maximal pieces of [l..r] that hold c; c is at both ends.
break_range(s, l, r, c) ==
  LET runL == run_of(s, l)
      runR == run_of(s, r)
      Run(j) == run_range(s, BvSelect(HeadsOf(s, c), j + 1))
      rankL == BvRank(HeadsOf(s, c), runL[1])
      rankR == BvRank(HeadsOf(s, c), runR[1])
  IN IF runL[1] = runR[1] THEN {<<l, r>>}
     ELSE {<<l, runL[2]>>} \cup {Run(j) : j \in (rankL + 1)..(rankR - 1)}
                           \cup {<<Run(rankR)[1], r>>}

\* The runs in [first..last], cut to it.
break_in_runs(s, first, last) ==
  LET scan == ScanFrom(s, BvRank(s.blockEnds, first))
      from == Min({k \in DOMAIN scan : scan[k].end > first})
      to   == Min({k \in DOMAIN scan : k >= from /\ scan[k].end > last})
  IN {[run |-> k, c |-> scan[k].c,
       range |-> <<IF k = from THEN first ELSE scan[k].start,
                   IF k = to THEN last ELSE scan[k].end - 1>>] : k \in from..to}

\* The position of a c of [l..r] nearest to l that is next to another symbol of it.
closest_run_break(s, l, r, c) ==
  IF s.heads[run_of(s, l)[1]] = c
  THEN run_range(s, run_of_position(s, l))[2]
  ELSE select(s, rank(s, l, c), c)

-----------------------------------------------------------------------------

Init == str \in Strings /\ rle = None

Build == rle = None /\ \E b \in Blocks : rle' = Construct(str, b) /\ UNCHANGED str

Next == Build

Spec == Init /\ [][Next]_vars

-----------------------------------------------------------------------------
(* What the operations promise, stated on the string alone.                *)

Built == rle # None
Positions == DOMAIN str
Of(c) == {p \in Positions : str[p] = c}
Runs == RunsOf(str)
RunWith(p) == CHOOSE k \in DOMAIN Runs : Runs[k].start <= p /\ p < Runs[k].end
RunsOfSymbol(c) == {k \in DOMAIN Runs : Runs[k].c = c}
Queried == {str[p] : p \in Positions} \cup {0}

\* Both versions answer access, rank and select as the string itself, for every block size:
\* the sum of run lengths from a block end must not be off by one run exactly at a block
\* boundary (rle_string.hpp:746, :951), nor the older scan that stops on a run's end (:221).
AnswersAsTheString ==
  Built =>
    /\ \A p \in Positions : At(rle, p) = str[p]
    /\ \A c \in Queried :
         /\ \A i \in 0..rle.n : LET before == Cardinality({p \in Of(c) : p < i})
                                IN Rank(rle, i, c) = before /\ rank(rle, i, c) = before
         /\ \A k \in 0..(Cardinality(Of(c)) - 1) :
              Select(rle, k + 1, c) = Ascending(Of(c))[k]

\* The run data of a position, which decides on the samples a search uses: the rank with
\* a report, its form for the symbol at the position, the run select, and the older run
\* lookups (rle_string.hpp:784, :818, :832, :230, :378, :548).
RunDataIsRight ==
  Built =>
    /\ \A c \in Queried : \A i \in 0..rle.n :
         LET report == RankReport(rle, i, c)
         IN /\ report.rank = Cardinality({p \in Of(c) : p < i})
            /\ report.run = Cardinality({k \in RunsOfSymbol(c) : Runs[k].start < i
                                           \/ (Runs[k].start = i /\ i < rle.n)})
            /\ report.cover <=> i < rle.n /\ str[i] = c
    /\ \A p \in Positions :
         LET k == RunWith(p)
             report == RankAt(rle, p)
         IN /\ report.run = k /\ report.start = Runs[k].start /\ report.end = Runs[k].end
            /\ report.rank = Cardinality({q \in Of(str[p]) : q < p})
            /\ SelectOnRuns(rle, report.symbolRun + 1, str[p]) = k
            /\ run_of(rle, p) = <<k, Runs[k].end - 1>>
            /\ run_of_position(rle, p) = k
            /\ run_range(rle, k) = <<Runs[k].start, Runs[k].end - 1>>

InRange(l, r) == {k \in DOMAIN Runs : Runs[k].start <= r /\ l < Runs[k].end}
Clip(l, r, k) == <<Max({l, Runs[k].start}), Min({r, Runs[k].end - 1})>>

\* Ranges are split where the string's runs end: whole runs by splitInRuns, cut to the
\* range by break_in_runs, those of one symbol by break_range, and the first change next
\* to a symbol by closest_run_break (rle_string.hpp:860, :264, :304, :497).
RangesSplitWhereRunsEnd ==
  Built =>
    \A l \in Positions : \A r \in l..(rle.n - 1) :
      /\ SplitInRuns(rle, l, r + 1) =
           {[rnk |-> k, c |-> Runs[k].c, start |-> Runs[k].start, end |-> Runs[k].end] :
              k \in InRange(l, r)}
      /\ break_in_runs(rle, l, r) =
           {[run |-> k, c |-> Runs[k].c, range |-> Clip(l, r, k)] : k \in InRange(l, r)}
      /\ str[l] = str[r] =>
           break_range(rle, l, r, str[l]) =
             {Clip(l, r, k) : k \in InRange(l, r) \cap RunsOfSymbol(str[l])}
      /\ \A c \in {str[p] : p \in l..r} :
           (\E p \in l..r : str[p] # c) =>
             closest_run_break(rle, l, r, c) =
               IF str[l] = c THEN Runs[RunWith(l)].end - 1 ELSE Min(Of(c) \cap l..r)

=============================================================================
