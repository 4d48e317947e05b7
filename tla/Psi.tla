---------------------------------- MODULE Psi ----------------------------------
(***************************************************************************)
(* Psi, the inverse of LF, as the CSA indexes keep it (psi.h): one partial *)
(* psi per symbol, stored either as run boundaries in a sampled delta      *)
(* coding (PsiCoreRLE over enc_vector) or as a bit vector (PsiCoreBV).     *)
(*                                                                         *)
(* Every operation of PsiCoreRLE lands on a sampled run by a binary search *)
(* and scans the runs from there.  The scan object (RunOps) is the         *)
(* sequence of runs it hands out; a loop over it is the first run of that  *)
(* sequence that ends the loop.                                            *)
(***************************************************************************)
EXTENDS TextBWT, FiniteSetsExt

CONSTANTS
  Texts,   \* the texts psi is built for, terminator included
  Dens     \* enc_vector's sample density, in values (64 in the library)

\* A sample is always a run start, so the density counts whole runs.
ASSUME DensAssumption == Dens \in Nat \ {0} /\ Dens % 2 = 0

VARIABLES
  stage,   \* "text" -> "psi" -> "cores"
  text,
  bwt,
  cum,     \* cumulative counts of the alphabet
  psi,
  rle,     \* the PsiCoreRLE built from psi
  bv       \* the PsiCoreBV built from psi

vars == <<stage, text, bwt, cum, psi, rle, bv>>

None == [none |-> TRUE]

-----------------------------------------------------------------------------
(* constructPsi: the i-th BWT symbol takes the next free entry of the      *)
(* interval of its symbol.                                                 *)

ConstructPsi(b, C) ==
  LET slot(i) == C[b[i]] + Cardinality({j \in 0..(i - 1) : b[j] = b[i]})
  IN [p \in DOMAIN b |-> CHOOSE i \in DOMAIN b : slot(i) = p]

-----------------------------------------------------------------------------
(* enc_vector: every Dens-th value is stored as it is, with a pointer into *)
(* the coded differences of the others.                                    *)

EncVector(values) ==
  LET coded == Ascending({i \in DOMAIN values : i % Dens # 0})
      samples == {i \div Dens : i \in DOMAIN values}
  IN [size    |-> Size(values),
      sample  |-> [s \in samples |-> values[s * Dens]],
      pointer |-> [s \in samples |-> Cardinality({d \in DOMAIN coded : coded[d] < s * Dens})],
      delta   |-> [d \in DOMAIN coded |-> values[coded[d]] - values[coded[d] - 1]]]

-----------------------------------------------------------------------------
(* PsiCoreRLE, construction.                                               *)

\* The bug: the rank before the saved run instead of after it.
FaultySampleRanks(C, c, tails) ==
  LET Saved(k) == (2 * (k + 1)) % Dens = 0 /\ tails[k] + 1 < C[c + 1]
      saved == Ascending({k \in DOMAIN tails : Saved(k)})
  IN [s \in DOMAIN saved |-> tails[saved[s]] - C[c]]

\* The rank at which each sampled run starts is kept, but for the first one.
SampleRanks(C, c, tails) ==
  LET Saved(k) == (2 * (k + 1)) % Dens = 0 /\ tails[k] + 1 < C[c + 1]
      saved == Ascending({k \in DOMAIN tails : Saved(k)})
  IN [s \in DOMAIN saved |-> tails[saved[s]] + 1 - C[c]]

\* A maximal stretch of consecutive psi values of a symbol is one of its runs.
PartialRLE(C, p, c) ==
  LET interval == C[c]..(C[c + 1] - 1)
      heads == Ascending({j \in interval : j = C[c] \/ p[j] # p[j - 1] + 1})
      tails == Ascending({j \in interval : j = C[c + 1] - 1 \/ p[j + 1] # p[j] + 1})
      values == [v \in 0..(2 * Size(heads) - 1) |->
                   IF v % 2 = 0 THEN p[heads[v \div 2]] ELSE p[tails[v \div 2]] + 1]
  IN [values |-> EncVector(values), ranks |-> SampleRanks(C, c, tails)]

Symbols(C) == 0..(Size(C) - 2)

PsiCoreRLE(C, p) ==
  [n |-> C[Size(C) - 1],
   partial |-> [c \in Symbols(C) |-> PartialRLE(C, p, c)],
   first |-> CHOOSE c \in Symbols(C) : p[C[c]] = 0]

-----------------------------------------------------------------------------
(* PsiCoreRLE, scanning.                                                   *)

\* The runs a RunOps started at sample idx hands out by calling nextStart and
\* nextEnd in turn, by their index in the symbol; past the last run both answer n.
RunOps(core, c, idx) ==
  LET v     == core.partial[c].values
      first == (idx * Dens) \div 2
      count == v.size \div 2
      run[k \in first..count] ==
        IF k = count
        THEN [start |-> core.n, end |-> core.n, softRank |-> count, pointer |-> 0]
        ELSE LET sampled == (2 * k) % Dens = 0
                 pointer == IF k = first THEN v.pointer[idx] ELSE run[k - 1].pointer
                 next    == IF sampled THEN pointer ELSE pointer + 1
                 start   == IF sampled THEN v.sample[(2 * k) \div Dens]
                                       ELSE run[k - 1].end + v.delta[pointer]
             IN [start |-> start, end |-> start + v.delta[next],
                 softRank |-> k, pointer |-> next + 1]
  IN run

Lengths(run, K) == MapThenSumSet(LAMBDA k : run[k].end - run[k].start, K)

\* The number of samples up to the value: the index of the first one beyond it.
ComputeUpperBound(core, c, value) ==
  LET sample == core.partial[c].values.sample
  IN Cardinality({s \in DOMAIN sample : sample[s] <= value})

\* The sample a search starts at, and the rank of its run.
PreviousSample(ub) == IF ub > 0 THEN ub - 1 ELSE 0
RankAtSample(core, c, idx) == IF idx > 0 THEN core.partial[c].ranks[idx - 1] ELSE 0

-----------------------------------------------------------------------------
(* PsiCoreRLE, point queries.  Ranks count from 1 in select.               *)

SelectCore(core, c, rnk) ==
  LET ranks == core.partial[c].ranks
      idx   == Cardinality({s \in DOMAIN ranks : ranks[s] <= rnk - 1})
      run   == RunOps(core, c, idx)
      RankEnd(k) == RankAtSample(core, c, idx) + Lengths(run, {i \in DOMAIN run : i <= k})
      k     == Min({i \in DOMAIN run : RankEnd(i) > rnk - 1})
  IN [run |-> run, at |-> k, rankEnd |-> RankEnd(k)]

SelectValue(sel, rnk) == sel.run[sel.at].end - 1 - (sel.rankEnd - rnk)

Select(core, c, rnk) == SelectValue(SelectCore(core, c, rnk), rnk)

SelectReport(core, c, rnk) ==
  LET sel == SelectCore(core, c, rnk)
      r   == sel.run[sel.at]
  IN [value |-> SelectValue(sel, rnk), start |-> r.start, end |-> r.end, rank |-> r.softRank]

Rank(core, c, value) ==
  LET ub  == ComputeUpperBound(core, c, value)
      idx == ub - 1
      run == RunOps(core, c, idx)
      Goes(k) == run[k].end < value /\ run[k + 1].start < value
      k   == Min({i \in DOMAIN run : ~Goes(i)})
      beyond == IF value < run[k].end THEN run[k].end - value ELSE 0
  IN IF ub = 0 THEN 0
     ELSE RankAtSample(core, c, idx) + Lengths(run, {i \in DOMAIN run : i <= k}) - beyond

\* The bug: the last value is looked for as it is only when no run reaches it.
FaultyRankReport(core, c, value) ==
  LET idx  == PreviousSample(ComputeUpperBound(core, c, value))
      run  == RunOps(core, c, idx)
      k    == Min({i \in DOMAIN run : run[i].end >= value})
      part == IF run[k].start < value THEN value - run[k].start ELSE 0
  IN [rank  |-> RankAtSample(core, c, idx) + Lengths(run, {i \in DOMAIN run : i < k}) + part,
      start |-> run[k].start, end |-> run[k].end, run |-> run[k].softRank]

\* rank with a report: also the run with the value, or the next one of the symbol.
\* The size of the text is looked for as the last position.
RankReport(core, c, value) ==
  LET last == IF value = core.n THEN value - 1 ELSE value
      idx  == PreviousSample(ComputeUpperBound(core, c, last))
      run  == RunOps(core, c, idx)
      k    == Min({i \in DOMAIN run : run[i].end > last})
      part == IF run[k].start < value THEN value - run[k].start ELSE 0
  IN [rank  |-> RankAtSample(core, c, idx) + Lengths(run, {i \in DOMAIN run : i < k}) + part,
      start |-> run[k].start, end |-> run[k].end, run |-> run[k].softRank]

-----------------------------------------------------------------------------
(* PsiCoreRLE, queries on runs.                                            *)

\* The runs of c started up to the value, and the start of the run with the value,
\* n if none has it.  The scan stays inside the interval of the sample.
RankSoftRun(core, c, value) ==
  LET v    == core.partial[c].values
      ub   == ComputeUpperBound(core, c, value)
      idx  == ub - 1
      run  == RunOps(core, c, idx)
      base == (idx * Dens) \div 2
      lastOfSample == base + Min({Dens, v.size - idx * Dens}) \div 2 - 1
      Goes(k) == run[k].end < value /\ k < lastOfSample /\ run[k + 1].start <= value
      k    == Min({i \in DOMAIN run : ~Goes(i)})
  IN IF ub = 0 THEN [runs |-> 0, start |-> core.n]
     ELSE IF v.sample[idx] = value THEN [runs |-> base + 1, start |-> value]
     ELSE [runs |-> k + 1, start |-> IF value < run[k].end THEN run[k].start ELSE core.n]

Exist(core, c, value) == RankSoftRun(core, c, value).start # core.n

\* Over all symbols: at most one of them has a run with the value.
RankSoftRunAll(core, value) ==
  LET soft == [c \in DOMAIN core.partial |-> RankSoftRun(core, c, value)]
      has  == {c \in DOMAIN soft : soft[c].start # core.n}
  IN [runs |-> MapThenSumSet(LAMBDA c : soft[c].runs, DOMAIN soft),
      start |-> IF has = {} THEN core.n ELSE soft[Max(has)].start]

RankRun(core, value) ==
  LET soft == RankSoftRunAll(core, value)
  IN IF value # core.n /\ soft.start = value THEN soft.runs - 1 ELSE soft.runs

CountRuns(core, c) == core.partial[c].values.size \div 2

RankCharRun(core, c) == MapThenSumSet(LAMBDA d : CountRuns(core, d), 0..(c - 1))

Traverse(core, c) ==
  LET run == RunOps(core, c, 0)
  IN {<<run[k].start, run[k].end>> : k \in {i \in DOMAIN run : run[i].start < core.n}}

-----------------------------------------------------------------------------
(* PsiCoreRLE, ranges.  A piece of a range knows the run it comes from and *)
(* whether it holds the head of that run.                                  *)

Piece(first, last, c, run, isHead) ==
  [first |-> first, last |-> last, c |-> c, run |-> run, head |-> isHead]

\* The bug: the scan starts at the first run that starts, not ends, after the first.
FaultySplitInRuns(core, c, first, last) ==
  LET idx  == PreviousSample(ComputeUpperBound(core, c, first))
      run  == RunOps(core, c, idx)
      from == Min({k \in DOMAIN run : run[k].start >= first})
      in   == {k \in DOMAIN run : k >= from /\ run[k].start < last}
  IN {Piece(run[k].start, Min({run[k].end, last}), c, run[k + 1].softRank - 1, TRUE) : k \in in}

\* The pieces of [first..last) in runs of c, from the first run that ends after first to
\* the last one that starts before last.
SplitInRuns(core, c, first, last) ==
  LET idx  == PreviousSample(ComputeUpperBound(core, c, first))
      run  == RunOps(core, c, idx)
      from == Min({k \in DOMAIN run : run[k].end > first})
      in   == {k \in DOMAIN run : k = from \/ (k > from /\ run[k].start < last)}
      Begin(k) == IF k = from THEN Max({first, run[k].start}) ELSE run[k].start
      End(k)   == IF k = Max(in) THEN Min({last, run[k].end}) ELSE run[k].end
  IN {Piece(Begin(k), End(k), c, run[k + 1].softRank - 1, Begin(k) = run[k].start) :
        k \in {i \in in : Begin(i) < End(i)}}

\* All symbols; the caller that wants them in text order sorts them.
SplitInSortedRuns(core, first, last) ==
  UNION {SplitInRuns(core, c, first, last) : c \in DOMAIN core.partial}

\* The psi images of the symbols c of rank firstRank up to lastRank, not included.
ComputeForwardRuns(core, c, firstRank, lastRank) ==
  LET sel == SelectCore(core, c, firstRank)
      run == sel.run
      RankEnd(k) == sel.rankEnd + Lengths(run, (sel.at + 1)..k)
      final == Min({k \in DOMAIN run : k >= sel.at /\ RankEnd(k) >= lastRank - 1})
      Begin(k) == IF k = sel.at THEN SelectValue(sel, firstRank) ELSE run[k].start
      End(k)   == IF k = final THEN run[k].end - (RankEnd(k) - (lastRank - 1)) ELSE run[k].end
  IN {Piece(Begin(k), End(k), c, run[k].softRank, Begin(k) = run[k].start) : k \in sel.at..final}

-----------------------------------------------------------------------------
(* PsiCoreBV, and psi itself.                                              *)

PsiCoreBV(C, p) ==
  [n |-> C[Size(C) - 1],
   partial |-> [c \in Symbols(C) |-> {p[j] : j \in C[c]..(C[c + 1] - 1)}],
   first |-> CHOOSE c \in Symbols(C) : p[C[c]] = 0]

SelectBV(core, c, rnk) == Ascending(core.partial[c])[rnk - 1]
RankBV(core, c, value) == Cardinality({v \in core.partial[c] : v < value})
ExistBV(core, c, value) == value \in core.partial[c]

ComputeCForSAIndex(C, index) == Cardinality({c \in DOMAIN C : C[c] <= index}) - 1

PsiAt(core, C, index) ==
  LET c == ComputeCForSAIndex(C, index) IN Select(core, c, index - C[c] + 1)

-----------------------------------------------------------------------------

Init ==
  /\ stage = "text"
  /\ text \in Texts
  /\ bwt = BWT(text, SuffixArray(text))
  /\ cum = Cumulative(bwt)
  /\ psi = None /\ rle = None /\ bv = None

\* constructIndexBaseItems: psi is built from the BWT and the alphabet.
BuildPsi ==
  /\ stage = "text"
  /\ stage' = "psi"
  /\ psi' = ConstructPsi(bwt, cum)
  /\ UNCHANGED <<text, bwt, cum, rle, bv>>

BuildCores ==
  /\ stage = "psi"
  /\ stage' = "cores"
  /\ rle' = PsiCoreRLE(cum, psi)
  /\ bv' = PsiCoreBV(cum, psi)
  /\ UNCHANGED <<text, bwt, cum, psi>>

\* The structures never change once built.
Next == BuildPsi \/ BuildCores

Spec == Init /\ [][Next]_vars

-----------------------------------------------------------------------------
(* What the operations promise, stated on the BWT alone.                   *)

Positions == DOMAIN bwt
Of(c) == {p \in Positions : bwt[p] = c}
Runs == RunsOf(bwt)
RunsOfSymbol(c) == {k \in DOMAIN Runs : Runs[k].c = c}

\* The run of c with position p, or the next one of c; none past the last.
RunAt(c, p) == {k \in RunsOfSymbol(c) : Runs[k].end > p}
IndexInSymbol(c, k) == Cardinality({j \in RunsOfSymbol(c) : j < k})

\* The two psi cores answer select, rank and exist as the BWT does, for every symbol and
\* every position up to the text size, and psi walks the BWT backwards: a wrong saved rank
\* or an off-by-one in a scan shows only where a sampled run ends (psi.h:107, :120, :148).
PointQueriesAgree ==
  stage = "cores" =>
    /\ rle.first = bwt[0] /\ bv.first = bwt[0]
    /\ \A c \in Symbols(cum) :
         /\ \A r \in 1..Cardinality(Of(c)) :
              /\ Select(rle, c, r) = Ascending(Of(c))[r - 1]
              /\ SelectBV(bv, c, r) = Select(rle, c, r)
         /\ \A v \in 0..rle.n :
              /\ Rank(rle, c, v) = Cardinality({p \in Of(c) : p < v})
              /\ RankBV(bv, c, v) = Rank(rle, c, v)
         /\ \A v \in Positions :
              /\ Exist(rle, c, v) <=> bwt[v] = c
              /\ ExistBV(bv, c, v) <=> Exist(rle, c, v)
    /\ \A p \in Positions : PsiAt(rle, cum, p) = psi[p]

\* The run data the searches rely on: rank reports the run with the position or the next
\* run of the symbol, and at the text size the run that ends there; select reports the run
\* of its value; the run counts count the runs of the BWT (psi.h:182, :221, :230, :240, :258).
RunQueriesAgree ==
  stage = "cores" =>
    /\ \A c \in Symbols(cum) :
         /\ {[start |-> Runs[k].start, end |-> Runs[k].end] : k \in RunsOfSymbol(c)}
              = {[start |-> r[1], end |-> r[2]] : r \in Traverse(rle, c)}
         /\ RankCharRun(rle, c) = Cardinality({k \in DOMAIN Runs : Runs[k].c < c})
         /\ \A v \in 0..rle.n :
              LET report == RankReport(rle, c, v)
                  next   == RunAt(c, IF v = rle.n THEN v - 1 ELSE v)
              IN /\ report.rank = Rank(rle, c, v)
                 /\ IF next = {}
                    THEN report.start = rle.n /\ report.run = CountRuns(rle, c)
                    ELSE /\ report.start = Runs[Min(next)].start
                         /\ report.end = Runs[Min(next)].end
                         /\ report.run = IndexInSymbol(c, Min(next))
         /\ \A r \in 1..Cardinality(Of(c)) :
              LET report == SelectReport(rle, c, r)
                  k == Min(RunAt(c, report.value))
              IN report.start = Runs[k].start /\ report.rank = IndexInSymbol(c, k)
    /\ \A v \in 0..rle.n :
         /\ RankRun(rle, v) = Cardinality({k \in DOMAIN Runs : Runs[k].start < v})
         /\ {RankSoftRunAll(rle, v).start} \ {rle.n} =
              {Runs[k].start : k \in {j \in DOMAIN Runs : Runs[j].start <= v /\ v < Runs[j].end}}

PieceOfRun(p) ==
  \E k \in RunsOfSymbol(p.c) :
    /\ Runs[k].start <= p.first /\ p.last <= Runs[k].end
    /\ p.run = IndexInSymbol(p.c, k)
    /\ p.head <=> p.first = Runs[k].start

Covered(pieces) == UNION {p.first..(p.last - 1) : p \in pieces}

\* A range of the BWT is split into pieces that are disjoint, cover it and each lie in the
\* run they name, and the forward image of a rank range is exactly the psi values of those
\* ranks: a piece lost or cut one short at a run boundary loses occurrences silently
\* (psi.h:357, :428).
RangesSplitExactly ==
  stage = "cores" =>
    /\ \A first \in Positions, last \in 1..rle.n :
         first < last =>
           LET pieces == SplitInSortedRuns(rle, first, last)
           IN /\ Covered(pieces) = first..(last - 1)
              /\ \A p, q \in pieces : p = q \/ p.last <= q.first \/ q.last <= p.first
              /\ \A p \in pieces : PieceOfRun(p)
    /\ \A c \in Symbols(cum) : \A f \in 1..Cardinality(Of(c)) : \A l \in f..Cardinality(Of(c)) :
         LET pieces == ComputeForwardRuns(rle, c, f, l + 1)
         IN /\ Covered(pieces) = {psi[cum[c] + r - 1] : r \in f..l}
            /\ \A p \in pieces : PieceOfRun(p)

=============================================================================
