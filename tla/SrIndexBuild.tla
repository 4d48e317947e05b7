----------------------------- MODULE SrIndexBuild -----------------------------
(***************************************************************************)
(* Construction of the BWT-based indexes: constructRIndex (r_index.h),     *)
(* constructSRI and constructSRIValidMark (sr_index.h).  The two loops it  *)
(* runs, computeSampling and computeSubmarksValidity, are the modules      *)
(* Subsampling and SubmarksValidity, step by step.                         *)
(***************************************************************************)
EXTENDS IndexData

CONSTANTS
  Texts,   \* The inputs, as sequences of positive symbols
  Kinds,   \* The classes built: a subset of {"r", "sr", "vm", "va"}
  Rates    \* The sub-sampling rates

ASSUME BuildAssumption ==
  /\ \A s \in Texts : s \in Seq(Nat \ {0})
  /\ Kinds \subseteq {"r", "sr", "vm", "va"}
  /\ Rates \subseteq Nat \ {0}

VARIABLES
  base,                                  \* the items of the r-index
  phase,                                 \* the construction stage that comes next
  sJob, sKept, sLast, sPrev, sPc,        \* computeSampling
  vJob, vRead, vI, vReports, vPc         \* computeSubmarksValidity

sVars == <<sJob, sKept, sLast, sPrev, sPc>>
vVars == <<vJob, vRead, vI, vReports, vPc>>

Sampling == INSTANCE Subsampling WITH
  Jobs <- {}, job <- sJob, kept <- sKept, last <- sLast, prev <- sPrev, pc <- sPc

Validity == INSTANCE SubmarksValidity WITH
  Jobs <- {}, job <- vJob, read <- vRead, i <- vI, validity <- vReports, pc <- vPc

-----------------------------------------------------------------------------

NoSamplingJob == [s |-> 0, v |-> <<>>, req |-> {}]
NoValidityJob == [marks |-> <<0>>, submarks |-> <<0>>]
NoIndex == [kind |-> "r", rate |-> 0, n |-> 0]

BuildInit ==
  /\ \E s \in Texts : text = WithSentinel(s)
  /\ sa = SuffixArray(text)
  /\ base = <<>> /\ phase = "base"
  /\ \E kind \in Kinds, rate \in Rates :
       ix = [NoIndex EXCEPT !.kind = kind, !.rate = IF kind = "r" THEN 0 ELSE rate]
  /\ sJob = NoSamplingJob /\ sKept = {} /\ sLast = 1 /\ sPrev = 2 /\ sPc = "first"
  /\ vJob = NoValidityJob /\ vRead = 0 /\ vI = 0 /\ vReports = <<>> /\ vPc = "start"

\* An array (indices from 0) as a sequence.
AsSeq(a) == [k \in 1..Size(a) |-> a[k - 1]]

(***************************************************************************)
(* constructIndexBaseItems and the links of the r-index: the runs, the     *)
(* text positions of their heads (marks) and tails (samples), the marks    *)
(* sorted by text position and, for each, the sample of the previous run.  *)
(***************************************************************************)
RIndexItems ==
  LET bwt  == BWT(text, sa)
      run  == RunsOf(bwt)
      r    == Size(run)
      head == [k \in DOMAIN run |-> TextPos(sa, run[k].start)]
      tail == [k \in DOMAIN run |-> TextPos(sa, run[k].end - 1)]
      sortedMarks == SortIndices(head)
  IN [bwt |-> bwt, run |-> run, C |-> Cumulative(bwt), head |-> head, tail |-> tail,
      sortedMarks   |-> sortedMarks,
      sortedSamples |-> SortIndices(tail),
      markToSample  |-> [o \in DOMAIN run |-> (sortedMarks[o] + r - 1) % r]]

\* The loaded index with the given sampled runs, sub-marks and links.
IndexOn(items, sampled, marks, markToSample) ==
  LET run == Ascending(sampled)
  IN [kind |-> ix.kind, rate |-> ix.rate, n |-> Size(text),
      bwt |-> items.bwt, C |-> items.C, run |-> items.run,
      sampled |-> sampled, samples |-> [k \in DOMAIN run |-> items.tail[run[k]]],
      marks |-> marks, markToSample |-> markToSample,
      invalid |-> {}, area |-> <<>>]

\* Faulty: only the sample of the first mark is required.
FaultyRequiredSamples(items) == {items.markToSample[0]}

\* The samples associated to the first and the last mark in the text.
RequiredSamples(items) ==
  {items.markToSample[0], items.markToSample[Size(items.markToSample) - 1]}

\* Faulty: the samples in BWT order.
FaultySamplingJob(items, rate) ==
  [s |-> rate, v |-> AsSeq(items.tail), req |-> {k + 1 : k \in RequiredSamples(items)}]

\* The call of computeSampling: samples sorted by text position.
SamplingJob(items, rate) ==
  [s   |-> rate,
   v   |-> AsSeq([k \in DOMAIN items.tail |-> items.tail[items.sortedSamples[k]]]),
   req |-> {k + 1 : k \in {m \in DOMAIN items.tail :
                             items.sortedSamples[m] \in RequiredSamples(items)}}]

\* constructRIndex.
BuildBase ==
  /\ phase = "base"
  /\ base' = RIndexItems
  /\ phase' = IF ix.kind = "r" THEN "load" ELSE "sort"
  /\ UNCHANGED <<data, sVars, vVars>>

\* An RIndex is complete with these items.
StoreRIndex ==
  /\ phase = "load"
  /\ ix' = IndexOn(base, DOMAIN base.run,
                   [o \in DOMAIN base.run |-> base.head[base.sortedMarks[o]]],
                   base.markToSample)
  /\ phase' = "done"
  /\ UNCHANGED <<text, sa, base, sVars, vVars>>

\* constructSRI calls computeSampling on the sorted samples.
StartSampling ==
  /\ phase = "sort"
  /\ sJob' = SamplingJob(base, ix.rate)
  /\ phase' = "samples"
  /\ UNCHANGED <<data, base, sKept, sLast, sPrev, sPc, vVars>>

SampleStep ==
  /\ phase = "samples"
  /\ Sampling!Step
  /\ UNCHANGED <<data, base, phase, vVars>>

\* constructSubsamplingForwardSamplesForPhiBackward stores the kept samples in
\* BWT order; constructSubsamplingForwardMarksForPhiBackward links each of them
\* to the head of the next run, its sub-mark, and sorts the sub-marks.
SubIndex ==
  LET sampled == {base.sortedSamples[k - 1] : k \in sKept}
      byRun   == Ascending(sampled)
      submark == [k \in DOMAIN byRun |-> base.head[(byRun[k] + 1) % Size(base.run)]]
      sorted  == SortIndices(submark)
  IN IndexOn(base, sampled, [o \in DOMAIN sorted |-> submark[sorted[o]]], sorted)

StoreSubsamples ==
  /\ phase = "samples" /\ sPc = "done"
  /\ ix' = SubIndex
  /\ phase' = IF ix.kind = "sr" THEN "done" ELSE "submarks"
  /\ UNCHANGED <<text, sa, base, sVars, vVars>>

\* constructSRIValidMark calls computeSubmarksValidity on the sorted marks.
StartValidity ==
  /\ phase = "submarks"
  /\ vJob' = [marks    |-> AsSeq([o \in DOMAIN base.head |-> base.head[base.sortedMarks[o]]]),
              submarks |-> AsSeq(ix.marks)]
  /\ phase' = "validity"
  /\ UNCHANGED <<data, base, sVars, vRead, vI, vReports, vPc>>

ValidityStep ==
  /\ phase = "validity"
  /\ Validity!Step
  /\ UNCHANGED <<data, base, phase, sVars>>

\* constructSubsamplingForwardMarksValidity stores the invalid sub-marks and
\* their areas in the order they were reported.
StoreValidity ==
  /\ phase = "validity" /\ vPc = "done"
  /\ ix' = [ix EXCEPT
              !.invalid = {vReports[e][1] : e \in DOMAIN vReports},
              !.area    = [e \in 0..(Len(vReports) - 1) |-> vReports[e + 1][2]]]
  /\ phase' = "done"
  /\ UNCHANGED <<text, sa, base, sVars, vVars>>

IndexStep ==
  \/ StoreRIndex
  \/ StartSampling \/ SampleStep \/ StoreSubsamples
  \/ StartValidity \/ ValidityStep \/ StoreValidity

BuildStep == BuildBase \/ IndexStep

-----------------------------------------------------------------------------

\* The loops of the construction keep their types.
BuildTypeOK ==
  /\ phase \in {"base", "load", "sort", "samples", "submarks", "validity", "done"}
  /\ Sampling!TypeOK
  /\ Validity!TypeOK

\* Each loop is called with the arguments it was written for: the samples in
\* text order, and sub-marks that are marks and start with the first mark.
LoopsCalledLegally ==
  /\ phase = "samples" => Sampling!LegalJob(sJob)
  /\ phase = "validity" => Validity!LegalJob(vJob)

\* The first and the last mark in the text survive the sub-sampling, so the
\* circular predecessor over the sub-marks wraps to the mark it wraps to in
\* the r-index.
ExtremeMarksSurvive ==
  phase = "done" =>
    LET all == {base.head[k] : k \in DOMAIN base.head}
        sub == {ix.marks[o] : o \in DOMAIN ix.marks}
    IN \A m \in all : (\A x \in all : m <= x) \/ (\A x \in all : x <= m) => m \in sub

\* From the tail of any run, fewer than rate LF steps lead to a sampled tail.
SampleWithinRate ==
  phase = "done" /\ ix.kind # "r" =>
    \A k \in DOMAIN base.tail :
      \E m \in ix.sampled : base.tail[m] <= base.tail[k] /\ base.tail[k] - base.tail[m] < ix.rate

=============================================================================
