------------------------------- MODULE CsaBuild -------------------------------
(***************************************************************************)
(* Construction of the indexes that navigate with psi:                     *)
(*   layout "position": RCSAWithBWTRun, CSARaw (r_csa.h) and SrCSA, its    *)
(*     SrCSAValidMark and SrCSAValidArea (sr_csa.h);                       *)
(*   layout "alphabet": SrCSASlim and its validity classes (sr_csa.h);     *)
(*   layout "psi": RCSAWithPsiRun (r_csa.h), SrCSAWithPsiRun and           *)
(*     SRCSAValidMark, SRCSAValidArea (sr_csa_psi.h).                      *)
(* The samples are the heads of the BWT runs and the marks their tails.    *)
(* computeSampling and computeSubmarksValidity read their lists from the   *)
(* last position of the text to the first; they are the modules            *)
(* Subsampling and SubmarksValidity, step by step.                         *)
(***************************************************************************)
EXTENDS IndexData, PsiLinks

CONSTANTS
  Texts,     \* The inputs, as sequences of positive symbols
  Variants,  \* The classes built, as records [kind, layout]
  Rates      \* The sub-sampling rates

\* The kinds are "raw" (CSARaw), "r" (not sub-sampled), "sr", "vm" and "va".
ASSUME CsaAssumption ==
  /\ \A s \in Texts : s \in Seq(Nat \ {0})
  /\ Variants \subseteq
       [kind : {"sr", "vm", "va"}, layout : {"position", "alphabet", "psi"}]
       \cup [kind : {"r"}, layout : {"position", "psi"}]
       \cup [kind : {"raw"}, layout : {"position"}]
  /\ Rates \subseteq Nat \ {0}

VARIABLES
  base,                                  \* the items of the r-csa
  phase,                                 \* the construction stage that comes next
  sJob, sKept, sLast, sPrev, sPc,        \* computeSampling
  vJob, vRead, vI, vReports, vPc         \* computeSubmarksValidity

sVars == <<sJob, sKept, sLast, sPrev, sPc>>
vVars == <<vJob, vRead, vI, vReports, vPc>>

Sampling == INSTANCE Subsampling WITH
  Jobs <- {}, job <- sJob, kept <- sKept, last <- sLast, prev <- sPrev, pc <- sPc

Validity == INSTANCE SubmarksValidity WITH
  Jobs <- {}, job <- vJob, read <- vRead, i <- vI, validity <- vReports, pc <- vPc

BuildInit ==
  /\ \E s \in Texts : text = WithSentinel(s)
  /\ sa = SuffixArray(text)
  /\ base = <<>> /\ phase = "base"
  /\ \E v \in Variants, rate \in Rates :
       ix = [kind |-> v.kind, layout |-> v.layout, n |-> 0,
             rate |-> IF v.kind \in {"raw", "r"} THEN 0 ELSE rate]
  /\ sJob = [s |-> 0, v |-> <<>>, req |-> {}]
  /\ sKept = {} /\ sLast = 1 /\ sPrev = 2 /\ sPc = "first"
  /\ vJob = [marks |-> <<0>>, submarks |-> <<0>>]
  /\ vRead = 0 /\ vI = 0 /\ vReports = <<>> /\ vPc = "start"

-----------------------------------------------------------------------------
(* The runs, the links and the items of the r-csa.                         *)

\* KEY_BWT_RUN_CUMULATIVE_COUNT: the runs of the symbols up to c.
CumulativeRuns(run, C) ==
  [c \in 0..(Size(C) - 2) |-> Cardinality({k \in DOMAIN run : run[k].c <= c})]

\* constructMarkToSampleLinksForPhiForwardWithBWTRuns, and WithPsiRuns: the link
\* of every mark, marks in text order.
MarkLinks(run, bwt, C, sortedMarks) ==
  [o \in DOMAIN sortedMarks |-> MarkToSample(run, bwt, C, sortedMarks[o])]

PsiMarkLinks(sortedMarks) ==
  [o \in DOMAIN sortedMarks |-> PsiMarkToSample(sortedMarks[o], Size(sortedMarks))]

(***************************************************************************)
(* constructRCSAWithBWTRuns, or constructItems(RCSAWithPsiRun): the text   *)
(* positions of the heads (samples) and of the tails (marks), in BWT order *)
(* or in psi order, and the link of every mark, marks in text order.       *)
(***************************************************************************)
RCsaItems ==
  LET bwt   == BWT(text, sa)
      C     == Cumulative(bwt)
      run   == RunsOf(bwt)
      order == IF ix.layout = "psi" THEN ByAlphabet(run) ELSE [k \in DOMAIN run |-> k]
      head  == [k \in DOMAIN run |-> TextPos(sa, run[order[k]].start)]
      tail  == [k \in DOMAIN run |-> TextPos(sa, run[order[k]].end - 1)]
      sortedMarks == SortIndices(tail)
  IN [bwt |-> bwt, C |-> C, run |-> run, head |-> head, tail |-> tail,
      sortedMarks   |-> sortedMarks,
      sortedSamples |-> SortIndices(head),
      markToSample  |-> IF ix.layout = "psi" THEN PsiMarkLinks(sortedMarks)
                        ELSE MarkLinks(run, bwt, C, sortedMarks)]

\* What every index holds whatever its samples are, and no samples yet.
Common(items) ==
  [kind |-> ix.kind, layout |-> ix.layout, rate |-> ix.rate, n |-> Size(text),
   bwt |-> items.bwt, C |-> items.C, run |-> items.run,
   cumRuns |-> CumulativeRuns(items.run, items.C),
   sampled |-> {}, samples |-> <<>>, marks |-> <<>>, markToSample |-> <<>>,
   invalid |-> {}, area |-> <<>>]

WithSamples(record, sampled, samples, marks, markToSample) ==
  [record EXCEPT !.sampled = sampled, !.samples = samples,
                 !.marks = marks, !.markToSample = markToSample]

\* An array (indices from 0) as a sequence, and the same from its end.
AsSeq(a) == [k \in 1..Size(a) |-> a[k - 1]]
Backwards(a) == [k \in 1..Size(a) |-> a[Size(a) - k]]

\* getExtremes: the samples linked to the first and to the last mark in the text.
Extremes(links) == {links[0], links[Size(links) - 1]}

\* Faulty: the links are taken for positions in the scan.
FaultySamplingJob(items, rate) ==
  LET idx == Backwards(items.sortedSamples)
  IN [s   |-> rate,
      v   |-> [k \in DOMAIN idx |-> items.head[idx[k]]],
      req |-> {link + 1 : link \in Extremes(items.markToSample)}]

\* The call of computeSampling: the samples from the last in the text to the
\* first, those linked to the extreme marks required.
SamplingJob(items, rate) ==
  LET idx == Backwards(items.sortedSamples)
  IN [s   |-> rate,
      v   |-> [k \in DOMAIN idx |-> items.head[idx[k]]],
      req |-> {k \in DOMAIN idx : idx[k] \in Extremes(items.markToSample)}]

BuildBase ==
  /\ phase = "base"
  /\ base' = RCsaItems
  /\ phase' = IF ix.kind \in {"raw", "r"} THEN "load" ELSE "sort"
  /\ UNCHANGED <<data, sVars, vVars>>

\* An r-csa is complete with these items; a CSARaw loads only psi and the
\* suffix array.
StoreRCsa ==
  /\ phase = "load"
  /\ ix' = WithSamples(Common(base), DOMAIN base.run, base.head,
                       [o \in DOMAIN base.run |-> base.tail[base.sortedMarks[o]]],
                       base.markToSample)
  /\ phase' = "done"
  /\ UNCHANGED <<text, sa, base, sVars, vVars>>

StartSampling ==
  /\ phase = "sort"
  /\ sJob' = SamplingJob(base, ix.rate)
  /\ phase' = "samples"
  /\ UNCHANGED <<data, base, sKept, sLast, sPrev, sPc, vVars>>

SampleStep ==
  /\ phase = "samples"
  /\ Sampling!Step
  /\ UNCHANGED <<data, base, phase, vVars>>

\* computeSampleToMarkLinksForPhiForward, and WithPsiRuns: the marks of sub-samples.
SampleToMarkLinks(idx) ==
  [k \in DOMAIN idx |-> SampleToMark(base.run, base.bwt, base.C, idx[k])]

PsiSampleToMarkLinks(idx) ==
  [k \in DOMAIN idx |-> PsiSampleToMark(idx[k], Size(base.run))]

\* The text positions of the marks of sub-samples.
Submarks(links) == [k \in DOMAIN links |-> base.tail[links[k]]]

\* The links from the sub-marks, sorted by text position, to the sub-samples.
SubmarkLinks(submarks) == SortIndices(submarks)

(***************************************************************************)
(* The sub-samples in the order of the samples, the mark each of them is   *)
(* linked to and the links sorted by sub-mark.                             *)
(***************************************************************************)
Subsampled ==
  LET r        == Size(base.run)
      idx      == Ascending({base.sortedSamples[r - k] : k \in sKept})
      submarks == Submarks(IF ix.layout = "psi" THEN PsiSampleToMarkLinks(idx)
                           ELSE SampleToMarkLinks(idx))
      links    == SubmarkLinks(submarks)
  IN WithSamples(Common(base), {idx[k] : k \in DOMAIN idx},
                 [k \in DOMAIN idx |-> base.head[idx[k]]],
                 [o \in DOMAIN links |-> submarks[links[o]]], links)

\* Faulty: the links still lead to the sub-samples in BWT order.
FaultySortedByAlphabet(sub) ==
  LET order == ByAlphabet(sub.run)
      kept  == {i \in DOMAIN order : order[i] \in sub.sampled}
      rank  == [i \in kept |-> Cardinality({k \in sub.sampled : k < order[i]})]
      asc   == Ascending(kept)
  IN [sub EXCEPT !.sampled = kept,
                 !.samples = [k \in DOMAIN asc |-> sub.samples[rank[asc[k]]]]]

\* constructSubsamplingBackwardSamplesSortedByAlphabet: the sub-samples, their
\* indices and the links again, in the order of the alphabet.
SortedByAlphabet(sub) ==
  LET order == ByAlphabet(sub.run)
      kept  == {i \in DOMAIN order : order[i] \in sub.sampled}
      rank  == [i \in kept |-> Cardinality({k \in sub.sampled : k < order[i]})]
      asc   == Ascending(kept)
      toSorted(link) == CHOOSE k \in DOMAIN asc : rank[asc[k]] = link
  IN [sub EXCEPT !.sampled = kept,
                 !.samples = [k \in DOMAIN asc |-> sub.samples[rank[asc[k]]]],
                 !.markToSample = [o \in DOMAIN @ |-> toSorted(@[o])]]

\* constructSubsamplingBackwardSamplesPosition: the positions of the sub-samples.
AtPositions(sub) ==
  [sub EXCEPT !.sampled = {sub.run[k].start : k \in @}]

StoreSubsamples ==
  /\ phase = "samples" /\ sPc = "done"
  /\ ix' = CASE ix.layout = "position" -> AtPositions(Subsampled)
             [] ix.layout = "alphabet" -> SortedByAlphabet(Subsampled)
             [] ix.layout = "psi"      -> Subsampled
  /\ phase' = IF ix.kind = "sr" THEN "done" ELSE "submarks"
  /\ UNCHANGED <<text, sa, base, sVars, vVars>>

(***************************************************************************)
(* constructSubsamplingBackwardMarksValidity, constructSubmarksValidity:   *)
(* both lists are read from their end.  A mark is given to the merge as    *)
(* its distance to the end of the text, so that the list ascends as the    *)
(* iterator goes and submark - next_mark is the difference the merge       *)
(* reports.                                                                *)
(***************************************************************************)
FromEnd(marks) == [k \in 1..Size(marks) |-> Size(text) - 1 - Backwards(marks)[k]]

StartValidity ==
  /\ phase = "submarks"
  /\ vJob' = [marks    |-> FromEnd([o \in DOMAIN base.tail |-> base.tail[base.sortedMarks[o]]]),
              submarks |-> FromEnd(ix.marks)]
  /\ phase' = "validity"
  /\ UNCHANGED <<data, base, sVars, vRead, vI, vReports, vPc>>

ValidityStep ==
  /\ phase = "validity"
  /\ Validity!Step
  /\ UNCHANGED <<data, base, phase, sVars>>

\* Faulty: the areas in the order they were reported.
FaultyStoreValidity ==
  /\ phase = "validity" /\ vPc = "done"
  /\ ix' = [ix EXCEPT
              !.invalid = {Size(ix.marks) - vReports[e][1] - 1 : e \in DOMAIN vReports},
              !.area    = [e \in 0..(Len(vReports) - 1) |-> vReports[e + 1][2]]]
  /\ phase' = "done"
  /\ UNCHANGED <<text, sa, base, sVars, vVars>>

\* The reports are stored from the last to the first, the index counted from the
\* other end: the k-th area belongs to the k-th invalid sub-mark in the text.
StoreValidity ==
  /\ phase = "validity" /\ vPc = "done"
  /\ ix' = [ix EXCEPT
              !.invalid = {Size(ix.marks) - vReports[e][1] - 1 : e \in DOMAIN vReports},
              !.area    = [e \in 0..(Len(vReports) - 1) |-> vReports[Len(vReports) - e][2]]]
  /\ phase' = "done"
  /\ UNCHANGED <<text, sa, base, sVars, vVars>>

IndexStep ==
  \/ StoreRCsa
  \/ StartSampling \/ SampleStep \/ StoreSubsamples
  \/ StartValidity \/ ValidityStep \/ StoreValidity

BuildStep == BuildBase \/ IndexStep

-----------------------------------------------------------------------------

\* Each loop is called with the arguments it was written for, although here it
\* reads its lists backwards: the samples in descending text order, the first
\* sub-mark equal to the first mark and every sub-mark one of the marks; else
\* the inner loop of the merge runs past the marks (construct.h:273).
LoopsCalledLegally ==
  /\ phase = "samples" => Sampling!LegalJob(sJob)
  /\ phase = "validity" => Validity!LegalJob(vJob)

=============================================================================
