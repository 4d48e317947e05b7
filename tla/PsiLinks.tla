------------------------------- MODULE PsiLinks -------------------------------
(***************************************************************************)
(* LF and psi on positions, as constructLF's buildBasicLF and class Psi,   *)
(* the links they give between the marks and the samples of the runs, and  *)
(* the order of the runs by alphabet.                                      *)
(***************************************************************************)
EXTENDS TextBWT

\* LF: the first suffix of the symbol, plus the rank of the position.
BasicLF(bwt, C, p) == C[bwt[p]] + Cardinality({q \in DOMAIN bwt : q < p /\ bwt[q] = bwt[p]})

\* computeCForSAIndex: the first symbol of the suffix at position p.
SymbolAt(C, p) == Cardinality({c \in DOMAIN C : C[c] <= p}) - 1

\* Psi: select of the symbol, at the rank p has among the suffixes it starts.
PsiOf(bwt, C, p) ==
  LET c == SymbolAt(C, p)
  IN CHOOSE q \in DOMAIN bwt :
       bwt[q] = c /\ Cardinality({x \in DOMAIN bwt : x < q /\ bwt[x] = c}) = p - C[c]

\* computeMarkToSampleLinkForPhiForward: the run whose head is the psi value of
\* the position after the LF of the tail of run k.  rank_sample is a lower bound.
MarkToSample(run, bwt, C, k) ==
  LET head == PsiOf(bwt, C, (BasicLF(bwt, C, run[k].end - 1) + 1) % Size(bwt))
  IN Cardinality({m \in DOMAIN run : run[m].start < head})

\* computeSampleToMarkLinkForPhiForward: the other way, from the head of run k.
SampleToMark(run, bwt, C, k) ==
  LET tail == PsiOf(bwt, C, (BasicLF(bwt, C, run[k].start) + Size(bwt) - 1) % Size(bwt))
  IN Cardinality({m \in DOMAIN run : run[m].end - 1 < tail})

\* The links between the runs in psi order: a mark leads to the next head, a
\* sample to the tail before.
PsiMarkToSample(k, r) == (k + 1) % r
PsiSampleToMark(k, r) == (k + r - 1) % r

\* The runs symbol by symbol: the order of constructPsiRuns and of
\* constructSamplesSortedByAlphabet.
ByAlphabet(run) ==
  [i \in DOMAIN run |->
     CHOOSE k \in DOMAIN run :
       Cardinality({m \in DOMAIN run :
         run[m].c < run[k].c \/ (run[m].c = run[k].c /\ m < k)}) = i]

=============================================================================
