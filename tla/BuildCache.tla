------------------------------ MODULE BuildCache ------------------------------
(***************************************************************************)
(* Construction as its files see it.  construct(index, path, config) runs  *)
(* stages; a stage is skipped when a file it guards on is there, reads     *)
(* files of earlier stages and writes its own.  The files outlive the      *)
(* process, so that a directory holds what every build of every class and  *)
(* rate left there, and whatever a build that was stopped left half done.  *)
(* What a file holds is abstracted to which item it is and whether it is   *)
(* complete and right; the values themselves are the matter of             *)
(* SrIndexBuild and CsaBuild.                                              *)
(***************************************************************************)
EXTENDS Naturals, Sequences, FiniteSets

CONSTANTS
  Variants,    \* The classes built, as records [layout, kind]
  Rates,       \* The sub-sampling rates
  NoRate,      \* The rate of an item that has no prefix
  MaxBuilds,   \* Bound on the builds in one directory
  MaxStops     \* Bound on the processes that stop in the middle of a build

ASSUME BuildCacheAssumption ==
  /\ Variants \subseteq
       [layout : {"bwt", "position", "alphabet", "psi"}, kind : {"r", "sr", "vm", "va"}]
  /\ [layout |-> "alphabet", kind |-> "r"] \notin Variants   \* SrCSASlim sub-samples
  /\ NoRate \notin Rates
  /\ MaxBuilds \in Nat /\ MaxStops \in Nat

VARIABLES
  files,     \* the directory: what each file holds
  fileMap,   \* config.file_map, where it differs from the name rule
  build,     \* the build that runs, and how far it got
  builds,    \* builds started
  stops,     \* where processes stopped in the middle of a build
  loaded,    \* the indexes that have been built and loaded right
  result     \* the last build to end, and how it ended

vars == <<files, fileMap, build, builds, stops, loaded, result>>

-----------------------------------------------------------------------------

(***************************************************************************)
(* Items.  An item is <<key, kind, rate>>: the kind is "plain" for a file  *)
(* named by its key alone, and the type the name carries as a hash         *)
(* otherwise ("iv", "bv", "rank", "select", "rle").                        *)
(***************************************************************************)
Base(key) == <<key, "plain", NoRate>>
Typed(key, type) == <<key, type, NoRate>>

\* What a file holds that is no complete and right item.
Cut == <<"cut">>
Wrong == <<"wrong">>

\* The entries of over, and those of base that over does not have.
Override(base, over) ==
  [x \in DOMAIN base \cup DOMAIN over |-> IF x \in DOMAIN over THEN over[x] ELSE base[x]]

\* prefix + key: the name of a file says the rate it was computed for.
FaultyFileOf(item) == <<item[1], item[2], NoRate>>

FileOf(item) == item

\* cache_file_name: the name the process registered, or the rule's.
Lookup(item) == IF item \in DOMAIN fileMap THEN fileMap[item] ELSE FileOf(item)

\* cache_file_exists asks only whether the file opens.
Exists(item) == Lookup(item) \in DOMAIN files

\* load_from_cache: a file that is absent or cut gives an empty or partial value.
\* A name the process registered may lead to the item in its typed file.
Right(item) ==
  /\ Exists(item)
  /\ files[Lookup(item)] \in {item, <<item[1], "iv", item[3]>>}

-----------------------------------------------------------------------------

(***************************************************************************)
(* Stages.  A stage is skipped if any of its guards exists.  It writes its *)
(* files in groups: the files of a group are opened together, which leaves *)
(* empty files, and closed one after the other once they are filled.  Each *)
(* file is computed from the items in "from".                              *)
(***************************************************************************)
File(item, from) == [item |-> item, from |-> from]

Groups(guards, groups) == [guards |-> guards, groups |-> groups]

\* Stored with store_to_cache, or written through int_vector_buffers.
Stage(guards, writes) == Groups(guards, [i \in DOMAIN writes |-> <<writes[i]>>])
Buffered(guards, writes) == Groups(guards, <<writes>>)

Single(item, from) == Stage({item}, <<File(item, from)>>)

\* constructBitVectorFromIntVector: the bit vector, its rank and its select.
BitVector(key, rate, from) ==
  Stage({<<key, "bv", rate>>},
        <<File(<<key, "bv", rate>>, from), File(<<key, "rank", rate>>, from),
          File(<<key, "select", rate>>, from)>>)

Runs == {Base("first"), Base("firstText"), Base("last"), Base("lastText")}

BaseStages ==
  LET fromSa == {Base("bwt"), Base("sa")}
  IN <<Single(Base("text"), {}),
       Single(Base("sa"), {Base("text")}),
       Single(Base("bwt"), {Base("text"), Base("sa")}),
       Buffered({Base("first")},
                <<File(Base("first"), fromSa), File(Base("firstText"), fromSa),
                  File(Base("last"), fromSa), File(Base("lastText"), fromSa)>>),
       Single(Base("alphabet"), {Base("bwt")}),
       Single(Base("bwtRle"), {Base("bwt"), Base("alphabet")})>>

\* constructMarkToSampleLinksForPhiBackward
BackwardLinksStage ==
  Stage({Base("firstToLast")},
        <<File(Base("firstSorted"), {Base("firstText")}),
          File(Base("firstToLast"), {Base("firstText")})>>)

\* constructRIndex
RIndexStages ==
  BaseStages \o
  <<BackwardLinksStage,
    BitVector("firstText", NoRate, {Base("firstText"), Base("bwt")})>>

\* constructSubsamplingForwardSamplesForPhiBackward
ForwardSamplesStage(k) ==
  LET lastIdx == <<"lastIdx", "plain", k>>
      from == {Base("lastText"), Base("lastSorted"), Base("firstToLast")}
  IN Stage({lastIdx}, <<File(lastIdx, from), File(<<"lastText", "plain", k>>, from)>>)

\* constructSubsamplingForwardMarksForPhiBackward
ForwardMarksStage(k) ==
  LET from == {<<"lastIdx", "plain", k>>, Base("first"), Base("firstText")}
  IN Stage({<<"firstToLast", "plain", k>>},
           <<File(<<"firstByLast", "plain", k>>, from), File(<<"firstToLast", "plain", k>>, from)>>)

\* constructSRI
SrIndexStages(k) ==
  RIndexStages \o
  <<Single(Base("lastSorted"), {Base("lastText")}),
    ForwardSamplesStage(k),
    BitVector("lastIdx", k, {<<"lastIdx", "plain", k>>, Base("last")}),
    ForwardMarksStage(k),
    BitVector("firstByLast", k, {<<"firstByLast", "plain", k>>, Base("bwt")})>>

\* The validity marks and areas (constructSRIValidMark; SrCSAValidMark): the
\* marks' text positions, their order, the sub-marks, and the sub-samples for
\* the length of the bit vector.
ValidityStages(mark, area, k, marks, sorted, submarks, samples) ==
  LET from == {Base(marks), Base(sorted), <<submarks, "plain", k>>}
  IN <<Buffered({<<mark, "plain", k>>},
                <<File(<<mark, "plain", k>>, from), File(<<area, "plain", k>>, from)>>),
       BitVector(mark, k, {<<mark, "plain", k>>, <<samples, "plain", k>>})>>

FromRle == {Base("bwtRle"), Base("alphabet")}

\* constructPsi: psi, then the structure built from it.
PsiStage(guards) ==
  Stage(guards, <<File(Base("psi"), FromRle), File(Typed("psi", "rle"), FromRle)>>)

\* constructMarkToSampleLinksForPhiForwardWithBWTRuns
ForwardLinksStage ==
  Stage({Base("lastToFirst")},
        <<File(Base("lastSorted"), {Base("lastText")}),
          File(Base("lastToFirst"),
               {Base("lastText"), Base("last"), Base("first"), Typed("psi", "rle")} \cup FromRle)>>)

\* constructRCSAWithBWTRuns
RCsaStages ==
  BaseStages \o
  <<PsiStage({Base("psi")}),
    ForwardLinksStage,
    BitVector("lastText", NoRate, {Base("lastText"), Base("bwt")})>>

\* constructSubsamplingBackwardSamplesForPhiForwardWithBWTRuns
BackwardSamplesStage(k) ==
  LET firstIdx == <<"firstIdx", "plain", k>>
      from == {Base("firstText"), Base("firstSorted"), Base("lastToFirst")}
  IN Stage({firstIdx}, <<File(firstIdx, from), File(<<"firstText", "plain", k>>, from)>>)

\* constructSubsamplingBackwardMarksForPhiForwardWithBWTRuns
BackwardMarksStage(k) ==
  LET from == {<<"firstIdx", "plain", k>>, Typed("psi", "rle")} \cup FromRle \cup Runs
  IN Stage({<<"lastToFirst", "plain", k>>},
           <<File(<<"lastByFirst", "plain", k>>, from), File(<<"lastToFirst", "plain", k>>, from)>>)

\* constructSrCSACommonsWithBWTRuns
SrCsaStages(k) ==
  RCsaStages \o
  <<Single(Base("firstSorted"), {Base("firstText")}),
    BackwardSamplesStage(k),
    BackwardMarksStage(k),
    BitVector("lastByFirst", k, {<<"lastByFirst", "plain", k>>, Base("bwt")})>>

\* constructSubsamplingBackwardSamplesPosition
SamplesPositionStage(k) ==
  Single(<<"first", "plain", k>>, {Base("first"), <<"firstIdx", "plain", k>>})

\* construct(SrCSA): the positions of the sub-sampled heads.
PositionStages(k) ==
  SrCsaStages(k) \o
  <<SamplesPositionStage(k),
    BitVector("first", k, {<<"first", "plain", k>>, Base("bwt")})>>

\* constructSamplesSortedByAlphabet
SortedByAlphabetStage ==
  LET from == {Base("first"), Typed("psi", "rle")}
  IN Buffered({Base("firstIdxAlpha")},
              <<File(Base("firstIdxAlpha"), from), File(Base("cumulative"), from)>>)

\* constructSubsamplingBackwardSamplesSortedByAlphabet: the links are opened when
\* the other two are closed.
SubsamplesSortedStage(k) ==
  LET idx == <<"firstIdxAlpha", "plain", k>>
      text == <<"firstTextAlpha", "plain", k>>
      from == {Base("firstIdxAlpha"), <<"firstIdx", "plain", k>>, <<"firstText", "plain", k>>}
  IN Groups({text},
            <<<<File(text, from), File(idx, from)>>,
              <<File(<<"lastToFirstAlpha", "plain", k>>,
                     from \cup {<<"lastToFirst", "plain", k>>})>>>>)

\* construct(SrCSASlim): samples and links in the order of the alphabet.
AlphabetStages(k) ==
  SrCsaStages(k) \o
  <<SortedByAlphabetStage,
    SubsamplesSortedStage(k),
    BitVector("firstIdxAlpha", k, {<<"firstIdxAlpha", "plain", k>>, Base("first")})>>

PsiHeads == Typed("psiFirstText", "iv")
PsiTails == Typed("psiLastText", "iv")
PsiLinks == Typed("psiLink", "iv")

\* constructPsiRuns: the heads, then the tails.
PsiRunsStage ==
  Stage({PsiHeads},
        <<File(PsiHeads, FromRle \cup {Base("first"), Base("firstText")}),
          File(PsiTails, FromRle \cup {Base("last"), Base("lastText")})>>)

\* constructItems(RCSAWithPsiRun), psi guarded by psiGuards.
RCsaPsiFrom(psiGuards) ==
  BaseStages \o
  <<PsiStage(psiGuards),
    PsiRunsStage,
    BitVector("psiLastText", NoRate, {PsiTails, Base("bwt")}),
    Single(PsiLinks, {PsiTails})>>

FaultyRCsaPsiStages == RCsaPsiFrom({Typed("psi", "iv")})

RCsaPsiStages == RCsaPsiFrom({Base("psi")})

\* constructSubsamplingBackwardSamplesForPhiForwardWithPsiRuns
PsiSubsamplesStage(k) ==
  LET text == <<"psiFirstText", "iv", k>>
      from == {PsiHeads, Base("psiFirstAsc"), PsiLinks}
  IN Stage({text}, <<File(<<"psiFirstIdx", "iv", k>>, from), File(text, from)>>)

\* computeSampleToMarkLinksForPhiForwardWithPsiRuns looks the sub-sample indices
\* up by their plain name.
PsiSampleLinks(k) == {<<"psiFirstIdx", "plain", k>>, PsiHeads}

\* constructSubmarksForPhiForwardWithPsiRuns, without its bit vector.
PsiSubmarksStage(k) ==
  LET marks == <<"psiLastText", "iv", k>>
  IN Stage({marks, <<"psiLastText", "bv", k>>}, <<File(marks, PsiSampleLinks(k) \cup {PsiTails})>>)

\* constructSubmarkLinksForPhiForwardWithPsiRuns
PsiSubmarkLinksStage(k) == Single(<<"psiLink", "iv", k>>, {<<"psiLastText", "iv", k>>})

\* constructCumulativeCountsWithPsiRuns
PsiCumulativeStage == Single(Typed("psiCumulative", "iv"), {Typed("psi", "rle"), PsiHeads})

\* constructItems(SrCSAWithPsiRun)
SrCsaPsiStages(k) ==
  RCsaPsiStages \o
  <<Single(Base("psiFirstAsc"), {PsiHeads}),
    PsiSubsamplesStage(k),
    PsiSubmarksStage(k),
    BitVector("psiLastText", k, {<<"psiLastText", "iv", k>>, Base("bwt")}),
    PsiSubmarkLinksStage(k),
    BitVector("psiFirstIdx", k, {<<"psiFirstIdx", "iv", k>>, PsiHeads}),
    PsiCumulativeStage>>

\* constructSubmarksValidity
PsiValidityStage(k) ==
  LET mark == <<"psiValidMark", "iv", k>>
      from == {PsiTails, <<"psiLastText", "iv", k>>}
  IN Stage({mark, <<"psiValidMark", "bv", k>>},
           <<File(mark, from), File(<<"psiValidArea", "iv", k>>, from)>>)

\* constructItems(SRCSAValidMark)
PsiValidMarkStages(k) ==
  <<PsiValidityStage(k),
    BitVector("psiValidMark", k, {<<"psiValidMark", "iv", k>>, <<"psiLastText", "iv", k>>})>>

\* constructItems(SRCSAValidArea): areas that are not there are read as none and
\* stored again.
PsiValidAreaStage(k) ==
  LET area == <<"psiValidArea", "iv", k>> IN Single(area, {area})

\* construct(...) of a class at a rate.  The base index that SrCSAValidMark loads
\* on the way leaves no file and fails only if the last load would fail too.
StagesOf(v, k) ==
  LET valid == v.kind \in {"vm", "va"}
      lastValid == ValidityStages("lastValidMark", "lastValidArea", k,
                                  "lastText", "lastSorted", "lastByFirst", "firstText")
  IN CASE v.layout = "bwt" /\ v.kind = "r" -> RIndexStages
       [] v.layout = "bwt" /\ v.kind # "r" ->
            SrIndexStages(k) \o
            (IF valid THEN ValidityStages("firstValidMark", "firstValidArea", k,
                             "firstText", "firstSorted", "firstByLast", "lastText")
             ELSE <<>>)
       [] v.layout = "position" ->
            IF v.kind = "r" THEN RCsaStages
            ELSE PositionStages(k) \o (IF valid THEN lastValid ELSE <<>>)
       [] v.layout = "alphabet" ->
            AlphabetStages(k) \o (IF valid THEN lastValid ELSE <<>>)
       [] v.layout = "psi" ->
            IF v.kind = "r" THEN RCsaPsiStages
            ELSE SrCsaPsiStages(k)
                 \o (IF valid THEN PsiValidMarkStages(k) ELSE <<>>)
                 \o (IF v.kind = "va" THEN <<PsiValidAreaStage(k)>> ELSE <<>>)

StagesTable == [v \in Variants |-> [k \in Rates \cup {NoRate} |-> StagesOf(v, k)]]

\* The files load(config) asks for: bit vectors with their rank, and with their
\* select where phi needs it.
BvRank(key, rate) == {<<key, "bv", rate>>, <<key, "rank", rate>>}
BvSelect(key, rate) == BvRank(key, rate) \cup {<<key, "select", rate>>}
AtRate(keys, type, rate) == {<<key, type, rate>> : key \in keys}

ItemsOf(v, k) ==
  {Base("alphabet")} \cup
  CASE v.layout = "bwt" /\ v.kind = "r" ->
         AtRate({"bwtRle", "lastText", "firstToLast"}, "plain", NoRate)
         \cup BvSelect("firstText", NoRate)
    [] v.layout = "bwt" /\ v.kind # "r" ->
         {Base("bwtRle")} \cup AtRate({"lastText", "firstToLast"}, "plain", k)
         \cup BvSelect("firstByLast", k) \cup BvRank("lastIdx", k)
         \cup (IF v.kind # "sr" THEN {<<"firstValidMark", "bv", k>>} ELSE {})
         \cup (IF v.kind = "va" THEN BvRank("firstValidMark", k)
                                    \cup {<<"firstValidArea", "plain", k>>} ELSE {})
    [] v.layout = "position" /\ v.kind = "r" ->
         {Typed("psi", "rle")} \cup AtRate({"firstText", "lastToFirst"}, "plain", NoRate)
         \cup BvSelect("lastText", NoRate)
    [] v.layout \in {"position", "alphabet"} /\ v.kind # "r" ->
         {Typed("psi", "rle")} \cup BvSelect("lastByFirst", k)
         \cup (IF v.layout = "position"
               THEN AtRate({"firstText", "lastToFirst"}, "plain", k) \cup BvSelect("first", k)
               ELSE AtRate({"firstTextAlpha", "lastToFirstAlpha"}, "plain", k)
                    \cup BvRank("firstIdxAlpha", k) \cup {Base("cumulative")})
         \cup (IF v.kind # "sr" THEN {<<"lastValidMark", "bv", k>>} ELSE {})
         \cup (IF v.kind = "va" THEN BvRank("lastValidMark", k)
                                    \cup {<<"lastValidArea", "plain", k>>} ELSE {})
    [] v.layout = "psi" /\ v.kind = "r" ->
         {Typed("psi", "rle")} \cup AtRate({"psiFirstText", "psiLink"}, "iv", NoRate)
         \cup BvSelect("psiLastText", NoRate)
    [] v.layout = "psi" /\ v.kind # "r" ->
         {Typed("psi", "rle"), Typed("psiCumulative", "iv")}
         \cup AtRate({"psiFirstText", "psiLink"}, "iv", k)
         \cup BvSelect("psiLastText", k) \cup BvRank("psiFirstIdx", k)
         \cup (IF v.kind # "sr" THEN {<<"psiValidMark", "bv", k>>} ELSE {})
         \cup (IF v.kind = "va" THEN BvRank("psiValidMark", k)
                                    \cup {<<"psiValidArea", "iv", k>>} ELSE {})

-----------------------------------------------------------------------------

Idle == [at |-> 0]

Init ==
  /\ files = <<>> /\ fileMap = <<>>
  /\ build = Idle /\ builds = 0 /\ stops = {}
  /\ loaded = {} /\ result = [how |-> "none"]

\* A build starts, in the process of the one before or in a new one, whose
\* Config knows nothing of the directory.
Start(v, k) ==
  /\ build = Idle /\ builds < MaxBuilds
  /\ build' = [v |-> v, k |-> IF v.kind = "r" THEN NoRate ELSE k,
               at |-> 1, group |-> 1, closed |-> 0, open |-> FALSE]
  /\ builds' = builds + 1
  /\ fileMap' \in {fileMap, <<>>}
  /\ result' = [how |-> "none"]
  /\ UNCHANGED <<files, stops, loaded>>

Stages == StagesTable[build.v][build.k]
Building == build # Idle /\ build.at <= Len(Stages)
Current == Stages[build.at]
Group == Current.groups[build.group]
Begun == build.open \/ build.group > 1

NextStage == [build EXCEPT !.at = @ + 1, !.group = 1, !.closed = 0, !.open = FALSE]

SkipStage ==
  /\ Building /\ ~Begun
  /\ \E g \in Current.guards : Exists(g)
  /\ build' = NextStage
  /\ UNCHANGED <<files, fileMap, builds, stops, loaded, result>>

OpenGroup ==
  /\ Building /\ ~build.open
  /\ Begun \/ \A g \in Current.guards : ~Exists(g)
  /\ files' = Override(files, [f \in {Lookup(Group[i].item) : i \in DOMAIN Group} |-> Cut])
  /\ build' = [build EXCEPT !.open = TRUE]
  /\ UNCHANGED <<fileMap, builds, stops, loaded, result>>

\* sdsl::store_to_cache(subsamples_idx, key, config, true) registers the typed
\* file under the plain key, unlike sri::store_to_cache.
Registered(item) ==
  IF item[1] = "psiFirstIdx" /\ item[2] = "iv"
  THEN Override(fileMap, [name \in {<<item[1], "plain", item[3]>>} |-> FileOf(item)])
  ELSE fileMap

CloseFile ==
  /\ Building /\ build.open
  /\ LET f == Group[build.closed + 1]
         own == {f.item} \cap f.from     \* the empty areas that are stored again
     IN /\ files' = [files EXCEPT ![Lookup(f.item)] =
                       IF own = {} /\ \A item \in f.from : Right(item) THEN f.item ELSE Wrong]
        /\ fileMap' = Registered(f.item)
  /\ build' = IF build.closed + 1 < Len(Group)
              THEN [build EXCEPT !.closed = @ + 1]
              ELSE IF build.group < Len(Current.groups)
              THEN [build EXCEPT !.group = @ + 1, !.closed = 0, !.open = FALSE]
              ELSE NextStage
  /\ UNCHANGED <<builds, stops, loaded, result>>

\* index.load(config): a file that is not there throws "File not found".
Load ==
  /\ build # Idle /\ build.at > Len(Stages)
  /\ LET items == ItemsOf(build.v, build.k)
         how == IF \E item \in items : ~Exists(item) THEN "throws"
                ELSE IF \A item \in items : Right(item) THEN "right" ELSE "wrong"
         index == [v |-> build.v, k |-> build.k]
     IN /\ result' = [how |-> how, index |-> index]
        /\ loaded' = IF how = "right" THEN loaded \cup {index} ELSE loaded
  /\ build' = Idle
  /\ UNCHANGED <<files, fileMap, builds, stops>>

\* The process is killed: what it had in memory is gone.  The stage it was in,
\* if it had opened a file of it, is remembered by the next file to close.
Stop ==
  /\ Building /\ Cardinality(stops) < MaxStops
  /\ stops' = stops \cup
       {[layout |-> build.v.layout, inside |-> Begun, next |-> Group[build.closed + 1].item]}
  /\ build' = Idle /\ fileMap' = <<>>
  /\ UNCHANGED <<files, builds, loaded, result>>

Next ==
  \/ \E v \in Variants, k \in Rates : Start(v, k)
  \/ SkipStage \/ OpenGroup \/ CloseFile \/ Load \/ Stop

Spec == Init /\ [][Next]_vars

-----------------------------------------------------------------------------

\* A stop that hurts no later build.  Between two stages, except where
\* sr_csa_psi.h has stored the sub-sample indices under a name that only this
\* process can resolve; and in a stage whose guards are not written yet.
Harmless(stop) ==
  LET key == stop.next[1]
  IN IF stop.inside THEN key \in {"firstByLast", "lastByFirst", "psiFirstIdx"}
                            /\ stop.next[2] \in {"plain", "iv"}
     ELSE ~(stop.layout = "psi" /\ stop.next \in {<<"psiLastText", "iv", k>> : k \in Rates})

\* The guards of constructIndexBaseItems, construct and constructItems: whatever
\* classes and rates share a directory, and however many harmless stops there
\* were, a build that ends loads every item complete, and the one of its own rate.
OnlyTornStagesHurt ==
  (\A stop \in stops : Harmless(stop)) => result.how \in {"none", "right"}

\* Once an index has been built and loaded right, no stop of another build, nor
\* of its own class at another rate, damages it: building it again loads it right.
BuiltStaysBuilt ==
  result.how # "none" /\ result.index \in loaded => result.how = "right"

=============================================================================
