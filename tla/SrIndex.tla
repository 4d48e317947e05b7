------------------------------- MODULE SrIndex -------------------------------
(***************************************************************************)
(* An index of the BWT-based family from its input to its answers:         *)
(* construct (SrIndexBuild) builds and loads it, then queries (Locate) run *)
(* on it one after another.  The whole implements LocateSpec.              *)
(***************************************************************************)
EXTENDS Locate, SrIndexBuild

jobVars == <<base, phase, sVars, vVars>>
queryVars == <<stage, query, left, range, toehold, jump, frames, value, valid, out, found>>
systemVars == <<data, jobVars, queryVars>>

SystemInit == BuildInit /\ Init

\* construct(...) ends with t_index.load(t_config).
Load ==
  /\ phase = "done" /\ stage = "off"
  /\ stage' = "ready"
  /\ UNCHANGED <<data, jobVars, query, left, range, toehold, jump, frames, value, valid, out, found>>

Build == BuildStep /\ UNCHANGED queryVars

OnIndex(Action) == Action /\ UNCHANGED jobVars

Answering == OnIndex(Step)

SystemNext == Build \/ Load \/ OnIndex(Query) \/ Answering

Spec == SystemInit /\ [][SystemNext]_systemVars

(***************************************************************************)
(* Construction and queries run to their end on the calling thread; when   *)
(* the next query is asked, if ever, is up to the caller.  No liveness     *)
(* property needs the construction to get past BuildBase, whose work is    *)
(* sdsl's suffix sorting, so none is assumed of it.                        *)
(***************************************************************************)
Loading == (IndexStep /\ UNCHANGED queryVars) \/ Load

FairSpec == Spec /\ WF_systemVars(Loading) /\ WF_systemVars(Answering)

-----------------------------------------------------------------------------

\* The construction and the pending query are well typed: no position, run or
\* level underflows, and no run on the stack is empty.
SystemTypeOK == BuildTypeOK /\ TypeOK

\* The index answers as LocateSpec promises: each occurrence once, nothing else.
Promise == INSTANCE LocateSpec WITH
  state <- IF stage \in {"off", "ready", "answered"} THEN "idle" ELSE op,
  count <- IF op = "count" /\ stage = "answered" THEN found.end - found.start ELSE 0

ImplementsPromise == Promise!Spec

\* What was built and loaded is right for the queries: among the rest, phi is
\* right where its result is trusted, by its validity or past the level limit.
LoadedIndexIsRight == stage = "ready" => IndexIsRight

\* Once the r-index items are there, construction ends with an index that can
\* be asked: neither of its two loops runs for ever or stops half way.
Builds == phase # "base" ~> stage # "off"

=============================================================================
