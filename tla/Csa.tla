--------------------------------- MODULE Csa ---------------------------------
(***************************************************************************)
(* An index of the psi-based family from its input to its answers:         *)
(* construct (CsaBuild) builds and loads it, then queries (CsaLocate) run  *)
(* on it one after another.  The whole implements LocateSpec, the promise  *)
(* SrIndex implements too.                                                 *)
(***************************************************************************)
EXTENDS CsaLocate, CsaBuild

jobVars == <<base, phase, sVars, vVars>>
queryVars == <<stage, query, left, range, toehold, jump, frames, value, valid, out, found>>
systemVars == <<data, jobVars, queryVars>>

SystemInit == BuildInit /\ Init

\* construct(...) ends with t_index.load(t_config).
Load ==
  /\ phase = "done" /\ stage = "off"
  /\ stage' = "ready"
  /\ UNCHANGED <<data, jobVars, query, left, range, toehold, jump, frames, value, valid, out, found>>

Build == BuildStep /\ UNCHANGED queryVars

OnIndex(Action) == Action /\ UNCHANGED jobVars

SystemNext == Build \/ Load \/ OnIndex(Query) \/ OnIndex(Step)

Spec == SystemInit /\ [][SystemNext]_systemVars

-----------------------------------------------------------------------------

\* The index answers as LocateSpec promises: each occurrence once, nothing else.
Promise == INSTANCE LocateSpec WITH
  state <- IF stage \in {"off", "ready", "answered"} THEN "idle" ELSE op,
  count <- IF op = "count" /\ stage = "answered" THEN found.end - found.start ELSE 0

ImplementsPromise == Promise!Spec

\* phi forward is right wherever its result is trusted: for every entry of the
\* suffix array but the last it gives the entry after.  An SrCSA trusts none, a
\* CSARaw has no phi.
PhiRightWhenTrusted ==
  phase = "done" /\ ix.kind # "raw" =>
    \A p \in DOMAIN sa \ {ix.n - 1} : Phi(sa[p]).valid => Phi(sa[p]).value = sa[p + 1]

=============================================================================
