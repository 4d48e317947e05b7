------------------------------- MODULE CsaReload -------------------------------
(***************************************************************************)
(* An index of the psi-based family that is written to a stream and read   *)
(* back, before it is queried, into an object made by its default          *)
(* constructor, as test/locate_tests.cpp does.                             *)
(***************************************************************************)
EXTENDS Csa

\* What an object holds after load(istream).  SrCSABase writes subsample_rate_
\* and reads it back; SrCSAWithPsiRun writes only its items, so that the object
\* read back has the default rate.  (The items' round trip is IndexStream's.)
RateReadBack == IF ix.kind \in {"sr", "vm", "va"} /\ ix.layout = "psi" THEN 1 ELSE ix.rate

\* store_to_cache(index), then load_from_cache into a new object.
Reload ==
  /\ phase = "done" /\ stage = "off"
  /\ ix' = [ix EXCEPT !.rate = RateReadBack]
  /\ stage' = "ready"
  /\ UNCHANGED <<text, sa, jobVars,
                 query, left, range, toehold, jump, frames, value, valid, out, found>>

ReloadNext == Build \/ Reload \/ OnIndex(Query) \/ OnIndex(Step)

ReloadSpec == SystemInit /\ [][ReloadNext]_systemVars

-----------------------------------------------------------------------------

\* test/locate_tests.cpp, SRIndexLocateTypedTests.serialize: the index read back
\* answers EXPECT_EQ(results, e_results), the positions of the occurrences.
ReadBackReportsSuffixArray == ReportsSuffixArray

=============================================================================
