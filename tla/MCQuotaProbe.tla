---------------------------- MODULE MCQuotaProbe ----------------------------
(***************************************************************************)
(* QuotaProbe with interchangeable tasks, loads and quota data.            *)
(***************************************************************************)
EXTENDS QuotaProbe, TLC

Symmetry == Permutations(Tasks) \cup Permutations(Loads) \cup Permutations(Quotas)

\* What the page shows is read by no action and, TypeOK apart, by no property of the run:
\* states that differ in it alone count as one.  (ShowsLastLoad needs it.)
AllButShown == <<storeVars, taskVars, eventVars, connected, answer, newest, seen>>

=============================================================================
