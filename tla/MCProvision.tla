----------------------------- MODULE MCProvision -----------------------------
(***************************************************************************)
(* Provision with an installation of the version that is also the default, *)
(* at the path that is saved at first, and one of the newer release,       *)
(* without the binary and the certificate and found without a setting.     *)
(* The settings call takes the path back, which leaves the former start    *)
(* without any installation.                                               *)
(***************************************************************************)
EXTENDS Provision, TLC

CONSTANTS p1, p2, v1, v2

AllPaths == {p1, p2}
InstalledVersions == [p \in AllPaths |-> IF p = p1 THEN v1 ELSE v2]
\* None; older ones under a version put in by hand; a binary dropped in without a certificate.
SomeFiles == {<<None, None, None>>, <<v1, v1, v2>>, <<v2, None, None>>}
SomeStarts == {<<p2, None>>, <<None, p1>>}
Symmetry == Permutations(Syncs)

=============================================================================
