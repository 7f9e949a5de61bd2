------------------------------ MODULE MCReports ------------------------------
(***************************************************************************)
(* A small instance of Reports: a crate with two versions and one with one *)
(* version, in chunks of one crate.                                        *)
(***************************************************************************)
EXTENDS Reports

CONSTANTS p1, p2

SmallVersions == {<<1, 1>>, <<1, 2>>, <<2, 1>>}

\* the crate with one version has none
OneCratesVersions == {<<1, 1>>, <<1, 2>>}

\* its second version may be yanked
LatestVersions == {<<1, 2>>}
=============================================================================
