--------------------------- MODULE MCNightlyBuild ---------------------------
(* NightlyBuild on small sets of builds.                                   *)
EXTENDS NightlyBuild, TLC

\* Builds are compared for equality only, so they may be exchanged wherever
\* only invariants are checked.
BuildSymmetry == Permutations(Builds)
=============================================================================
