---------------------------- MODULE MCReleasesView ----------------------------
(* Values of the constants of ReleasesView for its TLC run: one installation   *)
(* with more repositories than the caps and a page hold, and an empty one      *)
EXTENDS ReleasesView, TLC

CONSTANTS i1, i2, r1, r2, r3, p1, p2

Homes == [r \in Repos |-> i1]

\* The repositories are in the same installation.
ViewSymmetry == Permutations(Pollers) \cup Permutations(Released)
=============================================================================
