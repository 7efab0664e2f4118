------------------------- MODULE MCReleaseBranches -------------------------
(* Values for the constants of ReleaseBranches, and a smaller state.        *)
EXTENDS ReleaseBranches, TLC

CONSTANTS r1, r2

Version(l, p) == [line |-> l, patch |-> p]

\* Two lines with a branch each; the older one has a patch release.
TwoLines == {Version(1, 0), Version(2, 0)}
TwoLineVersions == TwoLines \cup {Version(1, 1)}

\* Three commits are made on one line (a fix, another one and the resolution of
\* a conflict), two when there is a second.
Involved(b) == heads[b] # Absent \/ \E r \in Runs : pc[r] # "idle" /\ job[r].branch = b
CommitBound == made = 3 => ~Involved(Version(2, 0)) /\ tags[Version(2, 0)] = Absent

RunSymmetry == Permutations({r1, r2})
=============================================================================
