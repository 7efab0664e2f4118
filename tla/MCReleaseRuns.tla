---------------------------- MODULE MCReleaseRuns ----------------------------
(* Values of the constants of ReleaseRuns for its TLC runs *)
EXTENDS ReleaseRuns, TLC

CONSTANTS b1, c1, c2, r1, r2

\* The one branch of the line is named `release/X.Y.0`.
OneBranch == [b \in Branches |-> 0]

\* c2 was committed on c1.
OneAfterTheOther == [c \in Commits |-> IF c = c2 /\ c1 \in Commits THEN c1 ELSE None]

\* X.Y.0 with two candidates, and the stable version after it.
LineVersions == [patch : {0}, rc : 0..2] \cup [patch : {1}, rc : {0}]

\* X.Y.0 with two candidates, to promote one against the other.
PromotionVersions == [patch : {0}, rc : 0..2]

\* X.Y.0 with one candidate, for the runs with fairness.
ResumeVersions == [patch : {0}, rc : 0..1]

\* Typed by hand: a candidate, so that two can sit on one commit; a stable one.
TypedCandidate == {[patch |-> 0, rc |-> 2]}
TypedStable == {[patch |-> 0, rc |-> 0]}

\* Runs are not told apart (runs with safety properties only).
RunSymmetry == Permutations(Runs)

\* A run that has ended leaves nothing behind and is as good as one that never began
\* (runs with safety properties only).
EndsAlike ==
  <<landed, tags, registry, releases, ask, job,
    [r \in Runs |-> IF pc[r] \in Ended THEN "idle" ELSE pc[r]]>>

\* The line is cut at c1.
CutFirst == \A b \in Branches : c1 \in landed[b]

\* Every version has one image on a commit.  X.Y.0 ships that of a pull request: the
\* commit's own, and on c2 the first candidate that of c1.  X.Y.1, which has no candidate,
\* ships a fresh build, for a newer version to have `:latest` before X.Y.0 is promoted again.
OneImageEach ==
  /\ CutFirst
  /\ \A v \in Versions : image[v] # None =>
       /\ v.patch = 0 <=> image[v].build = 0
       /\ v.rc = 1 => image[v].commit = c1
       /\ v.rc = 2 => image[v].commit = tags[v].commit

\* c2 has no pull request of its own: its versions ship that of c1, or a fresh build.
OnePullRequest ==
  /\ CutFirst
  /\ \A v \in Versions : image[v] # None =>
       (image[v].build = 0 <=> image[v].commit = c1)
=============================================================================
