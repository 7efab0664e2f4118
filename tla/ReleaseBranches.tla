--------------------------- MODULE ReleaseBranches ---------------------------
(***************************************************************************)
(* The branches that release lines live on: cut before a version is        *)
(* prepared (scripts/cut-release-branch.sh), merged back into the main     *)
(* line through a branch and a pull request of their own after a stable    *)
(* release (scripts/merge-back-release-branch.sh), and deleted once a      *)
(* newer line is released (scripts/clean-up-release-branches.sh).          *)
(*                                                                         *)
(* A commit is a number, and a branch is the set of commits reachable from *)
(* its head: `compare` answers "behind" or "identical" for a subset,       *)
(* "ahead" for a superset and "diverged" for anything else.  A ref that    *)
(* does not exist reaches nothing.  A merge made by GitHub unites two      *)
(* histories; its own commit, which changes nothing, is not counted.       *)
(***************************************************************************)
EXTENDS Integers, FiniteSetsExt

CONSTANTS
  Branches,    \* release branches, each named by the version it is cut for
  Versions,    \* bound: stable versions, X.Y.Z with X.Y as one number
  LastCommit,  \* bound: commits are made until this number is reached
  Runs         \* bound: the runs in flight at once

ASSUME BranchesAssumption ==
  /\ Branches \subseteq Versions
  /\ Versions \subseteq [line : Nat, patch : Nat]
  /\ LastCommit \in Nat

Commits == 0..LastCommit
Absent == {}

VARIABLES
  target,   \* the branch that release branches are merged back into
  heads,    \* heads[b]: release branch b
  mb,       \* mb[b]: merge-back/<b>
  pr,       \* pr[b]: whether a pull request from mb[b] into the target is open
  tags,     \* tags[v]: the commit of stable version v
  made,     \* the newest commit
  promised, \* commits a run has reported a merge-back pull request for (history)
  dropped,  \* commits that went with a deleted merge-back branch (history)
  pc,       \* pc[r]: the step run r is at
  job       \* job[r]: what the shell of run r knows

remote == <<target, heads, mb, pr, tags, made>>
history == <<promised, dropped>>
vars == <<remote, history, pc, job>>

\* What a run knows: the branch it works on, the version and the commit it
\* releases (or cuts from), the heads of the release branch and of the merge-back branch as
\* read from the API, the older lines the clean-up has still to look at and their merge-back branches, both
\* as in the clone, the line whose merge-back branch goes next, and whether the
\* merge-back branch could not be brought up to date.
Jobs == [branch : Branches, version : Versions, commit : SUBSET Commits,
         head : SUBSET Commits, mbHead : SUBSET Commits,
         lines : [Branches -> SUBSET Commits], mbs : [Branches -> SUBSET Commits],
         deleted : SUBSET Branches, warned : BOOLEAN]
NoJob == [branch |-> "none"]

Cutting == {"look-up", "create"}
MergingBack == {"head", "compare", "mb-head", "mb-write", "pr", "pr-create"}
Steps == {"idle", "tag", "clean"} \cup Cutting \cup MergingBack

TypeOK ==
  /\ target \in SUBSET Commits
  /\ heads \in [Branches -> SUBSET Commits]
  /\ mb \in [Branches -> SUBSET Commits]
  /\ pr \in [Branches -> BOOLEAN]
  /\ tags \in [Versions -> SUBSET Commits]
  /\ made \in Commits
  /\ promised \in SUBSET Commits
  /\ dropped \in SUBSET Commits
  /\ pc \in [Runs -> Steps]
  /\ job \in [Runs -> Jobs \cup {NoJob}]
  /\ \A r \in Runs : pc[r] # "idle" => job[r] \in Jobs

Init ==
  /\ target = {0}
  /\ heads = [b \in Branches |-> Absent]
  /\ mb = [b \in Branches |-> Absent]
  /\ pr = [b \in Branches |-> FALSE]
  /\ tags = [v \in Versions |-> Absent]
  /\ made = 0
  /\ promised = {}
  /\ dropped = {}
  /\ pc = [r \in Runs |-> "idle"]
  /\ job = [r \in Runs |-> NoJob]

Goto(r, step) == pc' = [pc EXCEPT ![r] = step]
End(r) == Goto(r, "idle") /\ job' = [job EXCEPT ![r] = NoJob]

-----------------------------------------------------------------------------
(* People                                                                  *)

NewCommit == made < LastCommit /\ made' = made + 1

\* A feature is merged into the target.
LandOnTarget ==
  /\ NewCommit
  /\ target' = target \cup {made'}
  /\ UNCHANGED <<heads, mb, pr, tags, history, pc, job>>

\* A fix is merged into a release branch.
LandOnBranch(b) ==
  /\ heads[b] # Absent
  /\ NewCommit
  /\ heads' = [heads EXCEPT ![b] = @ \cup {made'}]
  /\ UNCHANGED <<target, mb, pr, tags, history, pc, job>>

\* "Update branch" or "Resolve conflicts" on the pull request: the target is
\* merged into the branch it comes from.
Resolve(b) ==
  /\ pr[b]
  /\ NewCommit
  /\ mb' = [mb EXCEPT ![b] = @ \cup target \cup {made'}]
  /\ UNCHANGED <<target, heads, pr, tags, history, pc, job>>

\* The pull request is merged with a merge commit; its branch may be deleted
\* with it.
MergePullRequest(b) ==
  /\ pr[b]
  /\ target' = target \cup mb[b]
  /\ pr' = [pr EXCEPT ![b] = FALSE]
  /\ \E rest \in {mb[b], Absent} : mb' = [mb EXCEPT ![b] = rest]
  /\ UNCHANGED <<heads, tags, made, history, pc, job>>

\* A cancelled job, a lost runner, a failed step of the run.
Stop(r) ==
  /\ pc[r] # "idle"
  /\ End(r)
  /\ UNCHANGED <<remote, history>>

-----------------------------------------------------------------------------
(* cut-release-branch.sh                                                   *)

Below(v, w) == v.line < w.line \/ (v.line = w.line /\ v.patch < w.patch)
Released == {v \in Versions : tags[v] # Absent}

\* A new line takes a version above everything released; a commit that a stable
\* version of the line names reopens it.
MayCut(b, commit) ==
  \/ \E v \in Released : v.line = b.line /\ tags[v] = commit
  \/ \A v \in Released : Below(v, b)

\* (mutant: the line being released counts as older than itself)
OlderOrSame(v, refs) == [b \in Branches |-> IF b.line <= v.line THEN refs[b] ELSE Absent]

\* A checkout: of the clone, a run uses the lines older than its version.
Older(v, refs) == [b \in Branches |-> IF b.line < v.line THEN refs[b] ELSE Absent]
Checkout(b, v, commit) ==
  [branch |-> b, version |-> v, commit |-> commit, head |-> Absent,
   mbHead |-> Absent, lines |-> Older(v, heads), mbs |-> Older(v, mb),
   deleted |-> {}, warned |-> FALSE]

\* Run on the target or on a tag, for the version in b's name.
StartCut(r, b) ==
  /\ pc[r] = "idle"
  /\ \E commit \in {target} \cup {tags[v] : v \in Released} :
       /\ MayCut(b, commit)
       /\ job' = [job EXCEPT ![r] = Checkout(b, b, commit)]
  /\ Goto(r, "look-up")
  /\ UNCHANGED <<remote, history>>

\* A branch that is there already ends the run, as done on the same commit and
\* as refused on another.
LookUp(r) ==
  /\ pc[r] = "look-up"
  /\ \/ heads[job[r].branch] = Absent /\ Goto(r, "create") /\ UNCHANGED job
     \/ heads[job[r].branch] # Absent /\ End(r)
  /\ UNCHANGED <<remote, history>>

\* The API creates a ref that does not exist, and refuses one that does.
Create(r) ==
  /\ pc[r] = "create"
  /\ heads' = [heads EXCEPT ![job[r].branch] = IF @ = Absent THEN job[r].commit ELSE @]
  /\ End(r)
  /\ UNCHANGED <<target, mb, pr, tags, made, history>>

-----------------------------------------------------------------------------
(* A stable release, and merge-back-release-branch.sh after it             *)

\* The line's next version: the one in the branch's name, or the patch after
\* the newest released one.
PatchesOf(line) == {v.patch : v \in {w \in Released : w.line = line}}
NextVersion(b) ==
  LET newest == Max(PatchesOf(b.line) \cup {-1})
  IN  [line |-> b.line, patch |-> IF newest < b.patch THEN b.patch ELSE newest + 1]

\* Of the line's branches that contain the promoted commit, the one with the
\* highest patch that is not above the version.
Containing(v, commit) ==
  {b \in Branches : b.line = v.line /\ b.patch <= v.patch /\ commit \subseteq heads[b]}
Highest(bs) == {b \in bs : \A c \in bs : c.patch <= b.patch}

\* A run on b itself, or a promotion of the candidate at its head.  A commit
\* that the line has released already starts nothing.
StartRelease(r, b) ==
  LET v == NextVersion(b) IN
  /\ pc[r] = "idle"
  /\ heads[b] # Absent
  /\ v \in Versions
  /\ \A w \in Released : w.line = b.line => tags[w] # heads[b]
  /\ \E c \in {b} \cup Highest(Containing(v, heads[b])) :
       job' = [job EXCEPT ![r] = Checkout(c, v, heads[b])]
  /\ Goto(r, "tag")
  /\ UNCHANGED <<remote, history>>

\* A tag is pushed once; the loser of a race publishes nothing.
PushTag(r) ==
  /\ pc[r] = "tag"
  /\ \/ /\ tags[job[r].version] = Absent
        /\ tags' = [tags EXCEPT ![job[r].version] = job[r].commit]
        /\ Goto(r, "head")
        /\ UNCHANGED job
     \/ /\ tags[job[r].version] # Absent
        /\ End(r)
        /\ UNCHANGED tags
  /\ UNCHANGED <<target, heads, mb, pr, made, history>>

\* The step gives up with a warning, or finds nothing to do.
SkipMergeBack(r) == Goto(r, "clean") /\ UNCHANGED job

ReadHead(r) ==
  /\ pc[r] = "head"
  /\ \/ /\ heads[job[r].branch] # Absent
        /\ job' = [job EXCEPT ![r].head = heads[job[r].branch]]
        /\ Goto(r, "compare")
     \/ SkipMergeBack(r)
  /\ UNCHANGED <<remote, history>>

CompareWithTarget(r) ==
  /\ pc[r] = "compare"
  /\ \/ ~(job[r].head \subseteq target) /\ Goto(r, "mb-head") /\ UNCHANGED job
     \/ SkipMergeBack(r)
  /\ UNCHANGED <<remote, history>>

\* A failed read counts as "absent".
ReadMergeBack(r) ==
  /\ pc[r] = "mb-head"
  /\ \E seen \in {mb[job[r].branch], Absent} :
       job' = [job EXCEPT ![r].mbHead = seen]
  /\ Goto(r, "mb-write")
  /\ UNCHANGED <<remote, history>>

WriteMergeBack(r, commits) ==
  /\ mb' = [mb EXCEPT ![job[r].branch] = commits]
  /\ Goto(r, "pr")
  /\ UNCHANGED <<target, heads, pr, tags, made, history, job>>

CreateMergeBack(r) ==
  /\ pc[r] = "mb-write"
  /\ job[r].mbHead = Absent
  /\ mb[job[r].branch] = Absent
  /\ WriteMergeBack(r, job[r].head)

KeepMergeBack(r) ==
  /\ pc[r] = "mb-write"
  /\ job[r].mbHead # Absent
  /\ job[r].head \subseteq job[r].mbHead
  /\ WriteMergeBack(r, mb[job[r].branch])

\* (mutant: the branch is moved with force)
MoveMergeBackForced(r) ==
  /\ pc[r] = "mb-write"
  /\ job[r].mbHead # Absent
  /\ job[r].mbHead \subseteq job[r].head
  /\ job[r].mbHead # job[r].head
  /\ mb[job[r].branch] # Absent
  /\ WriteMergeBack(r, job[r].head)

\* Without force the API takes a fast-forward of the branch as it is now, not
\* as it was when it was read.
MoveMergeBack(r) ==
  /\ pc[r] = "mb-write"
  /\ job[r].mbHead # Absent
  /\ job[r].mbHead \subseteq job[r].head
  /\ job[r].mbHead # job[r].head
  /\ mb[job[r].branch] # Absent
  /\ mb[job[r].branch] \subseteq job[r].head
  /\ WriteMergeBack(r, job[r].head)

\* (mutant: base and head of the merge are swapped)
MergeIntoReleaseBranch(r) ==
  /\ pc[r] = "mb-write"
  /\ job[r].mbHead # Absent
  /\ job[r].mbHead # job[r].head
  /\ mb[job[r].branch] # Absent
  /\ heads' = [heads EXCEPT ![job[r].branch] = @ \cup mb[job[r].branch]]
  /\ Goto(r, "pr")
  /\ UNCHANGED <<target, mb, pr, tags, made, history, job>>

\* Diverged, or the comparison got no answer.
MergeIntoMergeBack(r) ==
  /\ pc[r] = "mb-write"
  /\ job[r].mbHead # Absent
  /\ job[r].mbHead # job[r].head
  /\ mb[job[r].branch] # Absent
  /\ WriteMergeBack(r, mb[job[r].branch] \cup job[r].head)

\* The write is refused (a conflict, a branch that has moved, gone or come), or
\* fails.  An existing branch is left as it is and its pull request is still
\* looked after; a branch that cannot be created ends the step.
WriteFails(r) ==
  /\ pc[r] = "mb-write"
  /\ \/ job[r].mbHead = Absent /\ SkipMergeBack(r)
     \/ /\ job[r].mbHead # Absent
        /\ job[r].mbHead # job[r].head
        /\ job' = [job EXCEPT ![r].warned = TRUE]
        /\ Goto(r, "pr")
  /\ UNCHANGED <<remote, history>>

\* (mutant: a warning is forgotten)
ReportAnyway(r) ==
  /\ promised' = promised \cup job[r].head
  /\ Goto(r, "clean")
  /\ UNCHANGED <<target, heads, mb, tags, made, dropped, job>>

\* The run reports a pull request; only if nothing went wrong does that say the
\* release is in it.
Report(r) ==
  /\ promised' = IF job[r].warned THEN promised ELSE promised \cup job[r].head
  /\ Goto(r, "clean")
  /\ UNCHANGED <<target, heads, mb, tags, made, dropped, job>>

\* An open pull request is reused.  A failed query counts as "none".
FindPullRequest(r) ==
  /\ pc[r] = "pr"
  /\ \/ pr[job[r].branch] /\ Report(r) /\ UNCHANGED pr
     \/ Goto(r, "pr-create") /\ UNCHANGED <<remote, history, job>>

\* GitHub refuses a second one, one from a branch that is gone and one that
\* brings nothing.
CreatePullRequest(r) ==
  /\ pc[r] = "pr-create"
  /\ \/ /\ ~pr[job[r].branch]
        /\ ~(mb[job[r].branch] \subseteq target)
        /\ pr' = [pr EXCEPT ![job[r].branch] = TRUE]
        /\ Report(r)
     \/ SkipMergeBack(r) /\ UNCHANGED <<remote, history>>

-----------------------------------------------------------------------------
(* clean-up-release-branches.sh                                            *)

\* (mutant: an older line is deleted whether it has come back or not)
DeleteAnyLine(r, b) ==
  /\ pc[r] = "clean"
  /\ job[r].lines[b] # Absent
  /\ heads[b] # Absent
  /\ heads' = [heads EXCEPT ![b] = Absent]
  /\ job' = [job EXCEPT ![r].lines[b] = Absent, ![r].deleted = {b}]
  /\ UNCHANGED <<target, mb, pr, tags, made, history, pc>>

\* What is compared is a commit of the clone, and the target only grows: the
\* check and the deletion after it make one step.
DeleteLine(r, b) ==
  /\ pc[r] = "clean"
  /\ job[r].lines[b] # Absent
  /\ job[r].lines[b] \subseteq target
  /\ heads[b] # Absent
  /\ heads' = [heads EXCEPT ![b] = Absent]
  /\ job' = [job EXCEPT ![r].lines[b] = Absent, ![r].deleted = {b}]
  /\ UNCHANGED <<target, mb, pr, tags, made, history, pc>>

\* GitHub closes the pull request of a branch that is deleted.
DeleteMergeBack(r, b) ==
  /\ pc[r] = "clean"
  /\ b \in job[r].deleted
  /\ job[r].mbs[b] # Absent
  /\ job[r].mbs[b] \subseteq target
  /\ mb[b] # Absent
  /\ mb' = [mb EXCEPT ![b] = Absent]
  /\ pr' = [pr EXCEPT ![b] = FALSE]
  /\ dropped' = dropped \cup (mb[b] \ target)
  /\ job' = [job EXCEPT ![r].deleted = {}]
  /\ UNCHANGED <<target, heads, tags, made, promised, pc>>

\* A line that is not contained, not there any more or not to be deleted.
KeepLine(r, b) ==
  /\ pc[r] = "clean"
  /\ job[r].lines[b] # Absent
  /\ job' = [job EXCEPT ![r].lines[b] = Absent, ![r].deleted = {}]
  /\ UNCHANGED <<remote, history, pc>>

Finish(r) ==
  /\ pc[r] = "clean"
  /\ \A b \in Branches : job[r].lines[b] = Absent
  /\ End(r)
  /\ UNCHANGED <<remote, history>>

-----------------------------------------------------------------------------
RunStep(r) ==
  \/ \E b \in Branches : StartCut(r, b)
  \/ LookUp(r)
  \/ Create(r)
  \/ \E b \in Branches : StartRelease(r, b)
  \/ PushTag(r)
  \/ ReadHead(r)
  \/ CompareWithTarget(r)
  \/ ReadMergeBack(r)
  \/ CreateMergeBack(r)
  \/ KeepMergeBack(r)
  \/ MoveMergeBack(r)
  \/ MergeIntoMergeBack(r)
  \/ WriteFails(r)
  \/ FindPullRequest(r)
  \/ CreatePullRequest(r)
  \/ \E b \in Branches : DeleteLine(r, b)
  \/ \E b \in Branches : DeleteMergeBack(r, b)
  \/ \E b \in Branches : KeepLine(r, b)
  \/ Finish(r)
  \/ Stop(r)

PeopleStep ==
  \/ LandOnTarget
  \/ \E b \in Branches : LandOnBranch(b)
  \/ \E b \in Branches : Resolve(b)
  \/ \E b \in Branches : MergePullRequest(b)

Next == PeopleStep \/ \E r \in Runs : RunStep(r)

Spec == Init /\ [][Next]_vars

-----------------------------------------------------------------------------
(* Properties                                                              *)

\* What has become of b's merge-back branch: its commits are on it, have come
\* back, or went with it.
Carried(b) == target \cup dropped \cup mb[b]

\* A pull request that a run has reported without a warning carries what it was
\* reported for: every commit of that release is in the target or in an open
\* pull request, unless a clean-up has deleted the branch.  The head of the
\* merge-back branch is read, compared, written and listed in five calls, with
\* other runs, conflict resolutions and merges between any two
\* (merge-back-release-branch.sh:122-207).
PromisesAreCarried ==
  promised \subseteq target \cup dropped \cup UNION {mb[b] : b \in {c \in Branches : pr[c]}}

\* What a run has read of the merge-back branch is not outdated by the branch
\* going backwards, and what it has written is not undone before it reports it.
JobsOK(r) ==
  /\ pc[r] = "mb-write" => job[r].mbHead \subseteq Carried(job[r].branch)
  /\ (pc[r] \in {"pr", "pr-create"} /\ ~job[r].warned)
        => job[r].head \subseteq Carried(job[r].branch)
  /\ pc[r] = "tag" => job[r].commit # Absent
  /\ pc[r] \in MergingBack \cup {"clean"} => tags[job[r].version] # Absent
  /\ \A b \in Branches :
       job[r].lines[b] # Absent \/ b \in job[r].deleted => b.line < job[r].version.line

\* The inductive invariant behind the properties of this module: everything a
\* run relies on between two of its calls (merge-back-release-branch.sh:122-207,
\* clean-up-release-branches.sh:79-101).
BranchesInv ==
  /\ TypeOK
  /\ PromisesAreCarried
  /\ \A r \in Runs : pc[r] # "idle" => JobsOK(r)

\* A branch moves forward or goes; no step, whatever its run has read before,
\* takes a commit from a branch that stays (the cut and the merge-back branch
\* are written by stale readers, cut-release-branch.sh:144-168 and
\* merge-back-release-branch.sh:141-176).
Forward(old, new) == new = Absent \/ old \subseteq new
BranchesOnlyMoveForward ==
  [][\A b \in Branches : Forward(heads[b], heads'[b]) /\ Forward(mb[b], mb'[b])]_vars

\* A release branch keeps building what is deployed: no step brings work of the
\* target into it that it was not cut with (merge-back-release-branch.sh:8-16).
LinesStayClean ==
  [][\A b \in Branches :
       heads[b] # Absent => (heads'[b] \ heads[b]) \cap target = {}]_vars

\* A clean-up deletes lines older than a released one only, and takes no commit
\* along that was on the branch when the run checked out and has not come back:
\* what it takes landed while it ran (clean-up-release-branches.sh:79-101).
Takes(r, ref, seen, b) ==
  /\ (ref[b] \ target') \cap seen[b] = {}
  /\ \E v \in Released : b.line < v.line
DeletesTakeOnlyLateCommits ==
  [][\A b \in Branches :
       /\ heads[b] # Absent /\ heads'[b] = Absent
            => \E r \in Runs : job[r] # job'[r] /\ Takes(r, heads, job[r].lines, b)
       /\ mb[b] # Absent /\ mb'[b] = Absent /\ ~(mb[b] \subseteq target')
            => \E r \in Runs : job[r] # job'[r] /\ Takes(r, mb, job[r].mbs, b)]_vars

\* clean-up-release-branches.sh:8-9 and 14-18: deleting a branch loses nothing,
\* every commit stays on the target, on a branch or in a tag.
NothingIsLost ==
  \A c \in 0..made :
    c \in target \cup UNION {heads[b] \cup mb[b] : b \in Branches}
                 \cup UNION {tags[v] : v \in Versions}
=============================================================================
