----------------------------- MODULE ReleaseRuns -----------------------------
(***************************************************************************)
(* Concurrent release runs of one release line (`release/X.Y.Z`), from the *)
(* checkout to the GitHub Release.  Three kinds of run share the tags, the *)
(* registry and the releases of the repository:                            *)
(*                                                                         *)
(*   "line"      release-branch-versioning: branch -- the version comes    *)
(*               from the branch name and the tags in the clone            *)
(*               (scripts/resolve-release-line-version.sh);                *)
(*   "override"  version-override -- a person types the version;           *)
(*   "promote"   promote-from -- a named candidate becomes its stable      *)
(*               version (scripts/resolve-promote-from.sh).                *)
(*                                                                         *)
(* All of them push their tag with scripts/push-release-tag.sh and then    *)
(* run the publishing steps of action.yml, which are gated on the          *)
(* `released` output of that script.  A run can stop at any step (a failed *)
(* call, a cancelled job, a lost runner), and a new run of the same event  *)
(* starts from nothing but what the old one left on the remote.            *)
(***************************************************************************)
EXTENDS Integers, FiniteSetsExt

CONSTANTS
  Branches,    \* release branches of one line X.Y
  FirstPatch,  \* FirstPatch[b]: the Z of the X.Y.Z in b's name
  Commits,     \* commits that can land on them
  Parent,      \* Parent[c]: the first parent of c, None when it is no commit of these
  Versions,    \* bound: the versions considered, X.Y.patch or X.Y.patch-rc.N
  Builds,      \* bound: the image builds considered, 0 for the pr-<N> image
  Runs,        \* bound: the runs in flight at once
  LineEnvs,    \* whether a branch's runs target production: TRUE, FALSE or both
  Overrides,   \* versions a person may type into version-override
  CarryForward,\* deployment-model: TRUE for tbd, where production ships what the
               \* environment before it built; FALSE for bbd
  None         \* "nothing": an absent tag, image, version or commit

\* A version is [patch |-> p, rc |-> n]; n is 0 in a stable one.
StableVersions == {v \in Versions : v.rc = 0}
Candidates == Versions \ StableVersions

\* An annotated tag: the commit it names and, on a promotion's, the candidate
\* in its `Promoted-From:` line.
Tags == [commit : Commits, marker : Candidates \cup {None}]

\* A manifest digest: the commit whose tree it was built from, and which build.
Digests == [commit : Commits, build : Builds]

ASSUME ReleaseAssumption ==
  /\ Branches # {}
  /\ Versions \subseteq [patch : Nat, rc : Nat]
  /\ \A v \in Versions : [patch |-> v.patch, rc |-> 0] \in Versions
  /\ Builds \subseteq Nat
  /\ 0 \in Builds
  /\ FirstPatch \in [Branches -> Nat]
  /\ Parent \in [Commits -> Commits \cup {None}]
  /\ LineEnvs \subseteq BOOLEAN
  /\ CarryForward \in BOOLEAN
  /\ Overrides \subseteq Versions
  /\ None \notin Versions
  /\ None \notin Commits
  /\ None \notin Tags
  /\ None \notin Digests

VARIABLES
  landed,    \* landed[b]: the commits pushed to branch b, its tip among them
  tags,      \* tags[v]: the remote's tag for v, or None
  image,     \* image[v]: what the registry serves under v's tag, or None
  served,    \* served[v]: every image a candidate's tag ever had (history)
  latest,    \* the version whose image `:latest` was last moved to, or None
  releases,  \* versions with a GitHub Release
  ask,       \* ask[r]: the event r was started for
  job,       \* job[r]: what r's steps have resolved
  pc         \* pc[r]: the step r is at

registry == <<image, served, latest>>
vars == <<landed, tags, image, served, latest, releases, ask, job, pc>>

\* The event a run was started for: a push of a commit to a branch, to a
\* production environment or not; the same with a version typed in; or a
\* candidate to promote.
LineAsks == [kind : {"line"}, branch : Branches, commit : Commits,
             stable : LineEnvs]
OverrideAsks == [kind : {"override"}, commit : Commits, version : Overrides]
PromoteAsks == [kind : {"promote"}, version : Candidates]
NoAsk == [kind |-> "none"]
Asks == LineAsks \cup OverrideAsks \cup PromoteAsks \cup {NoAsk}

\* Step outputs: the version and the commit being released, the promoted
\* candidate, RESUME_AT_HEAD, whether the clone already holds the tag, and
\* whether `:latest` moves; and the stable versions the clone holds (history).
Jobs == [version : Versions \cup {None}, commit : Commits \cup {None},
         marker : Candidates \cup {None}, resume : BOOLEAN,
         known : BOOLEAN, latest : BOOLEAN, saw : SUBSET StableVersions]

NoJob == [version |-> None, commit |-> None, marker |-> None,
          resume |-> FALSE, known |-> FALSE, latest |-> FALSE, saw |-> {}]

Publishing == {"image", "latest", "release"}
Tagging == {"resume-check", "pre-check", "push", "re-check"}
Working == {"probe"} \cup Tagging \cup Publishing
\* "noop" is a green run that reported released=false.
Ended == {"green", "noop", "failed"}
Steps == {"idle", "queued"} \cup Working \cup Ended

TypeOK ==
  /\ landed \in [Branches -> SUBSET Commits]
  /\ tags \in [Versions -> Tags \cup {None}]
  /\ image \in [Versions -> Digests \cup {None}]
  /\ served \in [Candidates -> SUBSET Digests]
  /\ latest \in Versions \cup {None}
  /\ releases \subseteq Versions
  /\ ask \in [Runs -> Asks]
  /\ job \in [Runs -> Jobs]
  /\ pc \in [Runs -> Steps]

\* Every branch of the line was cut at the same commit.
Init ==
  /\ \E c \in Commits : landed = [b \in Branches |-> {c}]
  /\ tags = [v \in Versions |-> None]
  /\ image = [v \in Versions |-> None]
  /\ served = [v \in Candidates |-> {}]
  /\ latest = None
  /\ releases = {}
  /\ ask = [r \in Runs |-> NoAsk]
  /\ job = [r \in Runs |-> NoJob]
  /\ pc = [r \in Runs |-> "idle"]

\* Run r goes on to a step, or ends and takes its event and its outputs along.
Goto(r, step) == pc' = [pc EXCEPT ![r] = step]
Proceed(r, step) == Goto(r, step) /\ UNCHANGED <<ask, job>>
End(r, how) ==
  /\ Goto(r, how)
  /\ ask' = [ask EXCEPT ![r] = NoAsk]
  /\ job' = [job EXCEPT ![r] = NoJob]

-----------------------------------------------------------------------------
(* What starts a run                                                       *)

\* A fix is merged into a release branch: its first parent is the branch's tip.
Land(b) ==
  /\ \E c \in Commits \ UNION {landed[d] : d \in Branches} :
       /\ Parent[c] \in landed[b]
       /\ \A d \in landed[b] : Parent[d] # Parent[c]
       /\ landed' = [landed EXCEPT ![b] = @ \cup {c}]
  /\ UNCHANGED <<tags, registry, releases, ask, job, pc>>

\* The event fixes what a run checks out, so "Re-run" is a new run of an event
\* that has had one before, and a late run may be of a commit that is no longer
\* the tip of its branch.
StartRun(r, event) ==
  /\ pc[r] \in {"idle"} \cup Ended
  /\ ask' = [ask EXCEPT ![r] = event]
  /\ Goto(r, "queued")
  /\ UNCHANGED <<landed, tags, registry, releases, job>>

PushRun(r) ==
  \E b \in Branches, s \in LineEnvs : \E c \in landed[b] :
    StartRun(r, [kind |-> "line", branch |-> b, commit |-> c, stable |-> s])

OverrideRun(r) ==
  \E b \in Branches, v \in Overrides : \E c \in landed[b] :
    StartRun(r, [kind |-> "override", commit |-> c, version |-> v])

PromoteRun(r) ==
  \E v \in Candidates : StartRun(r, [kind |-> "promote", version |-> v])

\* A step fails, the job is cancelled or the runner is lost.
Fail(r) ==
  /\ pc[r] \in Working \cup {"queued"}
  /\ End(r, "failed")
  /\ UNCHANGED <<landed, tags, registry, releases>>

-----------------------------------------------------------------------------
(* The version.  The scripts read the clone's tags, which checkout has just *)
(* fetched; nothing else writes the clone, so checkout and resolution are   *)
(* one step.                                                                *)

Tagged(v) == tags[v] # None

\* Stable versions of the line, all of them and those whose tag is on c.
Released == {v \in StableVersions : Tagged(v)}
ReleasedAt(c) == {v \in Released : tags[v].commit = c}

\* The first patch number of the line that is not released yet.
Shipped == {v.patch : v \in Released}
NextPatch(first) ==
  IF Shipped = {} \/ Max(Shipped) < first THEN first ELSE Max(Shipped) + 1

\* The candidates of patch p, and their numbers.
CandidatesOf(p) == {v \in Candidates : v.patch = p /\ Tagged(v)}
Numbers(p) == {v.rc : v \in CandidatesOf(p)}

\* (mutant: the number after the candidates that there are, the commit's own included)
NextCandidateAlways(p, c) ==
  {v \in Candidates : v.patch = p /\ v.rc = Max(Numbers(p) \cup {0}) + 1}

\* The candidate of patch p that c already holds, or the next number.
NextCandidate(p, c) ==
  LET here == {v \in CandidatesOf(p) : tags[v].commit = c}
      next == Max(Numbers(p) \cup {0}) + 1
  IN  IF here # {} THEN here ELSE {v \in Candidates : v.patch = p /\ v.rc = next}

\* (mutant: the tag of an earlier run is not looked for on the commit)
LineAnswersNoReleased(a) ==
  LET p == NextPatch(FirstPatch[a.branch])
  IN  IF a.stable
      THEN {[version |-> v, resume |-> TRUE] : v \in {w \in StableVersions : w.patch = p}}
      ELSE {[version |-> v, resume |-> TRUE] : v \in NextCandidate(p, a.commit)}

\* (mutant: a candidate found on the commit is reported, not resumed)
LineAnswersNoResume(a) ==
  LET p == NextPatch(FirstPatch[a.branch])
  IN  IF ReleasedAt(a.commit) # {}
      THEN {[version |-> v, resume |-> FALSE] : v \in ReleasedAt(a.commit)}
      ELSE IF a.stable
      THEN {[version |-> v, resume |-> TRUE] : v \in {w \in StableVersions : w.patch = p}}
      ELSE {[version |-> v, resume |-> ~Tagged(v)] :
              v \in NextCandidate(p, a.commit)}

\* What resolve-release-line-version.sh may answer: a stable tag already on the
\* commit (not resumed), else the next stable version or candidate (resumed);
\* nothing when that is beyond the bound Versions.
LineAnswers(a) ==
  LET p == NextPatch(FirstPatch[a.branch])
  IN  IF ReleasedAt(a.commit) # {}
      THEN {[version |-> v, resume |-> FALSE] : v \in ReleasedAt(a.commit)}
      ELSE IF a.stable
      THEN {[version |-> v, resume |-> TRUE] : v \in {w \in StableVersions : w.patch = p}}
      ELSE {[version |-> v, resume |-> TRUE] : v \in NextCandidate(p, a.commit)}

StartLine(r) ==
  /\ pc[r] = "queued" /\ ask[r].kind = "line"
  /\ \E x \in LineAnswers(ask[r]) :
       /\ job' = [job EXCEPT ![r] =
                    [version |-> x.version, commit |-> ask[r].commit,
                     marker |-> None, resume |-> x.resume,
                     known |-> Tagged(x.version), latest |-> ask[r].stable,
                     saw |-> Released]]
       /\ Goto(r, IF x.resume THEN "resume-check" ELSE "pre-check")
  /\ UNCHANGED <<landed, tags, registry, releases, ask>>

\* A version typed by hand is taken as it is, and never resumed.  (A stable one
\* is typed for production, a candidate for the environment before it.)
StartOverride(r) ==
  /\ pc[r] = "queued" /\ ask[r].kind = "override"
  /\ job' = [job EXCEPT ![r] =
               [version |-> ask[r].version, commit |-> ask[r].commit,
                marker |-> None, resume |-> FALSE,
                known |-> Tagged(ask[r].version),
                latest |-> ask[r].version \in StableVersions, saw |-> Released]]
  /\ Goto(r, "pre-check")
  /\ UNCHANGED <<landed, tags, registry, releases, ask>>

StableOf(v) == [patch |-> v.patch, rc |-> 0]

\* (mutant: a version that exists is refused, an unfinished promotion included)
MayPromoteOnce(v) == Tagged(v) /\ ~Tagged(StableOf(v))

\* The candidate exists, and its stable version is free or is this promotion.
MayPromote(v) ==
  /\ Tagged(v)
  /\ Tagged(StableOf(v)) =>
       /\ tags[StableOf(v)].commit = tags[v].commit
       /\ tags[StableOf(v)].marker = v

\* (mutant: every promotion moves `:latest`)
IsNewestAlways(to) == TRUE

\* `:latest` moves unless a newer stable version is tagged.
IsNewest(to) == \A v \in Released : v.patch <= to.patch

\* resolve-promote-from.sh, then the checkout of the candidate's commit.
StartPromote(r) ==
  /\ pc[r] = "queued" /\ ask[r].kind = "promote"
  /\ LET from == ask[r].version
         to == StableOf(from)
     IN  \/ /\ MayPromote(from)
            /\ job' = [job EXCEPT ![r] =
                 [version |-> to, commit |-> tags[from].commit,
                  marker |-> from, resume |-> TRUE, known |-> Tagged(to),
                  latest |-> IsNewest(to), saw |-> Released]]
            /\ Goto(r, "probe")
            /\ UNCHANGED ask
         \/ ~MayPromote(from) /\ End(r, "failed")
  /\ UNCHANGED <<landed, tags, registry, releases>>

\* verify-promote-from-images.sh: only a definite "not there" stops the run.
\* `answered` is FALSE when the registry would not say.
ProbeSource(r) ==
  /\ pc[r] = "probe"
  /\ \E answered \in BOOLEAN :
       IF answered /\ image[job[r].marker] = None
       THEN End(r, "failed")
       ELSE Proceed(r, "resume-check")
  /\ UNCHANGED <<landed, tags, registry, releases>>

-----------------------------------------------------------------------------
(* The tag: scripts/push-release-tag.sh.  Every query of the remote is a    *)
(* step of its own, and other runs push between them.                       *)

\* (mutant: the commit is taken as proof)
SameCommit(r) == tags[job[r].version].commit = job[r].commit

\* require_same_release: the tag is on this commit and, on a promotion, says it
\* was promoted from the same candidate.
SameRelease(r) ==
  LET t == tags[job[r].version]
  IN  /\ t.commit = job[r].commit
      /\ job[r].marker # None => t.marker = job[r].marker

\* (mutant: a tag that is there is resumed, whatever it is)
ResumeAnyTag(r) ==
  /\ pc[r] = "resume-check"
  /\ IF Tagged(job[r].version) THEN Proceed(r, "image")
                              ELSE Proceed(r, "pre-check")
  /\ UNCHANGED <<landed, tags, registry, releases>>

\* Asked only under RESUME_AT_HEAD, and strictly: a query that fails is Fail(r).
ResumeCheck(r) ==
  /\ pc[r] = "resume-check"
  /\ \/ /\ Tagged(job[r].version) /\ SameRelease(r)
        /\ Proceed(r, "image")
     \/ /\ Tagged(job[r].version) /\ ~SameRelease(r)
        /\ End(r, "failed")
     \/ /\ ~Tagged(job[r].version)
        /\ Proceed(r, "pre-check")
  /\ UNCHANGED <<landed, tags, registry, releases>>

\* Asked by every run, and leniently: a query that fails reads as "absent", and
\* `git tag` then fails if the clone holds the tag.
PreCheck(r) ==
  /\ pc[r] = "pre-check"
  /\ \E answered \in BOOLEAN :
       \/ /\ answered /\ Tagged(job[r].version)
          /\ End(r, "noop")
       \/ /\ ~(answered /\ Tagged(job[r].version))
          /\ IF job[r].known
             THEN End(r, "failed")
             ELSE Proceed(r, "push")
  /\ UNCHANGED <<landed, tags, registry, releases>>

\* (mutant: git push --force)
PushTagForced(r) ==
  /\ pc[r] = "push"
  /\ tags' = [tags EXCEPT ![job[r].version] =
                [commit |-> job[r].commit, marker |-> job[r].marker]]
  /\ Proceed(r, "image")
  /\ UNCHANGED <<landed, registry, releases>>

\* (mutant: the tag's message names the new version, not the candidate)
PushTagNamingItself(r) ==
  /\ pc[r] = "push"
  /\ ~Tagged(job[r].version)
  /\ tags' = [tags EXCEPT ![job[r].version] =
                [commit |-> job[r].commit, marker |-> job[r].version]]
  /\ Proceed(r, "image")
  /\ UNCHANGED <<landed, registry, releases>>

\* The remote takes a tag it does not have and refuses any other.  The push can
\* also fail on its way there, or succeed with its answer lost.
PushTag(r) ==
  LET v == job[r].version
  IN  /\ pc[r] = "push"
      /\ \/ /\ ~Tagged(v)
            /\ tags' = [tags EXCEPT ![v] =
                          [commit |-> job[r].commit, marker |-> job[r].marker]]
            /\ \E heard \in BOOLEAN :
                 Proceed(r, IF heard THEN "image" ELSE "re-check")
         \/ Proceed(r, "re-check") /\ UNCHANGED tags
      /\ UNCHANGED <<landed, registry, releases>>

\* After a failed push: a tag that is there now was pushed by a parallel run.
ReCheck(r) ==
  /\ pc[r] = "re-check"
  /\ Tagged(job[r].version)
  /\ job[r].resume => SameRelease(r)
  /\ End(r, "noop")
  /\ UNCHANGED <<landed, tags, registry, releases>>

-----------------------------------------------------------------------------
(* Publishing, gated on released=true                                      *)

Serve(v, d) ==
  /\ image' = [image EXCEPT ![v] = d]
  /\ served' = IF v \in Candidates THEN [served EXCEPT ![v] = @ \cup {d}]
                                  ELSE served

\* The commits among which the pull request of a tag on c is looked for: c and its
\* first parents, five in all.
AndParents(S) == S \cup ({Parent[d] : d \in S} \ {None})
Walk(c) == AndParents(AndParents(AndParents(AndParents({c}))))

\* The pr-<N> image (build 0) of a pull request found there.  Its tree is compared with
\* that of the commit the walk stopped on, which is not c if c has no pull request of
\* its own or the query for it failed.
PullRequestImages(c) == [commit : Walk(c), build : {0}]
FreshImages(c) == [commit : {c}, build : Builds \ {0}]

\* (mutant: a promotion falls back to a build, as every other retag does)
PublishImageOrBuild(r) ==
  /\ pc[r] = "image"
  /\ \E d \in FreshImages(job[r].commit) : Serve(job[r].version, d)
  /\ Proceed(r, IF job[r].latest THEN "latest" ELSE "release")
  /\ UNCHANGED <<landed, tags, latest, releases>>

\* (mutant: a failed image step does not stop the run)
PublishImageOrGoOn(r) ==
  /\ pc[r] = "image"
  /\ Proceed(r, "release")
  /\ UNCHANGED <<landed, tags, registry, releases>>

\* A run of a later environment retags what the environment before it built: the
\* newest candidate of its version, of whatever commit that is.
CarriesForward(j) ==
  CarryForward /\ j.marker = None /\ j.version \in StableVersions

NewestCandidates(p) ==
  {v \in CandidatesOf(p) : \A w \in CandidatesOf(p) : w.rc <= v.rc}

\* "Promote images": a promotion retags the candidate's image and nothing else.
\* Any other run retags the one it carries forward, or else the pr-<N> image once its
\* provenance matches, or builds its commit afresh.
PublishImage(r) ==
  /\ pc[r] = "image"
  /\ LET j == job[r]
         retagged == IF CarriesForward(j) THEN NewestCandidates(j.version.patch)
                                          ELSE {j.marker} \ {None}
         unpromoted == FreshImages(j.commit) \cup
                         IF CarriesForward(j) THEN {} ELSE PullRequestImages(j.commit)
     IN  /\ \/ \E v \in retagged :
                 image[v] # None /\ Serve(j.version, image[v])
            \/ /\ j.marker = None
               /\ \E d \in unpromoted : Serve(j.version, d)
         /\ Proceed(r, IF j.latest THEN "latest" ELSE "release")
  /\ UNCHANGED <<landed, tags, latest, releases>>

\* The second tag of the same retag.
MoveLatest(r) ==
  /\ pc[r] = "latest"
  /\ latest' = job[r].version
  /\ Proceed(r, "release")
  /\ UNCHANGED <<landed, tags, image, served, releases>>

\* Outside a promotion a retag that failed half way is followed by a fresh build
\* pushed under both tags.
RebuildAfterRetag(r) ==
  /\ pc[r] = "latest" /\ job[r].marker = None
  /\ \E d \in FreshImages(job[r].commit) : Serve(job[r].version, d)
  /\ UNCHANGED <<landed, tags, latest, releases, ask, job, pc>>

\* "Publish GitHub Release": created unless it is there; the run goes red when
\* no attempt was answered, even if one of them created it.
PublishRelease(r) ==
  /\ pc[r] = "release"
  /\ releases' = releases \cup {job[r].version}
  /\ \E how \in {"green", "failed"} : End(r, how)
  /\ UNCHANGED <<landed, tags, registry>>

-----------------------------------------------------------------------------
\* What a run does by itself once it is queued.
RunStep(r) ==
  \/ StartLine(r) \/ StartOverride(r) \/ StartPromote(r) \/ ProbeSource(r)
  \/ ResumeCheck(r) \/ PreCheck(r) \/ PushTag(r) \/ ReCheck(r)
  \/ PublishImage(r) \/ MoveLatest(r) \/ PublishRelease(r)

Next ==
  \/ \E b \in Branches : Land(b)
  \/ \E r \in Runs :
       \/ PushRun(r) \/ OverrideRun(r) \/ PromoteRun(r)
       \/ RunStep(r) \/ RebuildAfterRetag(r) \/ Fail(r)

Spec == Init /\ [][Next]_vars

-----------------------------------------------------------------------------
(* Fairness: a run that is in flight comes to an end; a release that is not *)
(* announced is run again; and the runs of one event do not all die: if     *)
(* they die over and over, then over and over one of them gets to its end.  *)

Unfinished(event) ==
  \E v \in Versions :
    /\ Tagged(v) /\ v \notin releases
    /\ IF event.kind = "promote"
       THEN v = StableOf(event.version)
       ELSE v.rc = 0 <=> event.stable

RunAgain(event) ==
  /\ Unfinished(event)
  /\ event.kind = "line" => event.commit \in landed[event.branch]
  /\ \E r \in Runs : StartRun(r, event)

Dies(event) == \E r \in Runs : ask[r] = event /\ Fail(r)
Ends(event) ==
  \E r \in Runs : ask[r] = event /\ RunStep(r) /\ pc'[r] \in Ended

Fairness ==
  /\ \A r \in Runs : WF_vars(RunStep(r) \/ Fail(r))
  /\ \A e \in PromoteAsks \cup LineAsks :
       /\ SF_vars(RunAgain(e))
       /\ []<><<Dies(e)>>_vars => []<><<Ends(e)>>_vars

FairSpec == Spec /\ Fairness

-----------------------------------------------------------------------------
(* Properties                                                              *)

\* The tag of the version run r resolved is on the commit it checked out and, if
\* r is a promotion, records the candidate r is promoting.
OwnsItsTag(r) ==
  LET t == tags[job[r].version]
  IN  t # None /\ t.commit = job[r].commit /\ job[r].marker \in {None, t.marker}

\* A run that carries on as released=true (the steps of action.yml gated on it)
\* owns, at every one of them, the tag it publishes under.
ReleasedRunOwnsItsTag == \A r \in Runs : pc[r] \in Publishing => OwnsItsTag(r)

\* An image fits a commit that it is a build of, or whose pull request it may be taken for.
Fits(d, c) == d.commit = c \/ d \in PullRequestImages(c)

\* Whatever is served under a version fits the commit its tag names, through any number
\* of retags, rebuilds and re-runs: it is a build of that commit, or the pr-<N> image of
\* that commit or of one of the four before it (action.yml:3213-3235), never one of a
\* commit further back or of one that came after; or, for a stable version under tbd, it
\* was served before by a candidate of that very version.
ImageFitsTag ==
  \A v \in Versions : image[v] # None =>
    /\ Tagged(v)
    /\ \/ Fits(image[v], tags[v].commit)
       \/ /\ CarryForward
          /\ \E w \in Candidates : StableOf(w) = v /\ image[v] \in served[w]

\* A promoted version serves a build that its candidate served: never a rebuild,
\* never another candidate's.
PromotedImageWasTested ==
  \A v \in Versions :
    Tagged(v) /\ tags[v].marker # None /\ image[v] # None =>
      image[v] \in served[tags[v].marker]

\* The strengthening that makes the properties above and KeepsLedger inductive:
\* what a run's outputs say of the tags, and that nothing is announced, or about
\* to be, that does not ship.
JobsOK ==
  \A r \in Runs : pc[r] \in Working =>
    /\ job[r].version \in Versions
    /\ job[r].commit \in Commits
    /\ pc[r] = "probe" => job[r].marker # None
    /\ job[r].marker # None =>
         /\ job[r].version = StableOf(job[r].marker)
         /\ Tagged(job[r].marker)
         /\ tags[job[r].marker].commit = job[r].commit

AnnouncedShips ==
  /\ \A v \in releases : image[v] # None
  /\ \A r \in Runs : pc[r] \in {"latest", "release"} => image[job[r].version] # None

ServedIsHistory ==
  \A v \in Candidates : image[v] # None => image[v] \in served[v]

RunsInv ==
  /\ TypeOK
  /\ JobsOK
  /\ ReleasedRunOwnsItsTag
  /\ ServedIsHistory
  /\ ImageFitsTag
  /\ AnnouncedShips

\* What PromotedImageWasTested needs besides, when no push targets production:
\* only a stable version's tag records a candidate, and no run without one ever
\* publishes under such a tag.
MarkedTagsArePromotions ==
  \A v \in Versions :
    Tagged(v) /\ tags[v].marker # None => v = StableOf(tags[v].marker)

UnmarkedRunsKeepOut ==
  \A r \in Runs : job[r].marker = None =>
    /\ pc[r] = "resume-check" => job[r].version \in Candidates
    /\ pc[r] \in Publishing => tags[job[r].version].marker = None

PromotionInv ==
  /\ RunsInv
  /\ MarkedTagsArePromotions
  /\ UnmarkedRunsKeepOut
  /\ PromotedImageWasTested

\* The runs implement the ledger: a version is claimed once and never moved,
\* ships after it is claimed, and is announced after it ships.
Ledger == INSTANCE VersionLedger WITH
  claim <- [v \in Versions |-> IF Tagged(v) THEN tags[v].commit ELSE None],
  shipped <- {v \in Versions : image[v] # None},
  announced <- releases
KeepsLedger == Ledger!LedgerSpec

\* A line is numbered without gaps.
Contiguous(first, numbers) == numbers = {} \/ \E n \in numbers : numbers = first..n

\* Version v is a number of commit c's, given out in turn: the numbers before it are
\* taken, and none of those is c's.
InTurn(b, v, c) ==
  /\ FirstPatch[b] <= v.patch
  /\ FirstPatch[b]..(v.patch - 1) \subseteq Shipped
  /\ \A w \in ReleasedAt(c) : v.patch <= w.patch
  /\ v \in Candidates =>
       /\ 1..(v.rc - 1) \subseteq Numbers(v.patch)
       /\ \A w \in CandidatesOf(v.patch) : tags[w].commit = c => v.rc <= w.rc

\* Why nothing is cut twice: every tag is in turn, and so is what a run may still push,
\* however long ago it read the tags; a number that is not has been taken since.
NumbersInv ==
  \A b \in Branches :
    /\ Contiguous(FirstPatch[b], Shipped)
    /\ \A v \in Candidates : Contiguous(1, Numbers(v.patch))
    /\ \A v \in Versions : Tagged(v) => InTurn(b, v, tags[v].commit)
    /\ \A r \in Runs : pc[r] \in {"probe"} \cup Tagging =>
         /\ job[r].known \/ InTurn(b, job[r].version, job[r].commit)
         /\ pc[r] = "push" => ~job[r].known

\* No commit is released twice: not as two stable versions of its line, and not
\* as two candidates of one version, whatever runs race or are repeated on it.
\* (For branches that start at the same number and no version typed by hand.)
NothingCutTwice ==
  \A v, w \in Versions :
    /\ Tagged(v) /\ Tagged(w) /\ tags[v].commit = tags[w].commit
    /\ v.rc = 0 <=> w.rc = 0
    /\ v.rc # 0 => v.patch = w.patch
    => v = w

\* A run of a commit whose candidate has been tagged, and is not promoted yet, comes to
\* that candidate and no other, and is to resume it: whatever has been tagged since, the
\* release of a run that died is found again (resolve-release-line-version.sh:129-140).
\* (For the lines that NothingCutTwice is about.)
RerunsFindTheirRelease ==
  \A v \in Candidates, b \in Branches : Tagged(v) /\ ~Tagged(StableOf(v)) =>
    LineAnswers([kind |-> "line", branch |-> b, commit |-> tags[v].commit,
                 stable |-> FALSE]) = {[version |-> v, resume |-> TRUE]}

\* A promotion whose tag is pushed can be run again: what the tag records is the
\* candidate it is of, and that candidate may still be promoted.
PromotionsCanBeRerun ==
  \A v \in Versions : Tagged(v) /\ tags[v].marker # None =>
    v = StableOf(tags[v].marker) /\ MayPromote(tags[v].marker)

\* `:latest` goes back only from a version that was tagged after the run that moves it
\* had read the tags: what a run has seen released it never puts behind itself, through
\* any number of races and re-runs.  (A version typed by hand is not looked at.)
LatestOnlyOvertaken ==
  [][\A r \in Runs :
       /\ pc[r] = "latest" /\ pc'[r] = "release" /\ ask[r].kind # "override"
       /\ latest # None /\ latest'.patch < latest.patch
       => latest \notin job[r].saw]_vars

\* What LatestOnlyOvertaken rests on: there is a newest version, and a run that gets as
\* far as moving `:latest`, which it does only if it is to, has a version no older than
\* any it has seen.
HasNewest == Shipped = {} \/ \E n \in Shipped : \A m \in Shipped : m <= n

LatestInv ==
  /\ HasNewest
  /\ \A r \in Runs : pc[r] = "latest" => job[r].latest
  /\ \A r \in Runs : pc[r] \in Working /\ ask[r].kind # "override" =>
       \/ pc[r] = "pre-check" /\ job[r].known
       \/ job[r].latest => \A v \in job[r].saw : v.patch <= job[r].version.patch

\* A candidate whose tag is pushed gets its GitHub Release, however often the
\* runs of its commit die, unless its version is released meanwhile: the re-run
\* must find the tag, take it for its own and finish.
CandidateAnnounced ==
  \A v \in Candidates :
    Tagged(v) ~> v \in releases \/ Tagged(StableOf(v))

\* A promotion whose tag is pushed is finished by running it again, as long as
\* the registry has the image of the candidate.
PromotionAnnounced ==
  \A v \in Candidates :
    /\ Tagged(StableOf(v)) /\ tags[StableOf(v)].marker = v
    /\ image[v] # None
    ~> StableOf(v) \in releases

\* A run that releases a named build (resume) and finds its version taken never
\* ends green unless the tag that took it is this very release.
LosingRunGoesRed ==
  [][\A r \in Runs :
       pc[r] \in Tagging /\ job[r].resume /\ pc'[r] = "noop" => OwnsItsTag(r)]_vars

\* A stable version that a push cut gets its GitHub Release, however often the
\* runs of its commit die.
StableAnnounced ==
  \A v \in StableVersions :
    Tagged(v) /\ tags[v].marker = None ~> v \in releases
=============================================================================
