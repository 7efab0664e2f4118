-------------------------- MODULE ReleaseRunsProofs --------------------------
(***************************************************************************)
(* Theorems about ReleaseRuns, for any branches, commits, versions, builds *)
(* and number of concurrent runs.                                          *)
(***************************************************************************)
EXTENDS ReleaseRuns, TLAPS

\* The stable version of a version is within the bound too.
LEMMA StableOfVersion ==
  ASSUME NEW v \in Versions
  PROVE  StableOf(v) \in Versions /\ StableOf(v) \in StableVersions
  BY ReleaseAssumption DEF StableOf, StableVersions

\* The pull request of a tag is looked for on commits.
LEMMA WalkOverCommits ==
  ASSUME NEW c \in Commits
  PROVE  Walk(c) \subseteq Commits
<1>1. ASSUME NEW S \in SUBSET Commits PROVE AndParents(S) \subseteq Commits
  BY ReleaseAssumption DEF AndParents
<1> QED
  BY <1>1 DEF Walk

\* An image that is not another version's is a digest, and fits the commit it is for.
LEMMA UnpromotedImagesFit ==
  ASSUME NEW c \in Commits, NEW d \in FreshImages(c) \cup PullRequestImages(c)
  PROVE  d \in Digests /\ d # None /\ Fits(d, c)
<1>1. CASE d \in FreshImages(c)
  BY <1>1, ReleaseAssumption DEF FreshImages, Fits, Digests
<1>2. CASE d \in PullRequestImages(c)
  BY <1>2, WalkOverCommits, ReleaseAssumption DEF PullRequestImages, Fits, Digests
<1> QED
  BY <1>1, <1>2

\* The kind of an event tells which of the four sets it is from.
LEMMA AskKinds ==
  ASSUME NEW a \in Asks
  PROVE  /\ a.kind = "line" => a.commit \in Commits /\ a.stable \in BOOLEAN
         /\ a.kind = "override" => a.commit \in Commits /\ a.version \in Versions
         /\ a.kind = "promote" => a.version \in Candidates
  BY ReleaseAssumption DEF Asks, LineAsks, OverrideAsks, PromoteAsks, NoAsk

\* What the resolver answers is a version within the bound; a run that does not
\* target production resumes candidates only.
LEMMA LineAnswerFacts ==
  ASSUME NEW a, NEW x \in LineAnswers(a)
  PROVE  /\ x.version \in Versions
         /\ x.resume \in BOOLEAN
         /\ x.resume /\ ~a.stable => x.version \in Candidates
<1> DEFINE p == NextPatch(FirstPatch[a.branch])
<1>1. CASE ReleasedAt(a.commit) # {}
  <2>1. PICK v \in ReleasedAt(a.commit) : x = [version |-> v, resume |-> FALSE]
    BY <1>1 DEF LineAnswers
  <2> QED
    BY <2>1 DEF ReleasedAt, Released, StableVersions
<1>2. CASE ReleasedAt(a.commit) = {} /\ a.stable
  <2>1. PICK v \in {w \in StableVersions : w.patch = p} :
          x = [version |-> v, resume |-> TRUE]
    BY <1>2 DEF LineAnswers
  <2> QED
    BY <1>2, <2>1 DEF StableVersions
<1>3. CASE ReleasedAt(a.commit) = {} /\ ~a.stable
  <2>1. PICK v \in NextCandidate(p, a.commit) : x = [version |-> v, resume |-> TRUE]
    BY <1>3 DEF LineAnswers
  <2>2. v \in Candidates
    BY <2>1 DEF NextCandidate, CandidatesOf
  <2> QED
    BY <2>1, <2>2 DEF Candidates
<1> QED
  BY <1>1, <1>2, <1>3

-----------------------------------------------------------------------------
(* Ending a run and handing it on keep the types of ask, job and pc        *)

\* A run that ends leaves well-typed functions behind.
LEMMA EndTyped ==
  ASSUME TypeOK, NEW r \in Runs, NEW how \in Ended, End(r, how)
  PROVE  ask' \in [Runs -> Asks] /\ job' \in [Runs -> Jobs] /\ pc' \in [Runs -> Steps]
  BY DEF TypeOK, End, Goto, Asks, NoAsk, Jobs, NoJob, Steps, Ended

\* So does a run that goes on to its next step.
LEMMA ProceedTyped ==
  ASSUME TypeOK, NEW r \in Runs, NEW step \in Steps, Proceed(r, step)
  PROVE  ask' \in [Runs -> Asks] /\ job' \in [Runs -> Jobs] /\ pc' \in [Runs -> Steps]
  BY DEF TypeOK, Proceed, Goto

\* The types hold initially.
LEMMA TypeOKInit == Init => TypeOK
  BY DEF Init, TypeOK, Asks, NoAsk, Jobs, NoJob, Steps, Candidates

-----------------------------------------------------------------------------
(* Every action keeps the types                                            *)

\* Starting a run for any event keeps the types.
LEMMA StartRunTyped ==
  ASSUME TypeOK, NEW r \in Runs, NEW event \in Asks, StartRun(r, event)
  PROVE  TypeOK'
  BY DEF TypeOK, StartRun, Goto, registry, Steps

\* The three events that start a run.
LEMMA TriggersTyped ==
  ASSUME TypeOK, NEW r \in Runs, PushRun(r) \/ OverrideRun(r) \/ PromoteRun(r)
  PROVE  TypeOK'
<1>1. CASE PushRun(r)
  <2>1. PICK b \in Branches, s \in LineEnvs : \E c \in landed[b] :
          StartRun(r, [kind |-> "line", branch |-> b, commit |-> c, stable |-> s])
    BY <1>1 DEF PushRun
  <2>2. PICK c \in landed[b] :
          StartRun(r, [kind |-> "line", branch |-> b, commit |-> c, stable |-> s])
    BY <2>1
  <2>3. [kind |-> "line", branch |-> b, commit |-> c, stable |-> s] \in Asks
    BY ReleaseAssumption DEF TypeOK, Asks, LineAsks
  <2> QED
    BY <2>2, <2>3, StartRunTyped
<1>2. CASE OverrideRun(r)
  <2>1. PICK b \in Branches, v \in Overrides : \E c \in landed[b] :
          StartRun(r, [kind |-> "override", commit |-> c, version |-> v])
    BY <1>2 DEF OverrideRun
  <2>2. PICK c \in landed[b] :
          StartRun(r, [kind |-> "override", commit |-> c, version |-> v])
    BY <2>1
  <2>3. [kind |-> "override", commit |-> c, version |-> v] \in Asks
    BY DEF TypeOK, Asks, OverrideAsks
  <2> QED
    BY <2>2, <2>3, StartRunTyped
<1>3. CASE PromoteRun(r)
  <2>1. PICK v \in Candidates : StartRun(r, [kind |-> "promote", version |-> v])
    BY <1>3 DEF PromoteRun
  <2>2. [kind |-> "promote", version |-> v] \in Asks
    BY DEF Asks, PromoteAsks
  <2> QED
    BY <2>1, <2>2, StartRunTyped
<1> QED
  BY <1>1, <1>2, <1>3

\* The resolver of a release branch fills in a well-typed job.
LEMMA StartLineTyped ==
  ASSUME TypeOK, NEW r \in Runs, StartLine(r)
  PROVE  TypeOK'
<1>1. ask[r] \in Asks /\ ask[r].kind = "line"
  BY DEF TypeOK, StartLine
<1>2. PICK x \in LineAnswers(ask[r]) :
        /\ job' = [job EXCEPT ![r] =
                     [version |-> x.version, commit |-> ask[r].commit,
                      marker |-> None, resume |-> x.resume,
                      known |-> Tagged(x.version), latest |-> ask[r].stable,
                      saw |-> Released]]
        /\ Goto(r, IF x.resume THEN "resume-check" ELSE "pre-check")
  BY DEF StartLine
<1>3. [version |-> x.version, commit |-> ask[r].commit, marker |-> None,
       resume |-> x.resume, known |-> Tagged(x.version), latest |-> ask[r].stable,
       saw |-> Released] \in Jobs
  BY <1>1, <1>2, AskKinds, LineAnswerFacts DEF Jobs, Tagged, Released
<1>4. job' \in [Runs -> Jobs]
  BY <1>2, <1>3 DEF TypeOK
<1>5. pc' \in [Runs -> Steps]
  BY <1>2 DEF TypeOK, Goto, Steps, Working, Tagging
<1> QED
  BY <1>4, <1>5 DEF TypeOK, StartLine, registry

\* So does the version typed by hand.
LEMMA StartOverrideTyped ==
  ASSUME TypeOK, NEW r \in Runs, StartOverride(r)
  PROVE  TypeOK'
<1>1. ask[r] \in Asks /\ ask[r].kind = "override"
  BY DEF TypeOK, StartOverride
<1>2. [version |-> ask[r].version, commit |-> ask[r].commit, marker |-> None,
       resume |-> FALSE, known |-> Tagged(ask[r].version),
       latest |-> ask[r].version \in StableVersions, saw |-> Released] \in Jobs
  BY <1>1, AskKinds DEF Jobs, Tagged, Released
<1>3. job' \in [Runs -> Jobs]
  BY <1>2 DEF TypeOK, StartOverride
<1> QED
  BY <1>3 DEF TypeOK, StartOverride, Goto, registry, Steps, Working, Tagging

\* And so does the resolver of promotions, which reads the commit off a tag.
LEMMA StartPromoteTyped ==
  ASSUME TypeOK, NEW r \in Runs, StartPromote(r)
  PROVE  TypeOK'
<1> DEFINE from == ask[r].version
           to == StableOf(from)
           new == [version |-> to, commit |-> tags[from].commit,
                   marker |-> from, resume |-> TRUE, known |-> Tagged(to),
                   latest |-> IsNewest(to), saw |-> Released]
<1>1. from \in Candidates /\ from \in Versions
  BY AskKinds DEF TypeOK, StartPromote, Candidates
<1>2. CASE ~MayPromote(from) /\ End(r, "failed")
  <2>1. ask' \in [Runs -> Asks] /\ job' \in [Runs -> Jobs] /\ pc' \in [Runs -> Steps]
    BY <1>2, EndTyped DEF Ended
  <2> QED
    BY <2>1 DEF TypeOK, StartPromote, registry
<1>3. CASE MayPromote(from) /\ job' = [job EXCEPT ![r] = new]
           /\ Goto(r, "probe") /\ UNCHANGED ask
  <2>1. tags[from] \in Tags
    BY <1>1, <1>3 DEF TypeOK, MayPromote, Tagged
  <2>2. new.latest \in BOOLEAN /\ new.known \in BOOLEAN /\ new.saw \subseteq StableVersions
    BY DEF Tagged, IsNewest, Released
  <2>3. new \in Jobs
    BY <1>1, <2>1, <2>2, StableOfVersion DEF Jobs, Tags
  <2>4. job' \in [Runs -> Jobs]
    BY <1>3, <2>3 DEF TypeOK
  <2>5. pc' \in [Runs -> Steps]
    BY <1>3 DEF TypeOK, Goto, Steps, Working
  <2> QED
    BY <1>3, <2>4, <2>5 DEF TypeOK, StartPromote, registry
<1> QED
  BY <1>2, <1>3 DEF StartPromote

\* Fail keeps the types.
LEMMA FailTyped ==
  ASSUME TypeOK, NEW r \in Runs, Fail(r)
  PROVE  TypeOK'
  BY EndTyped DEF TypeOK, Fail, Ended, registry

\* ProbeSource keeps the types.
LEMMA ProbeSourceTyped ==
  ASSUME TypeOK, NEW r \in Runs, ProbeSource(r)
  PROVE  TypeOK'
<1>1. End(r, "failed") \/ Proceed(r, "resume-check")
  BY DEF ProbeSource
<1> QED
  BY <1>1, EndTyped, ProceedTyped
  DEF TypeOK, ProbeSource, Ended, Steps, Working, Tagging, registry

\* ResumeCheck keeps the types.
LEMMA ResumeCheckTyped ==
  ASSUME TypeOK, NEW r \in Runs, ResumeCheck(r)
  PROVE  TypeOK'
<1>1. End(r, "failed") \/ Proceed(r, "image") \/ Proceed(r, "pre-check")
  BY DEF ResumeCheck
<1> QED
  BY <1>1, EndTyped, ProceedTyped
  DEF TypeOK, ResumeCheck, Ended, Steps, Working, Tagging, Publishing, registry

\* PreCheck keeps the types.
LEMMA PreCheckTyped ==
  ASSUME TypeOK, NEW r \in Runs, PreCheck(r)
  PROVE  TypeOK'
<1>1. End(r, "failed") \/ End(r, "noop") \/ Proceed(r, "push")
  BY DEF PreCheck
<1> QED
  BY <1>1, EndTyped, ProceedTyped
  DEF TypeOK, PreCheck, Ended, Steps, Working, Tagging, registry

\* ReCheck keeps the types.
LEMMA ReCheckTyped ==
  ASSUME TypeOK, NEW r \in Runs, ReCheck(r)
  PROVE  TypeOK'
  BY EndTyped DEF TypeOK, ReCheck, Ended, registry

\* MoveLatest keeps the types: the job it reads names a version.
LEMMA MoveLatestTyped ==
  ASSUME TypeOK, NEW r \in Runs, MoveLatest(r)
  PROVE  TypeOK'
<1>1. Proceed(r, "release") /\ "release" \in Steps
  BY DEF MoveLatest, Steps, Working, Publishing
<1>2. latest' \in Versions \cup {None}
  BY DEF TypeOK, MoveLatest, Jobs
<1> QED
  BY <1>1, <1>2, ProceedTyped DEF TypeOK, MoveLatest

\* PushTag keeps the types: the job it reads names a version and a commit.
LEMMA PushTagTyped ==
  ASSUME TypeOK, JobsOK, NEW r \in Runs, PushTag(r)
  PROVE  TypeOK'
<1>1. \E step \in {"image", "re-check"} : Proceed(r, step)
  BY DEF PushTag
<1>2. ask' \in [Runs -> Asks] /\ job' \in [Runs -> Jobs] /\ pc' \in [Runs -> Steps]
  BY <1>1, ProceedTyped DEF Steps, Working, Tagging, Publishing
<1>3. [commit |-> job[r].commit, marker |-> job[r].marker] \in Tags
  BY DEF TypeOK, JobsOK, PushTag, Working, Tagging, Jobs, Tags
<1>4. tags' \in [Versions -> Tags \cup {None}]
  BY <1>3 DEF TypeOK, PushTag
<1> QED
  BY <1>2, <1>4 DEF TypeOK, PushTag, registry

\* Serving a digest under a version keeps the registry well typed.
LEMMA ServeTyped ==
  ASSUME TypeOK, NEW v \in Versions, NEW d \in Digests, Serve(v, d)
  PROVE  /\ image' \in [Versions -> Digests \cup {None}]
         /\ served' \in [Candidates -> SUBSET Digests]
  BY DEF TypeOK, Serve

\* Where the image of a version comes from: from its candidate on a promotion,
\* from another version under tbd, or from a pull request or a build of the run's commit.
LEMMA ImageSources ==
  ASSUME TypeOK, JobsOK, NEW r \in Runs, PublishImage(r)
  PROVE  \/ /\ job[r].marker # None /\ job[r].marker \in Candidates
            /\ image[job[r].marker] # None
            /\ Serve(job[r].version, image[job[r].marker])
         \/ /\ job[r].marker = None
            /\ CarryForward
            /\ \E v \in Candidates :
                 /\ StableOf(v) = job[r].version
                 /\ image[v] # None
                 /\ Serve(job[r].version, image[v])
         \/ /\ job[r].marker = None
            /\ \E d \in FreshImages(job[r].commit) \cup PullRequestImages(job[r].commit) :
                 Serve(job[r].version, d)
<1> DEFINE j == job[r]
           carries == CarriesForward(j)
           retagged == IF carries THEN NewestCandidates(j.version.patch)
                                  ELSE {j.marker} \ {None}
<1>1. CASE \E v \in retagged : image[v] # None /\ Serve(j.version, image[v])
  <2>1. CASE carries
    <3>1. PICK v \in NewestCandidates(j.version.patch) :
                 image[v] # None /\ Serve(j.version, image[v])
      BY <1>1, <2>1
    <3>2. v \in Candidates /\ v.patch = j.version.patch
      BY <3>1 DEF NewestCandidates, CandidatesOf
    <3>3. j.version \in StableVersions /\ CarryForward /\ j.marker = None
      BY <2>1 DEF CarriesForward
    <3>4. StableOf(v) = j.version
      BY <3>2, <3>3, ReleaseAssumption DEF StableOf, StableVersions
    <3> QED
      BY <3>1, <3>2, <3>3, <3>4
  <2>2. CASE ~carries
    BY <1>1, <2>2 DEF TypeOK, Jobs
  <2> QED
    BY <2>1, <2>2
<1>2. CASE /\ j.marker = None
           /\ \E d \in FreshImages(j.commit) \cup
                         IF carries THEN {} ELSE PullRequestImages(j.commit) :
                Serve(j.version, d)
  BY <1>2
<1> QED
  BY <1>1, <1>2 DEF PublishImage

\* Wherever it comes from, it is a digest.
LEMMA DigestServed ==
  ASSUME TypeOK, JobsOK, NEW r \in Runs, PublishImage(r)
  PROVE  \E d \in Digests : d # None /\ Serve(job[r].version, d)
<1>1. job[r].commit \in Commits /\ Candidates \subseteq Versions
  BY DEF JobsOK, PublishImage, Working, Publishing, Candidates
<1>2. \A v \in Versions : image[v] # None => image[v] \in Digests
  BY DEF TypeOK
<1>3. CASE /\ job[r].marker \in Candidates /\ image[job[r].marker] # None
           /\ Serve(job[r].version, image[job[r].marker])
  BY <1>1, <1>2, <1>3
<1>4. CASE \E v \in Candidates : image[v] # None /\ Serve(job[r].version, image[v])
  BY <1>1, <1>2, <1>4
<1>5. CASE \E d \in FreshImages(job[r].commit) \cup PullRequestImages(job[r].commit) :
             Serve(job[r].version, d)
  BY <1>1, <1>5, UnpromotedImagesFit
<1> QED
  BY <1>3, <1>4, <1>5, ImageSources

\* PublishImage keeps the types.
LEMMA PublishImageTyped ==
  ASSUME TypeOK, JobsOK, NEW r \in Runs, PublishImage(r)
  PROVE  TypeOK'
<1>1. \E step \in {"latest", "release"} : Proceed(r, step)
  BY DEF PublishImage
<1>2. ask' \in [Runs -> Asks] /\ job' \in [Runs -> Jobs] /\ pc' \in [Runs -> Steps]
  BY <1>1, ProceedTyped DEF Steps, Working, Publishing
<1>3. job[r].version \in Versions
  BY DEF JobsOK, PublishImage, Working, Publishing
<1>4. \E d \in Digests : Serve(job[r].version, d)
  BY DigestServed
<1> QED
  BY <1>2, <1>3, <1>4, ServeTyped DEF TypeOK, PublishImage

\* RebuildAfterRetag keeps the types.
LEMMA RebuildTyped ==
  ASSUME TypeOK, JobsOK, NEW r \in Runs, RebuildAfterRetag(r)
  PROVE  TypeOK'
<1>1. job[r].version \in Versions /\ job[r].commit \in Commits
  BY DEF JobsOK, RebuildAfterRetag, Working, Publishing
<1>2. \E d \in Digests : Serve(job[r].version, d)
  BY <1>1, UnpromotedImagesFit DEF RebuildAfterRetag
<1> QED
  BY <1>1, <1>2, ServeTyped DEF TypeOK, RebuildAfterRetag

\* PublishRelease keeps the types.
LEMMA PublishReleaseTyped ==
  ASSUME TypeOK, JobsOK, NEW r \in Runs, PublishRelease(r)
  PROVE  TypeOK'
<1>1. \E how \in Ended : End(r, how)
  BY DEF PublishRelease, Ended
<1>2. job[r].version \in Versions
  BY DEF JobsOK, PublishRelease, Working, Publishing
<1> QED
  BY <1>1, <1>2, EndTyped DEF TypeOK, PublishRelease, registry

\* Every step keeps the types, given that working runs hold real jobs.
LEMMA TypeOKStep == TypeOK /\ JobsOK /\ [Next]_vars => TypeOK'
<1> SUFFICES ASSUME TypeOK, JobsOK, [Next]_vars PROVE TypeOK'
  OBVIOUS
<1>1. ASSUME NEW b \in Branches, Land(b) PROVE TypeOK'
  BY <1>1 DEF TypeOK, Land, registry
<1>2. ASSUME NEW r \in Runs, PushRun(r) \/ OverrideRun(r) \/ PromoteRun(r)
      PROVE  TypeOK'
  BY <1>2, TriggersTyped
<1>3. ASSUME NEW r \in Runs, RunStep(r) PROVE TypeOK'
  BY <1>3, StartLineTyped, StartOverrideTyped, StartPromoteTyped, ProbeSourceTyped,
     ResumeCheckTyped, PreCheckTyped, PushTagTyped, ReCheckTyped, PublishImageTyped,
     MoveLatestTyped, PublishReleaseTyped
  DEF RunStep
<1>4. ASSUME NEW r \in Runs, RebuildAfterRetag(r) \/ Fail(r) PROVE TypeOK'
  BY <1>4, RebuildTyped, FailTyped
<1>5. CASE UNCHANGED vars
  BY <1>5 DEF vars, registry, TypeOK
<1> QED
  BY <1>1, <1>2, <1>3, <1>4, <1>5 DEF Next

-----------------------------------------------------------------------------
(* What a step writes, and what it does to one run                         *)

\* Which actions write the tags, the registry and the releases: all the others leave
\* them alone.
LEMMA Writers ==
  ASSUME [Next]_vars
  PROVE  \/ UNCHANGED <<tags, image, served, releases>>
         \/ \E r \in Runs :
              PushTag(r) \/ PublishImage(r) \/ RebuildAfterRetag(r) \/ PublishRelease(r)
  BY DEF Next, vars, registry, RunStep, Land, PushRun, OverrideRun, PromoteRun, StartRun,
         Fail, StartLine, StartOverride, StartPromote, ProbeSource, ResumeCheck,
         PreCheck, ReCheck, MoveLatest

\* A version's tag is never moved or removed.
LEMMA TagsStay ==
  ASSUME TypeOK, [Next]_vars, NEW v \in Versions, Tagged(v)
  PROVE  tags'[v] = tags[v]
<1>1. CASE UNCHANGED tags
  BY <1>1
<1>2. ASSUME NEW r \in Runs, PushTag(r) PROVE tags'[v] = tags[v]
  BY <1>2 DEF PushTag, TypeOK, Tagged
<1> QED
  BY <1>1, <1>2, Writers DEF PublishImage, RebuildAfterRetag, PublishRelease

\* A version, once served, is served from then on.
LEMMA ImagesStay ==
  ASSUME TypeOK, JobsOK, [Next]_vars, NEW v \in Versions, image[v] # None
  PROVE  image'[v] # None
<1>1. ASSUME NEW r \in Runs, PublishImage(r) \/ RebuildAfterRetag(r)
      PROVE  image'[v] # None
  <2>1. job[r].commit \in Commits
    BY <1>1 DEF JobsOK, PublishImage, RebuildAfterRetag, Working, Publishing
  <2>2. \E w, d : d # None /\ image' = [image EXCEPT ![w] = d]
    <3>1. \A d \in FreshImages(job[r].commit) : d # None
      BY <2>1, UnpromotedImagesFit
    <3>2. CASE PublishImage(r)
      BY <3>2, DigestServed DEF Serve
    <3>3. CASE RebuildAfterRetag(r)
      BY <3>1, <3>3 DEF RebuildAfterRetag, Serve
    <3> QED
      BY <1>1, <3>2, <3>3
  <2> QED
    BY <2>2 DEF TypeOK
<1> QED
  BY <1>1, Writers DEF PushTag, PublishRelease, registry

\* A step of one run leaves the others where they are.
Acts(r) ==
  \/ PushRun(r) \/ OverrideRun(r) \/ PromoteRun(r)
  \/ RunStep(r) \/ RebuildAfterRetag(r) \/ Fail(r)

\* A step of one run leaves the event, the outputs and the position of the others alone.
LEMMA ActsAlone ==
  ASSUME TypeOK, NEW r \in Runs, Acts(r), NEW q \in Runs, q # r
  PROVE  pc'[q] = pc[q] /\ job'[q] = job[q] /\ ask'[q] = ask[q]
  BY DEF TypeOK, Acts, RunStep, PushRun, OverrideRun, PromoteRun, StartRun, Fail,
         StartLine, StartOverride, StartPromote, ProbeSource, ResumeCheck, PreCheck,
         PushTag, ReCheck, PublishImage, MoveLatest, RebuildAfterRetag, PublishRelease,
         Goto, Proceed, End

\* How one run moves: it rests, ends, starts, or goes on with the same event and outputs,
\* to the tag from a step before the tag, and past the first look only if the clone does
\* not hold it.
GoesOn(q) ==
  /\ job'[q] = job[q] /\ ask'[q] = ask[q]
  /\ pc[q] \in Working /\ pc'[q] \in Working \ {"probe"}
  /\ pc'[q] \in Tagging => pc[q] \in {"probe"} \cup Tagging
  /\ pc[q] = "pre-check" => ~job[q].known
  /\ pc'[q] = "push" => pc[q] = "pre-check"
  /\ pc'[q] = "latest" => job[q].latest

\* A run's step is one of those.
LEMMA RunMoves ==
  ASSUME TypeOK, [Next]_vars, NEW q \in Runs
  PROVE  \/ pc'[q] = pc[q] /\ job'[q] = job[q] /\ ask'[q] = ask[q]
         \/ pc'[q] \notin Working
         \/ StartLine(q) \/ StartOverride(q) \/ StartPromote(q)
         \/ GoesOn(q)
<1>1. CASE UNCHANGED <<pc, job, ask>>
  BY <1>1
<1>2. ASSUME NEW r \in Runs, Acts(r), r # q
      PROVE  pc'[q] = pc[q] /\ job'[q] = job[q] /\ ask'[q] = ask[q]
  BY <1>2, ActsAlone
<1>3. CASE PushRun(q) \/ OverrideRun(q) \/ PromoteRun(q)
  BY <1>3 DEF TypeOK, PushRun, OverrideRun, PromoteRun, StartRun, Goto,
              Working, Tagging, Publishing
<1>4. CASE \E how \in Ended : End(q, how)
  BY <1>4 DEF TypeOK, End, Goto, Ended, Working, Tagging, Publishing
<1>5. \A step : Proceed(q, step) => pc'[q] = step /\ job'[q] = job[q] /\ ask'[q] = ask[q]
  BY DEF TypeOK, Proceed, Goto
<1>6. CASE ProbeSource(q) \/ ResumeCheck(q) \/ ReCheck(q)
  BY <1>4, <1>5, <1>6 DEF ProbeSource, ResumeCheck, ReCheck, GoesOn,
                          Ended, Working, Tagging, Publishing
<1>7. CASE PreCheck(q)
  BY <1>4, <1>5, <1>7 DEF PreCheck, GoesOn, Ended, Working, Tagging, Publishing
<1>8. CASE PushTag(q)
  BY <1>5, <1>8 DEF PushTag, GoesOn, Working, Tagging, Publishing
<1>9. CASE PublishImage(q) \/ MoveLatest(q)
  BY <1>5, <1>9 DEF PublishImage, MoveLatest, GoesOn, Working, Tagging, Publishing
<1>10. CASE PublishRelease(q) \/ Fail(q)
  BY <1>4, <1>10 DEF PublishRelease, Fail, Ended
<1>11. CASE RebuildAfterRetag(q)
  BY <1>1, <1>11 DEF RebuildAfterRetag
<1>12. \/ UNCHANGED <<pc, job, ask>>
       \/ \E r \in Runs : Acts(r)
  BY DEF Next, vars, Acts, Land
<1> QED
  BY <1>1, <1>2, <1>3, <1>6, <1>7, <1>8, <1>9, <1>10, <1>11, <1>12 DEF Acts, RunStep

-----------------------------------------------------------------------------
(* The inductive invariant, conjunct by conjunct                           *)

\* What JobsOK says of one run, as an operator of its outputs and the tags.
JobOK(q) ==
  /\ job[q].version \in Versions
  /\ job[q].commit \in Commits
  /\ pc[q] = "probe" => job[q].marker # None
  /\ job[q].marker # None =>
       /\ job[q].version = StableOf(job[q].marker)
       /\ Tagged(job[q].marker)
       /\ tags[job[q].marker].commit = job[q].commit

\* A run of a release branch starts with a job that fits the tags.
LEMMA StartLineJob ==
  ASSUME TypeOK, NEW q \in Runs, StartLine(q)
  PROVE  JobOK(q)'
<1>1. ask[q] \in Asks /\ ask[q].kind = "line"
  BY DEF TypeOK, StartLine
<1>2. PICK x \in LineAnswers(ask[q]) :
        /\ job' = [job EXCEPT ![q] =
                     [version |-> x.version, commit |-> ask[q].commit,
                      marker |-> None, resume |-> x.resume,
                      known |-> Tagged(x.version), latest |-> ask[q].stable,
                      saw |-> Released]]
        /\ Goto(q, IF x.resume THEN "resume-check" ELSE "pre-check")
  BY DEF StartLine
<1>3. job'[q].version = x.version /\ job'[q].commit = ask[q].commit
      /\ job'[q].marker = None /\ pc'[q] # "probe"
  BY <1>2 DEF TypeOK, Goto
<1> QED
  BY <1>1, <1>3, AskKinds, LineAnswerFacts DEF JobOK

\* So does a run with a version typed by hand.
LEMMA StartOverrideJob ==
  ASSUME TypeOK, NEW q \in Runs, StartOverride(q)
  PROVE  JobOK(q)'
<1>1. ask[q] \in Asks /\ ask[q].kind = "override"
  BY DEF TypeOK, StartOverride
<1>2. job'[q].version = ask[q].version /\ job'[q].commit = ask[q].commit
      /\ job'[q].marker = None /\ pc'[q] # "probe"
  BY DEF TypeOK, StartOverride, Goto
<1> QED
  BY <1>1, <1>2, AskKinds DEF JobOK

\* So does a promotion: its commit is the one of its candidate's tag.
LEMMA StartPromoteJob ==
  ASSUME TypeOK, NEW q \in Runs, StartPromote(q), pc'[q] \in Working
  PROVE  JobOK(q)'
<1> DEFINE from == ask[q].version
<1>1. from \in Candidates /\ from \in Versions /\ from # None
  BY AskKinds, ReleaseAssumption DEF TypeOK, StartPromote, Candidates
<1>2. ~End(q, "failed")
  BY DEF TypeOK, End, Goto, Working, Tagging, Publishing
<1>3. /\ MayPromote(from)
      /\ job'[q].version = StableOf(from) /\ job'[q].commit = tags[from].commit
      /\ job'[q].marker = from
  BY <1>2 DEF TypeOK, StartPromote
<1>4. tags[from] \in Tags /\ Tagged(from)
  BY <1>1, <1>3 DEF TypeOK, MayPromote, Tagged
<1>5. tags' = tags
  BY DEF StartPromote
<1> QED
  BY <1>1, <1>3, <1>4, <1>5, StableOfVersion DEF JobOK, Tags, Tagged

\* Jobs keep fitting the tags, because tags stay where they are.
LEMMA JobsOKStep == TypeOK /\ JobsOK /\ [Next]_vars => JobsOK'
<1> SUFFICES ASSUME TypeOK, JobsOK, [Next]_vars,
                    NEW q \in Runs, pc'[q] \in Working
             PROVE  JobOK(q)'
  BY DEF JobsOK, JobOK
<1>1. CASE StartLine(q) \/ StartOverride(q) \/ StartPromote(q)
  BY <1>1, StartLineJob, StartOverrideJob, StartPromoteJob
<1>2. CASE job'[q] = job[q] /\ pc[q] \in Working /\ (pc'[q] = "probe" => pc[q] = "probe")
  <2>1. JobOK(q)
    BY <1>2 DEF JobsOK, JobOK
  <2>2. job[q].marker # None => tags'[job[q].marker] = tags[job[q].marker]
    BY <2>1, TagsStay DEF JobOK, TypeOK, Jobs, Candidates
  <2> QED
    BY <1>2, <2>1, <2>2 DEF JobOK, Tagged
<1> QED
  BY <1>1, <1>2, RunMoves DEF GoesOn

\* A run reaches the publishing steps through the tag: it finds its own tag, or
\* pushes it.
LEMMA EntersPublishing ==
  ASSUME TypeOK, JobsOK, [Next]_vars, NEW q \in Runs, pc'[q] \in Publishing
  PROVE  /\ job'[q] = job[q]
         /\ \/ pc[q] \in Publishing
            \/ ResumeCheck(q) /\ Tagged(job[q].version) /\ SameRelease(q)
            \/ /\ PushTag(q)
               /\ tags' = [tags EXCEPT ![job[q].version] =
                             [commit |-> job[q].commit, marker |-> job[q].marker]]
<1> DEFINE Goal ==
      /\ job'[q] = job[q]
      /\ \/ pc[q] \in Publishing
         \/ ResumeCheck(q) /\ Tagged(job[q].version) /\ SameRelease(q)
         \/ /\ PushTag(q)
            /\ tags' = [tags EXCEPT ![job[q].version] =
                          [commit |-> job[q].commit, marker |-> job[q].marker]]
<1>1. CASE UNCHANGED <<pc, job>>
  BY <1>1
<1>2. ASSUME NEW r \in Runs, Acts(r), r # q PROVE Goal
  BY <1>2, ActsAlone
<1>3. \A how \in Ended : ~End(q, how)
  BY DEF TypeOK, End, Goto, Ended, Publishing
<1>4. \A step : Proceed(q, step) => job'[q] = job[q] /\ pc'[q] = step
  BY DEF TypeOK, Proceed, Goto
<1>5. CASE \/ PushRun(q) \/ OverrideRun(q) \/ PromoteRun(q)
           \/ StartLine(q) \/ StartOverride(q)
  BY <1>5 DEF TypeOK, PushRun, OverrideRun, PromoteRun, StartRun, StartLine,
              StartOverride, Goto, Publishing
<1>6. CASE StartPromote(q)
  BY <1>3, <1>6 DEF TypeOK, StartPromote, Goto, Ended, Publishing
<1>7. CASE ProbeSource(q) \/ PreCheck(q) \/ ReCheck(q) \/ PublishRelease(q) \/ Fail(q)
  BY <1>3, <1>4, <1>7 DEF ProbeSource, PreCheck, ReCheck, PublishRelease, Fail,
                          Ended, Publishing
<1>8. CASE ResumeCheck(q)
  BY <1>3, <1>4, <1>8 DEF ResumeCheck, Ended, Publishing
<1>9. CASE PushTag(q)
  BY <1>4, <1>9 DEF PushTag, Publishing
<1>10. CASE PublishImage(q) \/ MoveLatest(q) \/ RebuildAfterRetag(q)
  BY <1>4, <1>10 DEF PublishImage, MoveLatest, RebuildAfterRetag, Publishing
<1>11. UNCHANGED <<pc, job>> \/ \E r \in Runs : Acts(r)
  BY DEF Next, vars, Acts, Land
<1> QED
  BY <1>1, <1>2, <1>5, <1>6, <1>7, <1>8, <1>9, <1>10, <1>11 DEF Acts, RunStep

\* A run enters the publishing steps only with a tag of its own, and keeps it.
LEMMA OwnershipStep ==
  TypeOK /\ JobsOK /\ ReleasedRunOwnsItsTag /\ [Next]_vars => ReleasedRunOwnsItsTag'
<1> SUFFICES ASSUME TypeOK, JobsOK, ReleasedRunOwnsItsTag, [Next]_vars,
                    NEW q \in Runs, pc'[q] \in Publishing
             PROVE  OwnsItsTag(q)'
  BY DEF ReleasedRunOwnsItsTag
<1> DEFINE v == job[q].version
<1>1. job'[q] = job[q]
  BY EntersPublishing
<1>2. CASE pc[q] \in Publishing \/ (ResumeCheck(q) /\ Tagged(v) /\ SameRelease(q))
  <2>1. OwnsItsTag(q) /\ v \in Versions
    BY <1>2 DEF ReleasedRunOwnsItsTag, OwnsItsTag, SameRelease, Tagged, ResumeCheck,
                JobsOK, Working, Tagging, Publishing
  <2>2. tags'[v] = tags[v]
    BY <2>1, TagsStay DEF OwnsItsTag, Tagged
  <2> QED
    BY <1>1, <2>1, <2>2 DEF OwnsItsTag
<1>3. CASE /\ PushTag(q)
           /\ tags' = [tags EXCEPT ![v] = [commit |-> job[q].commit,
                                           marker |-> job[q].marker]]
  <2>1. v \in Versions /\ [commit |-> job[q].commit, marker |-> job[q].marker] \in Tags
    BY <1>3 DEF TypeOK, JobsOK, PushTag, Working, Tagging, Jobs, Tags
  <2>2. tags'[v] = [commit |-> job[q].commit, marker |-> job[q].marker]
    BY <1>3, <2>1 DEF TypeOK
  <2> QED
    BY <1>1, <2>1, <2>2, ReleaseAssumption DEF OwnsItsTag
<1> QED
  BY <1>2, <1>3, EntersPublishing

\* Both steps that write the registry do it by serving some digest.
LEMMA ServeHappens ==
  ASSUME NEW r \in Runs, PublishImage(r) \/ RebuildAfterRetag(r)
  PROVE  \E d : Serve(job[r].version, d)
  BY DEF PublishImage, RebuildAfterRetag

\* The history of what a candidate's tag served only grows.
LEMMA ServedGrows ==
  ASSUME TypeOK, [Next]_vars, NEW c \in Candidates
  PROVE  served[c] \subseteq served'[c]
<1>1. \A w, d : Serve(w, d) => served[c] \subseteq served'[c]
  BY DEF TypeOK, Serve
<1> QED
  BY <1>1, Writers, ServeHappens DEF PushTag, PublishRelease, registry

\* A candidate's image is in the history of its tag.
LEMMA ServedStep == TypeOK /\ JobsOK /\ ServedIsHistory /\ [Next]_vars => ServedIsHistory'
<1> SUFFICES ASSUME TypeOK, JobsOK, ServedIsHistory, [Next]_vars,
                    NEW c \in Candidates, image'[c] # None
             PROVE  image'[c] \in served'[c]
  BY DEF ServedIsHistory
<1>1. CASE image'[c] = image[c]
  BY <1>1, ServedGrows DEF ServedIsHistory
<1>2. ASSUME NEW w \in Versions, NEW d, Serve(w, d) PROVE image'[c] \in served'[c]
  <2>1. CASE w = c
    BY <1>2, <2>1 DEF Serve, TypeOK, Candidates
  <2>2. CASE w # c
    BY <1>1, <1>2, <2>2 DEF Serve, TypeOK
  <2> QED
    BY <2>1, <2>2
<1>3. ASSUME NEW r \in Runs, PublishImage(r) \/ RebuildAfterRetag(r)
      PROVE  image'[c] \in served'[c]
  <2>1. job[r].version \in Versions
    BY <1>3 DEF RunsInv, JobsOK, PublishImage, RebuildAfterRetag, Working, Publishing
  <2>2. CASE PublishImage(r)
    BY <1>2, <2>1, <2>2, ImageSources
  <2>3. CASE RebuildAfterRetag(r)
    BY <1>2, <2>1, <2>3 DEF RebuildAfterRetag
  <2> QED
    BY <1>3, <2>2, <2>3
<1> QED
  BY <1>1, <1>3, Writers DEF PushTag, PublishRelease, registry

\* What a publishing run serves fits the commit of the tag it owns or, under tbd, is
\* what a candidate of its version served.
Ships(v, d, candidates) ==
  \/ Fits(d, tags[v].commit)
  \/ CarryForward /\ \E w \in Candidates : StableOf(w) = v /\ d \in candidates[w]

\* A run publishes under a tag it owns, and serves what may be served under it.
LEMMA ServedCommit ==
  ASSUME TypeOK, JobsOK, ReleasedRunOwnsItsTag, ServedIsHistory, ImageFitsTag,
         NEW r \in Runs, PublishImage(r) \/ RebuildAfterRetag(r)
  PROVE  \E d \in Digests :
           /\ Serve(job[r].version, d)
           /\ Tagged(job[r].version)
           /\ Ships(job[r].version, d, served)
<1>1. /\ job[r].version \in Versions /\ job[r].commit \in Commits
      /\ Tagged(job[r].version)
      /\ tags[job[r].version].commit = job[r].commit
      /\ job[r].marker # None => tags[job[r].marker].commit = job[r].commit
  BY DEF JobsOK, ReleasedRunOwnsItsTag, OwnsItsTag, Tagged, PublishImage,
         RebuildAfterRetag, Working, Publishing
<1>2. CASE \E d \in FreshImages(job[r].commit) \cup PullRequestImages(job[r].commit) :
             Serve(job[r].version, d)
  BY <1>1, <1>2, UnpromotedImagesFit DEF Ships
<1>3. ASSUME NEW v \in Candidates, image[v] # None
      PROVE  image[v] \in Digests /\ image[v] \in served[v] /\ Fits(image[v], tags[v].commit)
  <2>1. v \in Versions /\ v.rc # 0
    BY <1>3 DEF Candidates, StableVersions
  <2>2. \A w : StableOf(w) # v
    BY <2>1 DEF StableOf
  <2> QED
    BY <1>3, <2>1, <2>2 DEF TypeOK, ServedIsHistory, ImageFitsTag
<1>4. CASE /\ job[r].marker # None /\ job[r].marker \in Candidates
           /\ image[job[r].marker] # None
           /\ Serve(job[r].version, image[job[r].marker])
  BY <1>1, <1>3, <1>4 DEF Ships
<1>5. CASE /\ CarryForward
           /\ \E v \in Candidates :
                /\ StableOf(v) = job[r].version
                /\ image[v] # None
                /\ Serve(job[r].version, image[v])
  BY <1>1, <1>3, <1>5 DEF Ships
<1> QED
  BY <1>2, <1>4, <1>5, ImageSources DEF RebuildAfterRetag

\* An image is served under a version only by a run that owns the version's tag.
LEMMA ImageStep ==
  /\ TypeOK /\ JobsOK /\ ReleasedRunOwnsItsTag /\ ServedIsHistory
  /\ ImageFitsTag /\ [Next]_vars
  => ImageFitsTag'
<1> SUFFICES ASSUME TypeOK, JobsOK, ReleasedRunOwnsItsTag, ServedIsHistory,
                    ImageFitsTag, [Next]_vars,
                    NEW v \in Versions, image'[v] # None
             PROVE  /\ Tagged(v)'
                    /\ \/ Fits(image'[v], tags'[v].commit)
                       \/ /\ CarryForward
                          /\ \E w \in Candidates : StableOf(w) = v /\ image'[v] \in served'[w]
  BY DEF ImageFitsTag
<1>1. CASE image'[v] = image[v]
  <2>1. Tagged(v) /\ Ships(v, image[v], served)
    BY <1>1 DEF ImageFitsTag, Ships
  <2>2. tags'[v] = tags[v]
    BY <2>1, TagsStay
  <2>3. \A w \in Candidates : served[w] \subseteq served'[w]
    BY ServedGrows
  <2> QED
    BY <1>1, <2>1, <2>2, <2>3 DEF Ships, Tagged
<1>2. ASSUME NEW r \in Runs, PublishImage(r) \/ RebuildAfterRetag(r), image'[v] # image[v]
      PROVE  /\ Tagged(v)'
             /\ \/ Fits(image'[v], tags'[v].commit)
                \/ /\ CarryForward
                   /\ \E w \in Candidates : StableOf(w) = v /\ image'[v] \in served'[w]
  <2>1. PICK d \in Digests : /\ Serve(job[r].version, d)
                             /\ Tagged(job[r].version)
                             /\ Ships(job[r].version, d, served)
    BY <1>2, ServedCommit
  <2>2. image' = [image EXCEPT ![job[r].version] = d] /\ tags' = tags
    BY <1>2, <2>1 DEF Serve, PublishImage, RebuildAfterRetag
  <2>3. v = job[r].version /\ image'[v] = d
    BY <1>2, <2>2 DEF TypeOK
  <2>4. \A w \in Candidates : served[w] \subseteq served'[w]
    BY ServedGrows
  <2> QED
    BY <2>1, <2>2, <2>3, <2>4 DEF Ships, Tagged
<1> QED
  BY <1>1, <1>2, Writers DEF PushTag, PublishRelease, registry

\* Only what ships is announced.
LEMMA AnnouncedStep ==
  /\ TypeOK /\ JobsOK /\ AnnouncedShips /\ [Next]_vars
  => AnnouncedShips'
<1> SUFFICES ASSUME TypeOK, JobsOK, AnnouncedShips, [Next]_vars
             PROVE  AnnouncedShips'
  OBVIOUS
<1>1. ASSUME NEW v \in releases' PROVE image'[v] # None
  <2>1. CASE v \in releases
    BY <2>1, ImagesStay DEF AnnouncedShips, TypeOK
  <2>2. CASE v \notin releases
    <3>1. PICK r \in Runs : PublishRelease(r)
      BY <2>2, Writers DEF PushTag, PublishImage, RebuildAfterRetag
    <3>2. v = job[r].version /\ pc[r] = "release"
      BY <2>2, <3>1 DEF PublishRelease
    <3> QED
      BY <3>1, <3>2 DEF AnnouncedShips, PublishRelease, registry
  <2> QED
    BY <2>1, <2>2
<1>2. ASSUME NEW q \in Runs, pc'[q] \in {"latest", "release"}
      PROVE  image'[job'[q].version] # None
  <2>1. job'[q] = job[q]
    BY <1>2, EntersPublishing DEF Publishing
  <2>2. CASE pc[q] \in {"latest", "release"}
    <3>1. image[job[q].version] # None /\ job[q].version \in Versions
      BY <2>2 DEF AnnouncedShips, JobsOK, Working, Publishing
    <3> QED
      BY <2>1, <3>1, ImagesStay
  <2>3. CASE pc[q] \notin {"latest", "release"}
    <3>1. PublishImage(q)
      <4>1. pc'[q] # pc[q]
        BY <1>2, <2>3
      <4>2. Acts(q)
        BY <4>1, ActsAlone DEF Next, vars, Acts, Land
      <4>3. \A step : Proceed(q, step) => pc'[q] = step
        BY DEF TypeOK, Proceed, Goto
      <4>4. \A how \in Ended : ~End(q, how)
        BY <1>2 DEF TypeOK, End, Goto, Ended
      <4>5. ~(PushRun(q) \/ OverrideRun(q) \/ PromoteRun(q) \/ StartLine(q)
              \/ StartOverride(q) \/ Fail(q))
        BY <1>2, <4>4 DEF TypeOK, PushRun, OverrideRun, PromoteRun, StartRun, StartLine,
              StartOverride, Fail, Goto, Ended
      <4>6. ~StartPromote(q)
        BY <1>2, <4>4 DEF TypeOK, StartPromote, Goto, Ended
      <4>7. ~(ProbeSource(q) \/ ResumeCheck(q) \/ PreCheck(q) \/ PushTag(q) \/ ReCheck(q)
              \/ PublishRelease(q))
        BY <1>2, <4>3, <4>4 DEF ProbeSource, ResumeCheck, PreCheck, PushTag, ReCheck,
              PublishRelease, Ended
      <4>8. ~(MoveLatest(q) \/ RebuildAfterRetag(q))
        BY <2>3 DEF MoveLatest, RebuildAfterRetag
      <4> QED
        BY <4>2, <4>5, <4>6, <4>7, <4>8 DEF Acts, RunStep
    <3>2. job[q].version \in Versions /\ job[q].commit \in Commits
      BY <3>1 DEF JobsOK, PublishImage, Working, Publishing
    <3>3. \E d : d # None /\ image' = [image EXCEPT ![job[q].version] = d]
      BY <3>1, DigestServed DEF Serve
    <3> QED
      BY <2>1, <3>2, <3>3 DEF TypeOK
  <2> QED
    BY <2>2, <2>3
<1> QED
  BY <1>1, <1>2 DEF AnnouncedShips

-----------------------------------------------------------------------------
(* The theorems                                                            *)

\* The inductive invariant holds initially.
LEMMA RunsInvInit == Init => RunsInv
  BY TypeOKInit DEF RunsInv, Init, JobsOK, ReleasedRunOwnsItsTag, ServedIsHistory,
     ImageFitsTag, AnnouncedShips, Working, Tagging, Publishing, Candidates

\* Every step keeps the inductive invariant.
LEMMA RunsInvStep == RunsInv /\ [Next]_vars => RunsInv'
  BY TypeOKStep, JobsOKStep, OwnershipStep, ServedStep, ImageStep, AnnouncedStep
     DEF RunsInv

\* The inductive invariant of the release runs, from which the theorems about the
\* separate properties follow.
THEOREM RunsInvariant == Spec => []RunsInv
<1>1. Init => RunsInv
  BY RunsInvInit
<1>2. RunsInv /\ [Next]_vars => RunsInv'
  BY RunsInvStep
<1> QED
  BY <1>1, <1>2, PTL DEF Spec

\* Every variable keeps its type, whatever the runs do.
THEOREM TypeCorrect == Spec => []TypeOK
<1>1. RunsInv => TypeOK
  BY DEF RunsInv
<1> QED
  BY <1>1, RunsInvariant, PTL

\* A run that publishes owns the tag it publishes under (the `released` output of
\* push-release-tag.sh is earned), for any number of racing and repeated runs.
THEOREM ReleasedRunsOwnTheirTags == Spec => []ReleasedRunOwnsItsTag
<1>1. RunsInv => ReleasedRunOwnsItsTag
  BY DEF RunsInv
<1> QED
  BY <1>1, RunsInvariant, PTL

\* Whatever the registry serves under a version is built from the commit its tag
\* names or, under tbd, was served by a candidate of the version.
THEOREM ImagesMatchTags == Spec => []ImageFitsTag
<1>1. RunsInv => ImageFitsTag
  BY DEF RunsInv
<1> QED
  BY <1>1, RunsInvariant, PTL

-----------------------------------------------------------------------------
(* The runs implement the ledger                                           *)

\* The initial state maps to an empty ledger.
LEMMA LedgerInitMaps == Init => Ledger!LedgerInit
  BY DEF Init, Ledger!LedgerInit, Tagged

\* Pushing a tag claims its version in the ledger, or leaves the ledger alone.
LEMMA PushClaims ==
  ASSUME RunsInv, NEW r \in Runs, PushTag(r)
  PROVE  [Ledger!LedgerNext]_(Ledger!ledgerVars)
<1> DEFINE v == job[r].version
           c == job[r].commit
<1>1. v \in Versions /\ c \in Commits /\ c # None
  BY ReleaseAssumption DEF RunsInv, JobsOK, PushTag, Working, Tagging
<1>2. image' = image /\ releases' = releases
  BY DEF PushTag, registry
<1>3. CASE tags' = tags
  BY <1>2, <1>3 DEF Ledger!ledgerVars, Tagged
<1>4. CASE ~Tagged(v) /\ tags' = [tags EXCEPT ![v] = [commit |-> c, marker |-> job[r].marker]]
  <2>1. [commit |-> c, marker |-> job[r].marker] # None
    <3>1. [commit |-> c, marker |-> job[r].marker] \in Tags
      BY <1>1 DEF RunsInv, TypeOK, Jobs, Tags
    <3> QED
      BY <3>1, ReleaseAssumption
  <2>2. \A w \in Versions :
          tags'[w] = IF w = v THEN [commit |-> c, marker |-> job[r].marker] ELSE tags[w]
    BY <1>1, <1>4 DEF RunsInv, TypeOK
  <2>3. Ledger!Claim(v, c)
    BY <1>1, <1>2, <1>4, <2>1, <2>2 DEF Ledger!Claim, Tagged
  <2>4. Ledger!LedgerNext
    BY <1>1, <2>3, SMTT(60) DEF Ledger!LedgerNext, Ledger!Claim
  <2> QED
    BY <2>4
<1> QED
  BY <1>3, <1>4 DEF PushTag

\* Serving an image ships its version, which is claimed.
LEMMA ServingShips ==
  ASSUME RunsInv, NEW r \in Runs, PublishImage(r) \/ RebuildAfterRetag(r)
  PROVE  Ledger!LedgerNext
<1> DEFINE v == job[r].version
<1>1. PICK d \in Digests : Serve(v, d) /\ Tagged(v)
  BY ServedCommit DEF RunsInv
<1>2. v \in Versions /\ d # None
  BY ReleaseAssumption DEF RunsInv, JobsOK, PublishImage, RebuildAfterRetag, Working,
                           Publishing
<1>3. image' = [image EXCEPT ![v] = d] /\ tags' = tags /\ releases' = releases
  BY <1>1 DEF Serve, PublishImage, RebuildAfterRetag
<1>4. \A w \in Versions : image'[w] = IF w = v THEN d ELSE image[w]
  BY <1>2, <1>3 DEF RunsInv, TypeOK
<1>5. tags[v].commit # None
  BY <1>1, <1>2, ReleaseAssumption DEF RunsInv, TypeOK, Tags, Tagged
<1>6. Ledger!Ship(v)
  BY <1>1, <1>2, <1>3, <1>4, <1>5 DEF Ledger!Ship, Tagged
<1> QED
  BY <1>2, <1>6, SMT DEF Ledger!LedgerNext, Ledger!Ship

\* Publishing the GitHub Release announces its version, which ships.
LEMMA PublishingAnnounces ==
  ASSUME RunsInv, NEW r \in Runs, PublishRelease(r)
  PROVE  Ledger!LedgerNext
<1> DEFINE v == job[r].version
<1>1. v \in Versions /\ image[v] # None
  BY DEF RunsInv, JobsOK, AnnouncedShips, PublishRelease, Working, Publishing
<1>2. Ledger!Announce(v)
  BY <1>1 DEF Ledger!Announce, PublishRelease, registry, Tagged
<1> QED
  BY <1>1, <1>2 DEF Ledger!LedgerNext

\* Every step of the runs is a step of the ledger or a stutter.
LEMMA LedgerStepMaps == RunsInv /\ [Next]_vars => [Ledger!LedgerNext]_(Ledger!ledgerVars)
<1> SUFFICES ASSUME RunsInv, [Next]_vars
             PROVE  [Ledger!LedgerNext]_(Ledger!ledgerVars)
  OBVIOUS
<1>1. CASE UNCHANGED <<tags, image, served, releases>>
  BY <1>1 DEF Ledger!ledgerVars, Tagged
<1> QED
  BY <1>1, Writers, PushClaims, ServingShips, PublishingAnnounces

\* The release runs implement the ledger of versions: every step of a run claims a
\* version that was free, ships one that is claimed, announces one that ships, or
\* changes nothing the ledger shows.
THEOREM RunsKeepTheLedger == Spec => KeepsLedger
<1>1. Init => Ledger!LedgerInit
  BY LedgerInitMaps
<1>2. RunsInv /\ [Next]_vars => [Ledger!LedgerNext]_(Ledger!ledgerVars)
  BY LedgerStepMaps
<1> QED
  BY <1>1, <1>2, RunsInvariant, PTL DEF Spec, KeepsLedger, Ledger!LedgerSpec

-----------------------------------------------------------------------------
(* Promotions, where no push targets production                            *)

\* A candidate's tag never records a promotion.
LEMMA CandidatesUnmarked ==
  ASSUME MarkedTagsArePromotions, NEW v \in Candidates, Tagged(v)
  PROVE  tags[v].marker = None
<1>1. \A m : StableOf(m).rc = 0
  BY DEF StableOf
<1> QED
  BY <1>1 DEF MarkedTagsArePromotions, Candidates, StableVersions

\* A tag that records a candidate stays the tag of its stable version.
LEMMA MarkedStep ==
  RunsInv /\ MarkedTagsArePromotions /\ [Next]_vars => MarkedTagsArePromotions'
<1> SUFFICES ASSUME RunsInv, MarkedTagsArePromotions, [Next]_vars,
                    NEW v \in Versions, Tagged(v)', tags'[v].marker # None
             PROVE  v = StableOf(tags'[v].marker)
  BY DEF MarkedTagsArePromotions
<1>1. CASE tags'[v] = tags[v]
  BY <1>1 DEF MarkedTagsArePromotions, Tagged
<1>2. ASSUME NEW r \in Runs, PushTag(r) PROVE v = StableOf(tags'[v].marker)
  <2>1. /\ job[r].version \in Versions
        /\ job[r].marker # None => job[r].version = StableOf(job[r].marker)
    BY <1>2 DEF RunsInv, JobsOK, PushTag, Working, Tagging
  <2>2. \/ tags'[v] = tags[v]
        \/ v = job[r].version /\ tags'[v] = [commit |-> job[r].commit,
                                             marker |-> job[r].marker]
    BY <1>2, <2>1 DEF RunsInv, TypeOK, PushTag
  <2> QED
    BY <1>1, <2>1, <2>2
<1> QED
  BY <1>1, <1>2, Writers DEF PublishImage, RebuildAfterRetag, PublishRelease

\* A line run of a branch that does not target production, and that the resolver
\* resumes, is of a candidate.
LEMMA StartLineUnmarked ==
  ASSUME LineEnvs \subseteq {FALSE}, TypeOK, NEW q \in Runs, StartLine(q),
         pc'[q] = "resume-check"
  PROVE  job'[q].version \in Candidates
<1>1. ask[q] \in LineAsks
  BY DEF TypeOK, StartLine, Asks, OverrideAsks, PromoteAsks, NoAsk
<1>2. ask[q].stable = FALSE
  BY <1>1 DEF LineAsks
<1>3. PICK x \in LineAnswers(ask[q]) :
        /\ job' = [job EXCEPT ![q] =
                     [version |-> x.version, commit |-> ask[q].commit,
                      marker |-> None, resume |-> x.resume,
                      known |-> Tagged(x.version), latest |-> ask[q].stable,
                      saw |-> Released]]
        /\ Goto(q, IF x.resume THEN "resume-check" ELSE "pre-check")
  BY DEF StartLine
<1>4. job'[q].version = x.version /\ x.resume
  BY <1>3 DEF TypeOK, Goto
<1> QED
  BY <1>2, <1>4, LineAnswerFacts

\* A run without a candidate never gets to publish under a promotion's tag.
LEMMA UnmarkedStep ==
  ASSUME LineEnvs \subseteq {FALSE}, RunsInv, MarkedTagsArePromotions,
         UnmarkedRunsKeepOut, [Next]_vars
  PROVE  UnmarkedRunsKeepOut'
<1> SUFFICES ASSUME NEW q \in Runs, job'[q].marker = None
             PROVE  /\ pc'[q] = "resume-check" => job'[q].version \in Candidates
                    /\ pc'[q] \in Publishing => tags'[job'[q].version].marker = None
  BY DEF UnmarkedRunsKeepOut
<1>1. ASSUME pc'[q] = "resume-check" PROVE job'[q].version \in Candidates
  <2>1. CASE pc'[q] = pc[q] /\ job'[q] = job[q]
    BY <1>1, <2>1 DEF UnmarkedRunsKeepOut
  <2>2. CASE StartLine(q)
    BY <1>1, <2>2, StartLineUnmarked DEF RunsInv
  <2>3. CASE StartOverride(q) \/ StartPromote(q)
    BY <1>1, <2>3 DEF RunsInv, TypeOK, StartOverride, StartPromote, Goto, End
  <2>4. CASE pc'[q] # pc[q] /\ ~(StartLine(q) \/ StartOverride(q) \/ StartPromote(q))
    <3>1. Acts(q)
      BY <2>4, ActsAlone DEF Next, vars, Acts, Land, RunsInv
    <3>2. \A step : Proceed(q, step) => pc'[q] = step /\ job'[q] = job[q]
      BY DEF RunsInv, TypeOK, Proceed, Goto
    <3>3. \A how \in Ended : ~End(q, how)
      BY <1>1 DEF RunsInv, TypeOK, End, Goto, Ended
    <3>4. ~(PushRun(q) \/ OverrideRun(q) \/ PromoteRun(q) \/ Fail(q))
      BY <1>1, <3>3 DEF RunsInv, TypeOK, PushRun, OverrideRun, PromoteRun, StartRun, Goto,
                        Fail, Ended
    <3>5. ~(ResumeCheck(q) \/ PreCheck(q) \/ PushTag(q) \/ ReCheck(q) \/ PublishImage(q)
            \/ MoveLatest(q) \/ PublishRelease(q) \/ RebuildAfterRetag(q))
      BY <1>1, <2>4, <3>2, <3>3 DEF ResumeCheck, PreCheck, PushTag, ReCheck, PublishImage,
            MoveLatest, PublishRelease, RebuildAfterRetag, Ended
    <3>6. ProbeSource(q)
      BY <2>4, <3>1, <3>4, <3>5 DEF Acts, RunStep
    <3>7. job'[q] = job[q] /\ pc[q] = "probe"
      BY <3>2, <3>3, <3>6 DEF ProbeSource, Ended
    <3> QED
      BY <3>7 DEF RunsInv, JobsOK, Working
  <2>5. CASE pc'[q] = pc[q] /\ job'[q] # job[q]
    BY <1>1, <2>2, <2>3, <2>5, RunMoves DEF GoesOn, RunsInv, Working, Tagging
  <2> QED
    BY <2>1, <2>2, <2>3, <2>4, <2>5
<1>2. ASSUME pc'[q] \in Publishing PROVE tags'[job'[q].version].marker = None
  <2> DEFINE v == job[q].version
  <2>1. job'[q] = job[q] /\ job[q].marker = None
    BY <1>2, EntersPublishing DEF RunsInv
  <2>2. CASE pc[q] \in Publishing
    <3>1. tags[v].marker = None /\ Tagged(v) /\ v \in Versions
      BY <2>1, <2>2 DEF UnmarkedRunsKeepOut, RunsInv, JobsOK, ReleasedRunOwnsItsTag,
                        OwnsItsTag, Tagged, Working
    <3> QED
      BY <2>1, <3>1, TagsStay DEF RunsInv
  <2>3. CASE ResumeCheck(q) /\ Tagged(v)
    <3>1. v \in Candidates /\ tags' = tags
      BY <2>1, <2>3 DEF UnmarkedRunsKeepOut, ResumeCheck
    <3> QED
      BY <2>1, <2>3, <3>1, CandidatesUnmarked
  <2>4. CASE /\ PushTag(q)
             /\ tags' = [tags EXCEPT ![v] = [commit |-> job[q].commit,
                                             marker |-> job[q].marker]]
    BY <2>1, <2>4 DEF RunsInv, TypeOK, JobsOK, PushTag, Working, Tagging
  <2> QED
    BY <1>2, <2>2, <2>3, <2>4, EntersPublishing DEF RunsInv
<1> QED
  BY <1>1, <1>2

\* What a promoted version serves was served by its candidate.
LEMMA PromotedStep == PromotionInv /\ [Next]_vars => PromotedImageWasTested'
<1> SUFFICES ASSUME PromotionInv, [Next]_vars, NEW v \in Versions,
                    Tagged(v)', tags'[v].marker # None, image'[v] # None
             PROVE  image'[v] \in served'[tags'[v].marker]
  BY DEF PromotedImageWasTested
<1> USE DEF PromotionInv, RunsInv
<1>1. CASE image'[v] = image[v]
  <2>1. Tagged(v)
    BY <1>1 DEF ImageFitsTag
  <2>2. tags'[v] = tags[v] /\ tags[v].marker \in Candidates
    BY <2>1, TagsStay DEF TypeOK, Tags, Tagged
  <2>3. image[v] \in served[tags[v].marker]
    BY <1>1, <2>1, <2>2 DEF PromotedImageWasTested
  <2> QED
    BY <1>1, <2>2, <2>3, ServedGrows
<1>2. ASSUME NEW r \in Runs, PublishImage(r) \/ RebuildAfterRetag(r), v = job[r].version
      PROVE  image'[v] \in served'[tags'[v].marker]
  <2> DEFINE m == tags[v].marker
  <2>1. tags' = tags
    BY <1>2 DEF PublishImage, RebuildAfterRetag
  <2>2. m \in Candidates /\ m \in Versions
    BY <2>1 DEF TypeOK, Tags, Tagged, Candidates
  <2>3. job[r].marker \in {None, m}
    BY <1>2 DEF ReleasedRunOwnsItsTag, OwnsItsTag, PublishImage, RebuildAfterRetag, Publishing
  <2>4. job[r].marker # None
    BY <1>2, <2>1 DEF UnmarkedRunsKeepOut, PublishImage, RebuildAfterRetag, Publishing
  <2>5. image[m] # None /\ Serve(v, image[m])
    BY <1>2, <2>3, <2>4, ImageSources DEF RebuildAfterRetag
  <2>6. image'[v] = image[m]
    BY <2>5 DEF Serve, TypeOK
  <2>7. image[m] \in served[m]
    BY <2>2, <2>5 DEF ServedIsHistory
  <2> QED
    BY <2>1, <2>2, <2>6, <2>7, ServedGrows
<1>3. ASSUME NEW r \in Runs, PublishImage(r) \/ RebuildAfterRetag(r), v # job[r].version
      PROVE  image'[v] = image[v]
  BY <1>3 DEF PublishImage, RebuildAfterRetag, Serve, TypeOK
<1> QED
  BY <1>1, <1>2, <1>3, Writers DEF PushTag, PublishRelease, registry

\* The invariant of promotions holds initially.
LEMMA PromotionInvInit == Init => PromotionInv
  BY RunsInvInit DEF PromotionInv, Init, MarkedTagsArePromotions, UnmarkedRunsKeepOut,
     PromotedImageWasTested, Tagged, Publishing

\* With no branch mapped to production, as the guide to promotions sets it up, what
\* PromotionInv says holds of any promotions: only a promotion's tag records a
\* candidate, and no other run publishes under it.
THEOREM PromotionInvariant ==
  ASSUME LineEnvs \subseteq {FALSE}
  PROVE  Spec => []PromotionInv
<1>1. Init => PromotionInv
  BY PromotionInvInit
<1>2. PromotionInv /\ [Next]_vars => PromotionInv'
  BY RunsInvStep, MarkedStep, UnmarkedStep, PromotedStep DEF PromotionInv
<1> QED
  BY <1>1, <1>2, PTL DEF Spec

\* A promoted version then serves a build its candidate served, whatever races or
\* is run again.
THEOREM PromotedImagesWereTested ==
  ASSUME LineEnvs \subseteq {FALSE}
  PROVE  Spec => []PromotedImageWasTested
<1>1. Spec => []PromotionInv
  BY PromotionInvariant
<1>2. PromotionInv => PromotedImageWasTested
  BY DEF PromotionInv
<1> QED
  BY <1>1, <1>2, PTL

\* What is written stays readable: a candidate whose stable version is tagged for it may
\* be promoted again.
LEMMA PromotionsStep ==
  ASSUME RunsInv, PromotionsCanBeRerun, [Next]_vars
  PROVE  PromotionsCanBeRerun'
<1> SUFFICES ASSUME NEW v \in Versions, Tagged(v)', tags'[v].marker # None
             PROVE  v = StableOf(tags'[v].marker) /\ MayPromote(tags[v].marker)'
  BY DEF PromotionsCanBeRerun
<1> DEFINE m == tags'[v].marker
<1>1. CASE Tagged(v)
  <2>1. tags'[v] = tags[v]
    BY <1>1, TagsStay DEF RunsInv
  <2>2. v = StableOf(m) /\ Tagged(m) /\ tags[v].commit = tags[m].commit /\ tags[v].marker = m
    BY <1>1, <2>1 DEF PromotionsCanBeRerun, MayPromote
  <2>3. m \in Versions
    BY <1>1, <2>1 DEF RunsInv, TypeOK, Tags, Tagged, Candidates
  <2>4. tags'[m] = tags[m]
    BY <2>2, <2>3, TagsStay DEF RunsInv
  <2> QED
    BY <2>1, <2>2, <2>4 DEF MayPromote, Tagged
<1>2. CASE ~Tagged(v)
  <2>1. PICK r \in Runs : PushTag(r)
    BY <1>2, Writers DEF Tagged, PublishImage, RebuildAfterRetag, PublishRelease
  <2>2. /\ job[r].version \in Versions
        /\ job[r].marker \in Candidates \cup {None}
        /\ job[r].marker # None =>
             /\ job[r].version = StableOf(job[r].marker)
             /\ Tagged(job[r].marker)
             /\ tags[job[r].marker].commit = job[r].commit
    BY <2>1 DEF RunsInv, TypeOK, Jobs, JobsOK, PushTag, Working, Tagging
  <2>3. /\ v = job[r].version
        /\ tags'[v] = [commit |-> job[r].commit, marker |-> job[r].marker]
    BY <1>2, <2>1, <2>2 DEF RunsInv, TypeOK, PushTag, Tagged
  <2>4. /\ m = job[r].marker /\ m \in Versions
        /\ v = StableOf(m) /\ Tagged(m) /\ tags[m].commit = job[r].commit
    BY <2>2, <2>3 DEF Candidates
  <2>5. tags'[m] = tags[m]
    BY <2>4, TagsStay DEF RunsInv
  <2> QED
    BY <2>3, <2>4, <2>5 DEF MayPromote, Tagged
<1> QED
  BY <1>1, <1>2

\* A promotion whose tag is pushed can be run again, whoever pushed it and whatever was
\* tagged since: what PromotionAnnounced rests on.
THEOREM PromotionsStayOpen == Spec => []PromotionsCanBeRerun
<1>1. Init => PromotionsCanBeRerun
  BY DEF Init, PromotionsCanBeRerun, Tagged
<1>2. RunsInv /\ PromotionsCanBeRerun /\ [Next]_vars => PromotionsCanBeRerun'
  BY PromotionsStep
<1> QED
  BY <1>1, <1>2, RunsInvariant, PTL DEF Spec
=============================================================================
