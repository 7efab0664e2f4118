------------------------ MODULE ReleaseBranchesProofs ------------------------
(***************************************************************************)
(* Theorems about ReleaseBranches, for any number of branches, versions,   *)
(* commits and runs.                                                       *)
(*                                                                         *)
(* A run holds four answers of the API while others work on the same refs. *)
(* What saves it is that nothing on the remote goes backwards without a    *)
(* trace: the target only grows, and a merge-back branch grows, comes back *)
(* or is dropped.  Monotone says so of every step, and the invariant       *)
(* follows from it for every run that does not move.                       *)
(***************************************************************************)
EXTENDS ReleaseBranches, TLAPS

Monotone ==
  /\ target \subseteq target'
  /\ dropped \subseteq dropped'
  /\ \A b \in Branches :
       \/ mb[b] \subseteq mb'[b] /\ (pr[b] => pr'[b])
       \/ mb[b] \subseteq target' \cup dropped'
  /\ \A v \in Versions : tags[v] # Absent => tags'[v] # Absent

-----------------------------------------------------------------------------
(* Types                                                                   *)

\* A checkout is a well-formed job.
LEMMA CheckoutType ==
  ASSUME TypeOK, NEW b \in Branches, NEW v \in Versions,
         NEW commit \in SUBSET Commits
  PROVE  Checkout(b, v, commit) \in Jobs
<1>1. Older(v, heads) \in [Branches -> SUBSET Commits]
  BY DEF TypeOK, Older, Absent
<1>2. Older(v, mb) \in [Branches -> SUBSET Commits]
  BY DEF TypeOK, Older, Absent
<1>3. QED
  BY <1>1, <1>2 DEF Checkout, Jobs, Absent

\* A run that ends or goes on with a well-formed job keeps the types of pc and
\* job.
LEMMA EndType ==
  ASSUME TypeOK, NEW r \in Runs, End(r)
  PROVE  /\ pc' \in [Runs -> Steps]
         /\ job' \in [Runs -> Jobs \cup {NoJob}]
         /\ \A q \in Runs : pc'[q] # "idle" => job'[q] \in Jobs
  BY DEF TypeOK, End, Goto, Steps

LEMMA GoType ==
  ASSUME TypeOK, NEW r \in Runs, NEW step \in Steps, NEW j \in Jobs,
         pc' = [pc EXCEPT ![r] = step], job' = [job EXCEPT ![r] = j]
  PROVE  /\ pc' \in [Runs -> Steps]
         /\ job' \in [Runs -> Jobs \cup {NoJob}]
         /\ \A q \in Runs : pc'[q] # "idle" => job'[q] \in Jobs
  BY DEF TypeOK

LEMMA MoveType ==
  ASSUME TypeOK, NEW r \in Runs, NEW step \in Steps, pc[r] # "idle",
         pc' = [pc EXCEPT ![r] = step], job' = job
  PROVE  /\ pc' \in [Runs -> Steps]
         /\ job' \in [Runs -> Jobs \cup {NoJob}]
         /\ \A q \in Runs : pc'[q] # "idle" => job'[q] \in Jobs
  BY DEF TypeOK

\* Every commit of a history has been made.
LEMMA CommitType ==
  ASSUME TypeOK, NewCommit
  PROVE  made' \in Commits
  BY BranchesAssumption DEF TypeOK, NewCommit, Commits

LEMMA PeopleType ==
  ASSUME TypeOK, PeopleStep
  PROVE  TypeOK'
<1> USE DEF remote, history
<1>1. CASE LandOnTarget
  <2>1. made' \in Commits
    BY <1>1, CommitType DEF LandOnTarget
  <2>2. QED
    BY <1>1, <2>1 DEF LandOnTarget, TypeOK
<1>2. ASSUME NEW b \in Branches, LandOnBranch(b)
      PROVE  TypeOK'
  <2>1. made' \in Commits
    BY <1>2, CommitType DEF LandOnBranch
  <2>2. QED
    BY <1>2, <2>1 DEF LandOnBranch, TypeOK
<1>3. ASSUME NEW b \in Branches, Resolve(b)
      PROVE  TypeOK'
  <2>1. made' \in Commits
    BY <1>3, CommitType DEF Resolve
  <2>2. QED
    BY <1>3, <2>1 DEF Resolve, TypeOK
<1>4. ASSUME NEW b \in Branches, MergePullRequest(b)
      PROVE  TypeOK'
  BY <1>4 DEF MergePullRequest, TypeOK, Absent
<1>5. QED
  BY <1>1, <1>2, <1>3, <1>4 DEF PeopleStep

LEMMA RunType ==
  ASSUME TypeOK, NEW r \in Runs, RunStep(r)
  PROVE  TypeOK'
<1> USE DEF remote, history
<1> DEFINE Mine == /\ pc' \in [Runs -> Steps]
                   /\ job' \in [Runs -> Jobs \cup {NoJob}]
                   /\ \A q \in Runs : pc'[q] # "idle" => job'[q] \in Jobs
<1>a. ASSUME pc[r] # "idle"
      PROVE  /\ job[r] \in Jobs
             /\ job[r].branch \in Branches
             /\ job[r].version \in Versions
             /\ job[r].commit \in SUBSET Commits
             /\ job[r].head \in SUBSET Commits
             /\ job[r].mbHead \in SUBSET Commits
             /\ job[r].lines \in [Branches -> SUBSET Commits]
  BY <1>a DEF TypeOK, Jobs
<1>b. /\ "look-up" \in Steps /\ "create" \in Steps /\ "tag" \in Steps
      /\ "head" \in Steps /\ "compare" \in Steps /\ "mb-head" \in Steps
      /\ "mb-write" \in Steps /\ "pr" \in Steps /\ "pr-create" \in Steps
      /\ "clean" \in Steps
  BY DEF Steps, Cutting, MergingBack
<1>1. ASSUME NEW b \in Branches, StartCut(r, b)
      PROVE  TypeOK'
  <2>1. PICK commit \in {target} \cup {tags[v] : v \in Released} :
          job' = [job EXCEPT ![r] = Checkout(b, b, commit)]
    BY <1>1 DEF StartCut
  <2>2. commit \in SUBSET Commits
    BY DEF TypeOK, Released
  <2>3. Checkout(b, b, commit) \in Jobs
    BY <2>2, CheckoutType, BranchesAssumption
  <2>4. Mine
    BY <1>1, <2>1, <2>3, <1>b, GoType DEF StartCut, Goto
  <2>5. QED
    BY <1>1, <2>4 DEF StartCut, TypeOK
<1>2. CASE LookUp(r)
  <2>1. Mine
    BY <1>2, <1>b, MoveType, EndType DEF LookUp, Goto
  <2>2. QED
    BY <1>2, <2>1 DEF LookUp, TypeOK
<1>3. CASE Create(r)
  <2>1. Mine
    BY <1>3, EndType DEF Create
  <2>2. heads' \in [Branches -> SUBSET Commits]
    BY <1>3, <1>a DEF Create, TypeOK
  <2>3. QED
    BY <1>3, <2>1, <2>2 DEF Create, TypeOK
<1>4. ASSUME NEW b \in Branches, StartRelease(r, b)
      PROVE  TypeOK'
  <2>1. PICK c \in {b} \cup Highest(Containing(NextVersion(b), heads[b])) :
          job' = [job EXCEPT ![r] = Checkout(c, NextVersion(b), heads[b])]
    BY <1>4 DEF StartRelease
  <2>2. c \in Branches
    BY <2>1 DEF Highest, Containing
  <2>3. NextVersion(b) \in Versions
    BY <1>4 DEF StartRelease
  <2>4. heads[b] \in SUBSET Commits
    BY DEF TypeOK
  <2>5. Checkout(c, NextVersion(b), heads[b]) \in Jobs
    BY <2>2, <2>3, <2>4, CheckoutType
  <2>6. Mine
    BY <1>4, <2>1, <2>5, <1>b, GoType DEF StartRelease, Goto
  <2>7. QED
    BY <1>4, <2>6 DEF StartRelease, TypeOK
<1>5. CASE PushTag(r)
  <2>1. Mine
    BY <1>5, <1>b, MoveType, EndType DEF PushTag, Goto
  <2>2. tags' \in [Versions -> SUBSET Commits]
    BY <1>5, <1>a DEF PushTag, TypeOK
  <2>3. QED
    BY <1>5, <2>1, <2>2 DEF PushTag, TypeOK
<1>6. CASE ReadHead(r)
  <2>1. pc[r] # "idle"
    BY <1>6 DEF ReadHead
  <2>2. heads[job[r].branch] \in SUBSET Commits
    BY <1>a, <2>1 DEF TypeOK
  <2>3. [job[r] EXCEPT !.head = heads[job[r].branch]] \in Jobs
    BY <1>a, <2>1, <2>2 DEF Jobs
  <2>4. CASE job' = [job EXCEPT ![r].head = heads[job[r].branch]] /\ Goto(r, "compare")
    <3>1. job' = [job EXCEPT ![r] = [job[r] EXCEPT !.head = heads[job[r].branch]]]
      BY <2>4
    <3>2. Mine
      BY <2>4, <3>1, <2>3, <1>b, GoType DEF Goto
    <3>3. QED
      BY <1>6, <3>2 DEF ReadHead, TypeOK
  <2>5. CASE SkipMergeBack(r)
    <3>1. Mine
      BY <2>1, <2>5, <1>b, MoveType DEF SkipMergeBack, Goto
    <3>2. QED
      BY <1>6, <3>1 DEF ReadHead, TypeOK
  <2>6. QED
    BY <1>6, <2>4, <2>5 DEF ReadHead
<1>7. CASE CompareWithTarget(r)
  <2>1. Mine
    BY <1>7, <1>b, MoveType DEF CompareWithTarget, SkipMergeBack, Goto
  <2>2. QED
    BY <1>7, <2>1 DEF CompareWithTarget, TypeOK
<1>8. CASE ReadMergeBack(r)
  <2>1. PICK seen \in {mb[job[r].branch], Absent} :
          job' = [job EXCEPT ![r].mbHead = seen]
    BY <1>8 DEF ReadMergeBack
  <2>2. seen \in SUBSET Commits
    BY <1>8, <1>a DEF ReadMergeBack, TypeOK, Absent
  <2>3. [job[r] EXCEPT !.mbHead = seen] \in Jobs
    BY <1>8, <1>a, <2>2 DEF ReadMergeBack, Jobs
  <2>4. job' = [job EXCEPT ![r] = [job[r] EXCEPT !.mbHead = seen]]
    BY <2>1
  <2>5. Mine
    BY <1>8, <2>3, <2>4, <1>b, GoType DEF ReadMergeBack, Goto
  <2>6. QED
    BY <1>8, <2>5 DEF ReadMergeBack, TypeOK
<1>9. ASSUME NEW commits \in SUBSET Commits, pc[r] # "idle", WriteMergeBack(r, commits)
      PROVE  TypeOK'
  <2>1. Mine
    BY <1>9, <1>b, MoveType DEF WriteMergeBack, Goto
  <2>2. mb' \in [Branches -> SUBSET Commits]
    BY <1>9, <1>a DEF WriteMergeBack, TypeOK
  <2>3. QED
    BY <1>9, <2>1, <2>2 DEF WriteMergeBack, TypeOK
<1>10. CASE CreateMergeBack(r)
  BY <1>10, <1>9, <1>a DEF CreateMergeBack
<1>11. CASE KeepMergeBack(r)
  <2>1. mb[job[r].branch] \in SUBSET Commits
    BY <1>11, <1>a DEF KeepMergeBack, TypeOK
  <2>2. QED
    BY <1>11, <2>1, <1>9 DEF KeepMergeBack
<1>12. CASE MoveMergeBack(r)
  BY <1>12, <1>9, <1>a DEF MoveMergeBack
<1>13. CASE MergeIntoMergeBack(r)
  <2>1. mb[job[r].branch] \cup job[r].head \in SUBSET Commits
    BY <1>13, <1>a DEF MergeIntoMergeBack, TypeOK
  <2>2. QED
    BY <1>13, <2>1, <1>9 DEF MergeIntoMergeBack
<1>14. CASE WriteFails(r)
  <2>1. [job[r] EXCEPT !.warned = TRUE] \in Jobs
    BY <1>14, <1>a DEF WriteFails, Jobs
  <2>2. CASE SkipMergeBack(r)
    <3>1. Mine
      BY <1>14, <2>2, <1>b, MoveType DEF WriteFails, SkipMergeBack, Goto
    <3>2. QED
      BY <1>14, <3>1 DEF WriteFails, TypeOK
  <2>3. CASE job' = [job EXCEPT ![r].warned = TRUE] /\ Goto(r, "pr")
    <3>1. job' = [job EXCEPT ![r] = [job[r] EXCEPT !.warned = TRUE]]
      BY <2>3
    <3>2. Mine
      BY <2>1, <2>3, <3>1, <1>b, GoType DEF Goto
    <3>3. QED
      BY <1>14, <3>2 DEF WriteFails, TypeOK
  <2>4. QED
    BY <1>14, <2>2, <2>3 DEF WriteFails
<1>15. ASSUME pc[r] # "idle", Report(r), pr' \in [Branches -> BOOLEAN]
       PROVE  TypeOK'
  <2>1. Mine
    BY <1>15, <1>b, MoveType DEF Report, Goto
  <2>2. promised' \in SUBSET Commits
    BY <1>15, <1>a DEF Report, TypeOK
  <2>3. QED
    BY <1>15, <2>1, <2>2 DEF Report, TypeOK
<1>16. CASE FindPullRequest(r)
  <2>1. CASE Report(r) /\ UNCHANGED pr
    <3>1. pr' \in [Branches -> BOOLEAN]
      BY <2>1 DEF TypeOK
    <3>2. QED
      BY <1>16, <2>1, <3>1, <1>15 DEF FindPullRequest
  <2>2. CASE Goto(r, "pr-create") /\ UNCHANGED <<remote, history, job>>
    <3>1. Mine
      BY <1>16, <2>2, <1>b, MoveType DEF FindPullRequest, Goto
    <3>2. QED
      BY <2>2, <3>1 DEF TypeOK
  <2>3. QED
    BY <1>16, <2>1, <2>2 DEF FindPullRequest
<1>17. CASE CreatePullRequest(r)
  <2>1. CASE pr' = [pr EXCEPT ![job[r].branch] = TRUE] /\ Report(r)
    <3>1. pr' \in [Branches -> BOOLEAN]
      BY <2>1 DEF TypeOK
    <3>2. QED
      BY <1>17, <2>1, <3>1, <1>15 DEF CreatePullRequest
  <2>2. CASE SkipMergeBack(r) /\ UNCHANGED <<remote, history>>
    <3>1. Mine
      BY <1>17, <2>2, <1>b, MoveType DEF CreatePullRequest, SkipMergeBack, Goto
    <3>2. QED
      BY <2>2, <3>1 DEF TypeOK
  <2>3. QED
    BY <1>17, <2>1, <2>2 DEF CreatePullRequest
<1>18. ASSUME NEW b \in Branches, DeleteLine(r, b)
       PROVE  TypeOK'
  <2>1. [job[r] EXCEPT !.lines[b] = Absent, !.deleted = {b}] \in Jobs
    BY <1>18, <1>a DEF DeleteLine, Jobs, Absent
  <2>2. job' = [job EXCEPT ![r] = [job[r] EXCEPT !.lines[b] = Absent, !.deleted = {b}]]
    BY <1>18 DEF DeleteLine
  <2>3. job' \in [Runs -> Jobs \cup {NoJob}] /\ \A q \in Runs : pc'[q] # "idle" => job'[q] \in Jobs
    BY <1>18, <2>1, <2>2 DEF DeleteLine, TypeOK
  <2>4. heads' \in [Branches -> SUBSET Commits]
    BY <1>18 DEF DeleteLine, TypeOK, Absent
  <2>5. QED
    BY <1>18, <2>3, <2>4 DEF DeleteLine, TypeOK
<1>19. ASSUME NEW b \in Branches, DeleteMergeBack(r, b)
       PROVE  TypeOK'
  <2>1. [job[r] EXCEPT !.deleted = {}] \in Jobs
    BY <1>19, <1>a DEF DeleteMergeBack, Jobs
  <2>2. job' = [job EXCEPT ![r] = [job[r] EXCEPT !.deleted = {}]]
    BY <1>19 DEF DeleteMergeBack
  <2>3. job' \in [Runs -> Jobs \cup {NoJob}] /\ \A q \in Runs : pc'[q] # "idle" => job'[q] \in Jobs
    BY <1>19, <2>1, <2>2 DEF DeleteMergeBack, TypeOK
  <2>4. QED
    BY <1>19, <2>3 DEF DeleteMergeBack, TypeOK, Absent
<1>20. ASSUME NEW b \in Branches, KeepLine(r, b)
       PROVE  TypeOK'
  <2>1. [job[r] EXCEPT !.lines[b] = Absent, !.deleted = {}] \in Jobs
    BY <1>20, <1>a DEF KeepLine, Jobs, Absent
  <2>2. job' = [job EXCEPT ![r] = [job[r] EXCEPT !.lines[b] = Absent, !.deleted = {}]]
    BY <1>20 DEF KeepLine
  <2>3. job' \in [Runs -> Jobs \cup {NoJob}] /\ \A q \in Runs : pc'[q] # "idle" => job'[q] \in Jobs
    BY <1>20, <2>1, <2>2 DEF KeepLine, TypeOK
  <2>4. QED
    BY <1>20, <2>3 DEF KeepLine, TypeOK
<1>21. CASE Finish(r)
  <2>1. Mine
    BY <1>21, EndType DEF Finish
  <2>2. QED
    BY <1>21, <2>1 DEF Finish, TypeOK
<1>22. CASE Stop(r)
  <2>1. Mine
    BY <1>22, EndType DEF Stop
  <2>2. QED
    BY <1>22, <2>1 DEF Stop, TypeOK
<1>23. QED
  BY <1>1, <1>2, <1>3, <1>4, <1>5, <1>6, <1>7, <1>8, <1>10, <1>11, <1>12, <1>13,
     <1>14, <1>16, <1>17, <1>18, <1>19, <1>20, <1>21, <1>22 DEF RunStep

-----------------------------------------------------------------------------
(* Nothing on the remote goes backwards without a trace                    *)

LEMMA PeopleMonotone ==
  ASSUME TypeOK, PeopleStep
  PROVE  Monotone
<1> USE DEF remote, history, Monotone, TypeOK
<1>1. CASE LandOnTarget
  BY <1>1 DEF LandOnTarget
<1>2. ASSUME NEW b \in Branches, LandOnBranch(b)
      PROVE  Monotone
  BY <1>2 DEF LandOnBranch
<1>3. ASSUME NEW b \in Branches, Resolve(b)
      PROVE  Monotone
  BY <1>3 DEF Resolve
<1>4. ASSUME NEW b \in Branches, MergePullRequest(b)
      PROVE  Monotone
  <2>1. ASSUME NEW c \in Branches, c # b
        PROVE  mb'[c] = mb[c] /\ pr'[c] = pr[c]
    BY <1>4, <2>1 DEF MergePullRequest
  <2>2. mb[b] \subseteq target'
    BY <1>4 DEF MergePullRequest
  <2>3. QED
    BY <1>4, <2>1, <2>2 DEF MergePullRequest
<1>5. QED
  BY <1>1, <1>2, <1>3, <1>4 DEF PeopleStep

\* A branch that the API writes contains what it contained.
LEMMA WriteMonotone ==
  ASSUME TypeOK, NEW r \in Runs, pc[r] # "idle",
         NEW commits \in SUBSET Commits,
         mb[job[r].branch] \subseteq commits,
         WriteMergeBack(r, commits)
  PROVE  Monotone
<1>1. mb' = [mb EXCEPT ![job[r].branch] = commits] /\ pr' = pr
  BY DEF WriteMergeBack
<1>2. \A b \in Branches : mb[b] \subseteq mb'[b]
  BY <1>1 DEF TypeOK
<1>3. QED
  BY <1>1, <1>2 DEF WriteMergeBack, Monotone, history

LEMMA RunMonotone ==
  ASSUME TypeOK, NEW r \in Runs, RunStep(r)
  PROVE  Monotone
<1> USE DEF remote, history
<1> DEFINE RefsStay == /\ UNCHANGED <<target, mb, pr, dropped>>
                       /\ \A v \in Versions : tags[v] # Absent => tags'[v] # Absent
<1>a. RefsStay => Monotone
  BY DEF Monotone
<1>b. ASSUME pc[r] # "idle"
      PROVE  /\ job[r] \in Jobs
             /\ job[r].branch \in Branches
             /\ job[r].version \in Versions
             /\ job[r].head \in SUBSET Commits
             /\ mb[job[r].branch] \in SUBSET Commits
  BY <1>b DEF TypeOK, Jobs
<1>1. ASSUME \/ \E b \in Branches : StartCut(r, b) \/ StartRelease(r, b)
             \/ LookUp(r)
             \/ Create(r)
             \/ ReadHead(r)
             \/ CompareWithTarget(r)
             \/ ReadMergeBack(r)
             \/ WriteFails(r)
             \/ FindPullRequest(r)
             \/ \E b \in Branches : DeleteLine(r, b) \/ KeepLine(r, b)
             \/ Finish(r)
             \/ Stop(r)
      PROVE  RefsStay
  BY <1>1 DEF StartCut, StartRelease, LookUp, Create, ReadHead, CompareWithTarget,
              ReadMergeBack, WriteFails, FindPullRequest, Report, DeleteLine, KeepLine,
              Finish, Stop
<1>2. CASE PushTag(r)
  <2>1. RefsStay
    BY <1>2, <1>b DEF PushTag, TypeOK
  <2>2. QED
    BY <2>1, <1>a
<1>3. CASE CreateMergeBack(r)
  BY <1>3, <1>b, WriteMonotone DEF CreateMergeBack, Absent
<1>4. CASE KeepMergeBack(r)
  BY <1>4, <1>b, WriteMonotone DEF KeepMergeBack
<1>5. CASE MoveMergeBack(r)
  BY <1>5, <1>b, WriteMonotone DEF MoveMergeBack
<1>6. CASE MergeIntoMergeBack(r)
  <2>1. mb[job[r].branch] \cup job[r].head \in SUBSET Commits
    BY <1>6, <1>b DEF MergeIntoMergeBack
  <2>2. QED
    BY <1>6, <1>b, <2>1, WriteMonotone DEF MergeIntoMergeBack
<1>7. CASE CreatePullRequest(r)
  <2>1. UNCHANGED <<target, mb, dropped, tags>>
    BY <1>7 DEF CreatePullRequest, Report, SkipMergeBack
  <2>2. \A b \in Branches : pr[b] => pr'[b]
    BY <1>7 DEF CreatePullRequest, TypeOK
  <2>3. QED
    BY <2>1, <2>2 DEF Monotone
<1>8. ASSUME NEW b \in Branches, DeleteMergeBack(r, b)
      PROVE  Monotone
  <2>1. mb[b] \subseteq target' \cup dropped'
    BY <1>8 DEF DeleteMergeBack
  <2>2. ASSUME NEW c \in Branches, c # b
        PROVE  mb'[c] = mb[c] /\ pr'[c] = pr[c]
    BY <1>8, <2>2 DEF DeleteMergeBack, TypeOK
  <2>3. QED
    BY <1>8, <2>1, <2>2 DEF DeleteMergeBack, Monotone
<1>9. QED
  BY <1>a, <1>1, <1>2, <1>3, <1>4, <1>5, <1>6, <1>7, <1>8 DEF RunStep

LEMMA StepMonotone ==
  ASSUME TypeOK, Next
  PROVE  Monotone
  BY PeopleMonotone, RunMonotone DEF Next

\* What has been carried stays carried.
LEMMA CarriedStays ==
  ASSUME Monotone, NEW b \in Branches
  PROVE  Carried(b) \subseteq Carried(b)'
  BY DEF Monotone, Carried

-----------------------------------------------------------------------------
(* The invariant                                                           *)

\* Open pull requests keep what was promised.
LEMMA OldPromises ==
  ASSUME Monotone, PromisesAreCarried
  PROVE  promised \subseteq target' \cup dropped' \cup
                            UNION {mb'[b] : b \in {c \in Branches : pr'[c]}}
<1>1. ASSUME NEW c \in promised
      PROVE  c \in target' \cup dropped' \cup
                   UNION {mb'[b] : b \in {d \in Branches : pr'[d]}}
  <2>1. CASE c \in target \cup dropped
    BY <2>1 DEF Monotone
  <2>2. CASE c \in UNION {mb[b] : b \in {d \in Branches : pr[d]}}
    <3>1. PICK b \in Branches : pr[b] /\ c \in mb[b]
      BY <2>2
    <3>2. CASE mb[b] \subseteq mb'[b] /\ pr'[b]
      BY <3>1, <3>2
    <3>3. CASE mb[b] \subseteq target' \cup dropped'
      BY <3>1, <3>3
    <3>4. QED
      BY <3>1, <3>2, <3>3 DEF Monotone
  <2>3. QED
    BY <1>1, <2>1, <2>2 DEF PromisesAreCarried
<1>2. QED
  BY <1>1

\* A run that does not move can still rely on what it has read and written.
LEMMA OthersRely ==
  ASSUME TypeOK, Monotone, NEW q \in Runs, pc[q] # "idle", JobsOK(q),
         pc'[q] = pc[q], job'[q] = job[q]
  PROVE  JobsOK(q)'
<1>1. job[q].branch \in Branches /\ job[q].version \in Versions
  BY DEF TypeOK, Jobs
<1>2. target \cup dropped \cup mb[job[q].branch]
        \subseteq target' \cup dropped' \cup mb'[job[q].branch]
  BY <1>1 DEF Monotone
<1>3. tags[job[q].version] # Absent => tags'[job[q].version] # Absent
  BY <1>1 DEF Monotone
<1>4. QED
  BY <1>2, <1>3 DEF JobsOK, Carried

LEMMA OthersKeep ==
  ASSUME BranchesInv, Monotone, NEW r \in Runs,
         \A q \in Runs \ {r} : pc'[q] = pc[q] /\ job'[q] = job[q],
         pc'[r] # "idle" => JobsOK(r)'
  PROVE  \A q \in Runs : pc'[q] # "idle" => JobsOK(q)'
  BY OthersRely DEF BranchesInv

LEMMA PeopleInv ==
  ASSUME BranchesInv, PeopleStep
  PROVE  BranchesInv'
<1>1. TypeOK'
  BY PeopleType DEF BranchesInv
<1>2. Monotone
  BY PeopleMonotone DEF BranchesInv
<1>3. UNCHANGED <<promised, pc, job>>
  BY DEF PeopleStep, LandOnTarget, LandOnBranch, Resolve, MergePullRequest, history
<1>4. PromisesAreCarried'
  BY <1>2, <1>3, OldPromises DEF BranchesInv, PromisesAreCarried
<1>5. ASSUME NEW q \in Runs, pc'[q] # "idle"
      PROVE  JobsOK(q)'
  BY <1>2, <1>3, <1>5, OthersRely DEF BranchesInv
<1>6. QED
  BY <1>1, <1>4, <1>5 DEF BranchesInv

\* A run starts with older lines to look at, and reaches the tag with a commit.
LEMMA StartRely ==
  ASSUME TypeOK, NEW r \in Runs, NEW step \in {"look-up", "tag"},
         NEW b \in Branches, NEW v \in Versions, NEW commit \in SUBSET Commits,
         step = "tag" => commit # Absent,
         pc' = [pc EXCEPT ![r] = step],
         job' = [job EXCEPT ![r] = Checkout(b, v, commit)]
  PROVE  JobsOK(r)'
<1>1. pc'[r] = step /\ job'[r] = Checkout(b, v, commit)
  BY DEF TypeOK
<1>2. /\ job'[r].commit = commit
      /\ job'[r].version = v
      /\ job'[r].deleted = {}
      /\ job'[r].lines = Older(v, heads)
  BY <1>1 DEF Checkout
<1>3. \A c \in Branches : Older(v, heads)[c] # Absent => c.line < v.line
  BY DEF Older
<1>4. QED
  BY <1>1, <1>2, <1>3 DEF JobsOK, MergingBack

LEMMA RunInv ==
  ASSUME BranchesInv, NEW r \in Runs, RunStep(r)
  PROVE  BranchesInv'
<1> USE DEF remote, history
<1>1. TypeOK /\ TypeOK'
  BY RunType DEF BranchesInv
<1>2. Monotone
  BY <1>1, RunMonotone
<1>3. ASSUME pc[r] # "idle"
      PROVE  JobsOK(r) /\ job[r] \in Jobs /\ job[r].branch \in Branches /\ job[r].version \in Versions
  BY <1>1, <1>3 DEF BranchesInv, TypeOK, Jobs
<1>4. ASSUME UNCHANGED promised
      PROVE  PromisesAreCarried'
  BY <1>2, <1>4, OldPromises DEF BranchesInv, PromisesAreCarried
<1>5. ASSUME \A q \in Runs \ {r} : pc'[q] = pc[q] /\ job'[q] = job[q],
             pc'[r] # "idle" => JobsOK(r)',
             UNCHANGED promised
      PROVE  BranchesInv'
  BY <1>1, <1>2, <1>4, <1>5, OthersKeep DEF BranchesInv
<1>6. ASSUME End(r), UNCHANGED promised
      PROVE  BranchesInv'
  BY <1>1, <1>5, <1>6 DEF End, Goto, TypeOK
<1>7. ASSUME NEW step \in Steps, pc[r] # "idle", Goto(r, step), UNCHANGED <<job, promised>>, JobsOK(r)'
      PROVE  BranchesInv'
  BY <1>1, <1>5, <1>7 DEF Goto, TypeOK
<1>b. /\ "create" \in Steps /\ "head" \in Steps /\ "compare" \in Steps
      /\ "mb-head" \in Steps /\ "mb-write" \in Steps /\ "pr" \in Steps
      /\ "pr-create" \in Steps /\ "clean" \in Steps
  BY DEF Steps, Cutting, MergingBack
<1>8. ASSUME NEW b \in Branches, StartCut(r, b)
      PROVE  BranchesInv'
  <2>1. PICK commit \in {target} \cup {tags[v] : v \in Released} :
          job' = [job EXCEPT ![r] = Checkout(b, b, commit)]
    BY <1>8 DEF StartCut
  <2>2. commit \in SUBSET Commits /\ b \in Versions
    BY <1>1, BranchesAssumption DEF TypeOK, Released
  <2>3. JobsOK(r)'
    BY <1>1, <1>8, <2>1, <2>2, StartRely DEF StartCut, Goto
  <2>4. QED
    BY <1>1, <1>5, <1>8, <2>1, <2>3 DEF StartCut, Goto, TypeOK
<1>9. ASSUME NEW b \in Branches, StartRelease(r, b)
      PROVE  BranchesInv'
  <2>1. PICK c \in {b} \cup Highest(Containing(NextVersion(b), heads[b])) :
          job' = [job EXCEPT ![r] = Checkout(c, NextVersion(b), heads[b])]
    BY <1>9 DEF StartRelease
  <2>2. c \in Branches
    BY <2>1 DEF Highest, Containing
  <2>3. NextVersion(b) \in Versions
    BY <1>9 DEF StartRelease
  <2>4. heads[b] \in SUBSET Commits /\ heads[b] # Absent
    BY <1>1, <1>9 DEF TypeOK, StartRelease
  <2>5. JobsOK(r)'
    BY <1>1, <1>9, <2>1, <2>2, <2>3, <2>4, StartRely DEF StartRelease, Goto
  <2>6. QED
    BY <1>1, <1>5, <1>9, <2>1, <2>5 DEF StartRelease, Goto, TypeOK
<1>10. CASE LookUp(r)
  <2>1. CASE Goto(r, "create") /\ UNCHANGED job
    <3>1. JobsOK(r)'
      BY <1>1, <1>3, <1>10, <2>1 DEF LookUp, Goto, JobsOK, MergingBack, TypeOK
    <3>2. QED
      BY <1>7, <1>b, <1>10, <2>1, <3>1 DEF LookUp
  <2>2. QED
    BY <1>6, <1>10, <2>1 DEF LookUp
<1>11. CASE Create(r)
  BY <1>6, <1>11 DEF Create
<1>12. CASE PushTag(r)
  <2>1. CASE /\ tags' = [tags EXCEPT ![job[r].version] = job[r].commit]
             /\ Goto(r, "head") /\ UNCHANGED job
    <3>1. tags'[job[r].version] # Absent
      BY <1>1, <1>3, <1>12, <2>1 DEF PushTag, TypeOK, JobsOK
    <3>2. JobsOK(r)'
      BY <1>1, <1>3, <1>12, <2>1, <3>1 DEF PushTag, Goto, JobsOK, TypeOK
    <3>3. QED
      BY <1>7, <1>b, <1>12, <2>1, <3>2 DEF PushTag
  <2>2. QED
    BY <1>6, <1>12, <2>1 DEF PushTag
<1>13. ASSUME pc[r] \in MergingBack, SkipMergeBack(r), UNCHANGED <<tags, promised>>
       PROVE  BranchesInv'
  <2>1. pc[r] # "idle"
    BY <1>13 DEF MergingBack
  <2>2. JobsOK(r)'
    BY <1>1, <1>3, <1>13, <2>1 DEF SkipMergeBack, Goto, JobsOK, TypeOK
  <2>3. QED
    BY <1>7, <1>b, <1>13, <2>1, <2>2 DEF SkipMergeBack
<1>14. CASE ReadHead(r)
  <2>1. CASE job' = [job EXCEPT ![r].head = heads[job[r].branch]] /\ Goto(r, "compare")
    <3>1. /\ pc'[r] = "compare"
          /\ job'[r].version = job[r].version
          /\ job'[r].lines = job[r].lines
          /\ job'[r].deleted = job[r].deleted
      BY <1>1, <1>3, <1>14, <2>1 DEF ReadHead, Goto, TypeOK, Jobs
    <3>2. JobsOK(r)'
      BY <1>3, <1>14, <3>1 DEF ReadHead, JobsOK, MergingBack
    <3>3. QED
      BY <1>1, <1>5, <1>14, <2>1, <3>2 DEF ReadHead, Goto, TypeOK
  <2>2. CASE SkipMergeBack(r)
    BY <1>13, <1>14, <2>2 DEF ReadHead, MergingBack
  <2>3. QED
    BY <1>14, <2>1, <2>2 DEF ReadHead
<1>15. CASE CompareWithTarget(r)
  <2>1. CASE Goto(r, "mb-head") /\ UNCHANGED job
    <3>1. JobsOK(r)'
      BY <1>1, <1>3, <1>15, <2>1 DEF CompareWithTarget, Goto, JobsOK, MergingBack, TypeOK
    <3>2. QED
      BY <1>7, <1>b, <1>15, <2>1, <3>1 DEF CompareWithTarget
  <2>2. CASE SkipMergeBack(r)
    BY <1>13, <1>15, <2>2 DEF CompareWithTarget, MergingBack
  <2>3. QED
    BY <1>15, <2>1, <2>2 DEF CompareWithTarget
<1>16. CASE ReadMergeBack(r)
  <2>1. PICK seen \in {mb[job[r].branch], Absent} :
          job' = [job EXCEPT ![r].mbHead = seen]
    BY <1>16 DEF ReadMergeBack
  <2>2. /\ pc'[r] = "mb-write"
        /\ job'[r].mbHead = seen
        /\ job'[r].branch = job[r].branch
        /\ job'[r].version = job[r].version
        /\ job'[r].lines = job[r].lines
        /\ job'[r].deleted = job[r].deleted
    BY <1>1, <1>3, <1>16, <2>1 DEF ReadMergeBack, Goto, TypeOK, Jobs
  <2>3. seen \subseteq mb'[job[r].branch]
    BY <1>16 DEF ReadMergeBack, Absent
  <2>4. JobsOK(r)'
    BY <1>3, <1>16, <2>2, <2>3 DEF ReadMergeBack, JobsOK, MergingBack, Carried
  <2>5. QED
    BY <1>1, <1>5, <1>16, <2>1, <2>4 DEF ReadMergeBack, Goto, TypeOK
<1>17. ASSUME NEW commits, pc[r] = "mb-write", WriteMergeBack(r, commits),
              job[r].head \subseteq target \cup dropped \cup commits
       PROVE  BranchesInv'
  <2>1. mb'[job[r].branch] = commits /\ pc'[r] = "pr" /\ job' = job /\ tags' = tags
    BY <1>1, <1>3, <1>17 DEF WriteMergeBack, Goto, TypeOK
  <2>2. JobsOK(r)'
    BY <1>2, <1>3, <1>17, <2>1 DEF Monotone, JobsOK, Carried, MergingBack
  <2>3. QED
    BY <1>7, <1>b, <1>17, <2>2 DEF WriteMergeBack
<1>18. CASE CreateMergeBack(r)
  BY <1>17, <1>18 DEF CreateMergeBack
<1>19. CASE KeepMergeBack(r)
  <2>1. job[r].head \subseteq target \cup dropped \cup mb[job[r].branch]
    BY <1>3, <1>19 DEF KeepMergeBack, JobsOK, Carried
  <2>2. QED
    BY <1>17, <1>19, <2>1 DEF KeepMergeBack
<1>20. CASE MoveMergeBack(r)
  BY <1>17, <1>20 DEF MoveMergeBack
<1>21. CASE MergeIntoMergeBack(r)
  BY <1>17, <1>21 DEF MergeIntoMergeBack
<1>22. CASE WriteFails(r)
  <2>1. CASE SkipMergeBack(r)
    BY <1>13, <1>22, <2>1 DEF WriteFails, MergingBack
  <2>2. CASE job' = [job EXCEPT ![r].warned = TRUE] /\ Goto(r, "pr")
    <3>1. /\ pc'[r] = "pr"
          /\ job'[r].warned
          /\ job'[r].version = job[r].version
          /\ job'[r].lines = job[r].lines
          /\ job'[r].deleted = job[r].deleted
      BY <1>1, <1>3, <1>22, <2>2 DEF WriteFails, Goto, TypeOK, Jobs
    <3>2. JobsOK(r)'
      BY <1>3, <1>22, <3>1 DEF WriteFails, JobsOK, MergingBack
    <3>3. QED
      BY <1>1, <1>5, <1>22, <2>2, <3>2 DEF WriteFails, Goto, TypeOK
  <2>3. QED
    BY <1>22, <2>1, <2>2 DEF WriteFails
<1>23. ASSUME pc[r] \in {"pr", "pr-create"}, Report(r), pr'[job[r].branch]
       PROVE  BranchesInv'
  <2>1. pc[r] # "idle"
    BY <1>23
  <2>2. ~job[r].warned => job[r].head \subseteq target \cup dropped \cup mb[job[r].branch]
    BY <1>3, <1>23, <2>1 DEF JobsOK, Carried
  <2>3. target' = target /\ dropped' = dropped /\ mb' = mb /\ job' = job /\ tags' = tags
    BY <1>23 DEF Report
  <2>4. mb[job[r].branch] \subseteq UNION {mb'[b] : b \in {c \in Branches : pr'[c]}}
    BY <1>3, <1>23, <2>1, <2>3
  <2>5. promised \subseteq target' \cup dropped' \cup UNION {mb'[b] : b \in {c \in Branches : pr'[c]}}
    BY <1>2, OldPromises DEF BranchesInv
  <2>6. PromisesAreCarried'
    BY <1>23, <2>2, <2>3, <2>4, <2>5 DEF Report, PromisesAreCarried
  <2>7. pc' = [pc EXCEPT ![r] = "clean"]
    BY <1>23 DEF Report, Goto
  <2>8. JobsOK(r)'
    BY <1>1, <1>3, <1>23, <2>1, <2>3, <2>7 DEF JobsOK, MergingBack, TypeOK
  <2>9. \A q \in Runs : pc'[q] # "idle" => JobsOK(q)'
    BY <1>1, <1>2, <2>3, <2>7, <2>8, OthersKeep DEF TypeOK
  <2>10. QED
    BY <1>1, <2>6, <2>9 DEF BranchesInv
<1>24. CASE FindPullRequest(r)
  <2>1. CASE pr[job[r].branch] /\ Report(r) /\ UNCHANGED pr
    BY <1>23, <1>24, <2>1 DEF FindPullRequest
  <2>2. CASE Goto(r, "pr-create") /\ UNCHANGED <<remote, history, job>>
    <3>1. JobsOK(r)'
      BY <1>1, <1>3, <1>24, <2>2 DEF FindPullRequest, Goto, JobsOK, MergingBack, Carried, TypeOK
    <3>2. QED
      BY <1>7, <1>b, <1>24, <2>2, <3>1 DEF FindPullRequest
  <2>3. QED
    BY <1>24, <2>1, <2>2 DEF FindPullRequest
<1>25. CASE CreatePullRequest(r)
  <2>1. CASE pr' = [pr EXCEPT ![job[r].branch] = TRUE] /\ Report(r)
    <3>1. pr'[job[r].branch]
      BY <1>1, <1>3, <1>25, <2>1 DEF CreatePullRequest, TypeOK
    <3>2. QED
      BY <1>23, <1>25, <2>1, <3>1 DEF CreatePullRequest
  <2>2. CASE SkipMergeBack(r) /\ UNCHANGED <<remote, history>>
    BY <1>13, <1>25, <2>2 DEF CreatePullRequest, MergingBack
  <2>3. QED
    BY <1>25, <2>1, <2>2 DEF CreatePullRequest
<1>26. ASSUME NEW j, pc[r] = "clean", pc' = pc, tags' = tags,
              job' = [job EXCEPT ![r] = j], UNCHANGED promised,
              j.version = job[r].version,
              \A b \in Branches : j.lines[b] # Absent \/ b \in j.deleted
                                    => job[r].lines[b] # Absent \/ b \in job[r].deleted
       PROVE  BranchesInv'
  <2>1. job'[r] = j /\ pc'[r] = "clean"
    BY <1>1, <1>26 DEF TypeOK
  <2>2. JobsOK(r)'
    BY <1>3, <1>26, <2>1 DEF JobsOK, MergingBack
  <2>3. QED
    BY <1>1, <1>5, <1>26, <2>2 DEF TypeOK
<1>27. ASSUME NEW b \in Branches, DeleteLine(r, b)
       PROVE  BranchesInv'
  <2>1. job' = [job EXCEPT ![r] = [job[r] EXCEPT !.lines[b] = Absent, !.deleted = {b}]]
    BY <1>27 DEF DeleteLine
  <2> DEFINE j == [job[r] EXCEPT !.lines[b] = Absent, !.deleted = {b}]
  <2>2. /\ j.version = job[r].version
        /\ \A c \in Branches : j.lines[c] # Absent => job[r].lines[c] # Absent
        /\ j.deleted = {b}
    BY <1>3, <1>27 DEF DeleteLine, Jobs
  <2>3. QED
    BY <1>26, <1>27, <2>1, <2>2 DEF DeleteLine
<1>28. ASSUME NEW b \in Branches, DeleteMergeBack(r, b)
       PROVE  BranchesInv'
  <2>1. job' = [job EXCEPT ![r] = [job[r] EXCEPT !.deleted = {}]]
    BY <1>28 DEF DeleteMergeBack
  <2> DEFINE j == [job[r] EXCEPT !.deleted = {}]
  <2>2. j.version = job[r].version /\ j.lines = job[r].lines /\ j.deleted = {}
    BY <1>3, <1>28 DEF DeleteMergeBack, Jobs
  <2>3. QED
    BY <1>26, <1>28, <2>1, <2>2 DEF DeleteMergeBack
<1>29. ASSUME NEW b \in Branches, KeepLine(r, b)
       PROVE  BranchesInv'
  <2>1. job' = [job EXCEPT ![r] = [job[r] EXCEPT !.lines[b] = Absent, !.deleted = {}]]
    BY <1>29 DEF KeepLine
  <2> DEFINE j == [job[r] EXCEPT !.lines[b] = Absent, !.deleted = {}]
  <2>2. /\ j.version = job[r].version
        /\ \A c \in Branches : j.lines[c] # Absent => job[r].lines[c] # Absent
        /\ j.deleted = {}
    BY <1>3, <1>29 DEF KeepLine, Jobs
  <2>3. QED
    BY <1>26, <1>29, <2>1, <2>2 DEF KeepLine
<1>30. CASE Finish(r)
  BY <1>6, <1>30 DEF Finish
<1>31. CASE Stop(r)
  BY <1>6, <1>31 DEF Stop
<1>32. QED
  BY <1>8, <1>9, <1>10, <1>11, <1>12, <1>14, <1>15, <1>16, <1>18, <1>19, <1>20, <1>21,
     <1>22, <1>24, <1>25, <1>27, <1>28, <1>29, <1>30, <1>31 DEF RunStep

LEMMA InitInv == Init => BranchesInv
<1> SUFFICES ASSUME Init PROVE BranchesInv
  OBVIOUS
<1>1. TypeOK
  BY BranchesAssumption DEF Init, TypeOK, Commits, Absent, Steps
<1>2. QED
  BY <1>1 DEF Init, BranchesInv, PromisesAreCarried

LEMMA StepInv == BranchesInv /\ [Next]_vars => BranchesInv'
<1> SUFFICES ASSUME BranchesInv, [Next]_vars PROVE BranchesInv'
  OBVIOUS
<1>1. CASE PeopleStep
  BY <1>1, PeopleInv
<1>2. ASSUME NEW r \in Runs, RunStep(r)
      PROVE  BranchesInv'
  BY <1>2, RunInv
<1>3. CASE UNCHANGED vars
  BY <1>3 DEF vars, remote, history, BranchesInv, TypeOK, PromisesAreCarried, JobsOK,
              Carried
<1>4. QED
  BY <1>1, <1>2, <1>3 DEF Next

\* The inductive invariant of ReleaseBranches: what every run between two of its
\* calls relies on (merge-back-release-branch.sh:122-207).
THEOREM BranchesInvariant == Spec => []BranchesInv
  BY InitInv, StepInv, PTL DEF Spec

\* Every reported merge-back pull request carries the release it was reported
\* for, whoever else works on its branch (merge-back-release-branch.sh:27-31).
THEOREM ReportedMergeBacksAreCarried == Spec => []PromisesAreCarried
<1>1. BranchesInv => PromisesAreCarried
  BY DEF BranchesInv
<1>2. QED
  BY <1>1, BranchesInvariant, PTL

-----------------------------------------------------------------------------
(* What no step does to a branch                                           *)

\* The API is asked to create a ref that does not exist, or to move one without
\* force: no stale reader takes a commit from a branch
\* (cut-release-branch.sh:144-168, merge-back-release-branch.sh:141-176).
THEOREM BranchesMoveForward == Spec => BranchesOnlyMoveForward
<1> DEFINE Moves == \A b \in Branches : Forward(heads[b], heads'[b]) /\ Forward(mb[b], mb'[b])
<1>1. BranchesInv /\ [Next]_vars => [Moves]_vars
  <2> SUFFICES ASSUME BranchesInv, Next PROVE Moves
    BY DEF vars
  <2> USE DEF Forward, remote, history
  <2>1. TypeOK
    BY DEF BranchesInv
  <2>2. CASE PeopleStep
    BY <2>1, <2>2 DEF PeopleStep, LandOnTarget, LandOnBranch, Resolve, MergePullRequest,
                      TypeOK
  <2>3. ASSUME NEW r \in Runs, RunStep(r)
        PROVE  Moves
    <3>1. CASE Create(r)
      BY <2>1, <3>1 DEF Create, TypeOK, Absent
    <3>2. ASSUME NEW commits, WriteMergeBack(r, commits), mb[job[r].branch] \subseteq commits
          PROVE  Moves
      BY <2>1, <3>2 DEF WriteMergeBack, TypeOK
    <3>3. CASE CreateMergeBack(r)
      BY <3>2, <3>3 DEF CreateMergeBack, Absent
    <3>4. CASE KeepMergeBack(r)
      BY <3>2, <3>4 DEF KeepMergeBack
    <3>5. CASE MoveMergeBack(r)
      BY <3>2, <3>5 DEF MoveMergeBack
    <3>6. CASE MergeIntoMergeBack(r)
      BY <3>2, <3>6 DEF MergeIntoMergeBack
    <3>7. ASSUME NEW b \in Branches, DeleteLine(r, b) \/ DeleteMergeBack(r, b)
          PROVE  Moves
      BY <2>1, <3>7 DEF DeleteLine, DeleteMergeBack, TypeOK
    <3>8. ASSUME UNCHANGED <<heads, mb>>
          PROVE  Moves
      BY <3>8
    <3>9. QED
      BY <2>3, <3>1, <3>3, <3>4, <3>5, <3>6, <3>7, <3>8
         DEF RunStep, StartCut, LookUp, StartRelease, PushTag, ReadHead, CompareWithTarget,
             ReadMergeBack, WriteFails, FindPullRequest, CreatePullRequest, Report,
             SkipMergeBack, KeepLine, Finish, Stop
  <2>4. QED
    BY <2>2, <2>3 DEF Next
<1>2. QED
  BY <1>1, BranchesInvariant, PTL DEF Spec, BranchesOnlyMoveForward

\* What a clean-up takes was not there when its run checked out, and its line is
\* older than a released one (clean-up-release-branches.sh:79-101).
THEOREM DeletesTakeOnlyLate == Spec => DeletesTakeOnlyLateCommits
<1> DEFINE
      Line(b) == heads[b] # Absent /\ heads'[b] = Absent =>
        \E r \in Runs : job[r] # job'[r] /\ Takes(r, heads, job[r].lines, b)
      Back(b) == mb[b] # Absent /\ mb'[b] = Absent /\ ~(mb[b] \subseteq target') =>
        \E r \in Runs : job[r] # job'[r] /\ Takes(r, mb, job[r].mbs, b)
      Late == \A b \in Branches : Line(b) /\ Back(b)
      Stated ==
        \A b \in Branches :
          /\ heads[b] # Absent /\ heads'[b] = Absent
               => \E r \in Runs : job[r] # job'[r] /\ Takes(r, heads, job[r].lines, b)
          /\ mb[b] # Absent /\ mb'[b] = Absent /\ ~(mb[b] \subseteq target')
               => \E r \in Runs : job[r] # job'[r] /\ Takes(r, mb, job[r].mbs, b)
<1>1. BranchesInv /\ [Next]_vars => [Late]_vars
  <2> SUFFICES ASSUME BranchesInv, Next PROVE Late
    BY DEF vars
  <2> USE DEF remote, history
  <2>1. TypeOK
    BY DEF BranchesInv
  <2>2. CASE PeopleStep
    <3>1. ASSUME NEW b \in Branches, heads[b] # Absent
          PROVE  heads'[b] # Absent
      BY <2>1, <2>2, <3>1 DEF PeopleStep, LandOnTarget, LandOnBranch, Resolve,
                              MergePullRequest, TypeOK, Absent
    <3>2. ASSUME NEW b \in Branches, mb[b] # Absent
          PROVE  mb'[b] # Absent \/ mb[b] \subseteq target'
      BY <2>1, <2>2, <3>2 DEF PeopleStep, LandOnTarget, LandOnBranch, Resolve,
                              MergePullRequest, TypeOK, Absent
    <3>3. QED
      BY <3>1, <3>2
  <2>3. ASSUME NEW r \in Runs, RunStep(r)
        PROVE  Late
    <3>1. ASSUME NEW b \in Branches, DeleteLine(r, b)
          PROVE  Late
      <4>1. /\ job[r] \in Jobs /\ JobsOK(r) /\ pc[r] = "clean"
            /\ job[r].version \in Versions
        BY <2>1, <3>1 DEF DeleteLine, BranchesInv, TypeOK, Jobs
      <4>2. \E v \in Released : b.line < v.line
        BY <3>1, <4>1 DEF DeleteLine, JobsOK, MergingBack, Released
      <4>3. (heads[b] \ target') \cap job[r].lines[b] = {}
        BY <3>1 DEF DeleteLine
      <4>4. job'[r].lines[b] = Absent /\ job[r].lines[b] # Absent
        BY <2>1, <3>1, <4>1 DEF DeleteLine, TypeOK, Jobs
      <4>5. Line(b)
        BY <4>2, <4>3, <4>4 DEF Takes
      <4>6. \A c \in Branches \ {b} : heads'[c] = heads[c]
        BY <2>1, <3>1 DEF DeleteLine, TypeOK
      <4>7. mb' = mb
        BY <3>1 DEF DeleteLine
      <4>8. QED
        BY <4>5, <4>6, <4>7
    <3>2. ASSUME NEW b \in Branches, DeleteMergeBack(r, b)
          PROVE  Late
      <4>1. /\ job[r] \in Jobs /\ JobsOK(r) /\ pc[r] = "clean"
            /\ job[r].version \in Versions
        BY <2>1, <3>2 DEF DeleteMergeBack, BranchesInv, TypeOK, Jobs
      <4>2. \E v \in Released : b.line < v.line
        BY <3>2, <4>1 DEF DeleteMergeBack, JobsOK, MergingBack, Released
      <4>3. (mb[b] \ target') \cap job[r].mbs[b] = {}
        BY <3>2 DEF DeleteMergeBack
      <4>4. job'[r].deleted = {} /\ job[r].deleted # {}
        BY <2>1, <3>2, <4>1 DEF DeleteMergeBack, TypeOK, Jobs
      <4>5. Back(b)
        BY <4>2, <4>3, <4>4 DEF Takes
      <4>6. \A c \in Branches \ {b} : mb'[c] = mb[c]
        BY <2>1, <3>2 DEF DeleteMergeBack, TypeOK
      <4>7. heads' = heads
        BY <3>2 DEF DeleteMergeBack
      <4>8. QED
        BY <4>5, <4>6, <4>7
    <3>3. ASSUME \A b \in Branches : heads[b] \subseteq heads'[b] /\ mb[b] \subseteq mb'[b]
          PROVE  Late
      BY <3>3 DEF Absent
    <3>4. CASE Create(r)
      BY <2>1, <3>3, <3>4 DEF Create, TypeOK, Absent
    <3>5. ASSUME NEW commits, WriteMergeBack(r, commits), mb[job[r].branch] \subseteq commits
          PROVE  Late
      BY <2>1, <3>3, <3>5 DEF WriteMergeBack, TypeOK
    <3>6. CASE CreateMergeBack(r) \/ KeepMergeBack(r) \/ MoveMergeBack(r) \/ MergeIntoMergeBack(r)
      BY <3>5, <3>6 DEF CreateMergeBack, KeepMergeBack, MoveMergeBack, MergeIntoMergeBack,
                        Absent
    <3>7. ASSUME UNCHANGED <<heads, mb>>
          PROVE  Late
      BY <3>3, <3>7
    <3>8. QED
      BY <2>3, <3>1, <3>2, <3>4, <3>6, <3>7
         DEF RunStep, StartCut, LookUp, StartRelease, PushTag, ReadHead, CompareWithTarget,
             ReadMergeBack, WriteFails, FindPullRequest, CreatePullRequest, Report,
             SkipMergeBack, KeepLine, Finish, Stop
  <2>4. QED
    BY <2>2, <2>3 DEF Next
<1>2. [Late]_vars => [Stated]_vars
  OBVIOUS
<1>3. QED
  BY <1>1, <1>2, BranchesInvariant, PTL DEF Spec, DeletesTakeOnlyLateCommits
-----------------------------------------------------------------------------
(* Release branches stay clean                                             *)

\* Refs and runs know commits that have been made, so that one that is made now
\* is on no branch yet.
Known(commits) == commits \subseteq 0..made
RefsKnown ==
  /\ Known(target)
  /\ \A b \in Branches : Known(heads[b]) /\ Known(mb[b])
  /\ \A v \in Versions : Known(tags[v])
RunsKnown ==
  \A r \in Runs : pc[r] # "idle" => Known(job[r].commit) /\ Known(job[r].head)
OnlyMade == RefsKnown /\ RunsKnown

LEMMA PeopleKnown ==
  ASSUME TypeOK, OnlyMade, PeopleStep
  PROVE  OnlyMade'
<1> USE DEF remote, history
<1>1. made' \in Nat /\ made \in Nat /\ made <= made'
  BY DEF PeopleStep, LandOnTarget, LandOnBranch, Resolve, MergePullRequest, NewCommit,
         TypeOK, Commits
<1>2. 0..made \subseteq 0..made'
  BY <1>1
<1>3. NewCommit => made' \in 0..made'
  BY <1>1
<1>4. RunsKnown'
  BY <1>2 DEF PeopleStep, LandOnTarget, LandOnBranch, Resolve, MergePullRequest, OnlyMade,
              RunsKnown, Known
<1>5. CASE LandOnTarget
  BY <1>2, <1>3, <1>4, <1>5 DEF LandOnTarget, OnlyMade, RefsKnown, Known
<1>6. ASSUME NEW b \in Branches, LandOnBranch(b)
      PROVE  OnlyMade'
  BY <1>2, <1>3, <1>4, <1>6 DEF LandOnBranch, OnlyMade, RefsKnown, Known, TypeOK
<1>7. ASSUME NEW b \in Branches, Resolve(b)
      PROVE  OnlyMade'
  BY <1>2, <1>3, <1>4, <1>7 DEF Resolve, OnlyMade, RefsKnown, Known, TypeOK
<1>8. ASSUME NEW b \in Branches, MergePullRequest(b)
      PROVE  OnlyMade'
  BY <1>2, <1>4, <1>8 DEF MergePullRequest, OnlyMade, RefsKnown, Known, TypeOK, Absent
<1>9. QED
  BY <1>5, <1>6, <1>7, <1>8 DEF PeopleStep

LEMMA RunKnown ==
  ASSUME TypeOK, OnlyMade, NEW r \in Runs, RunStep(r)
  PROVE  OnlyMade'
<1> USE DEF remote, history
<1>1. made' = made
  BY DEF RunStep, StartCut, LookUp, Create, StartRelease, PushTag, ReadHead,
         CompareWithTarget, ReadMergeBack, CreateMergeBack, KeepMergeBack, MoveMergeBack,
         MergeIntoMergeBack, WriteMergeBack, WriteFails, FindPullRequest,
         CreatePullRequest, Report, SkipMergeBack, DeleteLine, DeleteMergeBack, KeepLine,
         Finish, Stop
<1>2. ASSUME pc[r] # "idle"
      PROVE  /\ job[r] \in Jobs
             /\ job[r].branch \in Branches /\ job[r].version \in Versions
             /\ Known(job[r].commit) /\ Known(job[r].head)
  BY <1>2 DEF TypeOK, Jobs, OnlyMade, RunsKnown
<1>3. ASSUME UNCHANGED <<target, heads, mb, tags>>
      PROVE  RefsKnown'
  BY <1>1, <1>3 DEF OnlyMade, RefsKnown, Known
<1>4. ASSUME \A q \in Runs \ {r} : pc'[q] = pc[q] /\ job'[q] = job[q],
             pc'[r] # "idle" => /\ job'[r].commit \subseteq 0..made
                                /\ job'[r].head \subseteq 0..made
      PROVE  RunsKnown'
  BY <1>1, <1>4 DEF OnlyMade, RunsKnown, Known
<1>5. ASSUME End(r)
      PROVE  RunsKnown'
  BY <1>4, <1>5 DEF End, Goto, TypeOK
<1>6. ASSUME pc[r] # "idle", NEW step, Goto(r, step), UNCHANGED job
      PROVE  RunsKnown'
  BY <1>2, <1>4, <1>6 DEF Goto, TypeOK, Known
<1>7. ASSUME NEW b \in Branches, StartCut(r, b)
      PROVE  OnlyMade'
  <2>1. PICK commit \in {target} \cup {tags[v] : v \in Released} :
          job' = [job EXCEPT ![r] = Checkout(b, b, commit)]
    BY <1>7 DEF StartCut
  <2>2. commit \subseteq 0..made
    BY DEF OnlyMade, RefsKnown, Known, Released
  <2>3. job'[r].commit = commit /\ job'[r].head = Absent
    BY <2>1 DEF TypeOK, Checkout
  <2>4. RunsKnown'
    BY <1>4, <1>7, <2>1, <2>2, <2>3 DEF StartCut, Goto, TypeOK, Absent
  <2>5. QED
    BY <1>3, <1>7, <2>4 DEF StartCut, OnlyMade
<1>8. ASSUME NEW b \in Branches, StartRelease(r, b)
      PROVE  OnlyMade'
  <2>1. PICK c : job' = [job EXCEPT ![r] = Checkout(c, NextVersion(b), heads[b])]
    BY <1>8 DEF StartRelease
  <2>2. job'[r].commit = heads[b] /\ job'[r].head = Absent
    BY <2>1 DEF TypeOK, Checkout
  <2>3. RunsKnown'
    BY <1>4, <1>8, <2>1, <2>2 DEF StartRelease, Goto, TypeOK, Absent, OnlyMade, RefsKnown,
                                  Known
  <2>4. QED
    BY <1>3, <1>8, <2>3 DEF StartRelease, OnlyMade
<1>9. CASE LookUp(r)
  BY <1>3, <1>5, <1>6, <1>9 DEF LookUp, OnlyMade
<1>10. CASE Create(r)
  <2>1. \A b \in Branches : heads'[b] \subseteq 0..made
    BY <1>1, <1>2, <1>10 DEF Create, TypeOK, OnlyMade, RefsKnown, Known
  <2>2. QED
    BY <1>1, <1>5, <1>10, <2>1 DEF Create, OnlyMade, RefsKnown, Known
<1>11. CASE PushTag(r)
  <2>1. RunsKnown'
    BY <1>5, <1>6, <1>11 DEF PushTag
  <2>2. \A v \in Versions : tags'[v] \subseteq 0..made
    BY <1>2, <1>11 DEF PushTag, TypeOK, OnlyMade, RefsKnown, Known
  <2>3. QED
    BY <1>1, <1>11, <2>1, <2>2 DEF PushTag, OnlyMade, RefsKnown, Known
<1>12. CASE ReadHead(r)
  <2>1. CASE job' = [job EXCEPT ![r].head = heads[job[r].branch]] /\ Goto(r, "compare")
    <3>1. job'[r].commit = job[r].commit /\ job'[r].head = heads[job[r].branch]
      BY <1>2, <1>12, <2>1 DEF ReadHead, TypeOK, Jobs
    <3>2. RunsKnown'
      BY <1>2, <1>4, <1>12, <2>1, <3>1 DEF ReadHead, Goto, TypeOK, OnlyMade, RefsKnown, Known
    <3>3. QED
      BY <1>3, <1>12, <3>2 DEF ReadHead, OnlyMade
  <2>2. QED
    BY <1>3, <1>6, <1>12, <2>1 DEF ReadHead, SkipMergeBack, OnlyMade
<1>13. CASE CompareWithTarget(r)
  BY <1>3, <1>6, <1>13 DEF CompareWithTarget, SkipMergeBack, OnlyMade
<1>14. CASE ReadMergeBack(r)
  <2>1. PICK seen : job' = [job EXCEPT ![r].mbHead = seen]
    BY <1>14 DEF ReadMergeBack
  <2>2. job'[r].commit = job[r].commit /\ job'[r].head = job[r].head
    BY <1>2, <1>14, <2>1 DEF ReadMergeBack, TypeOK, Jobs
  <2>3. RunsKnown'
    BY <1>2, <1>4, <1>14, <2>1, <2>2 DEF ReadMergeBack, Goto, TypeOK, Known
  <2>4. QED
    BY <1>3, <1>14, <2>3 DEF ReadMergeBack, OnlyMade
<1>15. ASSUME NEW commits, pc[r] # "idle", WriteMergeBack(r, commits),
              commits \subseteq 0..made
       PROVE  OnlyMade'
  <2>1. RunsKnown'
    BY <1>6, <1>15 DEF WriteMergeBack
  <2>2. \A b \in Branches : mb'[b] \subseteq 0..made
    BY <1>2, <1>15 DEF WriteMergeBack, TypeOK, OnlyMade, RefsKnown, Known
  <2>3. QED
    BY <1>1, <1>15, <2>1, <2>2 DEF WriteMergeBack, OnlyMade, RefsKnown, Known
<1>16. ASSUME pc[r] = "mb-write"
       PROVE  job[r].head \subseteq 0..made /\ mb[job[r].branch] \subseteq 0..made
  BY <1>2, <1>16 DEF OnlyMade, RefsKnown, Known
<1>17. CASE CreateMergeBack(r)
  BY <1>15, <1>16, <1>17 DEF CreateMergeBack
<1>18. CASE KeepMergeBack(r)
  BY <1>15, <1>16, <1>18 DEF KeepMergeBack
<1>19. CASE MoveMergeBack(r)
  BY <1>15, <1>16, <1>19 DEF MoveMergeBack
<1>20. CASE MergeIntoMergeBack(r)
  <2>1. mb[job[r].branch] \cup job[r].head \subseteq 0..made
    BY <1>16, <1>20 DEF MergeIntoMergeBack
  <2>2. QED
    BY <1>15, <1>20, <2>1 DEF MergeIntoMergeBack
<1>21. CASE WriteFails(r)
  <2>1. CASE job' = [job EXCEPT ![r].warned = TRUE] /\ Goto(r, "pr")
    <3>1. job'[r].commit = job[r].commit /\ job'[r].head = job[r].head
      BY <1>2, <1>21, <2>1 DEF WriteFails, TypeOK, Jobs
    <3>2. RunsKnown'
      BY <1>2, <1>4, <1>21, <2>1, <3>1 DEF WriteFails, Goto, TypeOK, Known
    <3>3. QED
      BY <1>3, <1>21, <3>2 DEF WriteFails, OnlyMade
  <2>2. QED
    BY <1>3, <1>6, <1>21, <2>1 DEF WriteFails, SkipMergeBack, OnlyMade
<1>22. CASE FindPullRequest(r) \/ CreatePullRequest(r)
  BY <1>3, <1>6, <1>22 DEF FindPullRequest, CreatePullRequest, Report, SkipMergeBack,
                           OnlyMade
<1>23. ASSUME NEW b \in Branches, DeleteLine(r, b) \/ DeleteMergeBack(r, b) \/ KeepLine(r, b)
       PROVE  OnlyMade'
  <2>1. pc[r] # "idle" /\ pc' = pc
    BY <1>23 DEF DeleteLine, DeleteMergeBack, KeepLine
  <2>2. job'[r].commit = job[r].commit /\ job'[r].head = job[r].head
    BY <1>2, <1>23, <2>1 DEF DeleteLine, DeleteMergeBack, KeepLine, TypeOK, Jobs
  <2>3. \A q \in Runs \ {r} : job'[q] = job[q]
    BY <1>23 DEF DeleteLine, DeleteMergeBack, KeepLine, TypeOK
  <2>4. RunsKnown'
    BY <1>2, <1>4, <2>1, <2>2, <2>3 DEF Known
  <2>5. RefsKnown'
    BY <1>1, <1>23 DEF DeleteLine, DeleteMergeBack, KeepLine, TypeOK, OnlyMade, RefsKnown,
                       Known, Absent
  <2>6. QED
    BY <2>4, <2>5 DEF OnlyMade
<1>24. CASE Finish(r) \/ Stop(r)
  BY <1>3, <1>5, <1>24 DEF Finish, Stop, OnlyMade
<1>25. QED
  BY <1>7, <1>8, <1>9, <1>10, <1>11, <1>12, <1>13, <1>14, <1>17, <1>18, <1>19, <1>20,
     <1>21, <1>22, <1>23, <1>24 DEF RunStep

LEMMA OnlyMadeInvariant == Spec => []OnlyMade
<1>1. Init => OnlyMade
  BY DEF Init, OnlyMade, RefsKnown, RunsKnown, Known, Absent
<1>2. BranchesInv /\ OnlyMade /\ [Next]_vars => OnlyMade'
  <2> SUFFICES ASSUME BranchesInv, OnlyMade, [Next]_vars PROVE OnlyMade'
    OBVIOUS
  <2>1. CASE Next
    BY <2>1, PeopleKnown, RunKnown DEF Next, BranchesInv
  <2>2. CASE UNCHANGED vars
    BY <2>2 DEF vars, remote, OnlyMade, RefsKnown, RunsKnown, Known
  <2>3. QED
    BY <2>1, <2>2
<1>3. QED
  BY <1>1, <1>2, BranchesInvariant, PTL DEF Spec

\* The merge-back goes through a branch of its own, so that no step writes the
\* target's work to a release branch (merge-back-release-branch.sh:8-16).
THEOREM ReleaseLinesStayClean == Spec => LinesStayClean
<1> DEFINE Clean == \A b \in Branches :
                      heads[b] # Absent => (heads'[b] \ heads[b]) \cap target = {}
<1>1. BranchesInv /\ OnlyMade /\ [Next]_vars => [Clean]_vars
  <2> SUFFICES ASSUME BranchesInv, OnlyMade, Next PROVE Clean
    BY DEF vars
  <2> USE DEF remote, history
  <2>1. TypeOK
    BY DEF BranchesInv
  <2>2. ASSUME NEW b \in Branches, LandOnBranch(b)
        PROVE  Clean
    <3>1. made' \notin target
      BY <2>1, <2>2 DEF LandOnBranch, NewCommit, OnlyMade, RefsKnown, Known, TypeOK, Commits
    <3>2. QED
      BY <2>1, <2>2, <3>1 DEF LandOnBranch, TypeOK
  <2>3. ASSUME \A b \in Branches : heads[b] # Absent => heads'[b] \subseteq heads[b]
        PROVE  Clean
    BY <2>3
  <2>4. ASSUME NEW r \in Runs, Create(r)
        PROVE  Clean
    BY <2>1, <2>3, <2>4 DEF Create, TypeOK
  <2>5. ASSUME NEW r \in Runs, NEW b \in Branches, DeleteLine(r, b)
        PROVE  Clean
    BY <2>1, <2>3, <2>5 DEF DeleteLine, TypeOK, Absent
  <2>6. ASSUME UNCHANGED heads
        PROVE  Clean
    BY <2>3, <2>6
  <2>7. CASE PeopleStep
    BY <2>2, <2>6, <2>7 DEF PeopleStep, LandOnTarget, Resolve, MergePullRequest
  <2>8. ASSUME NEW r \in Runs, RunStep(r)
        PROVE  Clean
    BY <2>4, <2>5, <2>6, <2>8
       DEF RunStep, StartCut, LookUp, StartRelease, PushTag, ReadHead, CompareWithTarget,
           ReadMergeBack, CreateMergeBack, KeepMergeBack, MoveMergeBack, MergeIntoMergeBack,
           WriteMergeBack, WriteFails, FindPullRequest, CreatePullRequest, Report,
           SkipMergeBack, DeleteMergeBack, KeepLine, Finish, Stop
  <2>9. QED
    BY <2>7, <2>8 DEF Next
<1>2. QED
  BY <1>1, BranchesInvariant, OnlyMadeInvariant, PTL DEF Spec, LinesStayClean
=============================================================================
