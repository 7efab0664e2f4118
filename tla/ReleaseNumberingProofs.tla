------------------------ MODULE ReleaseNumberingProofs ------------------------
(***************************************************************************)
(* Theorems about the numbers ReleaseRuns gives out: that no commit is cut *)
(* twice, that a run that died is found again, and where `:latest` goes.   *)
(*                                                                         *)
(* The first two are about a line whose branches start at the same number  *)
(* and where nobody types a version.                                       *)
(***************************************************************************)
EXTENDS ReleaseRunsProofs

OneNumbering ==
  /\ Overrides = {}
  /\ \A b, d \in Branches : FirstPatch[b] = FirstPatch[d]

-----------------------------------------------------------------------------
(* The next number                                                         *)

\* The greatest number of an unbroken line is its last.
LEMMA ContiguousMax ==
  ASSUME NEW first \in Nat, NEW S, Contiguous(first, S), S # {}
  PROVE  /\ Max(S) \in S /\ Max(S) \in Nat
         /\ S = first..Max(S)
<1>1. PICK n \in S : S = first..n
  BY DEF Contiguous
<1>2. n \in Nat /\ first <= n /\ \A y \in S : n >= y
  BY <1>1
<1>3. Max(S) \in S /\ \A y \in S : Max(S) >= y
  BY <1>2 DEF Max
<1>4. Max(S) \in Nat /\ Max(S) = n
  BY <1>1, <1>2, <1>3
<1> QED
  BY <1>1, <1>3, <1>4

\* Adding the first number that is missing keeps a line unbroken.
LEMMA ContiguousGrows ==
  ASSUME NEW first \in Nat, NEW S, Contiguous(first, S),
         NEW p \in Nat, first <= p, first..(p - 1) \subseteq S, p \notin S
  PROVE  /\ Contiguous(first, S \cup {p})
         /\ S = first..(p - 1)
<1>1. CASE S = {}
  <2>1. first \notin first..(p - 1)
    BY <1>1
  <2>2. p = first
    BY <2>1
  <2>3. S \cup {p} = first..p
    BY <1>1, <2>2
  <2> QED
    BY <1>1, <2>2, <2>3 DEF Contiguous
<1>2. CASE S # {}
  <2>1. PICK n \in S : S = first..n
    BY <1>2 DEF Contiguous
  <2>2. n \in Nat /\ n < p
    BY <2>1
  <2>3. n = p - 1
    <3>1. CASE p = first
      BY <2>1, <2>2, <3>1
    <3>2. CASE p # first
      <4>1. p - 1 \in first..(p - 1)
        BY <3>2
      <4> QED
        BY <2>1, <2>2, <4>1
    <3> QED
      BY <3>1, <3>2
  <2>4. S \cup {p} = first..p
    BY <2>1, <2>3
  <2> QED
    BY <2>1, <2>3, <2>4 DEF Contiguous
<1> QED
  BY <1>1, <1>2

\* The next patch number comes after all that are shipped, and after no other.
LEMMA NextPatchFacts ==
  ASSUME NEW first \in Nat, Contiguous(first, Shipped)
  PROVE  /\ NextPatch(first) \in Nat
         /\ first <= NextPatch(first)
         /\ Shipped = first..(NextPatch(first) - 1)
<1>1. CASE Shipped = {}
  BY <1>1 DEF NextPatch
<1>2. CASE Shipped # {}
  <2>1. Max(Shipped) \in Nat /\ Max(Shipped) \in Shipped /\ Shipped = first..Max(Shipped)
    BY <1>2, ContiguousMax
  <2>2. ~(Max(Shipped) < first)
    BY <2>1
  <2>3. NextPatch(first) = Max(Shipped) + 1
    BY <1>2, <2>2 DEF NextPatch
  <2> QED
    BY <2>1, <2>2, <2>3
<1> QED
  BY <1>1, <1>2

\* So does the next number of a candidate.
LEMMA NextNumberFacts ==
  ASSUME NEW p, Contiguous(1, Numbers(p))
  PROVE  \E n \in Nat : n = Max(Numbers(p) \cup {0}) + 1 /\ Numbers(p) = 1..(n - 1)
<1> DEFINE S == Numbers(p) \cup {0}
<1>1. \E n \in S : S = 0..n /\ Numbers(p) = 1..n
  <2>1. CASE Numbers(p) = {}
    BY <2>1
  <2>2. CASE Numbers(p) # {}
    <3>1. PICK n \in Numbers(p) : Numbers(p) = 1..n
      BY <2>2 DEF Contiguous
    <3>2. 1..n \cup {0} = 0..n
      BY <3>1
    <3> QED
      BY <3>1, <3>2
  <2> QED
    BY <2>1, <2>2
<1>2. PICK n \in S : S = 0..n /\ Numbers(p) = 1..n
  BY <1>1
<1>3. Contiguous(0, S)
  BY <1>2 DEF Contiguous
<1>4. Max(S) \in S /\ Max(S) \in Nat /\ S = 0..Max(S)
  BY <1>3, ContiguousMax
<1>5. Max(S) = n
  <2>1. n \in 0..Max(S) /\ Max(S) \in 0..n
    BY <1>2, <1>4
  <2> QED
    BY <2>1
<1> DEFINE k == Max(S) + 1
<1>6. k \in Nat /\ k - 1 = n
  BY <1>4, <1>5
<1>7. k = Max(Numbers(p) \cup {0}) + 1
  OBVIOUS
<1> HIDE DEF k
<1> QED
  BY <1>2, <1>6, <1>7

-----------------------------------------------------------------------------
(* Pushing a tag                                                           *)

\* Two versions of one patch and one number are the same version.
LEMMA SameVersion ==
  ASSUME NEW v \in Versions, NEW w \in Versions, v.patch = w.patch, v.rc = w.rc
  PROVE  v = w
  BY ReleaseAssumption

\* A stable patch number is shipped by one version only.
LEMMA ShippedBy ==
  ASSUME NEW v \in StableVersions
  PROVE  v.patch \in Shipped <=> Tagged(v)
<1>1. \A w \in StableVersions : w.patch = v.patch => w = v
  BY SameVersion DEF StableVersions
<1> QED
  BY <1>1 DEF Shipped, Released

\* So is a candidate's number.
LEMMA NumberedBy ==
  ASSUME NEW v \in Candidates
  PROVE  v.rc \in Numbers(v.patch) <=> Tagged(v)
<1>1. \A w \in Candidates : w.patch = v.patch /\ w.rc = v.rc => w = v
  BY SameVersion DEF Candidates
<1> QED
  BY <1>1 DEF Numbers, CandidatesOf

\* The tag of version v is pushed on commit c.
Pushed(v, c, m) ==
  /\ v \in Versions /\ c \in Commits /\ ~Tagged(v)
  /\ tags' = [tags EXCEPT ![v] = [commit |-> c, marker |-> m]]
  /\ [commit |-> c, marker |-> m] # None

\* A push adds that tag and no other.
LEMMA PushAddsOne ==
  ASSUME TypeOK, NEW v, NEW c, NEW m, Pushed(v, c, m)
  PROVE  /\ tags'[v].commit = c
         /\ \A w \in Versions : Tagged(w)' <=> Tagged(w) \/ w = v
         /\ \A w \in Versions : w # v => tags'[w] = tags[w]
  BY DEF TypeOK, Pushed, Tagged

\* What a push of a stable version does to the sets the numbers come from.
LEMMA StablePushed ==
  ASSUME TypeOK, NEW v \in StableVersions, NEW c, NEW m, Pushed(v, c, m)
  PROVE  /\ Shipped' = Shipped \cup {v.patch} /\ v.patch \notin Shipped
         /\ \A p : CandidatesOf(p)' = CandidatesOf(p) /\ Numbers(p)' = Numbers(p)
<1>1. Released' = Released \cup {v}
  BY PushAddsOne DEF Released, StableVersions
<1>2. \A p : CandidatesOf(p)' = CandidatesOf(p)
  BY PushAddsOne DEF CandidatesOf, Candidates
<1>3. Shipped' = Shipped \cup {v.patch}
  BY <1>1 DEF Shipped
<1>4. v.patch \notin Shipped
  BY ShippedBy DEF Pushed
<1> QED
  BY <1>2, <1>3, <1>4 DEF Numbers

\* And a push of a candidate.
LEMMA CandidatePushed ==
  ASSUME TypeOK, NEW v \in Candidates, NEW c, NEW m, Pushed(v, c, m)
  PROVE  /\ Shipped' = Shipped /\ Released' = Released
         /\ CandidatesOf(v.patch)' = CandidatesOf(v.patch) \cup {v}
         /\ Numbers(v.patch)' = Numbers(v.patch) \cup {v.rc}
         /\ v.rc \notin Numbers(v.patch)
         /\ \A p : p # v.patch =>
              CandidatesOf(p)' = CandidatesOf(p) /\ Numbers(p)' = Numbers(p)
<1>1. Released' = Released
  BY PushAddsOne DEF Released, Candidates, StableVersions
<1>2. CandidatesOf(v.patch)' = CandidatesOf(v.patch) \cup {v}
  BY PushAddsOne DEF CandidatesOf, Candidates
<1>3. \A p : p # v.patch => CandidatesOf(p)' = CandidatesOf(p)
  BY PushAddsOne DEF CandidatesOf, Candidates
<1>4. v.rc \notin Numbers(v.patch)
  BY NumberedBy DEF Pushed
<1>5. Numbers(v.patch)' = Numbers(v.patch) \cup {v.rc}
  BY <1>2 DEF Numbers
<1> QED
  BY <1>1, <1>2, <1>3, <1>4, <1>5 DEF Numbers, Shipped

\* A number that was given out in turn stays in turn: what is pushed before it is its
\* own, for anything lower was taken already.
LEMMA InTurnStays ==
  ASSUME TypeOK, NEW v, NEW c, NEW m, Pushed(v, c, m),
         NEW b \in Branches, InTurn(b, v, c),
         NEW w \in Versions, NEW d \in Commits, InTurn(b, w, d)
  PROVE  InTurn(b, w, d)'
<1>1. /\ v \in Versions
      /\ v.patch \in Nat /\ v.rc \in Nat /\ w.patch \in Nat /\ w.rc \in Nat
      /\ FirstPatch[b] \in Nat
  BY ReleaseAssumption DEF Pushed
<1>2. CASE v \in StableVersions
  <2>1. FirstPatch[b]..(w.patch - 1) \subseteq Shipped'
    BY <1>2, StablePushed DEF InTurn
  <2>2. ASSUME NEW u \in ReleasedAt(d)' PROVE w.patch <= u.patch
    <3>1. CASE u = v
      <4>1. v.patch \notin FirstPatch[b]..(w.patch - 1)
        BY <1>2, StablePushed DEF InTurn
      <4>2. FirstPatch[b] <= v.patch
        BY DEF InTurn
      <4> QED
        BY <1>1, <3>1, <4>1, <4>2
    <3>2. CASE u # v
      <4>1. u \in ReleasedAt(d)
        BY <2>2, <3>2, PushAddsOne DEF ReleasedAt, Released, StableVersions
      <4> QED
        BY <4>1 DEF InTurn
    <3> QED
      BY <3>1, <3>2
  <2>3. ASSUME w \in Candidates
        PROVE  /\ 1..(w.rc - 1) \subseteq Numbers(w.patch)'
               /\ \A u \in CandidatesOf(w.patch)' : tags'[u].commit = d => w.rc <= u.rc
    <3>1. /\ Numbers(w.patch)' = Numbers(w.patch)
          /\ CandidatesOf(w.patch)' = CandidatesOf(w.patch)
      BY <1>2, StablePushed
    <3>2. \A u \in CandidatesOf(w.patch) : u \in Versions /\ u # v
      BY <1>2 DEF CandidatesOf, Candidates
    <3> QED
      BY <2>3, <3>1, <3>2, PushAddsOne DEF InTurn
  <2> QED
    BY <2>1, <2>2, <2>3 DEF InTurn
<1>3. CASE v \in Candidates
  <2>1. Shipped' = Shipped /\ ReleasedAt(d)' = ReleasedAt(d)
    <3>1. \A u \in Released : u \in Versions /\ u # v
      BY <1>3 DEF Released, StableVersions, Candidates
    <3>2. Released' = Released /\ Shipped' = Shipped
      BY <1>3, CandidatePushed
    <3> QED
      BY <3>1, <3>2, PushAddsOne DEF ReleasedAt
  <2>2. ASSUME w \in Candidates
        PROVE  1..(w.rc - 1) \subseteq Numbers(w.patch)'
    BY <1>3, <2>2, CandidatePushed DEF InTurn
  <2>3. ASSUME w \in Candidates, NEW u \in CandidatesOf(w.patch)', tags'[u].commit = d
        PROVE  w.rc <= u.rc
    <3>1. CASE u = v
      <4>1. u.patch = w.patch
        BY <2>3 DEF CandidatesOf
      <4>2. v.rc \notin 1..(w.rc - 1)
        BY <1>3, <2>3, <3>1, <4>1, CandidatePushed DEF InTurn
      <4>3. v.rc # 0
        BY <1>3 DEF Candidates, StableVersions
      <4> QED
        BY <1>1, <3>1, <4>2, <4>3
    <3>2. CASE u # v
      <4>1. u \in CandidatesOf(w.patch) /\ tags'[u] = tags[u]
        BY <2>3, <3>2, PushAddsOne DEF CandidatesOf, Candidates
      <4> QED
        BY <2>3, <4>1 DEF InTurn
    <3> QED
      BY <3>1, <3>2
  <2> QED
    BY <2>1, <2>2, <2>3 DEF InTurn
<1> QED
  BY <1>1, <1>2, <1>3 DEF Candidates

-----------------------------------------------------------------------------
(* What a run resolves is in turn                                          *)

\* The version a run may push is a number of its commit's, given out in turn.
Entitled(b, q) == job[q].known \/ InTurn(b, job[q].version, job[q].commit)

\* What the resolver of release branches answers is tagged already or in turn.
LEMMA AnswersInTurn ==
  ASSUME NumbersInv, NEW a \in LineAsks, NEW x \in LineAnswers(a)
  PROVE  Tagged(x.version) \/ InTurn(a.branch, x.version, a.commit)
<1> DEFINE first == FirstPatch[a.branch]
           p == NextPatch(first)
           n == Max(Numbers(p) \cup {0}) + 1
<1>1. a.branch \in Branches /\ first \in Nat
  BY ReleaseAssumption DEF LineAsks
<1>2. Contiguous(first, Shipped)
  BY <1>1 DEF NumbersInv
<1>3. p \in Nat /\ first <= p /\ first..(p - 1) \subseteq Shipped
  BY <1>1, <1>2, NextPatchFacts
<1>4. CASE ReleasedAt(a.commit) # {}
  BY <1>4 DEF LineAnswers, ReleasedAt, Released
<1>5. CASE ReleasedAt(a.commit) = {} /\ a.stable
  <2>1. PICK v \in StableVersions : v.patch = p /\ x = [version |-> v, resume |-> TRUE]
    BY <1>5 DEF LineAnswers
  <2>2. x.version = v /\ v \notin Candidates
    BY <2>1 DEF Candidates
  <2> QED
    BY <1>3, <1>5, <2>1, <2>2 DEF InTurn
<1>6. CASE ReleasedAt(a.commit) = {} /\ ~a.stable
  <2>1. PICK v \in NextCandidate(p, a.commit) : x = [version |-> v, resume |-> TRUE]
    BY <1>6 DEF LineAnswers
  <2>2. CASE v \in CandidatesOf(p)
    BY <2>1, <2>2 DEF CandidatesOf
  <2>3. CASE v \notin CandidatesOf(p)
    <3>1. /\ v \in Candidates /\ v.patch = p /\ v.rc = n
          /\ \A w \in CandidatesOf(p) : tags[w].commit # a.commit
      BY <2>1, <2>3 DEF NextCandidate
    <3>2. Contiguous(1, Numbers(p))
      BY <1>1, <3>1 DEF NumbersInv
    <3>3. PICK k \in Nat : k = n /\ Numbers(p) = 1..(k - 1)
      BY <3>2, NextNumberFacts
    <3>4. 1..(v.rc - 1) \subseteq Numbers(v.patch)
      BY <3>1, <3>3
    <3>5. InTurn(a.branch, v, a.commit)
      <4> HIDE DEF p, n
      <4> QED
        BY <1>3, <1>6, <3>1, <3>4 DEF InTurn
    <3> QED
      BY <2>1, <3>5
  <2> QED
    BY <2>2, <2>3
<1> QED
  BY <1>4, <1>5, <1>6

\* A run of a release branch is entitled to what the resolver gave it.
LEMMA StartLineEntitled ==
  ASSUME OneNumbering, TypeOK, NumbersInv, NEW q \in Runs, StartLine(q),
         NEW b \in Branches
  PROVE  Entitled(b, q)' /\ pc'[q] # "push"
<1>1. ask[q] \in LineAsks
  BY DEF TypeOK, StartLine, Asks, OverrideAsks, PromoteAsks, NoAsk
<1>2. PICK x \in LineAnswers(ask[q]) :
        /\ job' = [job EXCEPT ![q] =
                     [version |-> x.version, commit |-> ask[q].commit,
                      marker |-> None, resume |-> x.resume,
                      known |-> Tagged(x.version), latest |-> ask[q].stable,
                      saw |-> Released]]
        /\ Goto(q, IF x.resume THEN "resume-check" ELSE "pre-check")
  BY DEF StartLine
<1>3. /\ job'[q].version = x.version /\ job'[q].commit = ask[q].commit
      /\ job'[q].known = Tagged(x.version) /\ pc'[q] # "push" /\ tags' = tags
  BY <1>2 DEF TypeOK, Goto, StartLine
<1>4. Tagged(x.version) \/ InTurn(ask[q].branch, x.version, ask[q].commit)
  BY <1>1, AnswersInTurn
<1>5. ask[q].branch \in Branches /\ FirstPatch[ask[q].branch] = FirstPatch[b]
  BY <1>1 DEF LineAsks, OneNumbering
<1>6. Tagged(x.version) \/ InTurn(b, x.version, ask[q].commit)
  BY <1>4, <1>5 DEF InTurn
<1>7. InTurn(b, x.version, ask[q].commit) => InTurn(b, job[q].version, job[q].commit)'
  BY <1>3 DEF InTurn, Shipped, ReleasedAt, Released, Numbers, CandidatesOf, Tagged
<1> QED
  BY <1>3, <1>6, <1>7 DEF Entitled

\* A promotion is entitled to the stable version, because its candidate was in turn.
LEMMA StartPromoteEntitled ==
  ASSUME TypeOK, NumbersInv, NEW q \in Runs, StartPromote(q), pc'[q] \in Working,
         NEW b \in Branches
  PROVE  Entitled(b, q)' /\ pc'[q] # "push"
<1> DEFINE from == ask[q].version
           c == tags[from].commit
<1>1. from \in Candidates /\ from \in Versions
  BY AskKinds DEF TypeOK, StartPromote, Candidates
<1>2. ~End(q, "failed")
  BY DEF TypeOK, End, Goto, Working, Tagging, Publishing
<1>3. /\ Tagged(from) /\ tags' = tags
      /\ job'[q].version = StableOf(from) /\ job'[q].commit = c
      /\ pc'[q] = "probe"
  BY <1>2 DEF TypeOK, StartPromote, MayPromote, Goto
<1>4. InTurn(b, from, c)
  BY <1>1, <1>3 DEF NumbersInv
<1>5. StableOf(from).patch = from.patch /\ StableOf(from) \notin Candidates
  BY <1>1, StableOfVersion DEF StableOf, Candidates
<1>6. InTurn(b, StableOf(from), c)
  BY <1>4, <1>5 DEF InTurn
<1>7. InTurn(b, StableOf(from), c) => InTurn(b, job[q].version, job[q].commit)'
  BY <1>3 DEF InTurn, Shipped, ReleasedAt, Released, Numbers, CandidatesOf, Tagged
<1> QED
  BY <1>3, <1>6, <1>7 DEF Entitled

\* Nobody types a version.
LEMMA NoOverride ==
  ASSUME OneNumbering, TypeOK, NEW q \in Runs
  PROVE  ~StartOverride(q)
  BY DEF OneNumbering, TypeOK, StartOverride, Asks, LineAsks, PromoteAsks, OverrideAsks,
         NoAsk

-----------------------------------------------------------------------------
(* Every step keeps the numbers in turn                                    *)

\* A tag that changes is pushed, by a run at that step.
LEMMA PushTagPushes ==
  ASSUME RunsInv, NEW r \in Runs, PushTag(r), tags' # tags
  PROVE  Pushed(job[r].version, job[r].commit, job[r].marker) /\ pc[r] = "push"
<1>1. /\ job[r].version \in Versions /\ job[r].commit \in Commits
      /\ job[r].marker \in Candidates \cup {None}
  BY DEF RunsInv, TypeOK, Jobs, JobsOK, PushTag, Working, Tagging
<1>2. [commit |-> job[r].commit, marker |-> job[r].marker] # None
  BY <1>1, ReleaseAssumption DEF Tags
<1> QED
  BY <1>1, <1>2 DEF PushTag, Pushed

\* And it is entitled to it.
LEMMA TagsPushed ==
  ASSUME RunsInv, NumbersInv, [Next]_vars
  PROVE  \/ tags' = tags
         \/ \E r \in Runs :
              /\ Pushed(job[r].version, job[r].commit, job[r].marker)
              /\ \A b \in Branches : InTurn(b, job[r].version, job[r].commit)
<1>1. ASSUME NEW r \in Runs, PushTag(r), tags' # tags
      PROVE  /\ Pushed(job[r].version, job[r].commit, job[r].marker)
             /\ \A b \in Branches : InTurn(b, job[r].version, job[r].commit)
  <2>1. Pushed(job[r].version, job[r].commit, job[r].marker) /\ pc[r] = "push"
    BY <1>1, PushTagPushes
  <2> QED
    BY <2>1 DEF NumbersInv, Tagging
<1> QED
  BY <1>1, Writers DEF PublishImage, RebuildAfterRetag, PublishRelease

\* What was in turn stays in turn, whatever the step.
LEMMA InTurnStep ==
  ASSUME RunsInv, NumbersInv, [Next]_vars, NEW b \in Branches,
         NEW w \in Versions, NEW d \in Commits, InTurn(b, w, d)
  PROVE  InTurn(b, w, d)'
<1>1. CASE tags' = tags
  BY <1>1 DEF InTurn, Shipped, ReleasedAt, Released, Numbers, CandidatesOf, Tagged
<1> QED
  BY <1>1, TagsPushed, InTurnStays DEF RunsInv

\* The line stays unbroken.
LEMMA ContiguousStep ==
  ASSUME RunsInv, NumbersInv, [Next]_vars, NEW b \in Branches
  PROVE  /\ Contiguous(FirstPatch[b], Shipped)'
         /\ \A v \in Candidates : Contiguous(1, Numbers(v.patch))'
<1>1. CASE tags' = tags
  BY <1>1 DEF NumbersInv, Contiguous, Shipped, Released, Numbers, CandidatesOf, Tagged
<1>2. ASSUME NEW v, NEW c, NEW m, Pushed(v, c, m), InTurn(b, v, c)
      PROVE  /\ Contiguous(FirstPatch[b], Shipped)'
             /\ \A w \in Candidates : Contiguous(1, Numbers(w.patch))'
  <2>1. /\ v \in Versions /\ v.patch \in Nat /\ v.rc \in Nat
        /\ FirstPatch[b] \in Nat /\ TypeOK
    BY <1>2, ReleaseAssumption DEF Pushed, RunsInv
  <2>2. CASE v \in StableVersions
    <3>1. Contiguous(FirstPatch[b], Shipped \cup {v.patch})
      BY <1>2, <2>1, <2>2, StablePushed, ContiguousGrows DEF InTurn, NumbersInv
    <3>2. Shipped' = Shipped \cup {v.patch} /\ \A p : Numbers(p)' = Numbers(p)
      BY <1>2, <2>1, <2>2, StablePushed
    <3>3. Contiguous(FirstPatch[b], Shipped)'
      BY <3>1, <3>2 DEF Contiguous
    <3>4. ASSUME NEW w \in Candidates PROVE Contiguous(1, Numbers(w.patch))'
      <4>1. Contiguous(1, Numbers(w.patch)) /\ Numbers(w.patch)' = Numbers(w.patch)
        BY <3>2 DEF NumbersInv
      <4> QED
        BY <4>1 DEF Contiguous
    <3> QED
      BY <3>3, <3>4
  <2>3. CASE v \in Candidates
    <3>1. v.rc # 0
      BY <2>3 DEF Candidates, StableVersions
    <3>2. Contiguous(1, Numbers(v.patch) \cup {v.rc})
      BY <1>2, <2>1, <2>3, <3>1, CandidatePushed, ContiguousGrows DEF InTurn, NumbersInv
    <3>3. /\ Shipped' = Shipped
          /\ Numbers(v.patch)' = Numbers(v.patch) \cup {v.rc}
          /\ \A p : p # v.patch => Numbers(p)' = Numbers(p)
      BY <1>2, <2>1, <2>3, CandidatePushed
    <3>4. Contiguous(FirstPatch[b], Shipped)'
      BY <3>3 DEF Contiguous, NumbersInv
    <3>5. ASSUME NEW w \in Candidates PROVE Contiguous(1, Numbers(w.patch))'
      <4>1. CASE w.patch = v.patch
        BY <3>2, <3>3, <4>1 DEF Contiguous
      <4>2. CASE w.patch # v.patch
        <5>1. Contiguous(1, Numbers(w.patch)) /\ Numbers(w.patch)' = Numbers(w.patch)
          BY <3>3, <4>2 DEF NumbersInv
        <5> QED
          BY <5>1 DEF Contiguous
      <4> QED
        BY <4>1, <4>2
    <3> QED
      BY <3>4, <3>5
  <2> QED
    BY <2>1, <2>2, <2>3 DEF Candidates
<1> QED
  BY <1>1, <1>2, TagsPushed

\* Every tag is in turn, the one just pushed included.
LEMMA TagsInTurnStep ==
  ASSUME RunsInv, NumbersInv, [Next]_vars, NEW b \in Branches,
         NEW v \in Versions, Tagged(v)'
  PROVE  InTurn(b, v, tags[v].commit)'
<1>1. CASE Tagged(v)
  <2>1. tags'[v] = tags[v]
    BY <1>1, TagsStay DEF RunsInv
  <2>2. tags[v].commit \in Commits /\ InTurn(b, v, tags[v].commit)
    BY <1>1 DEF RunsInv, TypeOK, Tags, Tagged, NumbersInv
  <2>3. InTurn(b, v, tags[v].commit) => \A c : c = tags[v].commit => InTurn(b, v, c)
    OBVIOUS
  <2> DEFINE c == tags[v].commit
  <2>4. \A d \in Commits : InTurn(b, v, d) => InTurn(b, v, d)'
    BY InTurnStep
  <2> QED
    BY <2>1, <2>2, <2>4 DEF InTurn
<1>2. CASE ~Tagged(v)
  <2>1. PICK r \in Runs :
          /\ Pushed(job[r].version, job[r].commit, job[r].marker)
          /\ InTurn(b, job[r].version, job[r].commit)
    BY <1>2, TagsPushed DEF Tagged
  <2>2. v = job[r].version /\ tags'[v].commit = job[r].commit
    BY <1>2, <2>1, PushAddsOne DEF RunsInv
  <2>3. \A d \in Commits : InTurn(b, v, d) => InTurn(b, v, d)'
    BY InTurnStep
  <2> QED
    BY <2>1, <2>2, <2>3 DEF Pushed, InTurn
<1> QED
  BY <1>1, <1>2

\* Every run on its way to a tag stays entitled to it.
LEMMA EntitledStep ==
  ASSUME OneNumbering, RunsInv, NumbersInv, [Next]_vars, NEW b \in Branches,
         NEW q \in Runs, pc'[q] \in {"probe"} \cup Tagging
  PROVE  Entitled(b, q)' /\ (pc'[q] = "push" => ~job'[q].known)
<1>1. pc'[q] \in Working
  BY DEF Working
<1>2. CASE StartLine(q) \/ StartOverride(q) \/ StartPromote(q)
  BY <1>1, <1>2, StartLineEntitled, StartPromoteEntitled, NoOverride DEF RunsInv
<1>3. CASE pc[q] \in {"probe"} \cup Tagging /\ job'[q] = job[q]
  <2>1. Entitled(b, q)
    BY <1>3 DEF NumbersInv, Entitled
  <2>2. job[q].version \in Versions /\ job[q].commit \in Commits
    BY <1>3 DEF RunsInv, JobsOK, Working
  <2>3. \A v \in Versions, d \in Commits : InTurn(b, v, d) => InTurn(b, v, d)'
    BY InTurnStep
  <2>4. Entitled(b, q)'
    BY <1>3, <2>1, <2>2, <2>3 DEF Entitled, InTurn
  <2>5. CASE pc'[q] = pc[q]
    BY <1>3, <2>4, <2>5 DEF NumbersInv
  <2>6. CASE GoesOn(q)
    BY <1>3, <2>4, <2>6 DEF GoesOn
  <2> QED
    BY <1>1, <1>2, <2>5, <2>6, RunMoves DEF RunsInv
<1> QED
  BY <1>1, <1>2, <1>3, RunMoves DEF GoesOn, RunsInv, Tagging

\* So the invariant is inductive.
LEMMA NumbersInvStep ==
  ASSUME OneNumbering, RunsInv, NumbersInv, [Next]_vars
  PROVE  NumbersInv'
<1> SUFFICES ASSUME NEW b \in Branches
             PROVE  /\ Contiguous(FirstPatch[b], Shipped)'
                    /\ \A v \in Candidates : Contiguous(1, Numbers(v.patch))'
                    /\ \A v \in Versions :
                         Tagged(v)' => InTurn(b, v, tags[v].commit)'
                    /\ \A q \in Runs : pc'[q] \in {"probe"} \cup Tagging =>
                         Entitled(b, q)' /\ (pc'[q] = "push" => ~job'[q].known)
  BY DEF NumbersInv, Entitled
<1> QED
  BY ContiguousStep, TagsInTurnStep, EntitledStep

\* Nothing is tagged at first.
LEMMA NumbersInvInit == Init => NumbersInv
<1> SUFFICES ASSUME Init PROVE NumbersInv
  OBVIOUS
<1>1. \A v \in Versions : ~Tagged(v)
  BY DEF Init, Tagged
<1>2. Shipped = {} /\ \A p : Numbers(p) = {}
  BY <1>1 DEF Shipped, Released, StableVersions, Numbers, CandidatesOf, Candidates
<1>3. \A r \in Runs : pc[r] = "idle"
  BY DEF Init
<1> QED
  BY <1>1, <1>2, <1>3 DEF NumbersInv, Contiguous, Tagging

-----------------------------------------------------------------------------
(* The theorems                                                            *)

\* The numbers of a line are given out in turn: no gap, and nothing that a run may still
\* push is out of turn, however long ago the run read the tags.
THEOREM NumbersInvariant ==
  ASSUME OneNumbering
  PROVE  Spec => []NumbersInv
<1>1. Init => NumbersInv
  BY NumbersInvInit
<1>2. RunsInv /\ NumbersInv /\ [Next]_vars => NumbersInv'
  BY NumbersInvStep
<1> QED
  BY <1>1, <1>2, RunsInvariant, PTL DEF Spec

\* Two tags of one commit and one kind are each in turn before the other, so they are one.
LEMMA InTurnOnce == RunsInv /\ NumbersInv => NothingCutTwice
<1> SUFFICES ASSUME RunsInv, NumbersInv, NEW v \in Versions, NEW w \in Versions,
                    Tagged(v), Tagged(w), tags[v].commit = tags[w].commit,
                    v.rc = 0 <=> w.rc = 0, v.rc # 0 => v.patch = w.patch
             PROVE  v = w
  BY DEF NothingCutTwice
<1>1. PICK b \in Branches : TRUE
  BY ReleaseAssumption
<1> DEFINE c == tags[v].commit
<1>2. InTurn(b, v, c) /\ InTurn(b, w, c)
  BY <1>1 DEF NumbersInv
<1>3. v.patch \in Nat /\ v.rc \in Nat /\ w.patch \in Nat /\ w.rc \in Nat
  BY ReleaseAssumption
<1>4. CASE v.rc = 0
  <2>1. v \in ReleasedAt(c) /\ w \in ReleasedAt(c)
    BY <1>4 DEF ReleasedAt, Released, StableVersions
  <2> QED
    BY <1>2, <1>3, <1>4, <2>1, SameVersion DEF InTurn
<1>5. CASE v.rc # 0
  <2>1. v \in CandidatesOf(v.patch) /\ w \in CandidatesOf(v.patch)
    BY <1>5 DEF CandidatesOf, Candidates, StableVersions
  <2> QED
    BY <1>2, <1>3, <1>5, <2>1, SameVersion DEF InTurn, CandidatesOf
<1> QED
  BY <1>4, <1>5

\* No commit is cut twice: not as two stable versions of its line, and not as two
\* candidates of one version, for any number of racing and repeated runs.
THEOREM NothingIsCutTwice ==
  ASSUME OneNumbering
  PROVE  Spec => []NothingCutTwice
<1>1. Spec => []NumbersInv
  BY NumbersInvariant
<1> QED
  BY <1>1, InTurnOnce, RunsInvariant, PTL

\* While a candidate is not released, its patch number is the next of the line, and its
\* commit holds nothing else of it.
LEMMA RerunAnswer ==
  ASSUME RunsInv, NumbersInv, NEW v \in Candidates, NEW b \in Branches,
         Tagged(v), ~Tagged(StableOf(v))
  PROVE  LineAnswers([kind |-> "line", branch |-> b, commit |-> tags[v].commit,
                      stable |-> FALSE]) = {[version |-> v, resume |-> TRUE]}
<1> DEFINE c == tags[v].commit
           first == FirstPatch[b]
           p == NextPatch(first)
           a == [kind |-> "line", branch |-> b, commit |-> c, stable |-> FALSE]
<1>1. /\ v \in Versions /\ v.patch \in Nat /\ v.rc \in Nat /\ first \in Nat
  BY ReleaseAssumption DEF Candidates
<1>2. InTurn(b, v, c)
  BY <1>1 DEF NumbersInv
<1>3. p \in Nat /\ first <= p /\ Shipped = first..(p - 1)
  BY <1>1, NextPatchFacts DEF NumbersInv
<1>4. v.patch \notin Shipped
  BY <1>1, StableOfVersion, ShippedBy DEF StableOf
<1>5. p = v.patch
  <2>1. first <= v.patch /\ first..(v.patch - 1) \subseteq first..(p - 1)
    BY <1>2, <1>3 DEF InTurn
  <2>2. v.patch \notin first..(p - 1)
    BY <1>3, <1>4
  <2>3. ~(v.patch < p)
    BY <1>1, <1>3, <2>1, <2>2
  <2>4. ~(p < v.patch)
    <3>1. p < v.patch => p \in first..(v.patch - 1)
      BY <1>1, <1>3
    <3> QED
      BY <1>3, <2>1, <3>1
  <2> QED
    BY <1>1, <1>3, <2>3, <2>4
<1>6. ReleasedAt(c) = {}
  <2>1. SUFFICES ASSUME NEW w \in ReleasedAt(c) PROVE FALSE
    OBVIOUS
  <2>2. v.patch <= w.patch /\ w.patch \in Shipped
    BY <1>2 DEF InTurn, ReleasedAt, Shipped
  <2> QED
    BY <1>1, <1>3, <1>5, <2>2
<1>7. {w \in CandidatesOf(p) : tags[w].commit = c} = {v}
  <2>1. v \in CandidatesOf(p)
    BY <1>5 DEF CandidatesOf
  <2>2. ASSUME NEW w \in CandidatesOf(p), tags[w].commit = c PROVE w = v
    <3>1. /\ w \in Candidates /\ w \in Versions /\ w.patch = v.patch /\ Tagged(w)
          /\ w.rc \in Nat
      BY <1>5, ReleaseAssumption DEF CandidatesOf, Candidates
    <3>2. InTurn(b, w, c)
      BY <2>2, <3>1 DEF NumbersInv
    <3>3. v.rc <= w.rc /\ w.rc <= v.rc
      BY <1>2, <1>5, <2>1, <2>2, <3>1, <3>2 DEF InTurn
    <3> QED
      BY <1>1, <3>1, <3>3, SameVersion
  <2> QED
    BY <2>1, <2>2
<1>8. NextCandidate(p, c) = {v}
  BY <1>7 DEF NextCandidate
<1>9. a.branch = b /\ a.commit = c /\ a.stable = FALSE
  OBVIOUS
<1> HIDE DEF a
<1>10. LineAnswers(a) = {[version |-> w, resume |-> TRUE] : w \in NextCandidate(p, c)}
  BY <1>6, <1>9 DEF LineAnswers
<1> QED
  BY <1>8, <1>10 DEF a

\* A run of a commit whose candidate is tagged and not promoted resolves to that candidate
\* and is to resume it, whatever has been tagged since: what CandidateAnnounced rests on.
THEOREM RerunsAreFound ==
  ASSUME OneNumbering
  PROVE  Spec => []RerunsFindTheirRelease
<1>1. Spec => []NumbersInv
  BY NumbersInvariant
<1>2. RunsInv /\ NumbersInv => RerunsFindTheirRelease
  BY RerunAnswer DEF RerunsFindTheirRelease
<1> QED
  BY <1>1, <1>2, RunsInvariant, PTL

-----------------------------------------------------------------------------
(* The newest version and `:latest`, with any branches and typed versions  *)

\* The next patch number comes after all that are shipped.
LEMMA NextIsNewest ==
  ASSUME HasNewest, NEW first \in Nat, NEW p \in Shipped
  PROVE  p <= NextPatch(first)
<1>1. Shipped \subseteq Nat
  BY ReleaseAssumption DEF Shipped, Released, StableVersions
<1>2. Max(Shipped) \in Shipped /\ \A q \in Shipped : Max(Shipped) >= q
  BY <1>1 DEF HasNewest, Max
<1>3. Max(Shipped) \in Nat /\ p \in Nat /\ p <= Max(Shipped)
  BY <1>1, <1>2
<1>4. CASE Max(Shipped) < first
  <2>1. NextPatch(first) = first
    BY <1>4 DEF NextPatch
  <2> QED
    BY <1>3, <1>4, <2>1
<1>5. CASE ~(Max(Shipped) < first)
  <2>1. NextPatch(first) = Max(Shipped) + 1
    BY <1>5 DEF NextPatch
  <2> QED
    BY <1>3, <2>1
<1> QED
  BY <1>4, <1>5

\* There is a newest version after each step, because a step tags one at most.
LEMMA NewestStep ==
  ASSUME RunsInv, HasNewest, [Next]_vars
  PROVE  HasNewest'
<1>1. Shipped \subseteq Nat
  BY ReleaseAssumption DEF Shipped, Released, StableVersions
<1>2. CASE Shipped' = Shipped
  BY <1>2 DEF HasNewest
<1>3. ASSUME NEW p \in Nat, Shipped' = Shipped \cup {p} PROVE HasNewest'
  <2>1. CASE Shipped = {}
    BY <1>3, <2>1 DEF HasNewest
  <2>2. ASSUME NEW n \in Shipped, \A m \in Shipped : m <= n PROVE HasNewest'
    <3>1. CASE p <= n
      BY <1>1, <1>3, <2>2, <3>1 DEF HasNewest
    <3>2. CASE n <= p
      BY <1>1, <1>3, <2>2, <3>2 DEF HasNewest
    <3> QED
      BY <1>1, <3>1, <3>2
  <2> QED
    BY <2>1, <2>2 DEF HasNewest
<1>4. ASSUME NEW r \in Runs, PushTag(r), tags' # tags PROVE HasNewest'
  <2> DEFINE v == job[r].version
  <2>1. /\ v \in Versions /\ v.patch \in Nat
        /\ Pushed(v, job[r].commit, job[r].marker)
    BY <1>4, PushTagPushes, ReleaseAssumption DEF Pushed
  <2>2. CASE v \in StableVersions
    BY <1>3, <2>1, <2>2, StablePushed DEF RunsInv
  <2>3. CASE v \in Candidates
    BY <1>2, <2>1, <2>3, CandidatePushed DEF RunsInv
  <2> QED
    BY <2>1, <2>2, <2>3 DEF Candidates
<1>5. CASE tags' = tags
  BY <1>2, <1>5 DEF Shipped, Released, Tagged
<1> QED
  BY <1>4, <1>5, Writers DEF PublishImage, RebuildAfterRetag, PublishRelease

\* What LatestInv says of one run.
Fresh(q) ==
  \/ pc[q] = "pre-check" /\ job[q].known
  \/ job[q].latest => \A v \in job[q].saw : v.patch <= job[q].version.patch

\* A run of a release branch takes a number no older than any it has seen, or its version
\* is tagged and it stops at the first look.
LEMMA StartLineFresh ==
  ASSUME TypeOK, HasNewest, NEW q \in Runs, StartLine(q)
  PROVE  Fresh(q)' /\ pc'[q] # "latest"
<1>1. ask[q] \in LineAsks
  BY DEF TypeOK, StartLine, Asks, OverrideAsks, PromoteAsks, NoAsk
<1> DEFINE first == FirstPatch[ask[q].branch]
           p == NextPatch(first)
<1>2. first \in Nat
  BY <1>1, ReleaseAssumption DEF LineAsks
<1>3. PICK x \in LineAnswers(ask[q]) :
        /\ job' = [job EXCEPT ![q] =
                     [version |-> x.version, commit |-> ask[q].commit,
                      marker |-> None, resume |-> x.resume,
                      known |-> Tagged(x.version), latest |-> ask[q].stable,
                      saw |-> Released]]
        /\ Goto(q, IF x.resume THEN "resume-check" ELSE "pre-check")
  BY DEF StartLine
<1>4. /\ job'[q].version = x.version /\ job'[q].latest = ask[q].stable
      /\ job'[q].known = Tagged(x.version) /\ job'[q].saw = Released
      /\ pc'[q] = IF x.resume THEN "resume-check" ELSE "pre-check"
  BY <1>3 DEF TypeOK, Goto
<1>5. CASE ReleasedAt(ask[q].commit) # {}
  <2>1. x.resume = FALSE /\ Tagged(x.version)
    BY <1>5 DEF LineAnswers, ReleasedAt, Released
  <2> QED
    BY <1>4, <2>1 DEF Fresh
<1>6. CASE ReleasedAt(ask[q].commit) = {} /\ ask[q].stable
  <2>1. x.version.patch = p
    BY <1>6 DEF LineAnswers
  <2>2. \A v \in Released : v.patch <= p
    BY <1>2, NextIsNewest DEF Shipped
  <2> QED
    BY <1>4, <2>1, <2>2 DEF Fresh
<1>7. CASE ~ask[q].stable
  BY <1>4, <1>7 DEF Fresh
<1> QED
  BY <1>5, <1>6, <1>7

\* A promotion moves `:latest` only for a version no older than any it has seen.
LEMMA StartPromoteFresh ==
  ASSUME TypeOK, NEW q \in Runs, StartPromote(q), pc'[q] \in Working
  PROVE  Fresh(q)' /\ pc'[q] # "latest"
<1>1. ~End(q, "failed")
  BY DEF TypeOK, End, Goto, Working, Tagging, Publishing
<1>2. /\ job'[q].version = StableOf(ask[q].version)
      /\ job'[q].latest = IsNewest(StableOf(ask[q].version))
      /\ job'[q].saw = Released /\ pc'[q] = "probe"
  BY <1>1 DEF TypeOK, StartPromote, Goto
<1> QED
  BY <1>2 DEF Fresh, IsNewest

\* Every step keeps LatestInv.
LEMMA LatestInvStep ==
  ASSUME RunsInv, LatestInv, [Next]_vars
  PROVE  LatestInv'
<1>1. HasNewest'
  BY NewestStep DEF LatestInv
<1>2. ASSUME NEW q \in Runs, pc'[q] \in Working, ask'[q].kind # "override"
      PROVE  Fresh(q)'
  <2>1. CASE StartLine(q)
    BY <2>1, StartLineFresh DEF RunsInv, LatestInv
  <2>2. CASE StartPromote(q)
    BY <1>2, <2>2, StartPromoteFresh DEF RunsInv
  <2>3. ~StartOverride(q)
    BY <1>2 DEF StartOverride
  <2>4. CASE pc'[q] = pc[q] /\ job'[q] = job[q] /\ ask'[q] = ask[q]
    BY <1>2, <2>4 DEF LatestInv, Fresh
  <2>5. CASE GoesOn(q)
    BY <1>2, <2>5 DEF LatestInv, Fresh, GoesOn
  <2> QED
    BY <1>2, <2>1, <2>2, <2>3, <2>4, <2>5, RunMoves DEF RunsInv
<1>3. ASSUME NEW q \in Runs, pc'[q] = "latest" PROVE job'[q].latest
  <2>1. pc'[q] \in Working
    BY <1>3 DEF Working, Publishing
  <2>2. ~StartLine(q) /\ ~StartPromote(q) /\ ~StartOverride(q)
    BY <1>3, <2>1, StartLineFresh, StartPromoteFresh
       DEF RunsInv, LatestInv, TypeOK, StartOverride, Goto
  <2>3. CASE pc'[q] = pc[q] /\ job'[q] = job[q]
    BY <1>3, <2>3 DEF LatestInv
  <2>4. CASE GoesOn(q)
    BY <1>3, <2>4 DEF GoesOn
  <2> QED
    BY <2>1, <2>2, <2>3, <2>4, RunMoves DEF RunsInv
<1> QED
  BY <1>1, <1>2, <1>3 DEF LatestInv, Fresh

\* No version is tagged and no run works at first.
LEMMA LatestInvInit == Init => LatestInv
<1> SUFFICES ASSUME Init PROVE LatestInv
  OBVIOUS
<1>1. Shipped = {}
  BY DEF Init, Shipped, Released, StableVersions, Tagged
<1>2. \A r \in Runs : pc[r] = "idle"
  BY DEF Init
<1> QED
  BY <1>1, <1>2 DEF LatestInv, HasNewest, Working, Tagging, Publishing

\* A run that gets as far as moving `:latest` has a version no older than any it has seen.
THEOREM LatestInvariant == Spec => []LatestInv
<1>1. Init => LatestInv
  BY LatestInvInit
<1>2. RunsInv /\ LatestInv /\ [Next]_vars => LatestInv'
  BY LatestInvStep
<1> QED
  BY <1>1, <1>2, RunsInvariant, PTL DEF Spec

\* A step that moves `:latest` back moves it from a version the run has not seen.
LEMMA OvertakenStep ==
  ASSUME RunsInv, LatestInv, [Next]_vars, NEW r \in Runs,
         pc[r] = "latest", pc'[r] = "release", ask[r].kind # "override",
         latest # None, latest'.patch < latest.patch
  PROVE  latest \notin job[r].saw
<1>1. Acts(r)
  BY ActsAlone DEF RunsInv, Next, vars, Acts, Land
<1>2. latest' = job[r].version
  BY <1>1 DEF Acts, RunStep, RunsInv, TypeOK, PushRun, OverrideRun, PromoteRun, StartRun,
      Fail, StartLine, StartOverride, StartPromote, ProbeSource, ResumeCheck, PreCheck,
      PushTag, ReCheck, PublishImage, MoveLatest, RebuildAfterRetag, PublishRelease,
      End, Goto, Ended
<1>3. /\ job[r].version \in Versions /\ latest \in Versions
      /\ \A v \in job[r].saw : v.patch <= job[r].version.patch
  BY DEF RunsInv, TypeOK, JobsOK, LatestInv, Working, Publishing
<1>4. job[r].version.patch \in Nat /\ latest.patch \in Nat
  BY <1>3, ReleaseAssumption
<1> QED
  BY <1>2, <1>3, <1>4

\* `:latest` is never moved back behind a version the moving run had seen released, only
\* behind one tagged while the run was on its way: the race that is left.
THEOREM LatestIsOnlyOvertaken == Spec => LatestOnlyOvertaken
<1>1. RunsInv /\ LatestInv /\ [Next]_vars =>
        [\A r \in Runs :
           /\ pc[r] = "latest" /\ pc'[r] = "release" /\ ask[r].kind # "override"
           /\ latest # None /\ latest'.patch < latest.patch
           => latest \notin job[r].saw]_vars
  BY OvertakenStep
<1> QED
  BY <1>1, RunsInvariant, LatestInvariant, PTL DEF Spec, LatestOnlyOvertaken
=============================================================================
