-------------------------- MODULE ReleasesViewProofs --------------------------
(***************************************************************************)
(* Proofs about ReleasesView, for any installations, repositories and      *)
(* pollers, any caps that a page of GitHub's lists exceeds, and any TTL.   *)
(***************************************************************************)
EXTENDS ReleasesView, FiniteSetTheorems, TLAPS

Crawls == \A p \in Pollers : pc[p] # "idle" => CrawlInv(p)

Entries == \A v \in stored : StoredInv(v)

-----------------------------------------------------------------------------
(* What is used of sets, lists and releases                                *)

LEMMA Sets ==
  ASSUME TypeOK, NEW p \in Pollers
  PROVE  /\ IsFiniteSet(Listed(list[p])) /\ Cardinality(Listed(list[p])) \in Nat
         /\ IsFiniteSet(names[p]) /\ Cardinality(names[p]) \in Nat
         /\ IsFiniteSet(todo[p]) /\ Cardinality(todo[p]) \in Nat
         /\ IsFiniteSet(installed) /\ Cardinality(installed) \in Nat
<1>1. Listed(list[p]) \subseteq Repos /\ names[p] \subseteq Repos
      /\ todo[p] \subseteq Installations /\ installed \subseteq Installations
  BY DEF TypeOK, Listed
<1>2. IsFiniteSet(Repos) /\ IsFiniteSet(Installations)
  BY ViewAssumption
<1>3. /\ IsFiniteSet(Listed(list[p])) /\ IsFiniteSet(names[p])
      /\ IsFiniteSet(todo[p]) /\ IsFiniteSet(installed)
  BY <1>1, <1>2, FS_Subset
<1> QED
  BY <1>3, FS_CardinalityType

\* The release that a list has stays up to date as of when its crawl began.
LEMMA UpToDateStays ==
  ASSUME TypeOK, NEW r \in Repos, NEW n \in Nat, NEW t \in Nat, t <= now, UpToDate(r, n, t),
         UNCHANGED releases \/ \E s \in Repos : Publish(s)
  PROVE  UpToDate(r, n, t)'
<1>1. CASE UNCHANGED releases
  BY <1>1 DEF UpToDate
<1>2. ASSUME NEW s \in Repos, Publish(s) PROVE UpToDate(r, n, t)'
  <2>1. releases[r] \in Seq(Nat) /\ releases \in [Repos -> Seq(Nat)] /\ now \in Nat
    BY DEF TypeOK
  <2>2. releases'[r] = releases[r] \/ releases'[r] = Append(releases[r], now)
    BY <2>1, <1>2 DEF Publish
  <2>3. CASE releases'[r] = releases[r]
    BY <2>3 DEF UpToDate
  <2>4. CASE releases'[r] = Append(releases[r], now)
    <3>1. Len(releases'[r]) = Len(releases[r]) + 1 /\ Len(releases[r]) \in Nat
      BY <2>1, <2>4
    <3>2. CASE n < Len(releases[r])
      <4>1. releases'[r][n + 1] = releases[r][n + 1]
        BY <2>1, <2>4, <3>1, <3>2
      <4> QED
        BY <3>1, <3>2, <4>1 DEF UpToDate
    <3>3. CASE n = Len(releases[r])
      <4>1. releases'[r][n + 1] = now
        BY <2>1, <2>4, <3>1, <3>3
      <4> QED
        BY <3>1, <3>3, <4>1 DEF UpToDate
    <3> QED
      BY <3>1, <3>2, <3>3 DEF UpToDate
  <2> QED
    BY <2>2, <2>3, <2>4
<1> QED
  BY <1>1, <1>2

\* What a request has done is not touched by a step of another, nor by what GitHub and
\* the clock do.
LEMMA Elsewhere ==
  ASSUME TypeOK, NEW p \in Pollers, CrawlInv(p),
         pc'[p] = pc[p], began'[p] = began[p], todo'[p] = todo[p], names'[p] = names[p],
         list'[p] = list[p], cut'[p] = cut[p], calls'[p] = calls[p], visits'[p] = visits[p],
         marred'[p] = marred[p], stays'[p] \subseteq stays[p], stays'[p] \subseteq Available',
         now' \in Nat, now <= now', UNCHANGED releases \/ \E s \in Repos : Publish(s)
  PROVE  CrawlInv(p)'
<1>1. began[p] \in Nat /\ now \in Nat /\ list[p] \in [Repos -> Nat \cup {Unlisted}]
  BY DEF TypeOK
<1>2. Listed(list[p])' = Listed(list[p]) /\ Full(list[p])' = Full(list[p])
  BY DEF Listed, Full
<1>3. ASSUME NEW r \in Listed(list[p]), list[p][r] # 0 \/ (r \in stays[p] /\ ~marred[p])
      PROVE  UpToDate(r, list[p][r], began[p])'
  <2>1. r \in Repos /\ list[p][r] \in Nat
    BY <1>1 DEF Listed
  <2>2. UpToDate(r, list[p][r], began[p])
    BY <1>3 DEF CrawlInv
  <2>3. began[p] <= now
    BY DEF CrawlInv
  <2>4. \A n \in Nat, t \in Nat : t <= now /\ UpToDate(r, n, t) => UpToDate(r, n, t)'
    BY <2>1, UpToDateStays
  <2>5. UpToDate(r, list[p][r], began[p])' <=>
          /\ list[p][r] <= Len(releases'[r])
          /\ list[p][r] < Len(releases'[r]) => releases'[r][list[p][r] + 1] >= began[p]
    BY DEF UpToDate
  <2> QED
    BY <2>1, <2>2, <2>3, <2>4, <2>5, <1>1 DEF UpToDate
<1>4. began'[p] <= now'
  BY <1>1 DEF CrawlInv
<1> QED
  BY <1>2, <1>3, <1>4 DEF CrawlInv

-----------------------------------------------------------------------------
(* Types                                                                   *)

LEMMA Typed ==
  ASSUME TypeOK, Next
  PROVE  TypeOK'
<1> USE DEF TypeOK
<1>1. CASE Tick
  BY <1>1 DEF Tick, github, crawl
<1>2. ASSUME NEW r \in Repos, Publish(r) PROVE TypeOK'
  <2>1. Append(releases[r], now) \in Seq(Nat)
    OBVIOUS
  <2> QED
    BY <1>2, <2>1 DEF Publish, crawl
<1>3. CASE Change
  <2>1. stays' \in [Pollers -> SUBSET Repos]
    BY <1>3 DEF Change
  <2>2. installed' \subseteq Installations /\ there' \subseteq Repos
    BY <1>3 DEF Change
  <2>3. UNCHANGED <<now, releases, stored, pc, began, todo, names, list, cut, calls, visits, marred>>
        /\ events' = events + 1
    BY <1>3 DEF Change
  <2> QED
    BY <2>1, <2>2, <2>3
<1>4. ASSUME NEW p \in Pollers, Start(p) PROVE TypeOK'
  <2>1. /\ todo' \in [Pollers -> SUBSET Installations]
        /\ cut' \in [Pollers -> BOOLEAN]
    <3>1. PICK page \in SUBSET installed :
            /\ \E visited \in SUBSET page : todo' = [todo EXCEPT ![p] = visited]
            /\ cut' = [cut EXCEPT ![p] = OverCap(page)]
      BY <1>4 DEF Start
    <3>2. OverCap(page) \in BOOLEAN
      BY DEF OverCap
    <3>3. cut' \in [Pollers -> BOOLEAN]
      BY <3>1, <3>2, Zenon
    <3> QED
      BY <3>1, <3>3
  <2>2. list' \in [Pollers -> [Repos -> Nat \cup {Unlisted}]]
    BY <1>4 DEF Start, Nothing
  <2>3. stays' \in [Pollers -> SUBSET Repos]
    BY <1>4 DEF Start, Available
  <2>4. /\ pc' \in [Pollers -> {"idle", "crawl", "store"}]
        /\ began' \in [Pollers -> Nat] /\ names' \in [Pollers -> SUBSET Repos]
        /\ calls' \in [Pollers -> Nat] /\ visits' \in [Pollers -> Nat]
        /\ UNCHANGED <<now, github, stored>>
    BY <1>4 DEF Start
  <2>5. marred' \in [Pollers -> BOOLEAN]
    <3>1. marred \in [Pollers -> BOOLEAN] /\ marred' = [marred EXCEPT ![p] = FALSE]
      BY <1>4 DEF Start
    <3> QED
      BY <3>1, Zenon
  <2> QED
    BY <2>1, <2>2, <2>3, <2>4, <2>5 DEF github
<1>5. ASSUME NEW p \in Pollers, NEW i \in Installations, Enter(p, i) PROVE TypeOK'
  <2>1. /\ names' \in [Pollers -> SUBSET Repos]
        /\ todo' \in [Pollers -> SUBSET Installations]
        /\ calls' \in [Pollers -> Nat] /\ visits' \in [Pollers -> Nat]
    <3>1. names' = names \/ \E page \in SUBSET Repos : names' = [names EXCEPT ![p] = page]
      <4>1. \/ \E page \in SUBSET {r \in there : Home[r] = i} : names' = [names EXCEPT ![p] = page]
            \/ UNCHANGED names
        BY <1>5, Zenon DEF Enter
      <4>2. \A page \in SUBSET {r \in there : Home[r] = i} : page \in SUBSET Repos
        OBVIOUS
      <4> QED
        BY <4>1, <4>2, Zenon
    <3>2. \E made \in 1 .. 2 : calls' = [calls EXCEPT ![p] = @ + made]
      BY <1>5 DEF Enter
    <3>3. todo' = [todo EXCEPT ![p] = @ \ {i}] /\ visits' = [visits EXCEPT ![p] = @ + 1]
      BY <1>5 DEF Enter
    <3>4. names' \in [Pollers -> SUBSET Repos]
      BY <3>1
    <3>5. calls' \in [Pollers -> Nat]
      BY <3>2
    <3>6. todo' \in [Pollers -> SUBSET Installations] /\ visits' \in [Pollers -> Nat]
      BY <3>3
    <3> QED
      BY <3>4, <3>5, <3>6
  <2>2. marred' \in [Pollers -> BOOLEAN]
    <3>1. marred \in [Pollers -> BOOLEAN]
          /\ (marred' = marred \/ marred' = [marred EXCEPT ![p] = TRUE])
      BY <1>5 DEF Enter
    <3> QED
      BY <3>1, Zenon
  <2> QED
    BY <1>5, <2>1, <2>2 DEF Enter, github
<1>6. ASSUME NEW p \in Pollers, NEW r \in Repos, Read(p, r) PROVE TypeOK'
  <2>1. PICK n \in {0} \cup {Len(releases[r]) : s \in {r} \cap Available} :
          /\ list' = [list EXCEPT ![p][r] = n]
          /\ marred' = [marred EXCEPT ![p] = @ \/ (r \in Available /\ n # Len(releases[r]))]
    BY <1>6 DEF Read
  <2>2. n \in Nat
    OBVIOUS
  <2>3. list' \in [Pollers -> [Repos -> Nat \cup {Unlisted}]]
    BY <2>1, <2>2
  <2>4. marred' \in [Pollers -> BOOLEAN]
    <3>1. (marred[p] \/ (r \in Available /\ n # Len(releases[r]))) \in BOOLEAN
      OBVIOUS
    <3> QED
      BY <2>1, <3>1, Zenon
  <2>5. /\ names' \in [Pollers -> SUBSET Repos] /\ calls' \in [Pollers -> Nat]
        /\ UNCHANGED <<now, github, stored, pc, began, todo, cut, visits, stays>>
    BY <1>6 DEF Read
  <2> QED
    BY <2>3, <2>4, <2>5 DEF github
<1>7. ASSUME NEW p \in Pollers, StopFull(p) PROVE TypeOK'
  <2>1. cut \in [Pollers -> BOOLEAN] /\ cut' = [cut EXCEPT ![p] = TRUE]
    BY <1>7 DEF StopFull
  <2>2. cut' \in [Pollers -> BOOLEAN]
    BY <2>1, Zenon
  <2> QED
    BY <1>7, <2>2 DEF StopFull, github
<1>8. ASSUME NEW p \in Pollers, Finish(p) PROVE TypeOK'
  BY <1>8 DEF Finish, github, crawl
<1>9. ASSUME NEW p \in Pollers, End(p), UNCHANGED <<now, github>>,
             stored' = stored \/ stored' = {View(p)}
      PROVE  TypeOK'
  <2>1. /\ cut \in [Pollers -> BOOLEAN] /\ cut' = [cut EXCEPT ![p] = FALSE]
        /\ marred \in [Pollers -> BOOLEAN] /\ marred' = [marred EXCEPT ![p] = FALSE]
    BY <1>9 DEF End
  <2>2. cut' \in [Pollers -> BOOLEAN] /\ marred' \in [Pollers -> BOOLEAN]
    BY <2>1, Zenon
  <2>3. View(p) \in Views
    BY DEF View, Views
  <2>4. stored' \subseteq Views
    BY <1>9, <2>3
  <2>5. list' \in [Pollers -> [Repos -> Nat \cup {Unlisted}]]
    BY <1>9 DEF End, Nothing
  <2>6. /\ pc' \in [Pollers -> {"idle", "crawl", "store"}]
        /\ began' \in [Pollers -> Nat]
        /\ todo' \in [Pollers -> SUBSET Installations]
        /\ names' \in [Pollers -> SUBSET Repos] /\ stays' \in [Pollers -> SUBSET Repos]
        /\ calls' \in [Pollers -> Nat] /\ visits' \in [Pollers -> Nat]
    BY <1>9 DEF End
  <2> QED
    BY <1>9, <2>2, <2>4, <2>5, <2>6 DEF github
<1> QED
  BY <1>1, <1>2, <1>3, <1>4, <1>5, <1>6, <1>7, <1>8, <1>9 DEF Next, Store, GiveUp

-----------------------------------------------------------------------------
(* A crawl                                                                 *)

LEMMA Starts ==
  ASSUME TypeOK, NEW p \in Pollers, Start(p)
  PROVE  CrawlInv(p)'
<1>a. PICK page \in SUBSET installed :
        /\ Page(installed, page)
        /\ \E visited \in SUBSET page :
             Visited(page, visited) /\ todo' = [todo EXCEPT ![p] = visited]
        /\ cut' = [cut EXCEPT ![p] = OverCap(page)]
  BY DEF Start
<1>b. PICK visited \in SUBSET page :
        Visited(page, visited) /\ todo' = [todo EXCEPT ![p] = visited]
  BY <1>a
<1>1. /\ Page(installed, page) /\ Visited(page, visited)
      /\ todo'[p] = visited /\ cut'[p] = OverCap(page)
  BY <1>a, <1>b DEF TypeOK
<1>2. /\ began'[p] = now /\ now' = now /\ names'[p] = {} /\ list'[p] = Nothing
      /\ calls'[p] = 1 /\ visits'[p] = 0 /\ marred'[p] = FALSE
      /\ stays'[p] = Available /\ Available' = Available /\ pc'[p] = "crawl"
      /\ releases' = releases
  BY DEF Start, TypeOK, github, Available
<1>3. Listed(Nothing) = {} /\ Cardinality({}) = 0
  BY FS_EmptySet DEF Listed, Nothing, Unlisted
<1>4. IsFiniteSet(page) /\ Cardinality(page) \in Nat
  BY Sets, FS_Subset, FS_CardinalityType
<1>5. Cardinality(visited) <= MaxInstallations
  BY <1>1, <1>4, ViewAssumption DEF Visited
<1>6. ~cut'[p] => visited = installed
  BY <1>1, <1>4, Sets, ViewAssumption DEF Visited, OverCap, Page
<1>7. ~cut'[p] => \A r \in stays'[p] : Home[r] \in todo'[p]
  BY <1>1, <1>2, <1>6 DEF Available
<1>8. Listed(list[p])' = {} /\ now \in Nat /\ MaxRepos \in Nat /\ MaxInstallations \in Nat
  BY <1>2, <1>3, ViewAssumption DEF Listed, TypeOK
<1>9. Cardinality(todo'[p]) \in Nat
  BY <1>1, <1>4, FS_Subset, FS_CardinalityType
<1> QED
  BY <1>1, <1>2, <1>3, <1>5, <1>7, <1>8, <1>9 DEF CrawlInv

LEMMA Enters ==
  ASSUME TypeOK, NEW p \in Pollers, NEW i \in Installations, CrawlInv(p), Enter(p, i)
  PROVE  CrawlInv(p)'
<1>1. /\ pc[p] = "crawl" /\ pc'[p] = "crawl" /\ names[p] = {} /\ i \in todo[p]
      /\ todo'[p] = todo[p] \ {i} /\ visits'[p] = visits[p] + 1
      /\ UNCHANGED <<now, github, began, list, cut, stays>> /\ ~Full(list[p])
  BY DEF Enter, TypeOK
<1>2. /\ Listed(list[p])' = Listed(list[p]) /\ Available' = Available
      /\ installed' = installed /\ there' = there /\ releases' = releases
  BY <1>1 DEF Listed, Available, github
<1>3. calls'[p] \in Nat /\ calls'[p] <= calls[p] + 2 /\ calls[p] \in Nat
      /\ visits[p] \in Nat
  BY DEF Enter, TypeOK
<1>4. Cardinality(todo'[p]) = Cardinality(todo[p]) - 1
  BY <1>1, Sets, FS_RemoveElement
<1>5. Cardinality(Listed(list[p])) \in Nat /\ Cardinality(todo[p]) \in Nat
      /\ MaxInstallations \in Nat /\ MaxRepos \in Nat
  BY Sets, ViewAssumption
<1>6. visits'[p] + Cardinality(todo'[p]) <= MaxInstallations
      /\ calls'[p] <= 1 + 2 * visits'[p] + Cardinality(Listed(list[p])')
  BY <1>1, <1>2, <1>3, <1>4, <1>5 DEF CrawlInv
<1>7. \A r \in names'[p] : r \in there /\ Home[r] = i
  <2>1. names'[p] = names[p] \/ \E page \in SUBSET {r \in there : Home[r] = i} : names'[p] = page
    BY DEF Enter, TypeOK
  <2> QED
    BY <1>1, <2>1
<1>8. names'[p] \cap Listed(list[p])' = {}
      /\ \A r \in names'[p] \cup Listed(list[p])' : Home[r] \notin todo'[p]
  BY <1>1, <1>2, <1>7 DEF CrawlInv
<1>9. ASSUME ~cut'[p], ~marred'[p], Cardinality(Listed(list[p])' \cup names'[p]) < MaxRepos,
             NEW r \in stays'[p]
      PROVE  r \in Listed(list[p])' \cup names'[p] \/ Home[r] \in todo'[p]
  <2>1. marred'[p] # TRUE /\ marred \in [Pollers -> BOOLEAN]
    BY <1>9 DEF TypeOK
  <2>2. UNCHANGED marred
        /\ \E page \in SUBSET {s \in there : Home[s] = i} :
             Page({s \in there : Home[s] = i}, page) /\ names'[p] = page
    BY <2>1 DEF Enter, TypeOK
  <2>3. PICK page \in SUBSET {s \in there : Home[s] = i} :
          Page({s \in there : Home[s] = i}, page) /\ names'[p] = page
    BY <2>2
  <2>4. r \in Listed(list[p]) \cup names[p] \/ Home[r] \in todo[p]
    <3>1. Cardinality(Listed(list[p]) \cup names[p]) < MaxRepos
      <4>1. Listed(list[p]) \cup names[p] = Listed(list[p])
        BY <1>1
      <4> QED
        BY <1>1, <1>5, <4>1 DEF Full
    <3> QED
      BY <1>1, <1>9, <2>2, <3>1 DEF CrawlInv
  <2>5. CASE page = {s \in there : Home[s] = i}
    <3>1. r \in there
      BY <1>1, <1>9 DEF CrawlInv, Available
    <3> QED
      BY <1>1, <1>2, <2>3, <2>4, <2>5, <3>1
  <2>6. CASE page # {s \in there : Home[s] = i}
    <3>1. Cardinality(page) >= MaxRepos
      BY <2>3, <2>6, ViewAssumption DEF Page
    <3>2. IsFiniteSet(Listed(list[p])' \cup names'[p]) /\ page \subseteq Listed(list[p])' \cup names'[p]
      <4>1. IsFiniteSet(names'[p])
        BY <2>3, ViewAssumption, FS_Subset DEF TypeOK
      <4> QED
        BY <1>2, <2>3, <4>1, Sets, FS_Union
    <3>3. Cardinality(page) <= Cardinality(Listed(list[p])' \cup names'[p])
          /\ Cardinality(page) \in Nat /\ Cardinality(Listed(list[p])' \cup names'[p]) \in Nat
      BY <3>2, FS_Subset, FS_CardinalityType
    <3> QED
      BY <1>9, <3>1, <3>3, <1>5
  <2> QED
    BY <2>5, <2>6
<1>10. ASSUME NEW r \in Listed(list[p])', list'[p][r] # 0 \/ (r \in stays'[p] /\ ~marred'[p])
       PROVE  UpToDate(r, list[p][r], began[p])'
  <2>1. ~marred'[p] => ~marred[p]
    BY DEF Enter, TypeOK
  <2>2. UpToDate(r, list[p][r], began[p])
    BY <1>1, <1>2, <1>10, <2>1 DEF CrawlInv
  <2> QED
    BY <1>1, <1>2, <2>2 DEF UpToDate
<1>11. /\ began'[p] <= now' /\ Cardinality(Listed(list[p])') <= MaxRepos
       /\ stays'[p] \subseteq Available'
  BY <1>1, <1>2 DEF CrawlInv
<1> QED
  BY <1>1, <1>6, <1>8, <1>9, <1>10, <1>11 DEF CrawlInv

LEMMA Reads ==
  ASSUME TypeOK, NEW p \in Pollers, NEW r \in Repos, CrawlInv(p), Read(p, r)
  PROVE  CrawlInv(p)'
<1>1. PICK n \in {0} \cup {Len(releases[r]) : s \in {r} \cap Available} :
        /\ list' = [list EXCEPT ![p][r] = n]
        /\ marred' = [marred EXCEPT ![p] = @ \/ (r \in Available /\ n # Len(releases[r]))]
  BY DEF Read
<1>2. /\ pc[p] = "crawl" /\ pc'[p] = "crawl" /\ r \in names[p] /\ names'[p] = names[p] \ {r}
      /\ UNCHANGED <<now, github, began, todo, cut, visits, stays>> /\ ~Full(list[p])
      /\ calls'[p] = calls[p] + 1 /\ calls[p] \in Nat /\ visits[p] \in Nat
  BY DEF Read, TypeOK
<1>3. Available' = Available /\ releases' = releases
  BY <1>2 DEF Available, github
<1>4. /\ n \in Nat /\ list'[p][r] = n
      /\ \A s \in Repos \ {r} : list'[p][s] = list[p][s]
  BY <1>1 DEF TypeOK
<1>5. Listed(list[p])' = Listed(list[p]) \cup {r} /\ r \notin Listed(list[p])
  <2>1. r \notin Listed(list[p])
    BY <1>2 DEF CrawlInv
  <2>2. Listed(list'[p]) = Listed(list[p]) \cup {r}
    BY <1>4 DEF Listed, Unlisted
  <2> QED
    BY <2>1, <2>2 DEF Listed
<1>6. Cardinality(Listed(list[p])') = Cardinality(Listed(list[p])) + 1
      /\ Cardinality(Listed(list[p])) \in Nat
  BY <1>5, Sets, FS_AddElement
<1>7. /\ Cardinality(Listed(list[p])') <= MaxRepos
      /\ calls'[p] <= 1 + 2 * visits'[p] + Cardinality(Listed(list[p])')
  BY <1>2, <1>6, ViewAssumption DEF Full, CrawlInv
<1>8. Listed(list[p])' \cup names'[p] = Listed(list[p]) \cup names[p]
  BY <1>2, <1>5
<1>9. ~marred'[p] => ~marred[p] /\ (r \in Available => n = Len(releases[r]))
  BY <1>1 DEF TypeOK
<1>10. ASSUME NEW s \in Listed(list[p])', list'[p][s] # 0 \/ (s \in stays'[p] /\ ~marred'[p])
       PROVE  UpToDate(s, list[p][s], began[p])'
  <2>1. CASE s = r
    <3>1. n = Len(releases[r])
      BY <1>1, <1>2, <1>4, <1>9, <1>10, <2>1 DEF CrawlInv
    <3>2. Len(releases[r]) \in Nat
      BY DEF TypeOK
    <3> QED
      BY <1>3, <1>4, <2>1, <3>1, <3>2 DEF UpToDate
  <2>2. CASE s # r
    <3>1. s \in Listed(list[p]) /\ list'[p][s] = list[p][s]
      BY <1>4, <1>5, <2>2 DEF Listed
    <3>2. UpToDate(s, list[p][s], began[p])
      BY <1>2, <1>9, <1>10, <3>1 DEF CrawlInv
    <3> QED
      BY <1>2, <1>3, <3>1, <3>2 DEF UpToDate
  <2> QED
    BY <2>1, <2>2
<1>11. ~cut'[p] /\ ~marred'[p] /\ Cardinality(Listed(list[p])' \cup names'[p]) < MaxRepos =>
         \A s \in stays'[p] : s \in Listed(list[p])' \cup names'[p] \/ Home[s] \in todo'[p]
  BY <1>2, <1>8, <1>9 DEF CrawlInv
<1>12. /\ names'[p] \cap Listed(list[p])' = {}
       /\ \A s \in names'[p] \cup Listed(list[p])' : Home[s] \notin todo'[p]
  BY <1>2, <1>5 DEF CrawlInv
<1>13. began'[p] <= now' /\ visits'[p] + Cardinality(todo'[p]) <= MaxInstallations
       /\ stays'[p] \subseteq Available'
  BY <1>2, <1>3 DEF CrawlInv
<1> QED
  BY <1>2, <1>7, <1>10, <1>11, <1>12, <1>13 DEF CrawlInv

LEMMA Stops ==
  ASSUME TypeOK, NEW p \in Pollers, CrawlInv(p), StopFull(p) \/ Finish(p)
  PROVE  CrawlInv(p)'
<1>1. /\ UNCHANGED <<now, github, stored, began, list, calls, visits, marred, stays>>
      /\ Listed(list[p])' = Listed(list[p]) /\ Full(list[p])' = Full(list[p])
      /\ Available' = Available /\ releases' = releases
  BY DEF StopFull, Finish, Available, github, Listed, Full, crawl
<1>2. \A r \in Listed(list[p]) : UpToDate(r, list[p][r], began[p])' <=> UpToDate(r, list[p][r], began[p])
  BY <1>1 DEF UpToDate
<1>3. CASE StopFull(p)
  <2>1. cut'[p] /\ todo'[p] = {} /\ names'[p] = {} /\ pc'[p] = "store"
    BY <1>3 DEF StopFull, TypeOK
  <2>2. Cardinality({}) = 0 /\ Cardinality(todo[p]) \in Nat /\ visits[p] \in Nat
        /\ MaxInstallations \in Nat
    BY Sets, FS_EmptySet, ViewAssumption DEF TypeOK
  <2>3. visits'[p] + Cardinality(todo'[p]) <= MaxInstallations
    BY <1>1, <2>1, <2>2 DEF CrawlInv
  <2> QED
    BY <1>1, <1>2, <2>1, <2>3 DEF CrawlInv
<1>4. CASE Finish(p)
  <2>1. UNCHANGED <<todo, names, cut>> /\ todo[p] = {} /\ names[p] = {} /\ ~Full(list[p])
    BY <1>4 DEF Finish, crawl
  <2> QED
    BY <1>1, <1>2, <2>1 DEF CrawlInv
<1> QED
  BY <1>3, <1>4

\* Every step leaves what is known of every crawl right.
LEMMA CrawlsKept ==
  ASSUME TypeOK, TypeOK', Crawls, Next
  PROVE  Crawls'
<1> SUFFICES ASSUME NEW q \in Pollers, pc'[q] # "idle" PROVE CrawlInv(q)'
  BY DEF Crawls
<1> DEFINE Same(p) ==
      /\ pc'[p] = pc[p] /\ began'[p] = began[p] /\ todo'[p] = todo[p]
      /\ names'[p] = names[p] /\ list'[p] = list[p] /\ cut'[p] = cut[p]
      /\ calls'[p] = calls[p] /\ visits'[p] = visits[p] /\ marred'[p] = marred[p]
<1>1. ASSUME Same(q), stays'[q] = stays[q] \/ stays'[q] = stays[q] \cap Available',
             now' \in Nat, now <= now', UNCHANGED <<installed, there>> \/ stays'[q] = stays[q] \cap Available',
             UNCHANGED releases \/ \E s \in Repos : Publish(s)
      PROVE  CrawlInv(q)'
  <2>1. CrawlInv(q)
    BY <1>1 DEF Crawls
  <2>2. stays'[q] \subseteq stays[q] /\ stays'[q] \subseteq Available'
    <3>1. stays[q] \subseteq Available
      BY <2>1 DEF CrawlInv
    <3>2. UNCHANGED <<installed, there>> => Available' = Available
      BY DEF Available
    <3> QED
      BY <1>1, <3>1, <3>2
  <2> QED
    BY <1>1, <2>1, <2>2, Elsewhere
<1>2. now \in Nat
  BY DEF TypeOK
<1>3. CASE Tick
  BY <1>1, <1>2, <1>3 DEF Tick, github, crawl
<1>4. ASSUME NEW r \in Repos, Publish(r) PROVE CrawlInv(q)'
  <2>1. Same(q) /\ stays'[q] = stays[q] /\ UNCHANGED <<now, installed, there>>
    BY <1>4 DEF Publish, crawl
  <2>2. \E s \in Repos : Publish(s)
    BY <1>4
  <2> QED
    BY <1>1, <1>2, <2>1, <2>2
<1>5. CASE Change
  BY <1>1, <1>2, <1>5 DEF Change
<1>6. ASSUME NEW p \in Pollers,
             \/ Start(p) \/ StopFull(p) \/ Finish(p) \/ Store(p) \/ GiveUp(p)
             \/ \E i \in Installations : Enter(p, i)
             \/ \E r \in Repos : Read(p, r)
      PROVE  CrawlInv(q)'
  <2>1. CASE q # p
    <3>1. Same(q) /\ stays'[q] = stays[q]
      <4>1. CASE Start(p)
        BY <2>1, <4>1 DEF Start, TypeOK
      <4>2. CASE StopFull(p) \/ Finish(p)
        BY <2>1, <4>2 DEF StopFull, Finish, crawl, TypeOK
      <4>3. CASE Store(p) \/ GiveUp(p)
        BY <2>1, <4>3 DEF Store, GiveUp, End, TypeOK
      <4>4. ASSUME NEW i \in Installations, Enter(p, i) PROVE Same(q) /\ stays'[q] = stays[q]
        BY <2>1, <4>4 DEF Enter, TypeOK
      <4>5. ASSUME NEW r \in Repos, Read(p, r) PROVE Same(q) /\ stays'[q] = stays[q]
        BY <2>1, <4>5 DEF Read, TypeOK
      <4> QED
        BY <1>6, <4>1, <4>2, <4>3, <4>4, <4>5
    <3>2. UNCHANGED <<now, github>>
      BY <1>6 DEF Start, StopFull, Finish, Store, GiveUp, Enter, Read
    <3> QED
      BY <1>1, <1>2, <3>1, <3>2 DEF github
  <2>2. CASE q = p
    <3>1. ~(Store(p) \/ GiveUp(p))
      BY <2>2 DEF Store, GiveUp, End, TypeOK
    <3>2. ~Start(p) => CrawlInv(p)
      BY <1>6, <3>1 DEF Crawls, StopFull, Finish, Enter, Read
    <3> QED
      BY <1>6, <2>2, <3>1, <3>2, Starts, Stops, Enters, Reads
  <2> QED
    BY <2>1, <2>2
<1> QED
  BY <1>3, <1>4, <1>5, <1>6 DEF Next

-----------------------------------------------------------------------------
(* The stored entry                                                        *)

LEMMA EntriesKept ==
  ASSUME TypeOK, TypeOK', Crawls, Entries, Next
  PROVE  Entries'
<1> SUFFICES ASSUME NEW v \in stored' PROVE StoredInv(v)'
  BY DEF Entries
<1>1. now \in Nat /\ TTL \in Nat
  BY ViewAssumption DEF TypeOK
<1>2. ASSUME v \in stored, now' \in Nat, now <= now', now' <= v.at + TTL,
             UNCHANGED releases \/ \E s \in Repos : Publish(s)
      PROVE  StoredInv(v)'
  <2>1. StoredInv(v) /\ v.began \in Nat /\ v.at \in Nat
        /\ v.list \in [Repos -> Nat \cup {Unlisted}]
    BY <1>2 DEF Entries, TypeOK, Views
  <2>2. ASSUME NEW r \in Listed(v.list), v.list[r] # 0
        PROVE  UpToDate(r, v.list[r], v.began)'
    <3>1. r \in Repos /\ v.list[r] \in Nat
      BY <2>1, <2>2 DEF Listed
    <3>2. UpToDate(r, v.list[r], v.began) /\ v.began <= now
      BY <2>1, <2>2, <1>1 DEF StoredInv
    <3> QED
      BY <1>2, <2>1, <3>1, <3>2, UpToDateStays
  <2>3. Listed(v.list)' = Listed(v.list)
    BY DEF Listed
  <2>4. v.began <= v.at /\ v.at <= now'
    BY <1>1, <1>2, <2>1 DEF StoredInv
  <2> QED
    BY <1>2, <2>2, <2>3, <2>4 DEF StoredInv
<1>3. CASE Tick
  <2>1. v \in stored /\ now' - v.at < TTL /\ now' = now + 1
    BY <1>3 DEF Tick, Kept
  <2>2. v.at \in Nat
    BY <2>1 DEF TypeOK, Views
  <2> QED
    BY <1>1, <1>2, <1>3, <2>1, <2>2 DEF Tick, github
<1>4. ASSUME v \in stored, now' = now, UNCHANGED releases \/ \E s \in Repos : Publish(s)
      PROVE  StoredInv(v)'
  <2>1. now <= v.at + TTL
    BY <1>4 DEF Entries, StoredInv
  <2> QED
    BY <1>1, <1>2, <1>4, <2>1
<1>5. ASSUME NEW p \in Pollers, Store(p)
      PROVE  StoredInv(v)'
  <2>1. v = View(p) /\ CrawlInv(p) /\ UNCHANGED <<now, releases>>
    BY <1>5 DEF Store, Crawls, github
  <2>2. v.list = list[p] /\ v.began = began[p] /\ v.at = now
    BY <2>1 DEF View
  <2>3. began[p] <= now
    BY <2>1 DEF CrawlInv
  <2>4. ASSUME NEW r \in Listed(v.list)', v.list[r] # 0
        PROVE  UpToDate(r, v.list[r], v.began)'
    <3>1. UpToDate(r, list[p][r], began[p])
      BY <2>1, <2>2, <2>4 DEF CrawlInv, Listed
    <3> QED
      BY <2>1, <2>2, <3>1 DEF UpToDate
  <2> QED
    BY <1>1, <2>1, <2>2, <2>3, <2>4 DEF StoredInv
<1>6. ASSUME NEW p \in Pollers,
             \/ Start(p) \/ StopFull(p) \/ Finish(p) \/ GiveUp(p)
             \/ \E i \in Installations : Enter(p, i)
             \/ \E r \in Repos : Read(p, r)
      PROVE  StoredInv(v)'
  <2>1. UNCHANGED <<now, releases, stored>>
    BY <1>6 DEF Start, StopFull, Finish, GiveUp, Enter, Read, github
  <2> QED
    BY <1>4, <2>1
<1>7. ASSUME NEW r \in Repos, Publish(r) PROVE StoredInv(v)'
  BY <1>4, <1>7 DEF Publish
<1>8. CASE Change
  BY <1>4, <1>8 DEF Change
<1> QED
  BY <1>3, <1>5, <1>6, <1>7, <1>8 DEF Next

-----------------------------------------------------------------------------
(* Theorems                                                                *)

\* What a request knows of its crawl stays right, whatever GitHub, the clock and the
\* other requests do between its calls, and so does the entry it stores.
THEOREM ViewInvariant == Spec => []ViewInv
<1>1. Init => ViewInv
  <2> SUFFICES ASSUME Init PROVE ViewInv
    OBVIOUS
  <2>1. releases \in [Repos -> Seq(Nat)]
    <3>1. <<0>> \in Seq(Nat) /\ << >> \in Seq(Nat)
      OBVIOUS
    <3> QED
      BY <3>1 DEF Init
  <2>2. TypeOK
    BY <2>1 DEF Init, TypeOK, Nothing
  <2> QED
    BY <2>2 DEF Init, ViewInv
<1>2. ViewInv /\ [Next]_vars => ViewInv'
  <2> SUFFICES ASSUME ViewInv, [Next]_vars PROVE ViewInv'
    OBVIOUS
  <2>1. CASE Next
    <3>1. TypeOK /\ Crawls /\ Entries
      BY DEF ViewInv, Crawls, Entries
    <3>2. TypeOK'
      BY <2>1, <3>1, Typed
    <3> QED
      BY <2>1, <3>1, <3>2, CrawlsKept, EntriesKept DEF ViewInv, Crawls, Entries
  <2>2. CASE UNCHANGED vars
    <3>1. TypeOK'
      BY <2>2 DEF ViewInv, TypeOK, vars, github, crawl
    <3>2. \A p \in Pollers : pc[p] # "idle" => CrawlInv(p)'
      BY <2>2 DEF ViewInv, vars, github, crawl, CrawlInv, UpToDate, Available, Listed, Full
    <3>3. \A v \in stored : StoredInv(v)'
      BY <2>2 DEF ViewInv, vars, github, crawl, StoredInv, UpToDate, Listed
    <3> QED
      BY <2>2, <3>1, <3>2, <3>3 DEF ViewInv, vars, crawl
  <2> QED
    BY <2>1, <2>2
<1> QED
  BY <1>1, <1>2, PTL DEF Spec

\* The pages that are never asked for cannot shorten a list unmarked: the caps hide
\* them, because a page holds more installations and no fewer repositories.
THEOREM ShortListsAreMarked == Spec => []NeverShortUnmarked
<1>1. ViewInv => NeverShortUnmarked
  <2> SUFFICES ASSUME ViewInv, NEW p \in Pollers, pc[p] = "store", ~cut[p], ~marred[p],
                      NEW r \in stays[p]
               PROVE  r \in Listed(list[p]) /\ UpToDate(r, list[p][r], began[p])
    BY DEF NeverShortUnmarked
  <2>1. CrawlInv(p) /\ TypeOK
    BY DEF ViewInv
  <2>2. todo[p] = {} /\ names[p] = {} /\ ~Full(list[p])
    BY <2>1 DEF CrawlInv
  <2>3. Cardinality(Listed(list[p]) \cup names[p]) < MaxRepos
    <3>1. Listed(list[p]) \cup names[p] = Listed(list[p])
      BY <2>2
    <3> QED
      BY <2>1, <2>2, <3>1, Sets, ViewAssumption DEF Full
  <2> QED
    BY <2>1, <2>2, <2>3 DEF CrawlInv
<1> QED
  BY <1>1, ViewInvariant, PTL

\* However crawls overlap and overwrite each other's entry, no release that KV answers
\* with was superseded longer ago than the TTL and the crawl that found it.
THEOREM AnswersRecent == Spec => []AnswersAreRecent
<1>1. ViewInv => AnswersAreRecent
  <2> SUFFICES ASSUME ViewInv, NEW v \in stored, NEW r \in Listed(v.list),
                      v.list[r] # 0, v.list[r] < Len(releases[r])
               PROVE  now <= releases[r][v.list[r] + 1] + TTL + (v.at - v.began)
    BY DEF AnswersAreRecent
  <2>1. /\ now \in Nat /\ TTL \in Nat /\ v.at \in Nat /\ v.began \in Nat
        /\ v.list[r] \in Nat /\ releases[r] \in Seq(Nat)
    BY ViewAssumption DEF ViewInv, TypeOK, Views, Listed
  <2>2. now <= v.at + TTL /\ releases[r][v.list[r] + 1] >= v.began
    BY <2>1 DEF ViewInv, StoredInv, UpToDate
  <2>3. releases[r][v.list[r] + 1] \in Nat
    <3>1. v.list[r] + 1 \in 1 .. Len(releases[r])
      BY <2>1
    <3> QED
      BY <2>1, <3>1
  <2>4. \A n, x, t, a, b \in Nat : n <= a + t /\ x >= b => n <= x + t + (a - b)
    OBVIOUS
  <2> QED
    BY <2>1, <2>2, <2>3, <2>4
<1> QED
  BY <1>1, ViewInvariant, PTL

\* The caps bound the calls of a crawl.
THEOREM BudgetIsKept == Spec => []BudgetKept
<1>1. ViewInv => BudgetKept
  <2> SUFFICES ASSUME ViewInv, NEW p \in Pollers, pc[p] # "idle"
               PROVE  calls[p] <= 1 + 2 * MaxInstallations + MaxRepos
    BY DEF BudgetKept
  <2>1. CrawlInv(p) /\ TypeOK
    BY DEF ViewInv
  <2>2. calls[p] \in Nat /\ visits[p] \in Nat /\ MaxInstallations \in Nat /\ MaxRepos \in Nat
    BY <2>1, ViewAssumption DEF TypeOK
  <2> QED
    BY <2>1, <2>2, Sets DEF CrawlInv
<1> QED
  BY <1>1, ViewInvariant, PTL

=============================================================================
