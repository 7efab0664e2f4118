----------------------------- MODULE ReleasesView -----------------------------
(***************************************************************************)
(* GET /releases of the Cloudflare Worker: the latest release of every     *)
(* repository the App is installed on, collected call by call within caps  *)
(* on installations and repositories, and kept in KV for a while.  GitHub  *)
(* changes during a crawl, calls fail, and pollers that find nothing in KV *)
(* crawl at the same time.                                                 *)
(***************************************************************************)
EXTENDS Integers, FiniteSets, Sequences

CONSTANTS
  Installations,
  Repos,
  Home,              \* Home[r]: the installation that has repository r
  Released,          \* repositories that have a release at the start
  Pollers,           \* requests to /releases that are handled at a time
  MaxInstallations,  \* RELEASES_MAX_INSTALLATIONS
  MaxRepos,          \* RELEASES_MAX_REPOS
  PageSize,          \* per_page
  TTL,               \* RELEASES_CACHE_TTL_SECONDS
  MaxNow,            \* bound: the clock
  MaxEvents          \* bound: releases published, repositories and installations
                     \* that come or go

ASSUME ViewAssumption ==
  /\ IsFiniteSet(Installations) /\ IsFiniteSet(Repos) /\ Released \subseteq Repos
  /\ Home \in [Repos -> Installations]
  /\ MaxInstallations \in Nat /\ MaxRepos \in Nat \ {0} /\ PageSize \in Nat /\ TTL \in Nat
  /\ PageSize > MaxInstallations /\ PageSize >= MaxRepos
  /\ MaxNow \in Nat /\ MaxEvents \in Nat

VARIABLES
  now,
  events,     \* how much has happened on GitHub, for the bound
  installed,  \* the installations there are
  there,      \* the repositories that exist and are selected in their installation
  releases,   \* releases[r]: when each release of r was published
  stored,     \* what KV has under RELEASES_CACHE_KEY: one entry or none
  pc,         \* pc[p]: where the poller's request is
  began,      \* began[p]: when its crawl began
  todo,       \* todo[p]: installations to visit
  names,      \* names[p]: repositories of the visited one that are to be read
  list,       \* list[p]: which release of which repository it has, 0 for none
  cut,        \* cut[p]: truncated
  calls,      \* calls[p]: its calls to GitHub
  visits,     \* visits[p]: how many installations it has visited
  marred,     \* marred[p]: a call failed
  stays       \* stays[p]: what has been there all the time since it began

github == <<events, installed, there, releases>>
crawl == <<began, todo, names, list, cut, calls, visits, marred, stays>>
vars == <<now, github, stored, pc, crawl>>

Unlisted == -1

Views == [list : [Repos -> Nat \cup {Unlisted}], began : Nat, at : Nat]

TypeOK ==
  /\ now \in Nat /\ events \in Nat
  /\ installed \subseteq Installations /\ there \subseteq Repos
  /\ releases \in [Repos -> Seq(Nat)]
  /\ stored \subseteq Views
  /\ pc \in [Pollers -> {"idle", "crawl", "store"}]
  /\ began \in [Pollers -> Nat]
  /\ todo \in [Pollers -> SUBSET Installations]
  /\ names \in [Pollers -> SUBSET Repos]
  /\ list \in [Pollers -> [Repos -> Nat \cup {Unlisted}]]
  /\ cut \in [Pollers -> BOOLEAN]
  /\ calls \in [Pollers -> Nat] /\ visits \in [Pollers -> Nat]
  /\ marred \in [Pollers -> BOOLEAN]
  /\ stays \in [Pollers -> SUBSET Repos]

Nothing == [r \in Repos |-> Unlisted]

Listed(l) == {r \in Repos : l[r] # Unlisted}

Available == {r \in there : Home[r] \in installed}

Init ==
  /\ now = 0 /\ events = 0
  /\ installed = Installations /\ there = Repos
  /\ releases = [r \in Repos |-> IF r \in Released THEN <<0>> ELSE <<>>]
  /\ stored = {}
  /\ pc = [p \in Pollers |-> "idle"]
  /\ began = [p \in Pollers |-> 0]
  /\ todo = [p \in Pollers |-> {}]
  /\ names = [p \in Pollers |-> {}]
  /\ list = [p \in Pollers |-> Nothing]
  /\ cut = [p \in Pollers |-> FALSE]
  /\ calls = [p \in Pollers |-> 0]
  /\ visits = [p \in Pollers |-> 0]
  /\ marred = [p \in Pollers |-> FALSE]
  /\ stays = [p \in Pollers |-> {}]

-----------------------------------------------------------------------------
(* The surroundings                                                        *)

\* (mutant: the entry is put without expirationTtl)
KeptForever(v) == TRUE

\* KV answers with an entry until its expirationTtl is over.
Kept(v) == now' - v.at < TTL

Tick ==
  /\ now < MaxNow
  /\ now' = now + 1
  /\ stored' = {v \in stored : Kept(v)}
  /\ UNCHANGED <<github, pc, crawl>>

Publish(r) ==
  /\ events < MaxEvents
  /\ events' = events + 1
  /\ releases' = [releases EXCEPT ![r] = Append(@, now)]
  /\ UNCHANGED <<now, installed, there, stored, pc, crawl>>

\* Installations and repositories come and go.
Change ==
  /\ events < MaxEvents
  /\ events' = events + 1
  /\ \/ \E i \in Installations :
          /\ installed' = IF i \in installed THEN installed \ {i} ELSE installed \cup {i}
          /\ UNCHANGED there
     \/ \E r \in Repos :
          /\ there' = IF r \in there THEN there \ {r} ELSE there \cup {r}
          /\ UNCHANGED installed
  /\ stays' = [p \in Pollers |-> stays[p] \cap Available']
  /\ UNCHANGED <<now, releases, stored, pc, began, todo, names, list, cut, calls, visits, marred>>

-----------------------------------------------------------------------------
(* A request                                                               *)

\* One page of a list of GitHub's.
Page(all, page) ==
  /\ page \subseteq all
  /\ IF Cardinality(all) <= PageSize THEN page = all ELSE Cardinality(page) = PageSize

\* (mutant: the installations beyond the cap are left out without truncated)
OverCapUnmarked(page) == FALSE

OverCap(page) == Cardinality(page) > MaxInstallations

\* (mutant: the cap on installations is not applied)
AllVisited(page, visited) == visited = page

Visited(page, visited) ==
  /\ visited \subseteq page
  /\ IF Cardinality(page) > MaxInstallations
     THEN Cardinality(visited) = MaxInstallations ELSE visited = page

\* KV answers with nothing, whatever was put elsewhere; listAppInstallations is
\* answered.
Start(p) ==
  /\ pc[p] = "idle"
  /\ \E page \in SUBSET installed :
       /\ Page(installed, page)
       /\ \E visited \in SUBSET page :
            Visited(page, visited) /\ todo' = [todo EXCEPT ![p] = visited]
       /\ cut' = [cut EXCEPT ![p] = OverCap(page)]
  /\ pc' = [pc EXCEPT ![p] = "crawl"]
  /\ began' = [began EXCEPT ![p] = now]
  /\ names' = [names EXCEPT ![p] = {}]
  /\ list' = [list EXCEPT ![p] = Nothing]
  /\ calls' = [calls EXCEPT ![p] = 1]
  /\ visits' = [visits EXCEPT ![p] = 0]
  /\ marred' = [marred EXCEPT ![p] = FALSE]
  /\ stays' = [stays EXCEPT ![p] = Available]
  /\ UNCHANGED <<now, github, stored>>

Full(l) == Cardinality(Listed(l)) >= MaxRepos

\* An installation's token and its list of repositories.  When either fails the
\* installation is passed over.
Enter(p, i) ==
  /\ pc[p] = "crawl" /\ ~Full(list[p]) /\ names[p] = {} /\ i \in todo[p]
  /\ todo' = [todo EXCEPT ![p] = @ \ {i}]
  /\ visits' = [visits EXCEPT ![p] = @ + 1]
  /\ \/ /\ i \in installed
        /\ LET all == {r \in there : Home[r] = i} IN
           \E page \in SUBSET all : Page(all, page) /\ names' = [names EXCEPT ![p] = page]
        /\ calls' = [calls EXCEPT ![p] = @ + 2]
        /\ UNCHANGED marred
     \/ /\ \E made \in 1 .. 2 : calls' = [calls EXCEPT ![p] = @ + made]
        /\ marred' = [marred EXCEPT ![p] = TRUE]
        /\ UNCHANGED names
  /\ UNCHANGED <<now, github, stored, pc, began, list, cut, stays>>

\* getLatestRelease: a repository without one, or that has gone, gets none, and so
\* does one whose call fails.
Read(p, r) ==
  /\ pc[p] = "crawl" /\ r \in names[p] /\ ~Full(list[p])
  /\ \E n \in {0} \cup {Len(releases[r]) : s \in {r} \cap Available} :
       /\ list' = [list EXCEPT ![p][r] = n]
       /\ marred' = [marred EXCEPT ![p] = @ \/ (r \in Available /\ n # Len(releases[r]))]
  /\ calls' = [calls EXCEPT ![p] = @ + 1]
  /\ names' = [names EXCEPT ![p] = @ \ {r}]
  /\ UNCHANGED <<now, github, stored, pc, began, todo, cut, visits, stays>>

\* (mutant: the loop ends at the cap and truncated is not set)
StopFullUnmarked(p) ==
  /\ pc[p] = "crawl" /\ Full(list[p])
  /\ todo' = [todo EXCEPT ![p] = {}]
  /\ names' = [names EXCEPT ![p] = {}]
  /\ pc' = [pc EXCEPT ![p] = "store"]
  /\ UNCHANGED <<now, github, stored, began, list, cut, calls, visits, marred, stays>>

\* The list is full: nothing more is read, whether or not anything is left.
StopFull(p) ==
  /\ pc[p] = "crawl" /\ Full(list[p])
  /\ cut' = [cut EXCEPT ![p] = TRUE]
  /\ todo' = [todo EXCEPT ![p] = {}]
  /\ names' = [names EXCEPT ![p] = {}]
  /\ pc' = [pc EXCEPT ![p] = "store"]
  /\ UNCHANGED <<now, github, stored, began, list, calls, visits, marred, stays>>

Finish(p) ==
  /\ pc[p] = "crawl" /\ ~Full(list[p]) /\ todo[p] = {} /\ names[p] = {}
  /\ pc' = [pc EXCEPT ![p] = "store"]
  /\ UNCHANGED <<now, github, stored, crawl>>

View(p) == [list |-> list[p], began |-> began[p], at |-> now]

\* What the request kept is gone with it.
End(p) ==
  /\ pc' = [pc EXCEPT ![p] = "idle"]
  /\ began' = [began EXCEPT ![p] = 0]
  /\ todo' = [todo EXCEPT ![p] = {}]
  /\ names' = [names EXCEPT ![p] = {}]
  /\ list' = [list EXCEPT ![p] = Nothing]
  /\ cut' = [cut EXCEPT ![p] = FALSE]
  /\ calls' = [calls EXCEPT ![p] = 0]
  /\ visits' = [visits EXCEPT ![p] = 0]
  /\ marred' = [marred EXCEPT ![p] = FALSE]
  /\ stays' = [stays EXCEPT ![p] = {}]

\* The result is put, over whatever another request has put meanwhile, and answered.
Store(p) ==
  /\ pc[p] = "store"
  /\ stored' = {View(p)}
  /\ End(p)
  /\ UNCHANGED <<now, github>>

\* The put fails, or the request does: 500, and nothing is kept.
GiveUp(p) ==
  /\ pc[p] # "idle"
  /\ End(p)
  /\ UNCHANGED <<now, github, stored>>

Next ==
  \/ Tick
  \/ \E r \in Repos : Publish(r)
  \/ Change
  \/ \E p \in Pollers :
       \/ Start(p) \/ StopFull(p) \/ Finish(p) \/ Store(p) \/ GiveUp(p)
       \/ \E i \in Installations : Enter(p, i)
       \/ \E r \in Repos : Read(p, r)

Spec == Init /\ [][Next]_vars

-----------------------------------------------------------------------------
(* Properties                                                              *)

\* Nothing newer than the n-th release of r was published before time t.
UpToDate(r, n, t) ==
  /\ n <= Len(releases[r])
  /\ n < Len(releases[r]) => releases[r][n + 1] >= t

\* What a crawl has done and has left: caps, calls made, and, as long as it has left
\* nothing out, everything that was there when it began and still is.
CrawlInv(p) ==
  /\ began[p] <= now
  /\ Cardinality(Listed(list[p])) <= MaxRepos
  /\ visits[p] + Cardinality(todo[p]) <= MaxInstallations
  /\ calls[p] <= 1 + 2 * visits[p] + Cardinality(Listed(list[p]))
  /\ names[p] \cap Listed(list[p]) = {}
  /\ \A r \in names[p] \cup Listed(list[p]) : Home[r] \notin todo[p]
  /\ stays[p] \subseteq Available
  /\ ~cut[p] /\ ~marred[p] /\ Cardinality(Listed(list[p]) \cup names[p]) < MaxRepos =>
       \A r \in stays[p] : r \in Listed(list[p]) \cup names[p] \/ Home[r] \in todo[p]
  /\ \A r \in Listed(list[p]) :
       (list[p][r] # 0 \/ (r \in stays[p] /\ ~marred[p])) => UpToDate(r, list[p][r], began[p])
  /\ pc[p] = "store" /\ ~cut[p] => todo[p] = {} /\ names[p] = {} /\ ~Full(list[p])

StoredInv(v) ==
  /\ v.began <= v.at /\ v.at <= now /\ now <= v.at + TTL
  /\ \A r \in Listed(v.list) : v.list[r] # 0 => UpToDate(r, v.list[r], v.began)

\* What a request knows of its crawl, and the stored entry of the one it is from, stays
\* right whatever GitHub and the other requests do meanwhile.
ViewInv ==
  /\ TypeOK
  /\ \A p \in Pollers : pc[p] # "idle" => CrawlInv(p)
  /\ \A v \in stored : StoredInv(v)

\* A list that is not marked as truncated has every repository that was there all
\* the time, with the latest release there was when the crawl began: the pages that
\* are not asked for hide behind the caps.  A call that failed is what no mark tells.
NeverShortUnmarked ==
  \A p \in Pollers :
    pc[p] = "store" /\ ~cut[p] /\ ~marred[p] =>
      \A r \in stays[p] :
        r \in Listed(list[p]) /\ UpToDate(r, list[p][r], began[p])

\* However requests that crawl for each other overlap, KV answers with no release
\* that was superseded longer ago than an entry lives and its crawl took.
AnswersAreRecent ==
  \A v \in stored : \A r \in Listed(v.list) :
    v.list[r] # 0 /\ v.list[r] < Len(releases[r]) =>
      now <= releases[r][v.list[r] + 1] + TTL + (v.at - v.began)

\* A crawl stays within the calls that the caps allow, wherever they cut it.
BudgetKept ==
  \A p \in Pollers : pc[p] # "idle" => calls[p] <= 1 + 2 * MaxInstallations + MaxRepos
=============================================================================
