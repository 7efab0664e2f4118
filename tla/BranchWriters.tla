---------------------------- MODULE BranchWriters ----------------------------
(***************************************************************************)
(* The two ways in which the Cloudflare Worker writes branches, against    *)
(* each other and against people who push: POST /sign commits on a branch  *)
(* whose head the caller has read, through GraphQL createCommitOnBranch;   *)
(* the push webhook has GitHub bring every open pull request that targets  *)
(* the pushed branch up to date, and the merges it asks for are pushes     *)
(* themselves.  Calls fail, answers get lost while the request is carried  *)
(* out, deliveries are handled concurrently, late or never.                *)
(***************************************************************************)
EXTENDS Integers, FiniteSets

CONSTANTS
  Branches,
  Pulls,      \* pull requests
  HeadOf,     \* HeadOf[p]: the branch p is of
  BaseOf,     \* BaseOf[p]: the branch p targets
  Handlers,   \* webhook deliveries handled at a time
  Clients,    \* callers of /sign, each with one change to commit; people who push are
              \* like them, for a push is refused, too, when the head has moved
  AimOf,      \* AimOf[s]: the branch s commits on
  MaxPulls,   \* AUTO_UPDATE_MAX_PULLS
  Held,       \* Held[b]: the commits b contains to begin with
  Given,      \* how many those are in all
  MaxTries,   \* bound: how often a client tries to commit
  None

ASSUME WritersAssumption ==
  /\ HeadOf \in [Pulls -> Branches] /\ BaseOf \in [Pulls -> Branches]
  /\ \A p \in Pulls : HeadOf[p] # BaseOf[p]
  /\ AimOf \in [Clients -> Branches]
  /\ Given \in Nat /\ Held \in [Branches -> SUBSET (1 .. Given)]
  /\ \A b \in Branches : \E c \in Held[b] : \A d \in Held[b] : d <= c
  /\ MaxPulls \in Nat /\ MaxTries \in Nat
  /\ None \notin Nat \cup Branches

VARIABLES
  content,     \* content[b]: the commits b contains, numbered as they are made
  tip,         \* tip[b]: its head
  made,        \* how many commits there are
  open,        \* the open pull requests
  known,       \* the pull requests ever opened
  deliveries,  \* push events on their way: <<branch, commit>>
  accepted,    \* the pull requests whose update GitHub answered 202 to
  missed,      \* those whose base moved without an update: no event or a refusal
  todo,        \* todo[h]: the pull requests a handler has listed and not updated
  call,        \* call[s]: where the client's call is
  read,        \* read[s]: the head it calls with, expected_head_oid
  strays,      \* strays[s]: heads of calls given up and not carried out yet
  tries,       \* tries[s]: how often it called
  landed,      \* landed[s]: the commits of its change
  blind        \* blind[s]: it went on from a head that had its change already

refs == <<content, tip, made>>
pulls == <<open, known, missed>>
sign == <<call, read, strays, tries, landed, blind>>
vars == <<refs, pulls, deliveries, accepted, todo, sign>>

Calls == {"idle", "ready", "asked", "ok", "rejected", "failed"}

TypeOK ==
  /\ made \in Nat
  /\ content \in [Branches -> SUBSET (1 .. made)]
  /\ tip \in [Branches -> 1 .. made]
  /\ open \subseteq known /\ known \subseteq Pulls /\ missed \subseteq Pulls
  /\ deliveries \subseteq Branches \X (1 .. made)
  /\ accepted \subseteq Pulls
  /\ todo \in [Handlers -> SUBSET Pulls]
  /\ call \in [Clients -> Calls]
  /\ read \in [Clients -> {None} \cup 1 .. made]
  /\ strays \in [Clients -> SUBSET (1 .. made)]
  /\ tries \in [Clients -> Nat]
  /\ landed \in [Clients -> SUBSET (1 .. made)]
  /\ blind \in [Clients -> BOOLEAN]

Onto(b) == {p \in open : BaseOf[p] = b}

\* The head lacks the base's head: what an update is for.
Behind(p) == p \in open /\ tip[BaseOf[p]] \notin content[HeadOf[p]]

\* listOpenPullRequestsForBase: one page.
Pages(b) ==
  {page \in SUBSET Onto(b) :
     IF Cardinality(Onto(b)) <= MaxPulls THEN page = Onto(b) ELSE Cardinality(page) = MaxPulls}

\* The branches end in their latest commits, the pull requests are open that have
\* something to merge; nothing was announced yet.
Init ==
  /\ made = Given
  /\ content = Held
  /\ tip = [b \in Branches |-> CHOOSE c \in Held[b] : \A d \in Held[b] : d <= c]
  /\ open = {p \in Pulls : ~(content[HeadOf[p]] \subseteq content[BaseOf[p]])}
  /\ known = open /\ missed = {p \in open : Behind(p)}
  /\ deliveries = {} /\ accepted = {}
  /\ todo = [h \in Handlers |-> {}]
  /\ call = [s \in Clients |-> "idle"]
  /\ read = [s \in Clients |-> None]
  /\ strays = [s \in Clients |-> {}]
  /\ tries = [s \in Clients |-> 0]
  /\ landed = [s \in Clients |-> {}]
  /\ blind = [s \in Clients |-> FALSE]

-----------------------------------------------------------------------------
(* GitHub                                                                  *)

\* (mutant: a branch that is brought up to date is reset to its base)
LandReset(b, merged) ==
  /\ made' = made + 1
  /\ content' = [content EXCEPT ![b] = (IF merged = {} THEN @ ELSE merged) \cup {made + 1}]
  /\ tip' = [tip EXCEPT ![b] = made + 1]
  /\ deliveries' = deliveries \cup {<<b, made + 1>>}
  /\ open' = {p \in open : ~(BaseOf[p] = b /\ content[HeadOf[p]] \subseteq content'[b])}
  /\ missed' = {p \in missed : BaseOf[p] # b}
  /\ UNCHANGED known

\* A commit lands on b, with what it merges: the event is sent, and the pull
\* requests that b now contains are closed as merged.
Land(b, merged) ==
  /\ made' = made + 1
  /\ content' = [content EXCEPT ![b] = @ \cup merged \cup {made + 1}]
  /\ tip' = [tip EXCEPT ![b] = made + 1]
  /\ deliveries' = deliveries \cup {<<b, made + 1>>}
  /\ open' = {p \in open : ~(BaseOf[p] = b /\ content[HeadOf[p]] \subseteq content'[b])}
  /\ missed' = {p \in missed : BaseOf[p] # b}
  /\ UNCHANGED known

MergePull(p) ==
  /\ p \in open
  /\ Land(BaseOf[p], content[HeadOf[p]])
  /\ UNCHANGED <<accepted, todo, sign>>

\* No push announces that a new pull request is behind.
OpenPull(p) ==
  /\ p \notin known /\ ~(content[HeadOf[p]] \subseteq content[BaseOf[p]])
  /\ open' = open \cup {p}
  /\ known' = known \cup {p}
  /\ missed' = missed \cup {p}
  /\ UNCHANGED <<refs, deliveries, accepted, todo, sign>>

\* The merge that update-branch was answered 202 for: of what base and head are by
\* now, if there is anything to merge.
CarryOut(p) ==
  /\ p \in accepted
  /\ accepted' = accepted \ {p}
  /\ \/ Behind(p) /\ Land(HeadOf[p], content[BaseOf[p]])
     \/ ~Behind(p) /\ UNCHANGED <<refs, pulls, deliveries>>
  /\ UNCHANGED <<todo, sign>>

\* It conflicts, or the branch may not be written.
DropUpdate(p) ==
  /\ p \in accepted
  /\ accepted' = accepted \ {p}
  /\ missed' = missed \cup {p}
  /\ UNCHANGED <<refs, open, known, deliveries, todo, sign>>

\* A delivery that does not arrive is not sent again; one whose token or list fails is
\* acknowledged and comes to the same.
LoseDelivery(d) ==
  /\ d \in deliveries
  /\ deliveries' = deliveries \ {d}
  /\ missed' = missed \cup Onto(d[1])
  /\ UNCHANGED <<refs, open, known, accepted, todo, sign>>

-----------------------------------------------------------------------------
(* The webhook                                                             *)

\* (mutant: a push that comes while updates to its branch are under way is left to
\* them)
ReceiveUnlessBusy(h) ==
  /\ todo[h] = {}
  /\ \E d \in deliveries :
       /\ deliveries' = deliveries \ {d}
       /\ \E page \in Pages(d[1]) :
            LET busy == \E p \in accepted : BaseOf[p] = d[1] IN
            /\ todo' = [todo EXCEPT ![h] = IF busy THEN {} ELSE page]
            /\ missed' = missed \cup (Onto(d[1]) \ page)
  /\ UNCHANGED <<refs, open, known, accepted, sign>>

\* handlePushEvent up to the list, for a push to a branch that was not deleted: what
\* the handler does before it changes nothing that anyone sees.  A handler with
\* nothing left to update has answered.
Receive(h) ==
  /\ todo[h] = {}
  /\ \E d \in deliveries :
       /\ deliveries' = deliveries \ {d}
       /\ \E page \in Pages(d[1]) :
            /\ todo' = [todo EXCEPT ![h] = page]
            /\ missed' = missed \cup (Onto(d[1]) \ page)
  /\ UNCHANGED <<refs, open, known, accepted, sign>>

\* updatePullRequestBranch: GitHub accepts the update, or answers 422 because there
\* is nothing to do, or refuses; the loop goes on to the next one.
Update(h) ==
  /\ \E p \in todo[h] :
       /\ todo' = [todo EXCEPT ![h] = @ \ {p}]
       /\ \/ Behind(p) /\ accepted' = accepted \cup {p} /\ UNCHANGED missed
          \/ ~Behind(p) /\ UNCHANGED <<accepted, missed>>
          \/ missed' = missed \cup {p} /\ UNCHANGED accepted
  /\ UNCHANGED <<refs, open, known, deliveries, sign>>

\* (mutant: a handler that fails does not acknowledge, and gets the delivery again)
GiveUpUnacknowledged(h) ==
  /\ todo[h] # {}
  /\ deliveries' = deliveries \cup {<<BaseOf[p], tip[BaseOf[p]]>> : p \in todo[h]}
  /\ todo' = [todo EXCEPT ![h] = {}]
  /\ UNCHANGED <<refs, pulls, accepted, sign>>

\* A call that gets no answer throws out of the loop: what is left is not updated,
\* though the call may have been heard.  The delivery is acknowledged all the same.
GiveUp(h) ==
  /\ todo[h] # {}
  /\ missed' = missed \cup todo[h]
  /\ \/ UNCHANGED accepted
     \/ \E p \in todo[h] : Behind(p) /\ accepted' = accepted \cup {p}
  /\ todo' = [todo EXCEPT ![h] = {}]
  /\ UNCHANGED <<refs, open, known, deliveries, sign>>

-----------------------------------------------------------------------------
(* /sign                                                                   *)

\* The client reads the head of its branch, at first and after a failure.
ReadHead(s) ==
  /\ call[s] \in {"idle", "rejected", "failed"} /\ tries[s] < MaxTries
  /\ read' = [read EXCEPT ![s] = tip[AimOf[s]]]
  /\ blind' = [blind EXCEPT ![s] = @ \/ landed[s] # {}]
  /\ call' = [call EXCEPT ![s] = "ready"]
  /\ UNCHANGED <<refs, pulls, deliveries, accepted, todo, strays, tries, landed>>

\* handleSignRequest up to the mutation, for a first call with that head or a repeated
\* one: a refusal before it (no token) is a failure with nothing sent.
Ask(s) ==
  /\ call[s] \in {"ready", "failed"} /\ tries[s] < MaxTries
  /\ tries' = [tries EXCEPT ![s] = @ + 1]
  /\ \E next \in {"asked", "failed"} : call' = [call EXCEPT ![s] = next]
  /\ UNCHANGED <<refs, pulls, deliveries, accepted, todo, read, strays, landed, blind>>

\* (mutant: the mutation is sent with the branch's head instead of the caller's)
MayCommitAnyway(s, head) == TRUE

\* createCommitOnBranch compares the head and commits, in one step.
MayCommit(s, head) == tip[AimOf[s]] = head

Commit(s) ==
  /\ Land(AimOf[s], {})
  /\ landed' = [landed EXCEPT ![s] = @ \cup {made + 1}]

\* createSignedCommitOnBranch: GitHub carries the mutation out, and its answer comes
\* back (200 with the commit, or 422 createcommit_rejected) or does not (502).
Execute(s) ==
  /\ call[s] = "asked"
  /\ \/ /\ MayCommit(s, read[s])
        /\ Commit(s)
        /\ \E next \in {"ok", "failed"} : call' = [call EXCEPT ![s] = next]
     \/ /\ ~MayCommit(s, read[s])
        /\ UNCHANGED <<refs, pulls, deliveries, landed>>
        /\ \E next \in {"rejected", "failed"} : call' = [call EXCEPT ![s] = next]
  /\ UNCHANGED <<accepted, todo, read, strays, tries, blind>>

\* 502 sign_failed or github_graphql_failed before GitHub has carried it out.
LoseCall(s) ==
  /\ call[s] = "asked"
  /\ call' = [call EXCEPT ![s] = "failed"]
  /\ strays' = [strays EXCEPT ![s] = @ \cup {read[s]}]
  /\ UNCHANGED <<refs, pulls, deliveries, accepted, todo, read, tries, landed, blind>>

\* A call that was given up is carried out after all.
ExecuteStray(s) ==
  /\ \E head \in strays[s] :
       /\ strays' = [strays EXCEPT ![s] = @ \ {head}]
       /\ \/ MayCommit(s, head) /\ Commit(s)
          \/ ~MayCommit(s, head) /\ UNCHANGED <<refs, pulls, deliveries, landed>>
  /\ UNCHANGED <<accepted, todo, call, read, tries, blind>>

-----------------------------------------------------------------------------

HandlerNext(h) == Receive(h) \/ Update(h)

ClientNext(s) ==
  ReadHead(s) \/ Ask(s) \/ Execute(s) \/ LoseCall(s) \/ ExecuteStray(s)

Next ==
  \/ \E p \in Pulls : MergePull(p) \/ OpenPull(p) \/ CarryOut(p) \/ DropUpdate(p)
  \/ \E d \in deliveries : LoseDelivery(d)
  \/ \E h \in Handlers : HandlerNext(h) \/ GiveUp(h)
  \/ \E s \in Clients : ClientNext(s)

Spec == Init /\ [][Next]_vars

\* Handlers run on: every call they wait for is answered or fails in the end.
\* GitHub carries out, or drops, what it has accepted.
Fairness ==
  /\ \A h \in Handlers : WF_vars(HandlerNext(h) \/ GiveUp(h))
  /\ \A p \in Pulls : WF_vars(CarryOut(p) \/ DropUpdate(p))

FairSpec == Spec /\ Fairness

-----------------------------------------------------------------------------
(* Properties                                                              *)

\* A change that /sign has committed stays on its branch, whoever merges and updates;
\* and while its caller has not looked past it, no call of that caller, waiting or
\* given up, can commit again: the head it was made with is gone for good.
WritersInv ==
  /\ TypeOK
  /\ \A b \in Branches : tip[b] \in content[b]
  /\ \A s \in Clients :
       /\ call[s] \in {"ready", "asked", "failed"} => read[s] # None
       /\ landed[s] \subseteq content[AimOf[s]]
       /\ landed[s] # {} /\ ~blind[s] =>
            read[s] # tip[AimOf[s]] /\ tip[AimOf[s]] \notin strays[s]
       /\ call[s] = "ok" => landed[s] # {}

\* A change is committed twice only when its caller, after an answer that was lost,
\* read a head that contains it and called again: however late GitHub carries out a
\* call, and whoever else writes the branch, repeating the call with the same head
\* is safe, and so is reading the head and looking for the change in it first.
DuplicatesAreVisible ==
  \A s \in Clients : Cardinality(landed[s]) > 1 => blind[s]

InPipeline(p) ==
  \/ p \in accepted
  \/ \E d \in deliveries : d[1] = BaseOf[p]
  \/ \E h \in Handlers : p \in todo[h]

\* Between a push and the updates it leads to, no pull request is forgotten: one
\* that is behind its base is on its way to be updated, unless its turn was refused,
\* given up, beyond the page or never came -- whatever updates and merges
\* the handlers of earlier events meet.
NothingForgotten ==
  \A p \in Pulls : Behind(p) => InPipeline(p) \/ p \in missed

Quiet == deliveries = {} /\ accepted = {} /\ \A h \in Handlers : todo[h] = {}

\* The updates are and lead to more updates, in circles where pull requests
\* go both ways; when nobody else writes any more they come to an end.
CascadesEnd == <>[]Quiet
=============================================================================
