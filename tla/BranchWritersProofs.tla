-------------------------- MODULE BranchWritersProofs --------------------------
(***************************************************************************)
(* Proofs about BranchWriters, for any branches, pull requests, handlers   *)
(* and callers, any page of the list and any number of tries.              *)
(***************************************************************************)
EXTENDS BranchWriters, FiniteSetTheorems, TLAPS

UpdatesNext ==
  \/ \E p \in Pulls : MergePull(p) \/ OpenPull(p) \/ CarryOut(p) \/ DropUpdate(p)
  \/ \E d \in deliveries : LoseDelivery(d)
  \/ \E h \in Handlers : HandlerNext(h) \/ GiveUp(h)

\* What the callers see of the other steps: their branch may get a new head.
LEMMA UpdatesMoveBranches ==
  ASSUME TypeOK, UpdatesNext
  PROVE  /\ UNCHANGED sign
         /\ \/ UNCHANGED refs
            \/ \E b \in Branches, merged \in SUBSET (1 .. made) : Land(b, merged)
<1> USE WritersAssumption
<1>1. ASSUME NEW p \in Pulls, MergePull(p) \/ CarryOut(p)
      PROVE  /\ UNCHANGED sign
             /\ \/ UNCHANGED refs
                \/ \E b \in Branches, merged \in SUBSET (1 .. made) : Land(b, merged)
  <2>1. HeadOf[p] \in Branches /\ BaseOf[p] \in Branches
    OBVIOUS
  <2>2. content[HeadOf[p]] \in SUBSET (1 .. made) /\ content[BaseOf[p]] \in SUBSET (1 .. made)
    BY <2>1 DEF TypeOK
  <2> QED
    BY <1>1, <2>1, <2>2 DEF MergePull, CarryOut
<1>2. ASSUME NEW p \in Pulls, OpenPull(p) \/ DropUpdate(p)
      PROVE  UNCHANGED <<sign, refs>>
  BY <1>2 DEF OpenPull, DropUpdate
<1>3. ASSUME NEW d \in deliveries, LoseDelivery(d)
      PROVE  UNCHANGED <<sign, refs>>
  BY <1>3 DEF LoseDelivery
<1>4. ASSUME NEW h \in Handlers, HandlerNext(h) \/ GiveUp(h)
      PROVE  UNCHANGED <<sign, refs>>
  BY <1>4 DEF HandlerNext, GiveUp, Receive, Update
<1> QED
  BY <1>1, <1>2, <1>3, <1>4 DEF UpdatesNext

LEMMA Steps ==
  ASSUME [Next]_vars
  PROVE  UNCHANGED vars \/ UpdatesNext \/ \E s \in Clients : ClientNext(s)
  BY DEF Next, UpdatesNext

-----------------------------------------------------------------------------
(* Types                                                                   *)

\* A commit that lands keeps the types of what it changes, and leaves the heads that
\* callers have read among the commits there are.
LEMMA LandTyped ==
  ASSUME TypeOK, NEW b \in Branches, NEW merged \in SUBSET (1 .. made), Land(b, merged)
  PROVE  /\ made' = made + 1 /\ made' \in Nat
         /\ 1 .. made \subseteq 1 .. made' /\ made' \in 1 .. made'
         /\ content' \in [Branches -> SUBSET (1 .. made')]
         /\ tip' \in [Branches -> 1 .. made']
         /\ open' \subseteq known' /\ known' \subseteq Pulls /\ missed' \subseteq Pulls
         /\ deliveries' \subseteq Branches \X (1 .. made')
<1>1. /\ made' = made + 1 /\ made' \in Nat
      /\ 1 .. made \subseteq 1 .. made' /\ made' \in 1 .. made'
  BY DEF Land, TypeOK
<1>2. content' \in [Branches -> SUBSET (1 .. made')]
  <2>1. content' = [content EXCEPT ![b] = content[b] \cup merged \cup {made'}]
    BY DEF Land
  <2>2. content \in [Branches -> SUBSET (1 .. made')]
    BY <1>1 DEF TypeOK
  <2>3. content[b] \cup merged \cup {made'} \in SUBSET (1 .. made')
    BY <1>1, <2>2
  <2> QED
    BY <2>1, <2>2, <2>3
<1>3. tip' \in [Branches -> 1 .. made']
  <2>1. tip \in [Branches -> 1 .. made']
    BY <1>1 DEF TypeOK
  <2>2. tip' = [tip EXCEPT ![b] = made']
    BY DEF Land
  <2> QED
    BY <2>1, <2>2, <1>1
<1>4. deliveries' \subseteq Branches \X (1 .. made')
  <2>1. deliveries \subseteq Branches \X (1 .. made')
    BY <1>1 DEF TypeOK
  <2>2. <<b, made'>> \in Branches \X (1 .. made')
    BY <1>1
  <2> QED
    BY <2>1, <2>2 DEF Land
<1>5. open' \subseteq known' /\ known' \subseteq Pulls /\ missed' \subseteq Pulls
  BY DEF Land, TypeOK
<1> QED
  BY <1>1, <1>2, <1>3, <1>4, <1>5

\* The part of the type that callers have.
SignTyped(n) ==
  /\ call \in [Clients -> Calls]
  /\ read \in [Clients -> {None} \cup 1 .. n]
  /\ strays \in [Clients -> SUBSET (1 .. n)]
  /\ tries \in [Clients -> Nat]
  /\ landed \in [Clients -> SUBSET (1 .. n)]
  /\ blind \in [Clients -> BOOLEAN]

LEMMA SignTypedGrows ==
  ASSUME NEW n, NEW m, 1 .. n \subseteq 1 .. m, SignTyped(n)
  PROVE  SignTyped(m)
  BY DEF SignTyped

\* Updates and merges keep the types.
LEMMA UpdatesTyped ==
  ASSUME TypeOK, UpdatesNext
  PROVE  TypeOK'
<1> USE WritersAssumption
<1>1. UNCHANGED sign
  BY UpdatesMoveBranches
<1>2. accepted' \subseteq Pulls /\ todo' \in [Handlers -> SUBSET Pulls]
  <2>1. ASSUME NEW p \in Pulls, MergePull(p) \/ OpenPull(p) \/ CarryOut(p) \/ DropUpdate(p)
        PROVE  accepted' \subseteq Pulls /\ todo' \in [Handlers -> SUBSET Pulls]
    BY <2>1 DEF TypeOK, MergePull, OpenPull, CarryOut, DropUpdate
  <2>2. ASSUME NEW d \in deliveries, LoseDelivery(d)
        PROVE  accepted' \subseteq Pulls /\ todo' \in [Handlers -> SUBSET Pulls]
    BY <2>2 DEF TypeOK, LoseDelivery
  <2>3. ASSUME NEW h \in Handlers, HandlerNext(h) \/ GiveUp(h)
        PROVE  accepted' \subseteq Pulls /\ todo' \in [Handlers -> SUBSET Pulls]
    <3>1. CASE Receive(h)
      BY <3>1 DEF TypeOK, Receive, Pages, Onto
    <3>2. CASE Update(h)
      BY <3>2 DEF TypeOK, Update, Behind
    <3>3. CASE GiveUp(h)
      BY <3>3 DEF TypeOK, GiveUp, Behind
    <3> QED
      BY <2>3, <3>1, <3>2, <3>3 DEF HandlerNext
  <2> QED
    BY <2>1, <2>2, <2>3 DEF UpdatesNext
<1>3. CASE \E b \in Branches, merged \in SUBSET (1 .. made) : Land(b, merged)
  <2> PICK b \in Branches, merged \in SUBSET (1 .. made) : Land(b, merged)
    BY <1>3
  <2>1. SignTyped(made)
    BY DEF SignTyped, TypeOK
  <2>2. SignTyped(made')
    BY <2>1, SignTypedGrows, LandTyped
  <2> QED
    BY <1>1, <1>2, <2>2, LandTyped DEF TypeOK, SignTyped, sign
<1>4. CASE UNCHANGED refs
  <2>1. ASSUME NEW p \in Pulls, OpenPull(p) \/ DropUpdate(p) \/ CarryOut(p)
        PROVE  /\ open' \subseteq known' /\ known' \subseteq Pulls /\ missed' \subseteq Pulls
               /\ deliveries' \subseteq Branches \X (1 .. made)
    BY <2>1, <1>4 DEF TypeOK, OpenPull, DropUpdate, CarryOut, Land, refs, pulls
  <2>2. ASSUME NEW p \in Pulls, MergePull(p)
        PROVE  FALSE
    BY <2>2, <1>4 DEF MergePull, Land, refs, TypeOK
  <2>3. ASSUME NEW d \in deliveries, LoseDelivery(d)
        PROVE  /\ open' \subseteq known' /\ known' \subseteq Pulls /\ missed' \subseteq Pulls
               /\ deliveries' \subseteq Branches \X (1 .. made)
    BY <2>3 DEF TypeOK, LoseDelivery, Onto
  <2>4. ASSUME NEW h \in Handlers, HandlerNext(h) \/ GiveUp(h)
        PROVE  /\ open' \subseteq known' /\ known' \subseteq Pulls /\ missed' \subseteq Pulls
               /\ deliveries' \subseteq Branches \X (1 .. made)
    <3>1. CASE Receive(h)
      BY <3>1 DEF TypeOK, Receive, Onto
    <3>2. CASE Update(h)
      BY <3>2 DEF TypeOK, Update, Behind
    <3>3. CASE GiveUp(h)
      BY <3>3 DEF TypeOK, GiveUp
    <3> QED
      BY <2>4, <3>1, <3>2, <3>3 DEF HandlerNext
  <2>5. /\ open' \subseteq known' /\ known' \subseteq Pulls /\ missed' \subseteq Pulls
        /\ deliveries' \subseteq Branches \X (1 .. made)
    BY <2>1, <2>2, <2>3, <2>4 DEF UpdatesNext
  <2> QED
    BY <1>1, <1>2, <1>4, <2>5 DEF TypeOK, sign, refs
<1> QED
  BY <1>3, <1>4, UpdatesMoveBranches

\* A commit of a caller's: Land, with nothing merged.
LEMMA CommitLands ==
  ASSUME NEW s \in Clients, Commit(s)
  PROVE  /\ AimOf[s] \in Branches /\ {} \in SUBSET (1 .. made) /\ Land(AimOf[s], {})
         /\ landed' = [landed EXCEPT ![s] = landed[s] \cup {made + 1}]
  BY WritersAssumption DEF Commit

\* Callers keep the types.
LEMMA ClientsTyped ==
  ASSUME TypeOK, NEW s \in Clients, ClientNext(s), call[s] = "asked" => read[s] # None
  PROVE  TypeOK'
<1> USE WritersAssumption
<1>1. CASE ReadHead(s)
  <2>1. AimOf[s] \in Branches /\ tip[AimOf[s]] \in 1 .. made
    BY DEF TypeOK
  <2>2. blind' \in [Clients -> BOOLEAN]
    <3>1. (blind[s] \/ landed[s] # {}) \in BOOLEAN
      OBVIOUS
    <3> QED
      BY <3>1, <1>1 DEF ReadHead, TypeOK
  <2>3. read' \in [Clients -> {None} \cup 1 .. made]
    BY <1>1, <2>1 DEF ReadHead, TypeOK
  <2>4. call' \in [Clients -> Calls]
    BY <1>1 DEF ReadHead, TypeOK, Calls
  <2> QED
    BY <1>1, <2>2, <2>3, <2>4 DEF ReadHead, TypeOK, refs, pulls
<1>2. CASE Ask(s)
  BY <1>2 DEF Ask, TypeOK, Calls, refs, pulls
<1>3. ASSUME Commit(s), UNCHANGED <<accepted, todo, read, tries, blind>>,
             strays' \in [Clients -> SUBSET (1 .. made)], call' \in [Clients -> Calls]
      PROVE  TypeOK'
  <2>1. made' \in 1 .. made' /\ 1 .. made \subseteq 1 .. made' /\ made' = made + 1
    BY <1>3, CommitLands, LandTyped
  <2>2. landed' \in [Clients -> SUBSET (1 .. made')]
    <3>1. landed \in [Clients -> SUBSET (1 .. made')]
      BY <2>1 DEF TypeOK
    <3>2. landed' = [landed EXCEPT ![s] = landed[s] \cup {made'}]
      BY <1>3, <2>1, CommitLands
    <3> QED
      BY <3>1, <3>2, <2>1
  <2>3. /\ strays' \in [Clients -> SUBSET (1 .. made')]
        /\ read' \in [Clients -> {None} \cup 1 .. made']
    BY <1>3, <2>1 DEF TypeOK
  <2>4. /\ made' \in Nat
        /\ content' \in [Branches -> SUBSET (1 .. made')]
        /\ tip' \in [Branches -> 1 .. made']
        /\ open' \subseteq known' /\ known' \subseteq Pulls /\ missed' \subseteq Pulls
        /\ deliveries' \subseteq Branches \X (1 .. made')
    BY <1>3, CommitLands, LandTyped
  <2> QED
    BY <1>3, <2>2, <2>3, <2>4 DEF TypeOK
<1>4. CASE Execute(s)
  <2>1. call' \in [Clients -> Calls] /\ strays' \in [Clients -> SUBSET (1 .. made)]
    BY <1>4 DEF Execute, TypeOK, Calls
  <2>2. CASE Commit(s)
    BY <2>1, <2>2, <1>3, <1>4 DEF Execute
  <2>3. CASE UNCHANGED <<refs, pulls, deliveries, landed>>
    BY <2>1, <2>3, <1>4 DEF Execute, TypeOK, refs, pulls
  <2> QED
    BY <1>4, <2>2, <2>3 DEF Execute
<1>5. CASE LoseCall(s)
  <2>1. strays[s] \cup {read[s]} \in SUBSET (1 .. made)
    BY <1>5 DEF LoseCall, TypeOK
  <2>2. strays' \in [Clients -> SUBSET (1 .. made)] /\ call' \in [Clients -> Calls]
    BY <1>5, <2>1 DEF LoseCall, TypeOK, Calls
  <2> QED
    BY <1>5, <2>2 DEF LoseCall, TypeOK, refs, pulls
<1>6. CASE ExecuteStray(s)
  <2>1. call' \in [Clients -> Calls] /\ strays' \in [Clients -> SUBSET (1 .. made)]
    BY <1>6 DEF ExecuteStray, TypeOK
  <2>2. CASE Commit(s)
    BY <2>1, <2>2, <1>3, <1>6 DEF ExecuteStray
  <2>3. CASE UNCHANGED <<refs, pulls, deliveries, landed>>
    BY <2>1, <2>3, <1>6 DEF ExecuteStray, TypeOK, refs, pulls
  <2> QED
    BY <1>6, <2>2, <2>3 DEF ExecuteStray
<1> QED
  BY <1>1, <1>2, <1>4, <1>5, <1>6 DEF ClientNext

-----------------------------------------------------------------------------
(* Callers and their branch                                                *)

\* What a caller knows is about its own branch; WritersInv without the types.
Caller(s) ==
  /\ call[s] \in {"ready", "asked", "failed"} => read[s] # None
  /\ landed[s] \subseteq content[AimOf[s]]
  /\ landed[s] # {} /\ ~blind[s] =>
       read[s] # tip[AimOf[s]] /\ tip[AimOf[s]] \notin strays[s]
  /\ call[s] = "ok" => landed[s] # {}

Tips == \A b \in Branches : tip[b] \in content[b]

LEMMA WritersParts ==
  WritersInv <=> TypeOK /\ Tips /\ \A s \in Clients : Caller(s)
  BY DEF WritersInv, Tips, Caller

LEMMA LandKeepsTips ==
  ASSUME TypeOK, Tips, NEW b \in Branches, NEW merged \in SUBSET (1 .. made), Land(b, merged)
  PROVE  /\ Tips'
         /\ \A x \in Branches : content[x] \subseteq content'[x]
         /\ tip'[b] = made + 1 /\ made + 1 \in content'[b]
         /\ \A x \in Branches \ {b} : tip'[x] = tip[x]
  BY DEF Land, Tips, TypeOK

\* Whoever else makes a commit on whatever branch, a caller's knowledge stays true.
LEMMA LandKeepsCaller ==
  ASSUME TypeOK, Tips, NEW b \in Branches, NEW merged \in SUBSET (1 .. made), Land(b, merged),
         NEW s \in Clients, Caller(s),
         call'[s] = call[s], read'[s] = read[s], strays'[s] = strays[s],
         landed'[s] = landed[s], blind'[s] = blind[s]
  PROVE  Caller(s)'
<1>1. AimOf[s] \in Branches
  BY WritersAssumption
<1>2. landed'[s] \subseteq content'[AimOf[s]]
  BY <1>1, LandKeepsTips DEF Caller
<1>3. landed'[s] # {} /\ ~blind'[s] =>
        read'[s] # tip'[AimOf[s]] /\ tip'[AimOf[s]] \notin strays'[s]
  <2>1. read[s] # made + 1 /\ made + 1 \notin strays[s]
    BY WritersAssumption DEF TypeOK
  <2> QED
    BY <1>1, <2>1, LandKeepsTips DEF Caller
<1> QED
  BY <1>2, <1>3 DEF Caller

\* A caller's commit: it is the first, or the caller has gone on blindly.
LEMMA CommitKeepsCaller ==
  ASSUME TypeOK, Tips, NEW s \in Clients, Caller(s), Commit(s),
         read'[s] = read[s], strays'[s] \subseteq strays[s], blind'[s] = blind[s],
         call'[s] = "ok" \/ (call'[s] = "failed" /\ read[s] # None) \/ call'[s] = call[s]
  PROVE  Caller(s)'
<1>1. AimOf[s] \in Branches
  BY WritersAssumption
<1>2. landed'[s] = landed[s] \cup {made + 1}
  BY CommitLands DEF TypeOK
<1>3. /\ content[AimOf[s]] \subseteq content'[AimOf[s]]
      /\ tip'[AimOf[s]] = made + 1 /\ made + 1 \in content'[AimOf[s]]
  BY <1>1, CommitLands, LandKeepsTips
<1>4. landed'[s] \subseteq content'[AimOf[s]] /\ landed'[s] # {}
  BY <1>2, <1>3 DEF Caller
<1>5. read'[s] # tip'[AimOf[s]] /\ tip'[AimOf[s]] \notin strays'[s]
  BY <1>3, WritersAssumption DEF TypeOK
<1>6. call'[s] \in {"ready", "asked", "failed"} => read'[s] # None
  BY DEF Caller
<1> QED
  BY <1>4, <1>5, <1>6 DEF Caller

LEMMA InitWriters ==
  ASSUME Init
  PROVE  WritersInv
<1> USE WritersAssumption
<1>1. \A b \in Branches : tip[b] \in Held[b]
  BY DEF Init
<1>2. content \in [Branches -> SUBSET (1 .. made)] /\ tip \in [Branches -> 1 .. made]
  BY <1>1 DEF Init
<1>3. TypeOK
  BY <1>2 DEF Init, TypeOK, Calls
<1>4. Tips
  BY <1>1 DEF Init, Tips
<1>5. ASSUME NEW s \in Clients PROVE Caller(s)
  BY DEF Init, Caller
<1> QED
  BY <1>3, <1>4, <1>5, WritersParts

\* Another caller's step leaves a caller alone.
LEMMA OthersKeepCaller ==
  ASSUME WritersInv, NEW s \in Clients, ClientNext(s), NEW r \in Clients, r # s
  PROVE  Caller(r)'
<1>1. /\ TypeOK /\ Tips /\ Caller(r) /\ AimOf[r] \in Branches
  BY WritersParts, WritersAssumption
<1>2. /\ call'[r] = call[r] /\ read'[r] = read[r] /\ strays'[r] = strays[r]
      /\ blind'[r] = blind[r]
  BY <1>1 DEF ClientNext, ReadHead, Ask, Execute, LoseCall, ExecuteStray, TypeOK
<1>3. CASE Commit(s)
  <2>1. landed'[r] = landed[r]
    BY <1>1, <1>3, CommitLands DEF TypeOK
  <2> QED
    BY <1>1, <1>2, <1>3, <2>1, CommitLands, LandKeepsCaller
<1>4. CASE UNCHANGED <<refs, landed>>
  BY <1>1, <1>2, <1>4 DEF Caller, refs
<1> QED
  BY <1>3, <1>4 DEF ClientNext, ReadHead, Ask, Execute, LoseCall, ExecuteStray

\* A caller's own step.
LEMMA OwnStepKeepsCaller ==
  ASSUME WritersInv, NEW s \in Clients, ClientNext(s)
  PROVE  Caller(s)'
<1>1. TypeOK /\ Tips /\ Caller(s) /\ AimOf[s] \in Branches /\ tip[AimOf[s]] \in 1 .. made
  BY WritersParts, WritersAssumption DEF TypeOK
<1>2. CASE ReadHead(s)
  <2>1. /\ call'[s] = "ready" /\ read'[s] = tip[AimOf[s]] /\ read'[s] # None
        /\ landed' = landed /\ content' = content
    BY <1>1, <1>2, WritersAssumption DEF ReadHead, TypeOK, refs
  <2>2. /\ blind \in [Clients -> BOOLEAN]
        /\ blind' = [blind EXCEPT ![s] = blind[s] \/ landed[s] # {}]
    BY <1>1, <1>2 DEF ReadHead, TypeOK
  <2>3. ~(landed'[s] # {} /\ ~blind'[s])
    BY <2>1, <2>2, Zenon
  <2>4. landed'[s] \subseteq content'[AimOf[s]]
    BY <1>1, <2>1 DEF Caller
  <2> QED
    BY <2>1, <2>3, <2>4 DEF Caller
<1>3. CASE Ask(s)
  BY <1>1, <1>3 DEF Ask, TypeOK, refs, Caller
<1>4. CASE Execute(s)
  <2>1. CASE Commit(s) /\ \E next \in {"ok", "failed"} : call' = [call EXCEPT ![s] = next]
    <3>1. read[s] # None /\ (call'[s] = "ok" \/ call'[s] = "failed")
      BY <1>1, <1>4, <2>1 DEF Execute, Caller, TypeOK
    <3> QED
      BY <1>1, <1>4, <2>1, <3>1, CommitKeepsCaller DEF Execute
  <2>2. CASE UNCHANGED <<refs, pulls, deliveries, landed>> /\ call'[s] \in {"rejected", "failed"}
    BY <1>1, <1>4, <2>2 DEF Execute, refs, Caller
  <2> QED
    BY <1>1, <1>4, <2>1, <2>2 DEF Execute, TypeOK
<1>5. CASE LoseCall(s)
  <2>1. call'[s] = "failed" /\ strays'[s] = strays[s] \cup {read[s]}
    BY <1>1, <1>5 DEF LoseCall, TypeOK
  <2>2. read' = read /\ landed' = landed /\ blind' = blind /\ UNCHANGED refs
    BY <1>5 DEF LoseCall
  <2>3. call[s] = "asked"
    BY <1>5 DEF LoseCall
  <2> QED
    BY <1>1, <2>1, <2>2, <2>3 DEF refs, Caller
<1>6. CASE ExecuteStray(s)
  <2>1. strays'[s] \subseteq strays[s]
    BY <1>1, <1>6 DEF ExecuteStray, TypeOK
  <2>2. CASE Commit(s)
    BY <1>1, <1>6, <2>1, <2>2, CommitKeepsCaller DEF ExecuteStray
  <2>3. CASE UNCHANGED <<refs, pulls, deliveries, landed>>
    BY <1>1, <1>6, <2>1, <2>3 DEF ExecuteStray, refs, Caller
  <2> QED
    BY <1>6, <2>2, <2>3 DEF ExecuteStray
<1> QED
  BY <1>2, <1>3, <1>4, <1>5, <1>6 DEF ClientNext

LEMMA StepKeepsWriters ==
  ASSUME WritersInv, [Next]_vars
  PROVE  WritersInv'
<1>1. TypeOK /\ Tips /\ \A s \in Clients : Caller(s)
  BY WritersParts
<1>2. CASE UNCHANGED vars
  BY <1>2 DEF WritersInv, TypeOK, vars, refs, pulls, sign
<1>3. CASE UpdatesNext
  <2>1. UNCHANGED sign
    BY <1>1, <1>3, UpdatesMoveBranches
  <2>2. CASE UNCHANGED refs
    <3>1. Tips' /\ \A s \in Clients : Caller(s)'
      BY <1>1, <2>1, <2>2 DEF Tips, Caller, refs, sign
    <3> QED
      BY <1>1, <1>3, <3>1, UpdatesTyped DEF WritersInv, Tips, Caller
  <2>3. CASE \E b \in Branches, merged \in SUBSET (1 .. made) : Land(b, merged)
    <3> PICK b \in Branches, merged \in SUBSET (1 .. made) : Land(b, merged)
      BY <2>3
    <3>1. Tips'
      BY <1>1, LandKeepsTips
    <3>2. ASSUME NEW s \in Clients PROVE Caller(s)'
      BY <1>1, <2>1, LandKeepsCaller DEF sign
    <3> QED
      BY <1>1, <1>3, <3>1, <3>2, UpdatesTyped DEF WritersInv, Tips, Caller
  <2> QED
    BY <1>1, <1>3, <2>2, <2>3, UpdatesMoveBranches
<1>4. ASSUME NEW s \in Clients, ClientNext(s) PROVE WritersInv'
  <2>1. TypeOK'
    BY <1>1, <1>4, ClientsTyped DEF Caller
  <2>2. Tips'
    <3>1. CASE Commit(s)
      BY <1>1, <3>1, CommitLands, LandKeepsTips
    <3>2. CASE UNCHANGED refs
      BY <1>1, <3>2 DEF Tips, refs
    <3> QED
      BY <1>4, <3>1, <3>2 DEF ClientNext, ReadHead, Ask, Execute, LoseCall, ExecuteStray
  <2>3. ASSUME NEW r \in Clients PROVE Caller(r)'
    BY <1>4, OthersKeepCaller, OwnStepKeepsCaller
  <2> QED
    BY <2>1, <2>2, <2>3 DEF WritersInv, Tips, Caller
<1> QED
  BY <1>2, <1>3, <1>4, Steps

\* Callers, handlers and merges keep WritersInv (types, the heads of the branches, and
\* what each caller knows of its own): a change that /sign has committed stays on its
\* branch, and no outstanding call of an attentive caller can commit it again.
THEOREM WritersInvariant == Spec => []WritersInv
<1> QED
  BY InitWriters, StepKeepsWriters, PTL DEF Spec

-----------------------------------------------------------------------------
(* No duplicate unseen                                                     *)

OnceUnlessBlind == \A s \in Clients : blind[s] \/ \E c \in Nat : landed[s] \subseteq {c}

LEMMA StepKeepsOnce ==
  ASSUME WritersInv, OnceUnlessBlind, [Next]_vars
  PROVE  OnceUnlessBlind'
<1>1. TypeOK /\ \A s \in Clients : Caller(s)
  BY WritersParts
<1>2. ASSUME NEW s \in Clients, ClientNext(s), NEW r \in Clients
      PROVE  (blind[r] \/ \E c \in Nat : landed[r] \subseteq {c})'
  <2>1. blind[r] \/ \E c \in Nat : landed[r] \subseteq {c}
    BY DEF OnceUnlessBlind
  <2>2. blind[r] => blind'[r]
    BY <1>1, <1>2 DEF ClientNext, ReadHead, Ask, Execute, LoseCall, ExecuteStray, TypeOK
  <2>3. CASE landed'[r] = landed[r]
    BY <2>1, <2>2, <2>3
  <2>4. CASE Commit(s) /\ r = s /\ ~blind[s]
    <3>1. MayCommit(s, read[s]) \/ \E head \in strays[s] : MayCommit(s, head)
      <4>1. CASE Execute(s)
        BY <4>1, <2>4, <1>1, CommitLands DEF Execute, refs, TypeOK, Land
      <4>2. CASE ExecuteStray(s)
        BY <4>2, <2>4, <1>1, CommitLands DEF ExecuteStray, refs, TypeOK, Land
      <4>3. CASE UNCHANGED refs
        BY <4>3, <2>4, <1>1, CommitLands DEF refs, TypeOK, Land
      <4> QED
        BY <1>2, <4>1, <4>2, <4>3 DEF ClientNext, ReadHead, Ask, LoseCall
    <3>2. landed[s] = {}
      BY <1>1, <2>4, <3>1 DEF MayCommit, Caller
    <3>3. landed'[s] = {made + 1} /\ made + 1 \in Nat
      BY <1>1, <2>4, <3>2, CommitLands DEF TypeOK
    <3> QED
      BY <2>4, <3>3
  <2>5. landed'[r] = landed[r] \/ (Commit(s) /\ r = s)
    <3>1. CASE Commit(s)
      BY <1>1, <3>1, CommitLands DEF TypeOK
    <3>2. CASE UNCHANGED landed
      BY <3>2
    <3> QED
      BY <1>2, <3>1, <3>2 DEF ClientNext, ReadHead, Ask, Execute, LoseCall, ExecuteStray
  <2> QED
    BY <2>1, <2>2, <2>3, <2>4, <2>5
<1>3. CASE UNCHANGED vars
  BY <1>3 DEF OnceUnlessBlind, vars, sign
<1>4. CASE UpdatesNext
  BY <1>1, <1>4, UpdatesMoveBranches DEF OnceUnlessBlind, sign
<1> QED
  BY <1>2, <1>3, <1>4, Steps DEF OnceUnlessBlind

\* A change that is on its branch twice is one whose caller called again from a head
\* that contained it: retrying a lost answer of /sign with the same head is safe,
\* however late GitHub carries a call out.
THEOREM NoDuplicateUnseen == Spec => []DuplicatesAreVisible
<1>1. Init => OnceUnlessBlind
  BY DEF Init, OnceUnlessBlind
<1>2. OnceUnlessBlind => DuplicatesAreVisible
  <2> SUFFICES ASSUME OnceUnlessBlind, NEW s \in Clients, ~blind[s]
               PROVE  ~(Cardinality(landed[s]) > 1)
    BY DEF DuplicatesAreVisible
  <2>1. PICK c \in Nat : landed[s] \subseteq {c}
    BY DEF OnceUnlessBlind
  <2>2. IsFiniteSet({c}) /\ Cardinality({c}) = 1
    BY FS_Singleton
  <2>3. IsFiniteSet(landed[s]) /\ Cardinality(landed[s]) <= 1
    BY <2>1, <2>2, FS_Subset
  <2>4. Cardinality(landed[s]) \in Nat
    BY <2>3, FS_CardinalityType
  <2> QED
    BY <2>3, <2>4
<1> QED
  BY <1>1, <1>2, StepKeepsOnce, WritersInvariant, PTL DEF Spec

-----------------------------------------------------------------------------
(* No pull request forgotten                                               *)

Remembered(p) == Behind(p) => InPipeline(p) \/ p \in missed

\* A commit on a branch announces itself to the pull requests onto it and puts none
\* onto another branch further behind.
LEMMA LandRemembers ==
  ASSUME TypeOK, NEW b \in Branches, NEW merged \in SUBSET (1 .. made), Land(b, merged),
         NEW p \in Pulls, Remembered(p), p \in accepted => p \in accepted', todo' = todo
  PROVE  Remembered(p)'
<1> USE WritersAssumption
<1>1. CASE BaseOf[p] = b
  <2>1. <<b, made + 1>> \in deliveries'
    BY DEF Land
  <2> QED
    BY <1>1, <2>1 DEF Remembered, InPipeline
<1>2. CASE BaseOf[p] # b
  <2>1. HeadOf[p] \in Branches /\ BaseOf[p] \in Branches
    OBVIOUS
  <2>2. tip'[BaseOf[p]] = tip[BaseOf[p]] /\ content[HeadOf[p]] \subseteq content'[HeadOf[p]]
    BY <1>2, <2>1 DEF Land, TypeOK
  <2>3. Behind(p)' => Behind(p)
    BY <2>2 DEF Behind, Land
  <2>4. deliveries \subseteq deliveries' /\ (p \in missed => p \in missed')
    BY <1>2 DEF Land
  <2> QED
    BY <2>3, <2>4 DEF Remembered, InPipeline
<1> QED
  BY <1>1, <1>2

LEMMA UpdatesRemember ==
  ASSUME WritersInv, NothingForgotten, UpdatesNext, NEW p \in Pulls
  PROVE  Remembered(p)'
<1> USE WritersAssumption
<1>1. TypeOK /\ Tips /\ Remembered(p)
  BY WritersParts DEF NothingForgotten, Remembered
<1>2. ASSUME NEW q \in Pulls, MergePull(q) PROVE Remembered(p)'
  <2>1. BaseOf[q] \in Branches /\ content[HeadOf[q]] \in SUBSET (1 .. made)
    BY <1>1 DEF TypeOK
  <2> QED
    BY <1>1, <1>2, <2>1, LandRemembers DEF MergePull
<1>3. ASSUME NEW q \in Pulls, OpenPull(q) PROVE Remembered(p)'
  BY <1>1, <1>3 DEF OpenPull, Remembered, Behind, InPipeline, refs
<1>4. ASSUME NEW q \in Pulls, CarryOut(q) PROVE Remembered(p)'
  <2>0. HeadOf[q] \in Branches /\ BaseOf[q] \in Branches /\ HeadOf[q] # BaseOf[q]
    OBVIOUS
  <2>1. CASE Behind(q) /\ Land(HeadOf[q], content[BaseOf[q]])
    <3>1. content[BaseOf[q]] \in SUBSET (1 .. made)
      BY <1>1, <2>0 DEF TypeOK
    <3>2. CASE p # q
      BY <1>1, <1>4, <2>0, <2>1, <3>1, <3>2, LandRemembers DEF CarryOut
    <3>3. CASE p = q
      <4>1. tip'[BaseOf[q]] = tip[BaseOf[q]] /\ tip[BaseOf[q]] \in content[BaseOf[q]]
        BY <1>1, <2>0, <2>1 DEF Land, TypeOK, Tips
      <4>2. content[BaseOf[q]] \subseteq content'[HeadOf[q]]
        BY <1>1, <2>0, <2>1 DEF Land, TypeOK
      <4> QED
        BY <3>3, <4>1, <4>2 DEF Remembered, Behind
    <3> QED
      BY <3>2, <3>3
  <2>2. CASE ~Behind(q) /\ UNCHANGED <<refs, pulls, deliveries>>
    BY <1>1, <1>4, <2>2 DEF CarryOut, Remembered, Behind, InPipeline, refs, pulls
  <2> QED
    BY <1>4, <2>1, <2>2 DEF CarryOut
<1>5. ASSUME NEW q \in Pulls, DropUpdate(q) PROVE Remembered(p)'
  BY <1>1, <1>5 DEF DropUpdate, Remembered, Behind, InPipeline, refs
<1>6. ASSUME NEW d \in deliveries, LoseDelivery(d) PROVE Remembered(p)'
  BY <1>1, <1>6 DEF LoseDelivery, Remembered, Behind, InPipeline, Onto, refs
<1>7. ASSUME NEW h \in Handlers, Receive(h) PROVE Remembered(p)'
  <2>1. PICK d \in deliveries :
          /\ deliveries' = deliveries \ {d}
          /\ \E page \in Pages(d[1]) :
               /\ todo' = [todo EXCEPT ![h] = page]
               /\ missed' = missed \cup (Onto(d[1]) \ page)
    BY <1>7 DEF Receive
  <2>2. PICK page \in Pages(d[1]) :
          /\ todo' = [todo EXCEPT ![h] = page]
          /\ missed' = missed \cup (Onto(d[1]) \ page)
    BY <2>1
  <2>3. todo'[h] = page /\ \A g \in Handlers : g # h => todo'[g] = todo[g]
    BY <1>1, <2>2 DEF TypeOK
  <2>4. todo[h] = {} /\ UNCHANGED <<refs, open, accepted>>
    BY <1>7 DEF Receive
  <2>5. Behind(p)' => Behind(p)
    BY <2>4 DEF Behind, refs
  <2>6. CASE BaseOf[p] = d[1]
    <3>1. Behind(p) => p \in page \/ p \in missed'
      BY <2>2, <2>6 DEF Behind, Onto
    <3> QED
      BY <2>3, <2>5, <3>1 DEF Remembered, InPipeline
  <2>7. CASE BaseOf[p] # d[1]
    <3>1. InPipeline(p) => InPipeline(p)'
      BY <2>1, <2>3, <2>4, <2>7 DEF InPipeline
    <3> QED
      BY <1>1, <2>2, <2>5, <3>1 DEF Remembered
  <2> QED
    BY <2>6, <2>7
<1>8. ASSUME NEW h \in Handlers, Update(h) PROVE Remembered(p)'
  <2>1. PICK q \in todo[h] :
          /\ todo' = [todo EXCEPT ![h] = @ \ {q}]
          /\ \/ Behind(q) /\ accepted' = accepted \cup {q} /\ UNCHANGED missed
             \/ ~Behind(q) /\ UNCHANGED <<accepted, missed>>
             \/ missed' = missed \cup {q} /\ UNCHANGED accepted
    BY <1>8 DEF Update
  <2>2. Behind(p)' <=> Behind(p)
    BY <1>8 DEF Update, Behind, refs
  <2>3. \A g \in Handlers : p \in todo[g] => p \in todo'[g] \/ p = q
    BY <1>1, <2>1 DEF TypeOK
  <2>4. deliveries' = deliveries /\ accepted \subseteq accepted' /\ missed \subseteq missed'
    BY <1>8, <2>1 DEF Update
  <2> QED
    BY <1>1, <2>1, <2>2, <2>3, <2>4 DEF Remembered, InPipeline
<1>9. ASSUME NEW h \in Handlers, GiveUp(h) PROVE Remembered(p)'
  <2>1. Behind(p)' <=> Behind(p)
    BY <1>9 DEF GiveUp, Behind, refs
  <2>2. \A g \in Handlers : p \in todo[g] => p \in todo'[g] \/ p \in todo[h]
    BY <1>1, <1>9 DEF GiveUp, TypeOK
  <2>3. /\ deliveries' = deliveries /\ accepted \subseteq accepted'
        /\ missed' = missed \cup todo[h]
    BY <1>9 DEF GiveUp
  <2> QED
    BY <1>1, <2>1, <2>2, <2>3 DEF Remembered, InPipeline
<1> QED
  BY <1>2, <1>3, <1>4, <1>5, <1>6, <1>7, <1>8, <1>9 DEF UpdatesNext, HandlerNext

LEMMA ClientsRemember ==
  ASSUME WritersInv, NothingForgotten, NEW s \in Clients, ClientNext(s), NEW p \in Pulls
  PROVE  Remembered(p)'
<1>1. TypeOK /\ Remembered(p)
  BY WritersParts DEF NothingForgotten, Remembered
<1>2. UNCHANGED <<accepted, todo>>
  BY DEF ClientNext, ReadHead, Ask, Execute, LoseCall, ExecuteStray
<1>3. CASE Commit(s)
  BY <1>1, <1>2, <1>3, CommitLands, LandRemembers
<1>4. CASE UNCHANGED <<refs, pulls, deliveries>>
  BY <1>1, <1>2, <1>4 DEF Remembered, Behind, InPipeline, refs, pulls
<1> QED
  BY <1>3, <1>4 DEF ClientNext, ReadHead, Ask, Execute, LoseCall, ExecuteStray

\* However pushes, merges, updates and failing handlers interleave, a pull request
\* that is behind its base is on its way to be updated or was visibly passed over.
THEOREM NoPullForgotten == Spec => []NothingForgotten
<1>1. Init => NothingForgotten
  BY DEF Init, NothingForgotten, Behind
<1>2. ASSUME WritersInv, NothingForgotten, [Next]_vars PROVE NothingForgotten'
  <2>1. CASE UNCHANGED vars
    BY <1>2, <2>1 DEF NothingForgotten, Behind, InPipeline, vars, refs, pulls
  <2>2. CASE UpdatesNext
    BY <1>2, <2>2, UpdatesRemember DEF NothingForgotten, Remembered
  <2>3. CASE \E s \in Clients : ClientNext(s)
    BY <1>2, <2>3, ClientsRemember DEF NothingForgotten, Remembered
  <2> QED
    BY <1>2, <2>1, <2>2, <2>3, Steps
<1> QED
  BY <1>1, <1>2, WritersInvariant, PTL DEF Spec
=============================================================================
