-------------------------- MODULE SigningKeysProofs --------------------------
(***************************************************************************)
(* Proofs about SigningKeys, for any number of environments and keys and   *)
(* any intervals.                                                          *)
(***************************************************************************)
EXTENDS SigningKeys, TLAPS

\* The actions that leave the issuer's keys and the clock alone.
RequestStep(e) ==
  \/ Recycle(e) \/ Receive(e) \/ Resolve(e) \/ Fetch(e) \/ Reload(e)
  \/ FetchFails(e) \/ Rescue(e)

\* Every step but those of the surroundings is a request's.
LEMMA Steps ==
  ASSUME [Next]_vars
  PROVE  \/ UNCHANGED vars
         \/ Tick \/ Replicate
         \/ \E k \in Kids : PublishKey(k) \/ RetireKey(k)
         \/ \E e \in Environments : RequestStep(e)
  BY DEF Next, RequestStep

\* A request neither takes time nor touches the issuer.
LEMMA RequestsLeaveIssuer ==
  ASSUME NEW e \in Environments, RequestStep(e)
  PROVE  UNCHANGED <<now, published, since, gone>>
  BY DEF RequestStep, Recycle, Receive, Resolve, Fetch, Reload, FetchFails, Rescue, issuer

-----------------------------------------------------------------------------
(* Types                                                                   *)

\* Only surroundings: the types of clock, issuer and table replicas.
LEMMA SurroundingsTyped ==
  ASSUME TypeOK, Tick \/ Replicate \/ \E k \in Kids : PublishKey(k) \/ RetireKey(k)
  PROVE  TypeOK'
  BY DEF TypeOK, Tick, Replicate, PublishKey, RetireKey, issuer, memory, table

\* Answering or moving on keeps the types of the request.
LEMMA RequestTyped ==
  ASSUME TypeOK, NEW e \in Environments,
         \/ \E step \in Waiting : Goto(e, step)
         \/ \E verdict \in Verdicts : Answer(e, verdict)
  PROVE  /\ token' \in [Environments -> Tokens \cup {None}]
         /\ pc' \in [Environments -> {"idle"} \cup Waiting \cup Verdicts]
  BY DEF TypeOK, Goto, Answer

\* Verification writes well-typed snapshots and times.
LEMMA VerifyTyped ==
  ASSUME TypeOK, NEW e \in Environments, NEW entry \in KeySets, Verify(e, entry)
  PROVE  /\ snapshot' \in KeySets \cup {None}
         /\ written' \in [Environments -> Nat \cup {None}]
         /\ token' \in [Environments -> Tokens \cup {None}]
         /\ pc' \in [Environments -> {"idle"} \cup Waiting \cup Verdicts]
<1>1. \E verdict \in Verdicts : Answer(e, verdict)
  BY DEF Verify, Verdicts
<1>2. [keys |-> entry.keys, at |-> now] \in KeySets
  BY DEF TypeOK, KeySets
<1>3. snapshot' \in KeySets \cup {None} /\ written' \in [Environments -> Nat \cup {None}]
  BY <1>2 DEF TypeOK, Verify, Save
<1> QED
  BY <1>1, <1>3, RequestTyped

\* So does the lookup before it, which may also arm the throttle.
LEMMA SelectTyped ==
  ASSUME TypeOK, NEW e \in Environments, NEW entry \in KeySets, Select(e, entry)
  PROVE  /\ snapshot' \in KeySets \cup {None}
         /\ written' \in [Environments -> Nat \cup {None}]
         /\ forced' \in [Environments -> Nat \cup {None}]
         /\ token' \in [Environments -> Tokens \cup {None}]
         /\ pc' \in [Environments -> {"idle"} \cup Waiting \cup Verdicts]
<1>1. CASE token[e].kid \in entry.keys
  BY <1>1, VerifyTyped DEF TypeOK, Select
<1>2. CASE token[e].kid \notin entry.keys
  <2>1. Goto(e, "reload") \/ Answer(e, "401")
    BY <1>2 DEF Select
  <2>2. UNCHANGED <<snapshot, written>> /\ forced' \in [Environments -> Nat \cup {None}]
    BY <1>2 DEF Select, TypeOK
  <2> QED
    BY <2>1, <2>2, RequestTyped DEF TypeOK, Waiting, Verdicts
<1> QED
  BY <1>1, <1>2

\* What a fetch brings is a key set.
LEMMA FetchedTyped ==
  ASSUME TypeOK
  PROVE  Fetched \in KeySets
  BY DEF TypeOK, Fetched, KeySets

\* Storing it keeps the types of the memory.
LEMMA StoreTyped ==
  ASSUME TypeOK, NEW e \in Environments, Store(e)
  PROVE  /\ cache' \in [Environments -> KeySets \cup {None}]
         /\ earlier' \in [Environments -> Nat \cup {None}]
<1>1. cache[e] # None => cache[e].at \in Nat
  BY DEF TypeOK, KeySets
<1> QED
  BY <1>1, FetchedTyped DEF Store, TypeOK

\* A request keeps the types.
LEMMA RequestStepTyped ==
  ASSUME TypeOK, NEW e \in Environments, RequestStep(e)
  PROVE  TypeOK'
<1>1. CASE Recycle(e)
  BY <1>1 DEF Recycle, TypeOK, issuer, table
<1>2. CASE Receive(e)
  BY <1>2 DEF Receive, TypeOK, issuer, memory, table, Waiting
<1>3. CASE Resolve(e)
  <2>1. CASE Cached(e) /\ Select(e, cache[e])
    <3>1. cache[e] \in KeySets
      BY <2>1 DEF Cached, TypeOK
    <3> QED
      BY <1>3, <2>1, <3>1, SelectTyped DEF Resolve, TypeOK, issuer
  <2>2. CASE Goto(e, "fetch") /\ UNCHANGED <<forced, written, snapshot>>
    <3>1. \E step \in Waiting : Goto(e, step)
      BY <2>2 DEF Waiting
    <3> QED
      BY <1>3, <2>2, <3>1, RequestTyped DEF Resolve, TypeOK, issuer
  <2> QED
    BY <1>3, <2>1, <2>2 DEF Resolve
<1>4. CASE Fetch(e)
  <2>1. /\ cache' \in [Environments -> KeySets \cup {None}]
        /\ earlier' \in [Environments -> Nat \cup {None}]
    BY <1>4, StoreTyped DEF Fetch
  <2> QED
    BY <1>4, <2>1, FetchedTyped, SelectTyped DEF Fetch, TypeOK, issuer
<1>5. CASE Reload(e)
  <2>1. /\ cache' \in [Environments -> KeySets \cup {None}]
        /\ earlier' \in [Environments -> Nat \cup {None}]
    BY <1>5, StoreTyped DEF Reload
  <2>2. CASE Verify(e, Fetched)
    BY <1>5, <2>1, <2>2, FetchedTyped, VerifyTyped DEF Reload, TypeOK, issuer
  <2>3. CASE Answer(e, "401") /\ UNCHANGED <<snapshot, written>>
    <3>1. \E verdict \in Verdicts : Answer(e, verdict)
      BY <2>3 DEF Verdicts
    <3> QED
      BY <1>5, <2>1, <2>3, <3>1, RequestTyped DEF Reload, TypeOK, issuer
  <2> QED
    BY <1>5, <2>2, <2>3 DEF Reload
<1>6. CASE FetchFails(e)
  <2>1. \E step \in Waiting : Goto(e, step)
    BY <1>6 DEF FetchFails, Waiting
  <2> QED
    BY <1>6, <2>1, RequestTyped DEF FetchFails, TypeOK, issuer, memory, table
<1>7. CASE Rescue(e)
  <2>1. \E verdict \in Verdicts : Answer(e, verdict)
    BY <1>7 DEF Rescue, Verdicts
  <2> QED
    BY <1>7, <2>1, RequestTyped DEF Rescue, TypeOK, issuer, memory, table
<1> QED
  BY <1>1, <1>2, <1>3, <1>4, <1>5, <1>6, <1>7 DEF RequestStep

\* Every step keeps the types.
LEMMA TypeOKStep == TypeOK /\ [Next]_vars => TypeOK'
<1> SUFFICES ASSUME TypeOK, [Next]_vars PROVE TypeOK'
  OBVIOUS
<1>1. CASE UNCHANGED vars
  BY <1>1 DEF vars, TypeOK, issuer, memory, table
<1> QED
  BY <1>1, Steps, SurroundingsTyped, RequestStepTyped

-----------------------------------------------------------------------------
(* What key sets say of the keys                                           *)

\* The times at which keys were last served are times, and only move forward.
LEMMA LastPublishedGrows ==
  ASSUME KeysInv, [Next]_vars, NEW k \in Kids, LastPublished(k) # None
  PROVE  /\ LastPublished(k) \in Nat
         /\ LastPublished(k) <= now
         /\ LastPublished(k)' \in Nat
         /\ LastPublished(k) <= LastPublished(k)'
<1>1. LastPublished(k) \in Nat /\ LastPublished(k) <= now /\ now \in Nat
  BY DEF KeysInv, TypeOK, LastPublished
<1>2. CASE UNCHANGED <<now, published, since, gone>>
  BY <1>1, <1>2 DEF LastPublished
<1>3. CASE Tick
  BY <1>1, <1>3 DEF Tick, LastPublished, issuer
<1>4. ASSUME NEW j \in Kids, PublishKey(j) \/ RetireKey(j)
      PROVE  LastPublished(k)' \in Nat /\ LastPublished(k) <= LastPublished(k)'
  BY <1>1, <1>4, KeysAssumption DEF PublishKey, RetireKey, LastPublished, KeysInv, TypeOK
<1>5. UNCHANGED vars \/ Replicate => UNCHANGED <<now, published, since, gone>>
  BY DEF vars, Replicate, issuer
<1> QED
  BY <1>1, <1>2, <1>3, <1>4, <1>5, Steps, RequestsLeaveIssuer

\* The clock does not run backwards.
LEMMA TimePasses ==
  ASSUME TypeOK, [Next]_vars
  PROVE  now \in Nat /\ now' \in Nat /\ now <= now'
<1>1. now \in Nat
  BY DEF TypeOK
<1>2. UNCHANGED vars \/ Replicate => now' = now
  BY DEF vars, Replicate
<1>3. ASSUME NEW k \in Kids, PublishKey(k) \/ RetireKey(k) PROVE now' = now
  BY <1>3 DEF PublishKey, RetireKey
<1>4. Tick => now' = now + 1
  BY DEF Tick
<1> QED
  BY <1>1, <1>2, <1>3, <1>4, Steps, RequestsLeaveIssuer

\* What holds of a key set goes on holding of it.
LEMMA SetOKStays ==
  ASSUME KeysInv, [Next]_vars, NEW s \in KeySets, NEW age \in Nat, SetOK(s, age)
  PROVE  /\ s.at <= now'
         /\ \A k \in s.keys : LastPublished(k)' # None /\ s.at <= LastPublished(k)' + age
<1>1. s.at \in Nat /\ s.keys \subseteq Kids
  BY DEF KeySets
<1>2. s.at <= now'
  BY <1>1, TimePasses DEF KeysInv, SetOK
<1>3. ASSUME NEW k \in s.keys
      PROVE  LastPublished(k)' # None /\ s.at <= LastPublished(k)' + age
  BY <1>1, <1>3, LastPublishedGrows, KeysAssumption DEF SetOK
<1> QED
  BY <1>2, <1>3

\* A snapshot is taken of a set whose age is within the TTL.
LEMMA SavedSet ==
  ASSUME KeysInv, NEW e \in Environments, NEW entry \in KeySets,
         SetOK(entry, 0), Age(entry.at) <= CacheTTL, Save(e, entry)
  PROVE  \/ snapshot' = snapshot
         \/ snapshot' \in KeySets /\ SetOK(snapshot', CacheTTL)
<1>1. entry.at \in Nat /\ entry.keys \subseteq Kids /\ now \in Nat
  BY DEF KeySets, KeysInv, TypeOK
<1> DEFINE saved == [keys |-> entry.keys, at |-> now]
<1>2. saved \in KeySets
  BY <1>1 DEF KeySets
<1>3. ASSUME NEW k \in entry.keys
      PROVE  LastPublished(k) # None /\ now <= LastPublished(k) + CacheTTL
  <2>1. LastPublished(k) # None /\ entry.at <= LastPublished(k) + 0
    BY <1>3 DEF SetOK
  <2>2. LastPublished(k) \in Nat
    BY <1>1, <1>3, <2>1 DEF LastPublished, KeysInv, TypeOK
  <2> QED
    BY <1>1, <2>1, <2>2, KeysAssumption DEF Age
<1>4. SetOK(saved, CacheTTL)
  BY <1>1, <1>3 DEF SetOK
<1> QED
  BY <1>2, <1>4 DEF Save

\* What a fetch brings is as new as can be.
LEMMA FetchedOK ==
  ASSUME KeysInv
  PROVE  SetOK(Fetched, 0) /\ Age(Fetched.at) = 0
<1>1. now \in Nat /\ published \subseteq Kids
  BY DEF KeysInv, TypeOK
<1>2. \A k \in published : LastPublished(k) = now
  BY DEF LastPublished
<1> QED
  BY <1>1, <1>2, KeysAssumption DEF SetOK, Fetched, Age

\* How a step changes a set in memory: it stays, is dropped or is fetched.
LEMMA CacheMoves ==
  ASSUME TypeOK, [Next]_vars, NEW e \in Environments
  PROVE  \/ cache'[e] = cache[e]
         \/ cache'[e] = None
         \/ cache'[e] = Fetched /\ UNCHANGED <<now, published, since, gone>>
<1>1. UNCHANGED vars \/ Tick \/ Replicate => cache' = cache
  BY DEF vars, Tick, Replicate, memory
<1>2. ASSUME NEW k \in Kids, PublishKey(k) \/ RetireKey(k) PROVE cache' = cache
  BY <1>2 DEF PublishKey, RetireKey, memory
<1>3. ASSUME NEW f \in Environments, RequestStep(f)
      PROVE  \/ cache'[e] = cache[e] \/ cache'[e] = None \/ cache'[e] = Fetched
  BY <1>3 DEF TypeOK, RequestStep, Recycle, Receive, Resolve, Fetch, Reload, Store,
              FetchFails, Rescue, memory
<1> QED
  BY <1>1, <1>2, <1>3, Steps, RequestsLeaveIssuer

\* How a step changes the snapshot: it stays, or is taken as SavedSet says.
LEMMA SnapshotMoves ==
  ASSUME KeysInv, [Next]_vars
  PROVE  \/ snapshot' = snapshot
         \/ /\ snapshot' \in KeySets /\ SetOK(snapshot', CacheTTL)
            /\ UNCHANGED <<now, published, since, gone>>
<1>1. UNCHANGED vars \/ Tick \/ Replicate => snapshot' = snapshot
  BY DEF vars, Tick, Replicate, table
<1>2. ASSUME NEW k \in Kids, PublishKey(k) \/ RetireKey(k) PROVE snapshot' = snapshot
  BY <1>2 DEF PublishKey, RetireKey, table
<1>3. ASSUME NEW e \in Environments, RequestStep(e)
      PROVE  \/ snapshot' = snapshot
             \/ snapshot' \in KeySets /\ SetOK(snapshot', CacheTTL)
  <2>1. Fetched \in KeySets /\ SetOK(Fetched, 0) /\ Age(Fetched.at) <= CacheTTL
    BY FetchedTyped, FetchedOK, KeysAssumption DEF KeysInv
  <2>2. CASE Resolve(e)
    <3>1. CASE Cached(e) /\ Select(e, cache[e])
      <4>1. cache[e] \in KeySets /\ SetOK(cache[e], 0) /\ Age(cache[e].at) <= CacheTTL
        BY <3>1 DEF Cached, KeysInv, TypeOK
      <4> QED
        BY <3>1, <4>1, SavedSet DEF Select, Verify
    <3>2. CASE UNCHANGED snapshot
      BY <3>2
    <3> QED
      BY <2>2, <3>1, <3>2 DEF Resolve
  <2>3. CASE Fetch(e)
    BY <2>1, <2>3, SavedSet DEF Fetch, Select, Verify
  <2>4. CASE Reload(e)
    BY <2>1, <2>4, SavedSet DEF Reload, Verify
  <2>5. CASE Recycle(e) \/ Receive(e) \/ FetchFails(e) \/ Rescue(e)
    BY <2>5 DEF Recycle, Receive, FetchFails, Rescue, table
  <2> QED
    BY <1>3, <2>2, <2>3, <2>4, <2>5 DEF RequestStep
<1> QED
  BY <1>1, <1>2, <1>3, Steps, RequestsLeaveIssuer

-----------------------------------------------------------------------------
(* The invariant                                                           *)

\* The part of the invariant about the issuer's own times.
LEMMA IssuerStep ==
  ASSUME KeysInv, [Next]_vars
  PROVE  /\ \A k \in published' : since'[k] # None /\ since'[k] <= now'
         /\ \A k \in Kids : gone'[k] # None => gone'[k] <= now'
<1>1. CASE UNCHANGED <<now, published, since, gone>>
  BY <1>1 DEF KeysInv
<1>2. CASE Tick
  BY <1>2, KeysAssumption DEF Tick, issuer, KeysInv, TypeOK
<1>3. ASSUME NEW k \in Kids, PublishKey(k) \/ RetireKey(k)
      PROVE  /\ \A j \in published' : since'[j] # None /\ since'[j] <= now'
             /\ \A j \in Kids : gone'[j] # None => gone'[j] <= now'
  BY <1>3, KeysAssumption DEF PublishKey, RetireKey, KeysInv, TypeOK
<1>4. UNCHANGED vars \/ Replicate => UNCHANGED <<now, published, since, gone>>
  BY DEF vars, Replicate, issuer
<1> QED
  BY <1>1, <1>2, <1>3, <1>4, Steps, RequestsLeaveIssuer

\* A key set in memory holds every key served since before it was fetched.
LEMMA CacheHasKeys ==
  ASSUME KeysInv, [Next]_vars, NEW e \in Environments, cache'[e] # None,
         NEW k \in published', since'[k] < cache'[e].at
  PROVE  k \in cache'[e].keys
<1>1. CASE cache'[e] = Fetched /\ UNCHANGED <<now, published, since, gone>>
  BY <1>1 DEF Fetched
<1>2. CASE cache'[e] = cache[e]
  <2>1. cache[e].at \in Nat /\ cache[e].at <= now /\ now \in Nat
    BY <1>2 DEF KeysInv, TypeOK, KeySets, SetOK
  <2>2. CASE k \in published /\ since'[k] = since[k]
    BY <1>2, <2>2 DEF KeysInv
  <2>3. ASSUME NEW j \in Kids, PublishKey(j) \/ RetireKey(j)
        PROVE  \/ k \in published /\ since'[k] = since[k]
               \/ since'[k] = now
    BY <2>3 DEF PublishKey, RetireKey, KeysInv, TypeOK
  <2>4. UNCHANGED vars \/ Tick \/ Replicate => UNCHANGED <<published, since>>
    BY DEF vars, Tick, Replicate, issuer
  <2>5. since'[k] # now
    BY <1>2, <2>1
  <2>6. k \in published /\ since'[k] = since[k]
    BY <2>3, <2>4, <2>5, Steps, RequestsLeaveIssuer
  <2> QED
    BY <2>2, <2>6
<1> QED
  BY <1>1, <1>2, CacheMoves DEF KeysInv

\* Key sets in memory hold keys that were served when they were fetched.
LEMMA CacheStep ==
  ASSUME KeysInv, [Next]_vars, NEW e \in Environments, cache'[e] # None
  PROVE  SetOK(cache[e], 0)'
<1>1. CASE cache'[e] = Fetched /\ UNCHANGED <<now, published, since, gone>>
  BY <1>1, FetchedOK DEF SetOK, Fetched, LastPublished
<1>2. CASE cache'[e] = cache[e]
  <2>1. cache[e] \in KeySets /\ SetOK(cache[e], 0)
    BY <1>2 DEF KeysInv, TypeOK
  <2> QED
    BY <1>2, <2>1, SetOKStays DEF SetOK
<1> QED
  BY <1>1, <1>2, CacheMoves DEF KeysInv

\* Snapshots hold keys that were served within the TTL before they were taken.
LEMMA TableStep ==
  ASSUME KeysInv, [Next]_vars
  PROVE  /\ snapshot' # None => SetOK(snapshot, CacheTTL)'
         /\ lagging' # None => SetOK(lagging, CacheTTL)'
<1>1. ASSUME NEW s \in KeySets \cup {None}, s # None, SetOK(s, CacheTTL)
      PROVE  /\ s.at <= now'
             /\ \A k \in s.keys : LastPublished(k)' # None /\ s.at <= LastPublished(k)' + CacheTTL
  BY <1>1, SetOKStays, KeysAssumption
<1>2. snapshot \in KeySets \cup {None} /\ lagging \in KeySets \cup {None}
  BY DEF KeysInv, TypeOK
<1>3. snapshot # None => SetOK(snapshot, CacheTTL)
  BY DEF KeysInv
<1>4. lagging # None => SetOK(lagging, CacheTTL)
  BY DEF KeysInv
<1>5. snapshot' # None => SetOK(snapshot, CacheTTL)'
  <2>1. CASE snapshot' = snapshot
    BY <1>1, <1>2, <1>3, <2>1 DEF SetOK
  <2>2. CASE /\ SetOK(snapshot', CacheTTL)
             /\ UNCHANGED <<now, published, since, gone>>
    BY <2>2 DEF SetOK, LastPublished
  <2> QED
    BY <2>1, <2>2, SnapshotMoves
<1>6. lagging' \in {lagging, snapshot}
  <2>1. ASSUME NEW e \in Environments, RequestStep(e) PROVE lagging' = lagging
    BY <2>1 DEF RequestStep, Recycle, Receive, Resolve, Fetch, Reload, FetchFails, Rescue,
                table
  <2>2. UNCHANGED vars \/ Tick => lagging' = lagging
    BY DEF vars, Tick, table
  <2>3. ASSUME NEW k \in Kids, PublishKey(k) \/ RetireKey(k) PROVE lagging' = lagging
    BY <2>3 DEF PublishKey, RetireKey, table
  <2> QED
    BY <2>1, <2>2, <2>3, Steps DEF Replicate
<1>7. lagging' # None => SetOK(lagging, CacheTTL)'
  BY <1>1, <1>2, <1>3, <1>4, <1>6 DEF SetOK
<1> QED
  BY <1>5, <1>7

\* A request in hand has a token.
LEMMA TokenStep ==
  ASSUME KeysInv, [Next]_vars, NEW e \in Environments, pc'[e] \in Waiting
  PROVE  token'[e] # None
<1>1. CASE pc'[e] = pc[e] /\ token'[e] = token[e]
  BY <1>1 DEF KeysInv
<1>2. ASSUME NEW f \in Environments, RequestStep(f)
      PROVE  \/ token'[e] # None
             \/ pc'[e] = pc[e] /\ token'[e] = token[e]
  <2>1. CASE Recycle(f)
    BY <2>1 DEF Recycle, KeysInv, TypeOK, Waiting
  <2>2. CASE Receive(f)
    <3>1. PICK t \in Tokens : token' = [token EXCEPT ![f] = t]
      BY <2>2 DEF Receive
    <3>2. t # None
      BY <3>1, NoneAssumption
    <3>3. pc' = [pc EXCEPT ![f] = "resolve"]
      BY <2>2 DEF Receive
    <3> QED
      BY <3>1, <3>2, <3>3 DEF KeysInv, TypeOK
  <2>3. ASSUME NEW verdict \in Verdicts, Answer(f, verdict)
        PROVE  \/ token'[e] # None
               \/ pc'[e] = pc[e] /\ token'[e] = token[e]
    BY <2>3 DEF Answer, KeysInv, TypeOK, Waiting, Verdicts
  <2>4. ASSUME NEW step \in Waiting, pc[f] \in Waiting, Goto(f, step)
        PROVE  \/ token'[e] # None
               \/ pc'[e] = pc[e] /\ token'[e] = token[e]
    BY <2>4 DEF Goto, KeysInv, TypeOK
  <2>5. CASE Resolve(f) \/ Fetch(f) \/ Reload(f) \/ FetchFails(f) \/ Rescue(f)
    <3>1. pc[f] \in Waiting
      BY <2>5 DEF Resolve, Fetch, Reload, FetchFails, Rescue, Waiting
    <3>2. \/ Goto(f, "fetch") \/ Goto(f, "reload") \/ Goto(f, "rescue")
          \/ Answer(f, "accepted") \/ Answer(f, "rescued")
          \/ Answer(f, "401") \/ Answer(f, "503")
      BY <2>5 DEF Resolve, Fetch, Reload, FetchFails, Rescue, Select, Verify
    <3> QED
      BY <2>3, <2>4, <3>1, <3>2 DEF Waiting, Verdicts
  <2> QED
    BY <1>2, <2>1, <2>2, <2>5 DEF RequestStep
<1>3. UNCHANGED vars \/ Tick \/ Replicate => UNCHANGED <<token, pc>>
  BY DEF vars, Tick, Replicate
<1>4. ASSUME NEW k \in Kids, PublishKey(k) \/ RetireKey(k) PROVE UNCHANGED <<token, pc>>
  BY <1>4 DEF PublishKey, RetireKey
<1> QED
  BY <1>1, <1>2, <1>3, <1>4, Steps

\* The invariant holds initially.
LEMMA KeysInvInit == Init => KeysInv
<1> SUFFICES ASSUME Init PROVE KeysInv
  OBVIOUS
<1>1. now = 0 /\ published \subseteq Kids
  BY DEF Init
<1>2. TypeOK
  BY DEF Init, TypeOK
<1> QED
  BY <1>1, <1>2, KeysAssumption DEF Init, KeysInv, Waiting

\* Every step keeps the invariant.
LEMMA KeysInvStep == KeysInv /\ [Next]_vars => KeysInv'
<1> SUFFICES ASSUME KeysInv, [Next]_vars PROVE KeysInv'
  OBVIOUS
<1>1. TypeOK'
  BY TypeOKStep DEF KeysInv
<1>2. /\ \A k \in published' : since'[k] # None /\ since'[k] <= now'
      /\ \A k \in Kids : gone'[k] # None => gone'[k] <= now'
  BY IssuerStep
<1>3. \A e \in Environments : cache'[e] # None =>
        /\ SetOK(cache[e], 0)'
        /\ \A k \in published' : since'[k] < cache'[e].at => k \in cache'[e].keys
  BY CacheStep, CacheHasKeys
<1>4. \A s \in {snapshot', lagging'} : s # None =>
        /\ s.at <= now'
        /\ \A k \in s.keys : LastPublished(k)' # None /\ s.at <= LastPublished(k)' + CacheTTL
  BY TableStep DEF SetOK
<1>5. \A e \in Environments : pc'[e] \in Waiting => token'[e] # None
  BY TokenStep
<1> QED
  BY <1>1, <1>2, <1>3, <1>4, <1>5 DEF KeysInv, SetOK

\* The inductive invariant: key sets in memory hold just the keys served when they
\* were fetched, snapshots hold keys served within the TTL before they were taken.
THEOREM KeysInvariant == Spec => []KeysInv
<1> QED
  BY KeysInvInit, KeysInvStep, PTL DEF Spec

-----------------------------------------------------------------------------
(* Verdicts                                                                *)

\* A verdict on an environment's request is that environment's own step.
LEMMA WhoAnswers ==
  ASSUME TypeOK, [Next]_vars, NEW e \in Environments, NEW verdict \in Verdicts,
         Answers(e, verdict)
  PROVE  Resolve(e) \/ Fetch(e) \/ Reload(e) \/ Rescue(e)
<1>1. pc'[e] # pc[e] /\ pc'[e] \in Verdicts
  BY DEF Answers, Waiting, Verdicts
<1>2. \E f \in Environments : RequestStep(f)
  BY <1>1, Steps DEF vars, Tick, Replicate, PublishKey, RetireKey
<1>3. PICK f \in Environments : RequestStep(f)
  BY <1>2
<1>4. f = e
  BY <1>1, <1>3 DEF RequestStep, Recycle, Receive, Resolve, Fetch, Reload, FetchFails,
                    Rescue, Select, Verify, Goto, Answer, TypeOK
<1>5. ~Recycle(e) /\ ~Receive(e) /\ ~FetchFails(e)
  BY <1>1 DEF Recycle, Receive, FetchFails, Goto, TypeOK, Verdicts
<1> QED
  BY <1>3, <1>4, <1>5 DEF RequestStep

\* A key in a set of which SetOK holds was served within the set's age and `age`.
LEMMA KeysOfSet ==
  ASSUME KeysInv, NEW s \in KeySets, NEW age \in Nat, SetOK(s, age), NEW k \in s.keys,
         NEW limit \in Nat, Age(s.at) <= limit
  PROVE  LastPublished(k) # None /\ Age(LastPublished(k)) <= limit + age
<1>1. s.at \in Nat /\ k \in Kids /\ now \in Nat
  BY DEF KeySets, KeysInv, TypeOK
<1>2. LastPublished(k) # None /\ s.at <= LastPublished(k) + age
  BY DEF SetOK
<1>3. LastPublished(k) \in Nat
  BY <1>1, <1>2 DEF LastPublished, KeysInv, TypeOK
<1> QED
  BY <1>1, <1>2, <1>3 DEF Age

\* An accepted token is under a key served within the TTL.
LEMMA AcceptedKey ==
  ASSUME KeysInv, [Next]_vars, NEW e \in Environments, Answers(e, "accepted")
  PROVE  /\ LastPublished(token[e].kid) # None
         /\ Age(LastPublished(token[e].kid)) <= CacheTTL
<1>1. pc'[e] = "accepted" /\ TypeOK
  BY DEF Answers, KeysInv
<1>2. Fetched \in KeySets /\ SetOK(Fetched, 0) /\ Age(Fetched.at) <= CacheTTL
  BY <1>1, FetchedTyped, FetchedOK, KeysAssumption
<1>3. ASSUME NEW s \in KeySets, SetOK(s, 0), Age(s.at) <= CacheTTL, token[e].kid \in s.keys
      PROVE  /\ LastPublished(token[e].kid) # None
             /\ Age(LastPublished(token[e].kid)) <= CacheTTL
  BY <1>3, KeysOfSet, KeysAssumption
<1>4. CASE Resolve(e)
  <2>1. Cached(e) /\ Select(e, cache[e])
    BY <1>1, <1>4 DEF Resolve, Goto, TypeOK
  <2>2. token[e].kid \in cache[e].keys
    BY <1>1, <2>1 DEF Select, Goto, Answer, TypeOK
  <2>3. cache[e] \in KeySets /\ SetOK(cache[e], 0) /\ Age(cache[e].at) <= CacheTTL
    BY <2>1 DEF Cached, KeysInv, TypeOK
  <2> QED
    BY <1>3, <2>2, <2>3
<1>5. CASE Fetch(e)
  <2>1. token[e].kid \in Fetched.keys
    BY <1>1, <1>5 DEF Fetch, Select, Goto, Answer, TypeOK
  <2> QED
    BY <1>2, <1>3, <2>1
<1>6. CASE Reload(e)
  <2>1. token[e].kid \in Fetched.keys
    BY <1>1, <1>6 DEF Reload, Answer, TypeOK, Fetched
  <2> QED
    BY <1>2, <1>3, <2>1
<1>7. ~Rescue(e)
  BY <1>1 DEF Rescue, Answer, TypeOK
<1> QED
  BY <1>1, <1>4, <1>5, <1>6, <1>7, WhoAnswers DEF Verdicts

\* A rescued token is under a key served within the TTL before the snapshot.
LEMMA RescuedKey ==
  ASSUME KeysInv, [Next]_vars, NEW e \in Environments, Answers(e, "rescued")
  PROVE  /\ LastPublished(token[e].kid) # None
         /\ Age(LastPublished(token[e].kid)) <= CacheTTL + MaxAge
<1>1. pc'[e] = "rescued" /\ TypeOK
  BY DEF Answers, KeysInv
<1>2. ~Resolve(e) /\ ~Fetch(e) /\ ~Reload(e)
  BY <1>1 DEF Resolve, Fetch, Reload, Select, Verify, Goto, Answer, TypeOK
<1>3. Rescue(e)
  BY <1>1, <1>2, WhoAnswers DEF Verdicts
<1>4. PICK s \in {snapshot, lagging, None} : Usable(s) /\ token[e].kid \in s.keys
  BY <1>1, <1>3 DEF Rescue, Answer, TypeOK
<1>5. s \in KeySets /\ SetOK(s, CacheTTL) /\ Age(s.at) <= MaxAge
  BY <1>4 DEF Usable, KeysInv, TypeOK
<1>6. Age(LastPublished(token[e].kid)) <= MaxAge + CacheTTL
  BY <1>4, <1>5, KeysOfSet, KeysAssumption
<1>7. LastPublished(token[e].kid) # None
  BY <1>4, <1>5 DEF SetOK
<1>8. MaxAge + CacheTTL = CacheTTL + MaxAge
  BY KeysAssumption
<1> QED
  BY <1>6, <1>7, <1>8

\* A retired key is honoured for the life of a cached set and, through a snapshot,
\* of a snapshot after it, and no longer.
THEOREM RetiredKeysAreRefused == Spec => RetiredKeysExpire
<1>1. KeysInv /\ [Next]_vars =>
        \A e \in Environments :
          LET last == LastPublished(token[e].kid)
          IN  /\ Answers(e, "accepted") => last # None /\ Age(last) <= CacheTTL
              /\ Answers(e, "rescued") =>
                   last # None /\ Age(last) <= CacheTTL + MaxAge
  BY AcceptedKey, RescuedKey
<1> QED
  BY <1>1, KeysInvariant, PTL DEF Spec, RetiredKeysExpire

\* A good token under a key that is served is answered 401 only during the cooldown
\* that follows the key's first appearance.
LEMMA RejectedKey ==
  ASSUME KeysInv, [Next]_vars, NEW e \in Environments, Answers(e, "401"),
         token[e].good, token[e].kid \in published
  PROVE  Age(since[token[e].kid]) < Cooldown
<1>1. pc'[e] = "401" /\ TypeOK
  BY DEF Answers, KeysInv
<1>2. ~Rescue(e)
  BY <1>1 DEF Rescue, Answer, TypeOK
<1>3. ~Fetch(e) /\ ~Reload(e)
  BY <1>1 DEF Fetch, Reload, Fetched, Select, Verify, Goto, Answer, TypeOK
<1>4. Resolve(e)
  BY <1>1, <1>2, <1>3, WhoAnswers DEF Verdicts
<1>5. /\ Cached(e)
      /\ token[e].kid \notin cache[e].keys
      /\ CoolingDown(cache[e])
  BY <1>1, <1>4 DEF Resolve, Select, Verify, Goto, Answer, TypeOK
<1>6. cache[e].at \in Nat /\ now \in Nat /\ since[token[e].kid] \in Nat
  BY <1>1, <1>5 DEF Cached, KeysInv, TypeOK, KeySets
<1>7. ~(since[token[e].kid] < cache[e].at)
  BY <1>5 DEF Cached, KeysInv
<1> QED
  BY <1>5, <1>6, <1>7, KeysAssumption DEF CoolingDown, Age

\* Rotation is followed within the cooldown, whatever the caches and throttles hold
\* and however the issuer fails.
THEOREM RotationsAreFollowed == Spec => RotationIsFollowed
<1>1. KeysInv /\ [Next]_vars =>
        \A e \in Environments :
          Answers(e, "401") /\ token[e].good /\ token[e].kid \in published
            => Age(since[token[e].kid]) < Cooldown
  BY RejectedKey
<1> QED
  BY <1>1, KeysInvariant, PTL DEF Spec, RotationIsFollowed

-----------------------------------------------------------------------------
(* Fetches                                                                 *)

\* What SpacedInv says of one environment.
Spaced(e) ==
  /\ forced[e] # None => forced[e] <= now
  /\ earlier[e] # None =>
       \/ HasAged(earlier[e])
       \/ cache[e] # None /\ earlier[e] <= cache[e].at /\ ForcedSince(e, earlier[e])
  /\ pc[e] \in {"fetch", "reload"} =>
       /\ cache[e] # None => HasAged(cache[e].at) \/ ForcedSince(e, cache[e].at)
       /\ earlier[e] # None => HasAged(earlier[e])

\* The memory of an environment holds times, all of them past.
LEMMA MemoryTimes ==
  ASSUME KeysInv, NEW e \in Environments
  PROVE  /\ now \in Nat
         /\ cache[e] # None => cache[e].at \in Nat /\ cache[e].at <= now
         /\ earlier[e] # None => earlier[e] \in Nat
         /\ forced[e] # None => forced[e] \in Nat
  BY DEF KeysInv, TypeOK, KeySets, SetOK

\* What is so stays so while time passes.
LEMMA SpacedLater ==
  ASSUME KeysInv, NEW e \in Environments, Spaced(e),
         now' \in Nat, now <= now',
         cache'[e] = cache[e], earlier'[e] = earlier[e], forced'[e] = forced[e],
         pc'[e] \in {"fetch", "reload"} => pc'[e] = pc[e]
  PROVE  Spaced(e)'
  BY MemoryTimes, KeysAssumption DEF Spaced, HasAged, Age, ForcedSince

\* The lookup goes to the issuer only past the cooldown or by a forced reload.
LEMMA SelectGoes ==
  ASSUME TypeOK, NEW e \in Environments, NEW entry, Select(e, entry)
  PROVE  \/ pc'[e] \in Verdicts /\ forced' = forced
         \/ /\ pc'[e] = "reload" /\ forced' = forced
            /\ ~CoolingDown(entry)
         \/ /\ pc'[e] = "reload" /\ forced' = [forced EXCEPT ![e] = now]
            /\ MayForceReload(e)
  BY DEF TypeOK, Select, Verify, Goto, Answer, Verdicts

\* So it keeps the spacing: what follows holds of a set just found, whether it was in
\* memory or has just been fetched.
LEMMA SelectSpaced ==
  ASSUME KeysInv, NEW e \in Environments, NEW entry \in KeySets,
         now' = now, Select(e, entry),
         cache'[e] = entry, entry.at <= now,
         forced[e] # None => forced[e] <= now,
         earlier'[e] \in Nat \cup {None},
         earlier'[e] # None =>
           \/ HasAged(earlier'[e])
           \/ earlier'[e] <= entry.at /\ ForcedSince(e, earlier'[e])
  PROVE  Spaced(e)'
<1>1. /\ now \in Nat /\ entry.at \in Nat
      /\ forced[e] # None => forced[e] \in Nat
      /\ TypeOK
  BY MemoryTimes DEF KeySets, KeysInv
<1>2. cache'[e] # None
  BY NoneAssumption
<1>3. CASE pc'[e] \in Verdicts /\ forced' = forced
  BY <1>2, <1>3 DEF Spaced, HasAged, Age, ForcedSince, Verdicts
<1>4. CASE pc'[e] = "reload" /\ forced' = forced /\ ~CoolingDown(entry)
  <2>1. now - entry.at >= ForcedInterval
    BY <1>1, <1>4, KeysAssumption, IntervalsAssumption DEF CoolingDown, Age
  <2>2. earlier'[e] # None => HasAged(earlier'[e])
    BY <1>1, <2>1, KeysAssumption DEF HasAged, Age
  <2> QED
    BY <1>2, <1>4, <2>1, <2>2 DEF Spaced, HasAged, Age, ForcedSince
<1>5. CASE /\ pc'[e] = "reload" /\ forced' = [forced EXCEPT ![e] = now]
           /\ MayForceReload(e)
  <2>1. forced'[e] = now /\ now # None
    BY <1>1, <1>5, KeysAssumption DEF TypeOK
  <2>2. earlier'[e] # None => HasAged(earlier'[e])
    BY <1>1, <1>5, KeysAssumption DEF MayForceReload, Elapsed, ForcedSince, HasAged, Age
  <2> QED
    BY <1>1, <1>2, <1>5, <2>1, <2>2 DEF Spaced, HasAged, Age, ForcedSince
<1> QED
  BY <1>1, <1>3, <1>4, <1>5, SelectGoes

\* A lookup in memory keeps the spacing.
LEMMA ResolveSpaced ==
  ASSUME KeysInv, NEW e \in Environments, Spaced(e), Resolve(e)
  PROVE  Spaced(e)'
<1>1. now' = now /\ cache' = cache /\ earlier' = earlier
  BY DEF Resolve
<1>2. CASE Cached(e) /\ Select(e, cache[e])
  <2>1. cache[e] \in KeySets /\ earlier[e] \in Nat \cup {None}
    BY <1>2 DEF Cached, KeysInv, TypeOK
  <2>2. cache[e].at <= now
    BY <1>2, MemoryTimes DEF Cached
  <2> QED
    BY <1>1, <1>2, <2>1, <2>2, SelectSpaced DEF Spaced
<1>3. CASE ~Cached(e) /\ Goto(e, "fetch") /\ forced' = forced
  <2>1. cache[e] # None => HasAged(cache[e].at)
    BY <1>3, MemoryTimes, KeysAssumption, IntervalsAssumption DEF Cached, HasAged, Age
  <2>2. earlier[e] # None => HasAged(earlier[e])
    BY <2>1, MemoryTimes, KeysAssumption DEF Spaced, HasAged, Age
  <2>3. pc'[e] = "fetch"
    BY <1>3 DEF Goto, KeysInv, TypeOK
  <2> QED
    BY <1>1, <1>3, <2>1, <2>2, <2>3 DEF Spaced, HasAged, Age, ForcedSince
<1> QED
  BY <1>2, <1>3 DEF Resolve

\* A set that is stored was fetched long after the one it replaces, or by force.
LEMMA StoreSpaced ==
  ASSUME KeysInv, NEW e \in Environments, Spaced(e), Store(e),
         pc[e] \in {"fetch", "reload"}
  PROVE  /\ cache'[e] = Fetched /\ Fetched \in KeySets /\ Fetched.at = now
         /\ earlier'[e] \in Nat \cup {None}
         /\ earlier'[e] # None =>
              \/ HasAged(earlier'[e])
              \/ earlier'[e] <= now /\ ForcedSince(e, earlier'[e])
<1>1. TypeOK
  BY DEF KeysInv
<1>2. cache'[e] = Fetched /\ Fetched \in KeySets /\ Fetched.at = now
  BY <1>1, FetchedTyped DEF Store, TypeOK, Fetched
<1>3. earlier'[e] = IF cache[e] = None THEN None ELSE cache[e].at
  BY <1>1 DEF Store, TypeOK
<1> QED
  BY <1>2, <1>3, MemoryTimes DEF Spaced

\* A request's step keeps the spacing of its environment.
LEMMA RequestSpaced ==
  ASSUME KeysInv, NEW e \in Environments, Spaced(e), RequestStep(e)
  PROVE  Spaced(e)'
<1>1. now' = now /\ now \in Nat /\ TypeOK
  BY RequestsLeaveIssuer DEF KeysInv, TypeOK
<1>2. CASE Recycle(e)
  BY <1>2 DEF Recycle, Spaced, KeysInv, TypeOK
<1>3. CASE Receive(e) \/ FetchFails(e) \/ Rescue(e)
  <2>1. pc'[e] \notin {"fetch", "reload"}
    BY <1>1, <1>3 DEF Receive, FetchFails, Rescue, Goto, Answer, TypeOK
  <2> QED
    BY <1>1, <1>3, <2>1, SpacedLater DEF Receive, FetchFails, Rescue, memory
<1>4. CASE Fetch(e)
  <2>1. pc[e] = "fetch" /\ Store(e) /\ Select(e, Fetched)
    BY <1>4 DEF Fetch
  <2> QED
    BY <1>1, <2>1, StoreSpaced, SelectSpaced DEF Spaced
<1>5. CASE Reload(e)
  <2>1. pc[e] = "reload" /\ Store(e) /\ forced' = forced
    BY <1>5 DEF Reload
  <2>2. pc'[e] \notin {"fetch", "reload"}
    BY <1>1, <1>5 DEF Reload, Verify, Answer, TypeOK
  <2>3. cache'[e] # None /\ cache'[e].at = now
    BY <2>1, StoreSpaced, NoneAssumption
  <2> QED
    BY <1>1, <2>1, <2>2, <2>3, StoreSpaced DEF Spaced, HasAged, Age, ForcedSince
<1> QED
  BY <1>2, <1>3, <1>4, <1>5, ResolveSpaced DEF RequestStep

\* Environments share no memory.
LEMMA OthersKeepMemory ==
  ASSUME TypeOK, NEW f \in Environments, RequestStep(f), NEW e \in Environments, e # f
  PROVE  /\ cache'[e] = cache[e] /\ earlier'[e] = earlier[e]
         /\ forced'[e] = forced[e] /\ pc'[e] = pc[e]
  BY DEF TypeOK, RequestStep, Recycle, Receive, Resolve, Fetch, Reload, Store, FetchFails,
         Rescue, Select, Verify, Goto, Answer, memory

\* The surroundings do not touch it either.
LEMMA SurroundingsKeepMemory ==
  ASSUME UNCHANGED vars \/ Tick \/ Replicate
           \/ \E k \in Kids : PublishKey(k) \/ RetireKey(k)
  PROVE  UNCHANGED <<cache, earlier, forced, pc>>
  BY DEF vars, Tick, Replicate, PublishKey, RetireKey, memory

\* Every step keeps SpacedInv.
LEMMA SpacedStep ==
  ASSUME KeysInv, SpacedInv, [Next]_vars
  PROVE  SpacedInv'
<1> SUFFICES ASSUME NEW e \in Environments PROVE Spaced(e)'
  BY DEF SpacedInv, Spaced
<1>1. Spaced(e) /\ TypeOK
  BY DEF SpacedInv, Spaced, KeysInv
<1>2. now' \in Nat /\ now <= now'
  BY <1>1, TimePasses
<1>3. ASSUME UNCHANGED vars \/ Tick \/ Replicate
               \/ \E k \in Kids : PublishKey(k) \/ RetireKey(k)
      PROVE  Spaced(e)'
  BY <1>1, <1>2, <1>3, SurroundingsKeepMemory, SpacedLater
<1>4. ASSUME NEW f \in Environments, RequestStep(f) PROVE Spaced(e)'
  BY <1>1, <1>2, <1>4, RequestSpaced, OthersKeepMemory, SpacedLater
<1> QED
  BY <1>3, <1>4, Steps

\* Why fetches are spaced: what is fetched within the interval of the set before was
\* fetched by force, and the next fetch waits for the one or the other.
THEOREM SpacedInvariant == Spec => []SpacedInv
<1>1. Init => SpacedInv
  BY DEF Init, SpacedInv
<1>2. KeysInv /\ SpacedInv /\ [Next]_vars => SpacedInv'
  BY SpacedStep
<1> QED
  BY <1>1, <1>2, KeysInvariant, PTL DEF Spec

\* An answer from the issuer finds the one before the last an interval old.
LEMMA AnsweredLater ==
  ASSUME KeysInv, SpacedInv, [Next]_vars, NEW e \in Environments,
         IsAnswered(e), earlier[e] # None
  PROVE  Age(earlier[e]) >= ForcedInterval
  BY DEF IsAnswered, SpacedInv, HasAged

\* An environment gets no three answers from the issuer within the interval of forced
\* reloads, whatever tokens it is sent.
THEOREM FetchesStaySpaced == Spec => FetchesAreSpaced
<1>1. KeysInv /\ SpacedInv /\ [Next]_vars =>
        [\A e \in Environments :
           IsAnswered(e) /\ earlier[e] # None => Age(earlier[e]) >= ForcedInterval]_vars
  BY AnsweredLater
<1> QED
  BY <1>1, KeysInvariant, SpacedInvariant, PTL DEF Spec, FetchesAreSpaced

-----------------------------------------------------------------------------
(* The contract                                                            *)

\* An answer of an environment is allowed by the contract.
LEMMA AnswersAllowed ==
  ASSUME KeysInv, [Next]_vars, NEW e \in Environments, NEW outcome \in Verdicts,
         Answers(e, outcome), RequestStep(e)
  PROVE  Verdict!Allowed(token[e], outcome)
<1>1. CASE outcome = "accepted"
  <2>1. token[e].good
    BY <1>1 DEF Answers, RequestStep, Recycle, Receive, Resolve, Fetch, Reload, FetchFails,
                Rescue, Select, Verify, Goto, Answer, KeysInv, TypeOK
  <2> QED
    BY <1>1, <2>1, AcceptedKey
       DEF Verdict!Allowed, Verdict!Served, Verdict!LastServed, LastPublished, Age
<1>2. CASE outcome = "rescued"
  <2>1. token[e].good
    BY <1>2 DEF Answers, RequestStep, Recycle, Receive, Resolve, Fetch, Reload, FetchFails,
                Rescue, Select, Verify, Goto, Answer, KeysInv, TypeOK
  <2> QED
    BY <1>2, <2>1, RescuedKey
       DEF Verdict!Allowed, Verdict!Served, Verdict!LastServed, LastPublished, Age
<1>3. CASE outcome = "401"
  <2>1. ASSUME token[e].good, token[e].kid \in published
        PROVE  ~(now - since[token[e].kid] >= Cooldown)
    <3>1. Age(since[token[e].kid]) < Cooldown
      BY <1>3, <2>1, RejectedKey
    <3>2. since[token[e].kid] \in Nat /\ now \in Nat
      BY <2>1 DEF KeysInv, TypeOK
    <3> QED
      BY <3>1, <3>2, KeysAssumption DEF Age
  <2> QED
    BY <1>3, <2>1 DEF Verdict!Allowed
<1>4. CASE outcome = "503"
  BY <1>4 DEF Verdict!Allowed
<1> QED
  BY <1>1, <1>2, <1>3, <1>4 DEF Verdicts

\* What a step of an environment does to the request in it.
LEMMA RequestMoves ==
  ASSUME NEW e \in Environments, RequestStep(e)
  PROVE  \/ token' = [token EXCEPT ![e] = None] /\ pc' = [pc EXCEPT ![e] = "idle"]
         \/ /\ \E t \in Tokens : token' = [token EXCEPT ![e] = t]
            /\ pc' = [pc EXCEPT ![e] = "resolve"]
         \/ pc[e] \in Waiting /\ \E step \in Waiting : Goto(e, step)
         \/ pc[e] \in Waiting /\ \E outcome \in Verdicts : Answer(e, outcome)
<1>1. CASE Recycle(e) \/ Receive(e)
  BY <1>1 DEF Recycle, Receive
<1>2. CASE Resolve(e) \/ Fetch(e) \/ Reload(e) \/ FetchFails(e) \/ Rescue(e)
  <2>1. pc[e] \in Waiting
    BY <1>2 DEF Resolve, Fetch, Reload, FetchFails, Rescue, Waiting
  <2>2. \/ Goto(e, "fetch") \/ Goto(e, "reload") \/ Goto(e, "rescue")
        \/ Answer(e, "accepted") \/ Answer(e, "rescued")
        \/ Answer(e, "401") \/ Answer(e, "503")
    BY <1>2 DEF Resolve, Fetch, Reload, FetchFails, Rescue, Select, Verify
  <2> QED
    BY <2>1, <2>2 DEF Waiting, Verdicts
<1> QED
  BY <1>1, <1>2 DEF RequestStep

\* A step of an environment is a step of the contract, or a stutter.
LEMMA RequestKeepsContract ==
  ASSUME KeysInv, [Next]_vars, NEW e \in Environments, RequestStep(e)
  PROVE  [Verdict!Next]_Verdict!vars
<1> DEFINE said == [f \in Environments |-> IF pc[f] \in Verdicts THEN pc[f] ELSE None]
<1>1. UNCHANGED <<now, published, since, gone>>
  BY RequestsLeaveIssuer
<1>2. TypeOK
  BY DEF KeysInv
<1>3. CASE token' = [token EXCEPT ![e] = None] /\ pc' = [pc EXCEPT ![e] = "idle"]
  <2>1. token' = [f \in Environments |-> IF f \in {e} THEN None ELSE token[f]]
    BY <1>2, <1>3 DEF TypeOK
  <2>2. said' = [f \in Environments |-> IF f \in {e} THEN None ELSE said[f]]
    BY <1>2, <1>3 DEF TypeOK, Verdicts
  <2>3. Verdict!Lose({e})
    BY <1>1, <2>1, <2>2 DEF Verdict!Lose, Verdict!issuer
  <2>4. \E S \in SUBSET Environments : Verdict!Lose(S)
    BY <2>3 DEF Verdict!Lose
  <2> QED
    BY <2>4 DEF Verdict!Next
<1>4. ASSUME NEW t \in Tokens, token' = [token EXCEPT ![e] = t],
             pc' = [pc EXCEPT ![e] = "resolve"]
      PROVE  Verdict!Next
  <2>1. said' = [said EXCEPT ![e] = None]
    BY <1>2, <1>4 DEF TypeOK, Verdicts
  <2>2. Verdict!Ask(e)
    BY <1>1, <1>4, <2>1 DEF Verdict!Ask, Verdict!issuer, Tokens, Verdict!Tokens
  <2> QED
    BY <2>2 DEF Verdict!Next
<1>5. ASSUME NEW step \in Waiting, Goto(e, step), pc[e] \in Waiting
      PROVE  UNCHANGED Verdict!vars
  <2>1. said' = said
    BY <1>2, <1>5 DEF Goto, TypeOK, Waiting, Verdicts
  <2> QED
    BY <1>1, <1>5, <2>1 DEF Goto, Verdict!vars, Verdict!issuer
<1>6. ASSUME NEW outcome \in Verdicts, Answer(e, outcome), pc[e] \in Waiting
      PROVE  Verdict!Next
  <2>1. Verdict!Allowed(token[e], outcome)
    BY <1>2, <1>6, AnswersAllowed DEF Answers, Answer, TypeOK
  <2>2. token[e] # None
    BY <1>6 DEF KeysInv
  <2>3. said' = [said EXCEPT ![e] = outcome]
    BY <1>2, <1>6 DEF Answer, TypeOK
  <2>4. Verdict!Decide(e)
    BY <1>1, <1>6, <2>1, <2>2, <2>3 DEF Verdict!Decide, Answer, Verdict!issuer, Verdicts
  <2> QED
    BY <2>4 DEF Verdict!Next
<1> QED
  BY <1>3, <1>4, <1>5, <1>6, RequestMoves

\* And so is a step of the surroundings.
LEMMA SurroundingsKeepContract ==
  ASSUME UNCHANGED vars \/ Tick \/ Replicate \/ \E k \in Kids : PublishKey(k) \/ RetireKey(k)
  PROVE  [Verdict!Next]_Verdict!vars
<1>1. CASE UNCHANGED vars \/ Replicate
  BY <1>1 DEF vars, Replicate, issuer, Verdict!vars, Verdict!issuer
<1>2. CASE Tick
  BY <1>2 DEF Tick, issuer, Verdict!Next, Verdict!Tick, Verdict!issuer
<1>3. ASSUME NEW k \in Kids, PublishKey(k) \/ RetireKey(k) PROVE Verdict!Next
  BY <1>3 DEF PublishKey, RetireKey, Verdict!Next, Verdict!PublishKey, Verdict!RetireKey
<1> QED
  BY <1>1, <1>2, <1>3

\* The Lambda broker implements the contract on verdicts.
THEOREM LambdaKeepsVerdicts == Spec => KeepsVerdicts
<1>1. Init => Verdict!Init
  BY DEF Init, Verdict!Init, Verdicts
<1>2. KeysInv /\ [Next]_vars => [Verdict!Next]_Verdict!vars
  BY Steps, RequestKeepsContract, SurroundingsKeepContract
<1> QED
  BY <1>1, <1>2, KeysInvariant, PTL DEF Spec, KeepsVerdicts, Verdict!Spec
=============================================================================
