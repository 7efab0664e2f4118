--------------------------- MODULE WorkerKeysProofs ---------------------------
(***************************************************************************)
(* Proofs about WorkerKeys, for any number of isolates, requests, keys and *)
(* snapshot versions and any limits.                                       *)
(***************************************************************************)
EXTENDS WorkerKeys, TLAPS

RequestStep(r) == IssuerAnswers(r) \/ RequestNext(r)

\* Every step but those of the surroundings is a request's.
LEMMA Steps ==
  ASSUME [Next]_vars
  PROVE  \/ UNCHANGED vars
         \/ Tick
         \/ \E k \in Kids : PublishKey(k) \/ RetireKey(k)
         \/ \E i \in Isolates : Recycle(i)
         \/ \E r \in Requests : RequestStep(r)
  BY DEF Next, RequestStep

\* A request neither takes time nor touches the issuer.
LEMMA RequestsLeaveIssuer ==
  ASSUME NEW r \in Requests, RequestStep(r)
  PROVE  UNCHANGED <<now, published, since, gone>>
  BY DEF RequestStep, RequestNext, IssuerAnswers, Receive, Resolve, Loaded, Retried, Forced,
         Arrives, FetchFails, Rescue, issuer

-----------------------------------------------------------------------------
(* Types                                                                   *)

\* Only surroundings: the types of clock, issuer and isolates.
LEMMA SurroundingsTyped ==
  ASSUME TypeOK,
         \/ Tick
         \/ \E k \in Kids : PublishKey(k) \/ RetireKey(k)
         \/ \E i \in Isolates : Recycle(i)
  PROVE  TypeOK'
<1>1. ASSUME NEW i \in Isolates, Recycle(i) PROVE TypeOK'
  BY <1>1 DEF TypeOK, Recycle, issuer
<1>2. CASE Tick \/ \E k \in Kids : PublishKey(k) \/ RetireKey(k)
  BY <1>2 DEF TypeOK, Tick, PublishKey, RetireKey, issuer, reloads, request
<1> QED
  BY <1>1, <1>2

\* Answering or sending a fetch keeps the types of the request.
LEMMA RequestTyped ==
  ASSUME TypeOK, NEW r \in Requests,
         \/ \E step \in Flying : Fly(r, step)
         \/ \E outcome \in Verdicts : Answer(r, outcome)
  PROVE  /\ token' \in [Requests -> Tokens \cup {None}]
         /\ flight' \in [Requests -> Flights \cup {None}]
         /\ pc' \in [Requests -> {"idle"} \cup Waiting \cup Verdicts]
         /\ sent' \in [Isolates -> Nat \cup {None}]
<1>1. [began |-> now, reply |-> None] \in Flights
  BY DEF TypeOK, Flights
<1> QED
  BY <1>1 DEF TypeOK, Fly, Answer, Waiting

\* What is put in KV are key sets.
LEMMA PutTyped ==
  ASSUME TypeOK, NEW set \in KeySets, Put(set)
  PROVE  versions' \subseteq KeySets
<1>1. [keys |-> set.keys, at |-> now] \in KeySets
  BY DEF TypeOK, KeySets
<1> QED
  BY <1>1 DEF TypeOK, Put

\* The outcome of a lookup in a set: an answer, or another fetch.
Outcome(r) ==
  \/ \E step \in Flying : Fly(r, step)
  \/ \E outcome \in Verdicts : Answer(r, outcome)

\* A miss keeps the types of what it touches.
LEMMA MissTyped ==
  ASSUME TypeOK, NEW r \in Requests, Miss(r)
  PROVE  Outcome(r) /\ forced' \in [Isolates -> Nat \cup {None}] /\ versions' \subseteq KeySets
  BY DEF TypeOK, Miss, Outcome, Flying, Verdicts

\* So does a verification.
LEMMA VerifyTyped ==
  ASSUME TypeOK, NEW r \in Requests, NEW set \in KeySets, Verify(r, set)
  PROVE  Outcome(r) /\ versions' \subseteq KeySets
<1>1. Outcome(r)
  BY DEF Verify, Outcome, Verdicts
<1> QED
  BY <1>1, PutTyped DEF TypeOK, Verify

\* And the lookup that leads to either.
LEMMA SelectTyped ==
  ASSUME TypeOK, NEW r \in Requests, NEW set \in KeySets, Select(r, set)
  PROVE  Outcome(r) /\ forced' \in [Isolates -> Nat \cup {None}] /\ versions' \subseteq KeySets
<1>1. CASE Verify(r, set) /\ UNCHANGED forced
  BY <1>1, VerifyTyped DEF TypeOK
<1>2. CASE Fly(r, "retry") /\ UNCHANGED <<forced, versions>>
  BY <1>2 DEF TypeOK, Outcome, Flying
<1> QED
  BY <1>1, <1>2, MissTyped DEF Select

\* An answer to a fetch is a key set.
LEMMA ReceivedTyped ==
  ASSUME TypeOK, NEW r \in Requests, flight[r] # None, flight[r].reply # None
  PROVE  Received(r) \in KeySets
  BY DEF TypeOK, Flights, Received, KeySets

\* A request keeps the types.
LEMMA RequestStepTyped ==
  ASSUME TypeOK, NEW r \in Requests, RequestStep(r),
         pc[r] \in Flying => flight[r] # None
  PROVE  TypeOK'
<1>1. CASE IssuerAnswers(r)
  <2>1. flight[r] \in Flights /\ published \in SUBSET Kids
    BY <1>1 DEF IssuerAnswers, TypeOK
  <2>2. [flight[r] EXCEPT !.reply = published] \in Flights
    BY <2>1 DEF Flights
  <2>3. flight' \in [Requests -> Flights \cup {None}]
    BY <1>1, <2>2 DEF IssuerAnswers, TypeOK
  <2> QED
    BY <1>1, <2>3 DEF IssuerAnswers, TypeOK, issuer, reloads
<1>2. ASSUME NEW i \in Isolates, Receive(r, i) PROVE TypeOK'
  BY <1>2 DEF Receive, TypeOK, issuer, reloads, Waiting
<1>3. ASSUME Outcome(r), UNCHANGED <<now, issuer, home>>,
             jwks' \in [Isolates -> KeySets \cup {None}],
             forced' \in [Isolates -> Nat \cup {None}], versions' \subseteq KeySets
      PROVE  TypeOK'
  BY <1>3, RequestTyped DEF Outcome, TypeOK, issuer
<1>4. CASE Resolve(r)
  <2>1. UNCHANGED <<now, issuer, home>> /\ jwks' \in [Isolates -> KeySets \cup {None}]
    BY <1>4 DEF Resolve, TypeOK
  <2>2. CASE Fresh(home[r]) /\ Select(r, jwks[home[r]])
    <3>1. jwks[home[r]] \in KeySets
      BY <2>2 DEF Fresh, TypeOK
    <3> QED
      BY <1>3, <2>1, <2>2, <3>1, SelectTyped
  <2>3. CASE Fly(r, "load") /\ UNCHANGED <<forced, versions>>
    BY <1>3, <2>1, <2>3 DEF Outcome, Flying, TypeOK
  <2> QED
    BY <1>4, <2>2, <2>3 DEF Resolve
<1>5. ASSUME pc[r] \in Flying, Arrives(r)
      PROVE  /\ Received(r) \in KeySets
             /\ UNCHANGED <<now, issuer, home>>
             /\ jwks' \in [Isolates -> KeySets \cup {None}]
  BY <1>5, ReceivedTyped DEF Arrives, TypeOK
<1>6. CASE Loaded(r)
  BY <1>3, <1>5, <1>6, SelectTyped DEF Loaded, Flying
<1>7. CASE Retried(r)
  <2>1. CASE Verify(r, Received(r)) /\ UNCHANGED forced
    BY <1>3, <1>5, <1>7, <2>1, VerifyTyped DEF Retried, Flying, TypeOK
  <2>2. CASE Miss(r)
    BY <1>3, <1>5, <1>7, <2>2, MissTyped DEF Retried, Flying
  <2> QED
    BY <1>7, <2>1, <2>2 DEF Retried
<1>8. CASE Forced(r)
  <2>1. Outcome(r)
    BY <1>8 DEF Forced, Outcome, Verdicts
  <2> QED
    BY <1>3, <1>5, <1>8, <2>1 DEF Forced, Flying, TypeOK
<1>9. CASE FetchFails(r)
  <2>1. CASE Answer(r, "503")
    BY <1>3, <1>9, <2>1 DEF FetchFails, Outcome, Verdicts, TypeOK
  <2>2. CASE pc' = [pc EXCEPT ![r] = "rescue"]
    BY <1>9, <2>2 DEF FetchFails, TypeOK, Waiting, Answer, issuer
  <2> QED
    BY <1>9, <2>1, <2>2 DEF FetchFails
<1>10. CASE Rescue(r)
  <2>1. Outcome(r)
    BY <1>10 DEF Rescue, Outcome, Verdicts
  <2> QED
    BY <1>3, <1>10, <2>1 DEF Rescue, TypeOK
<1> QED
  BY <1>1, <1>2, <1>4, <1>6, <1>7, <1>8, <1>9, <1>10 DEF RequestStep, RequestNext

\* Every step keeps the types.
LEMMA TypeOKStep ==
  ASSUME KeysInv, [Next]_vars
  PROVE  TypeOK'
<1>1. TypeOK /\ \A r \in Requests : pc[r] \in Flying => flight[r] # None
  BY DEF KeysInv
<1>2. CASE UNCHANGED vars
  BY <1>1, <1>2 DEF vars, TypeOK, issuer, reloads, request
<1> QED
  BY <1>1, <1>2, Steps, SurroundingsTyped, RequestStepTyped

-----------------------------------------------------------------------------
(* What sets, snapshots and answers say of the keys                        *)

\* The times at which keys were last served are times, and only move forward.
LEMMA LastPublishedGrows ==
  ASSUME KeysInv, [Next]_vars, NEW k \in Kids, LastPublished(k) # None
  PROVE  /\ LastPublished(k) \in Nat
         /\ LastPublished(k) <= now
         /\ LastPublished(k)' \in Nat
         /\ LastPublished(k) <= LastPublished(k)'
<1>1. LastPublished(k) \in Nat /\ LastPublished(k) <= now /\ now \in Nat
  BY DEF KeysInv, TypeOK, LastPublished
<1>2. CASE UNCHANGED <<now, published, since, gone>>
  BY <1>1, <1>2 DEF LastPublished
<1>3. CASE Tick
  BY <1>1, <1>3 DEF Tick, LastPublished, issuer
<1>4. ASSUME NEW j \in Kids, PublishKey(j) \/ RetireKey(j)
      PROVE  LastPublished(k)' \in Nat /\ LastPublished(k) <= LastPublished(k)'
  BY <1>1, <1>4, KeysAssumption DEF PublishKey, RetireKey, LastPublished, KeysInv, TypeOK
<1>5. UNCHANGED vars \/ (\E i \in Isolates : Recycle(i)) => UNCHANGED <<now, published, since, gone>>
  BY DEF vars, Recycle, issuer
<1> QED
  BY <1>1, <1>2, <1>3, <1>4, <1>5, Steps, RequestsLeaveIssuer

\* The clock does not run backwards.
LEMMA TimePasses ==
  ASSUME KeysInv, [Next]_vars
  PROVE  now \in Nat /\ now' \in Nat /\ now <= now'
<1>1. now \in Nat
  BY DEF KeysInv, TypeOK
<1>2. UNCHANGED vars \/ (\E i \in Isolates : Recycle(i)) => now' = now
  BY DEF vars, Recycle
<1>3. ASSUME NEW k \in Kids, PublishKey(k) \/ RetireKey(k) PROVE now' = now
  BY <1>3 DEF PublishKey, RetireKey
<1>4. Tick => now' = now + 1
  BY DEF Tick
<1> QED
  BY <1>1, <1>2, <1>3, <1>4, Steps, RequestsLeaveIssuer

\* A key served now was served before, unless it is new.
LEMMA SinceStays ==
  ASSUME KeysInv, [Next]_vars, NEW k \in published'
  PROVE  \/ k \in published /\ since'[k] = since[k]
         \/ since'[k] = now /\ now' = now
<1>1. ASSUME NEW j \in Kids, PublishKey(j) \/ RetireKey(j)
      PROVE  \/ k \in published /\ since'[k] = since[k]
             \/ since'[k] = now /\ now' = now
  BY <1>1 DEF PublishKey, RetireKey, KeysInv, TypeOK
<1>2. UNCHANGED vars \/ Tick \/ (\E i \in Isolates : Recycle(i)) => UNCHANGED <<published, since>>
  BY DEF vars, Tick, Recycle, issuer
<1> QED
  BY <1>1, <1>2, Steps, RequestsLeaveIssuer

\* What a set of keys says of those last served goes on holding.
LEMMA ServedStays ==
  ASSUME KeysInv, [Next]_vars, NEW S \in SUBSET Kids, NEW t \in Nat, NEW age \in Nat,
         \A k \in S : LastPublished(k) # None /\ t <= LastPublished(k) + age
  PROVE  \A k \in S : LastPublished(k)' # None /\ t <= LastPublished(k)' + age
<1> SUFFICES ASSUME NEW k \in S
             PROVE  LastPublished(k)' # None /\ t <= LastPublished(k)' + age
  OBVIOUS
<1> QED
  BY LastPublishedGrows, KeysAssumption

\* And so does what it says of the keys served before some time.
LEMMA CompleteStays ==
  ASSUME KeysInv, [Next]_vars, NEW S \in SUBSET Kids, NEW t \in Nat, NEW age \in Nat,
         t <= now, \A k \in published : since[k] + age < t => k \in S
  PROVE  \A k \in published' : since'[k] + age < t => k \in S
<1> SUFFICES ASSUME NEW k \in published', since'[k] + age < t
             PROVE  k \in S
  OBVIOUS
<1>1. now \in Nat
  BY DEF KeysInv, TypeOK
<1>2. since'[k] # now
  BY <1>1
<1> QED
  BY <1>2, SinceStays

\* A set goes on saying what it says.
LEMMA SetOKStays ==
  ASSUME KeysInv, [Next]_vars, NEW s \in KeySets, SetOK(s)
  PROVE  /\ s.at <= now'
         /\ \A k \in s.keys : LastPublished(k)' # None /\ s.at <= LastPublished(k)' + Timeout
         /\ \A k \in published' : since'[k] + Timeout < s.at => k \in s.keys
<1>1. s.at \in Nat /\ s.keys \in SUBSET Kids /\ Timeout \in Nat
  BY KeysAssumption DEF KeySets
<1>2. s.at <= now'
  BY <1>1, TimePasses DEF SetOK
<1>3. \A k \in s.keys : LastPublished(k)' # None /\ s.at <= LastPublished(k)' + Timeout
  BY <1>1, ServedStays DEF SetOK
<1>4. \A k \in published' : since'[k] + Timeout < s.at => k \in s.keys
  BY <1>1, CompleteStays DEF SetOK
<1> QED
  BY <1>2, <1>3, <1>4

\* So does a snapshot.
LEMMA SnapshotOKStays ==
  ASSUME KeysInv, [Next]_vars, NEW v \in KeySets, SnapshotOK(v)
  PROVE  /\ v.at <= now'
         /\ \A k \in v.keys :
              LastPublished(k)' # None /\ v.at <= LastPublished(k)' + CacheMaxAge + Timeout
<1> DEFINE age == CacheMaxAge + Timeout
<1>1. v.at \in Nat /\ v.keys \in SUBSET Kids /\ age \in Nat
  BY KeysAssumption DEF KeySets
<1>2. v.at <= now'
  BY <1>1, TimePasses DEF SnapshotOK
<1>3. \A k \in v.keys : LastPublished(k) # None /\ v.at <= LastPublished(k) + age
  <2> SUFFICES ASSUME NEW k \in v.keys
               PROVE  LastPublished(k) # None /\ v.at <= LastPublished(k) + age
    OBVIOUS
  <2>1. LastPublished(k) # None /\ v.at <= LastPublished(k) + CacheMaxAge + Timeout
    BY DEF SnapshotOK
  <2>2. LastPublished(k) \in Nat
    BY <1>1, <2>1, LastPublishedGrows
  <2> QED
    BY <2>1, <2>2, KeysAssumption
<1>4. \A k \in v.keys : LastPublished(k)' # None /\ v.at <= LastPublished(k)' + age
  <2> HIDE DEF age
  <2> QED
    BY <1>1, <1>3, ServedStays
<1>5. \A k \in v.keys : LastPublished(k)' \in Nat
  BY <1>1, <1>3, LastPublishedGrows
<1>6. \A k \in v.keys : v.at <= LastPublished(k)' + CacheMaxAge + Timeout
  BY <1>1, <1>4, <1>5, KeysAssumption
<1> QED
  BY <1>2, <1>4, <1>6

\* And an answer on its way.
LEMMA FlightOKStays ==
  ASSUME KeysInv, [Next]_vars, NEW f \in Flights, FlightOK(f)
  PROVE  /\ f.began <= now'
         /\ f.reply # None =>
              /\ \A k \in f.reply : LastPublished(k)' # None /\ f.began <= LastPublished(k)'
              /\ \A k \in published' : since'[k] < f.began => k \in f.reply
<1>1. f.began \in Nat /\ f.reply \in {None} \cup SUBSET Kids
  BY DEF Flights
<1>2. f.began <= now /\ now \in Nat
  BY DEF FlightOK, KeysInv, TypeOK
<1>3. f.began <= now'
  BY <1>1, <1>2, TimePasses
<1>4. ASSUME f.reply # None, NEW k \in f.reply
      PROVE  LastPublished(k)' # None /\ f.began <= LastPublished(k)'
  BY <1>1, <1>4, LastPublishedGrows, KeysAssumption DEF FlightOK
<1>5. ASSUME f.reply # None, NEW k \in published', since'[k] < f.began
      PROVE  k \in f.reply
  <2>1. since'[k] # now
    BY <1>1, <1>2, <1>5
  <2> QED
    BY <1>5, <2>1, SinceStays DEF FlightOK
<1> QED
  BY <1>3, <1>4, <1>5

\* An answer that arrives in time is a set as SetOK says.
LEMMA ReceivedOK ==
  ASSUME KeysInv, NEW r \in Requests, flight[r] # None, flight[r].reply # None,
         Age(flight[r].began) <= Timeout
  PROVE  Received(r) \in KeySets /\ SetOK(Received(r)) /\ Age(Received(r).at) = 0
<1>1. flight[r] \in Flights /\ FlightOK(flight[r]) /\ now \in Nat
  BY DEF KeysInv, TypeOK
<1>2. flight[r].began \in Nat /\ flight[r].reply \in SUBSET Kids
  BY <1>1 DEF Flights
<1>3. ASSUME NEW k \in flight[r].reply
      PROVE  LastPublished(k) # None /\ now <= LastPublished(k) + Timeout
  <2>1. LastPublished(k) # None /\ flight[r].began <= LastPublished(k)
    BY <1>1, <1>3 DEF FlightOK
  <2>2. LastPublished(k) \in Nat
    BY <1>1, <1>2, <2>1 DEF LastPublished, KeysInv, TypeOK
  <2> QED
    BY <1>1, <1>2, <2>1, <2>2, KeysAssumption DEF Age
<1>4. ASSUME NEW k \in published, since[k] + Timeout < now
      PROVE  k \in flight[r].reply
  <2>1. since[k] \in Nat
    BY DEF KeysInv, TypeOK
  <2>2. since[k] < flight[r].began
    BY <1>1, <1>2, <1>4, <2>1, KeysAssumption DEF Age
  <2> QED
    BY <1>1, <2>2 DEF FlightOK
<1>5. Received(r) \in KeySets
  BY <1>1, <1>2 DEF Received, KeySets
<1> QED
  BY <1>1, <1>3, <1>4, <1>5 DEF Received, SetOK, Age

\* The snapshot of a set that is at most CacheMaxAge old.
LEMMA PutOK ==
  ASSUME KeysInv, NEW set \in KeySets, SetOK(set), Age(set.at) <= CacheMaxAge
  PROVE  SnapshotOK([keys |-> set.keys, at |-> now])
<1>1. set.at \in Nat /\ set.keys \in SUBSET Kids /\ now \in Nat
  BY DEF KeySets, KeysInv, TypeOK
<1>2. ASSUME NEW k \in set.keys
      PROVE  LastPublished(k) # None /\ now <= LastPublished(k) + CacheMaxAge + Timeout
  <2>1. LastPublished(k) # None /\ set.at <= LastPublished(k) + Timeout
    BY <1>2 DEF SetOK
  <2>2. LastPublished(k) \in Nat
    BY <1>1, <1>2, <2>1 DEF LastPublished, KeysInv, TypeOK
  <2> QED
    BY <1>1, <2>1, <2>2, KeysAssumption DEF Age
<1> QED
  BY <1>1, <1>2 DEF SnapshotOK

\* A set that a request looks its key up in: the one in memory, or the one that
\* has just arrived.
Held(r, set) ==
  \/ pc[r] = "resolve" /\ Fresh(home[r]) /\ set = jwks[home[r]]
  \/ pc[r] \in Flying /\ Arrives(r) /\ set = Received(r)

\* Such a set is as SetOK says, and not too old.
LEMMA HeldOK ==
  ASSUME KeysInv, NEW r \in Requests, NEW set, Held(r, set)
  PROVE  set \in KeySets /\ SetOK(set) /\ Age(set.at) <= CacheMaxAge
<1>1. CASE pc[r] = "resolve" /\ Fresh(home[r]) /\ set = jwks[home[r]]
  <2>1. home[r] \in Isolates /\ jwks[home[r]] \in KeySets /\ SetOK(jwks[home[r]])
    BY <1>1 DEF Fresh, KeysInv, TypeOK
  <2>2. now \in Nat /\ jwks[home[r]].at \in Nat
    BY <2>1 DEF KeysInv, TypeOK, KeySets
  <2> QED
    BY <1>1, <2>1, <2>2, KeysAssumption DEF Fresh, Age
<1>2. CASE pc[r] \in Flying /\ Arrives(r) /\ set = Received(r)
  BY <1>2, ReceivedOK, KeysAssumption DEF KeysInv, Arrives
<1> QED
  BY <1>1, <1>2 DEF Held

-----------------------------------------------------------------------------
(* How a step changes sets, snapshots, fetches and throttles               *)

\* A set in memory stays, is dropped, or has just arrived.
LEMMA JwksMoves ==
  ASSUME KeysInv, [Next]_vars, NEW i \in Isolates, jwks'[i] # None
  PROVE  \/ jwks'[i] = jwks[i]
         \/ SetOK(jwks'[i]) /\ UNCHANGED <<now, published, since, gone>>
<1>1. UNCHANGED vars \/ Tick \/ (\E k \in Kids : PublishKey(k) \/ RetireKey(k)) => jwks' = jwks
  BY DEF vars, Tick, PublishKey, RetireKey
<1>2. ASSUME NEW j \in Isolates, Recycle(j) PROVE jwks'[i] \in {jwks[i], None}
  BY <1>2 DEF Recycle, KeysInv, TypeOK
<1>3. ASSUME NEW r \in Requests, pc[r] \in Flying, Arrives(r)
      PROVE  jwks'[i] = jwks[i] \/ SetOK(jwks'[i])
  <2>1. SetOK(Received(r))
    BY <1>3, HeldOK DEF Held
  <2> QED
    BY <1>3, <2>1 DEF Arrives, KeysInv, TypeOK
<1>4. ASSUME NEW r \in Requests, RequestStep(r)
      PROVE  \/ jwks' = jwks
             \/ pc[r] \in Flying /\ Arrives(r)
  <2>1. CASE Loaded(r) \/ Retried(r) \/ Forced(r)
    BY <2>1 DEF Loaded, Retried, Forced, Flying
  <2>2. CASE IssuerAnswers(r) \/ (\E j \in Isolates : Receive(r, j)) \/ Resolve(r)
    BY <2>2 DEF IssuerAnswers, Receive, Resolve
  <2>3. CASE FetchFails(r) \/ Rescue(r)
    BY <2>3 DEF FetchFails, Rescue
  <2> QED
    BY <1>4, <2>1, <2>2, <2>3 DEF RequestStep, RequestNext
<1> QED
  BY <1>1, <1>2, <1>3, <1>4, Steps, RequestsLeaveIssuer

\* What a request puts in KV is a snapshot of the set it verified with.
LEMMA WhoPuts ==
  ASSUME NEW r \in Requests, RequestStep(r)
  PROVE  versions' = versions \/ \E set : Held(r, set) /\ Put(set)
<1>1. CASE Resolve(r)
  BY <1>1 DEF Resolve, Select, Verify, Miss, Held
<1>2. CASE Loaded(r)
  BY <1>2 DEF Loaded, Select, Verify, Miss, Held, Flying
<1>3. CASE Retried(r)
  BY <1>3 DEF Retried, Verify, Miss, Held, Flying
<1>4. CASE IssuerAnswers(r) \/ (\E i \in Isolates : Receive(r, i)) \/ Forced(r) \/ FetchFails(r) \/ Rescue(r)
  BY <1>4 DEF IssuerAnswers, Receive, Forced, FetchFails, Rescue
<1> QED
  BY <1>1, <1>2, <1>3, <1>4 DEF RequestStep, RequestNext

\* A snapshot that was not in KV before is as SnapshotOK says.
LEMMA VersionsMove ==
  ASSUME KeysInv, [Next]_vars, NEW v \in versions'
  PROVE  \/ v \in versions
         \/ SnapshotOK(v) /\ UNCHANGED <<now, published, since, gone>>
<1>1. \/ UNCHANGED vars \/ Tick
      \/ \E k \in Kids : PublishKey(k) \/ RetireKey(k)
      \/ \E i \in Isolates : Recycle(i)
      => versions' = versions
  BY DEF vars, Tick, PublishKey, RetireKey, Recycle
<1>2. ASSUME NEW r \in Requests, RequestStep(r)
      PROVE  v \in versions \/ SnapshotOK(v)
  <2>1. CASE versions' = versions
    BY <2>1
  <2>2. ASSUME NEW set, Held(r, set), Put(set)
        PROVE  v \in versions \/ SnapshotOK(v)
    <3>1. SnapshotOK([keys |-> set.keys, at |-> now])
      BY <2>2, HeldOK, PutOK
    <3> QED
      BY <2>2, <3>1 DEF Put
  <2> QED
    BY <1>2, <2>1, <2>2, WhoPuts
<1> QED
  BY <1>1, <1>2, Steps, RequestsLeaveIssuer

\* A lookup ends in an answer, a retry or a forced reload that was due.
LEMMA Lookups ==
  ASSUME NEW r \in Requests, NEW set, Select(r, set) \/ Miss(r) \/ (Verify(r, set) /\ UNCHANGED forced)
  PROVE  \/ UNCHANGED forced /\ \E outcome \in Verdicts : Answer(r, outcome)
         \/ UNCHANGED forced /\ Fly(r, "retry")
         \/ /\ MayForceReload(home[r]) /\ Fly(r, "force")
            /\ forced' = [forced EXCEPT ![home[r]] = now]
  BY DEF Select, Miss, Verify, Verdicts

\* What each step of a request does to the request.
LEMMA RequestMoves ==
  ASSUME KeysInv, NEW r \in Requests, RequestStep(r)
  PROVE  \/ /\ pc[r] \in Flying /\ flight[r].reply = None
            /\ flight' = [flight EXCEPT ![r].reply = published]
            /\ UNCHANGED <<token, home, pc, forced, sent>>
         \/ /\ pc[r] \notin Waiting
            /\ \E t \in Tokens : token' = [token EXCEPT ![r] = t]
            /\ \E i \in Isolates : home' = [home EXCEPT ![r] = i]
            /\ pc' = [pc EXCEPT ![r] = "resolve"]
            /\ UNCHANGED <<flight, forced, sent>>
         \/ /\ pc[r] \in Waiting
            /\ \E outcome \in Verdicts : Answer(r, outcome)
            /\ UNCHANGED <<home, forced>>
         \/ /\ pc[r] \in Waiting
            /\ pc' = [pc EXCEPT ![r] = "rescue"]
            /\ flight' = [flight EXCEPT ![r] = None]
            /\ UNCHANGED <<token, home, forced, sent>>
         \/ /\ pc[r] \in Waiting
            /\ Fly(r, "load") \/ Fly(r, "retry")
            /\ UNCHANGED <<home, forced>>
         \/ /\ pc[r] \in Waiting \ {"force"} /\ MayForceReload(home[r])
            /\ Fly(r, "force")
            /\ forced' = [forced EXCEPT ![home[r]] = now]
            /\ UNCHANGED home
<1>1. CASE IssuerAnswers(r)
  BY <1>1 DEF IssuerAnswers, reloads
<1>2. CASE \E i \in Isolates : Receive(r, i)
  BY <1>2 DEF Receive, reloads, Waiting, Flying, Verdicts
<1>3. CASE Resolve(r)
  BY <1>3, Lookups DEF Resolve, Waiting
<1>4. CASE Loaded(r)
  BY <1>4, Lookups DEF Loaded, Arrives, Waiting, Flying
<1>5. CASE Retried(r)
  BY <1>5, Lookups DEF Retried, Arrives, Waiting, Flying
<1>6. CASE Forced(r)
  BY <1>6 DEF Forced, Arrives, Waiting, Flying, Verdicts
<1>7. CASE FetchFails(r)
  BY <1>7 DEF FetchFails, Waiting, Flying, Verdicts
<1>8. CASE Rescue(r)
  BY <1>8 DEF Rescue, Waiting, Verdicts
<1> QED
  BY <1>1, <1>2, <1>3, <1>4, <1>5, <1>6, <1>7, <1>8 DEF RequestStep, RequestNext

\* What the surroundings do to requests: nothing, or take them along.
LEMMA SurroundingsMove ==
  ASSUME \/ UNCHANGED vars \/ Tick
         \/ \E k \in Kids : PublishKey(k) \/ RetireKey(k)
         \/ \E i \in Isolates : Recycle(i)
  PROVE  /\ UNCHANGED home
         /\ \/ UNCHANGED <<token, flight, pc, forced, sent>>
            \/ \E i \in Isolates :
                 /\ forced' = [forced EXCEPT ![i] = None]
                 /\ sent' = [sent EXCEPT ![i] = None]
                 /\ token' = [r \in Requests |-> IF home[r] = i THEN None ELSE token[r]]
                 /\ flight' = [r \in Requests |-> IF home[r] = i THEN None ELSE flight[r]]
                 /\ pc' = [r \in Requests |-> IF home[r] = i THEN "idle" ELSE pc[r]]
  BY DEF vars, Tick, PublishKey, RetireKey, Recycle, reloads, request

-----------------------------------------------------------------------------
(* The invariant                                                           *)

\* The part of the invariant about the issuer's own times.
LEMMA IssuerStep ==
  ASSUME KeysInv, [Next]_vars
  PROVE  /\ \A k \in published' : since'[k] # None /\ since'[k] <= now'
         /\ \A k \in Kids : gone'[k] # None => gone'[k] <= now'
<1>1. CASE UNCHANGED <<now, published, since, gone>>
  BY <1>1 DEF KeysInv
<1>2. CASE Tick
  BY <1>2, KeysAssumption DEF Tick, issuer, KeysInv, TypeOK
<1>3. ASSUME NEW k \in Kids, PublishKey(k) \/ RetireKey(k)
      PROVE  /\ \A j \in published' : since'[j] # None /\ since'[j] <= now'
             /\ \A j \in Kids : gone'[j] # None => gone'[j] <= now'
  BY <1>3, KeysAssumption DEF PublishKey, RetireKey, KeysInv, TypeOK
<1>4. UNCHANGED vars \/ (\E i \in Isolates : Recycle(i)) => UNCHANGED <<now, published, since, gone>>
  BY DEF vars, Recycle, issuer
<1> QED
  BY <1>1, <1>2, <1>3, <1>4, Steps, RequestsLeaveIssuer

\* Sets in memory and snapshots.
LEMMA SetsStep ==
  ASSUME KeysInv, [Next]_vars
  PROVE  /\ \A i \in Isolates : jwks'[i] # None => SetOK(jwks[i])'
         /\ \A v \in versions' : SnapshotOK(v)'
<1>1. ASSUME NEW i \in Isolates, jwks'[i] # None PROVE SetOK(jwks[i])'
  <2>1. CASE jwks'[i] = jwks[i]
    <3>1. jwks[i] \in KeySets /\ SetOK(jwks[i])
      BY <1>1, <2>1 DEF KeysInv, TypeOK
    <3> QED
      BY <2>1, <3>1, SetOKStays DEF SetOK
  <2>2. CASE SetOK(jwks'[i]) /\ UNCHANGED <<now, published, since, gone>>
    BY <2>2 DEF SetOK, LastPublished
  <2> QED
    BY <1>1, <2>1, <2>2, JwksMoves
<1>2. ASSUME NEW v \in versions' PROVE SnapshotOK(v)'
  <2>1. CASE v \in versions
    BY <2>1, SnapshotOKStays DEF KeysInv, TypeOK, SnapshotOK
  <2>2. CASE SnapshotOK(v) /\ UNCHANGED <<now, published, since, gone>>
    BY <2>2 DEF SnapshotOK, LastPublished
  <2> QED
    BY <2>1, <2>2, VersionsMove
<1> QED
  BY <1>1, <1>2

\* Fetches under way.
LEMMA FlightsStep ==
  ASSUME KeysInv, [Next]_vars, NEW q \in Requests, flight'[q] # None
  PROVE  FlightOK(flight[q])'
<1>1. CASE flight'[q] = flight[q]
  BY <1>1, FlightOKStays DEF KeysInv, TypeOK, FlightOK
<1>2. CASE flight'[q] = [began |-> now, reply |-> None] /\ now' = now
  BY <1>2 DEF FlightOK, KeysInv, TypeOK
<1>3. CASE /\ flight[q] # None /\ flight'[q] = [flight[q] EXCEPT !.reply = published]
           /\ UNCHANGED <<now, published, since, gone>>
  <2>1. flight[q] \in Flights /\ flight[q].began <= now /\ now \in Nat
    BY <1>3 DEF KeysInv, TypeOK, FlightOK
  <2>2. flight'[q].began = flight[q].began /\ flight'[q].reply = published
    BY <1>3, <2>1 DEF Flights
  <2>3. \A k \in published : LastPublished(k)' = now
    BY <1>3 DEF LastPublished
  <2>4. \A k \in published : now # None
    BY <2>1, KeysAssumption
  <2> QED
    BY <1>3, <2>1, <2>2, <2>3, <2>4 DEF FlightOK
<1>4. ASSUME NEW r \in Requests, RequestStep(r)
      PROVE  \/ flight'[q] = flight[q]
             \/ flight'[q] = [began |-> now, reply |-> None]
             \/ flight[q] # None /\ flight'[q] = [flight[q] EXCEPT !.reply = published]
  BY <1>4, RequestMoves DEF KeysInv, TypeOK, Fly, Answer
<1>5. ASSUME ~ \E r \in Requests : RequestStep(r) PROVE flight'[q] \in {flight[q], None}
  BY <1>5, Steps, SurroundingsMove
<1> QED
  BY <1>1, <1>2, <1>3, <1>4, <1>5, RequestsLeaveIssuer

\* The throttle's times.
LEMMA ForcedStep ==
  ASSUME KeysInv, [Next]_vars, NEW i \in Isolates, forced'[i] # None
  PROVE  forced'[i] <= now'
<1>1. ASSUME NEW r \in Requests, RequestStep(r) PROVE forced'[i] \in {forced[i], now}
  BY <1>1, RequestMoves DEF KeysInv, TypeOK
<1>2. ASSUME ~ \E r \in Requests : RequestStep(r) PROVE forced'[i] \in {forced[i], None}
  BY <1>2, Steps, SurroundingsMove DEF KeysInv, TypeOK
<1>3. forced[i] # None => forced[i] \in Nat /\ forced[i] <= now
  BY DEF KeysInv, TypeOK
<1> QED
  BY <1>1, <1>2, <1>3, TimePasses

\* A request in hand has a token; one that waits for the issuer has sent a fetch.
LEMMA WaitingStep ==
  ASSUME KeysInv, [Next]_vars, NEW q \in Requests
  PROVE  /\ pc'[q] \in Waiting => token'[q] # None
         /\ pc'[q] \in Flying => flight'[q] # None
<1>1. ASSUME NEW r \in Requests, RequestStep(r), r # q
      PROVE  pc'[q] = pc[q] /\ token'[q] = token[q] /\ flight'[q] = flight[q]
  BY <1>1, RequestMoves DEF KeysInv, TypeOK, Fly, Answer
<1>2. CASE RequestStep(q)
  <2>1. None \notin Tokens /\ None \notin Flights
    BY NoneAssumption
  <2>2. [began |-> now, reply |-> None] \in Flights
    BY DEF KeysInv, TypeOK, Flights
  <2>3. ASSUME flight[q] # None
        PROVE  [flight[q] EXCEPT !.reply = published] \in Flights
    BY <2>3 DEF KeysInv, TypeOK, Flights
  <2>4. CASE /\ pc[q] \in Flying
             /\ flight' = [flight EXCEPT ![q].reply = published]
             /\ UNCHANGED <<token, pc>>
    <3>1. flight[q] # None /\ token[q] # None
      BY <2>4 DEF KeysInv, Waiting
    <3>2. flight'[q] = [flight[q] EXCEPT !.reply = published]
      BY <2>4 DEF KeysInv, TypeOK
    <3> QED
      BY <2>1, <2>3, <2>4, <3>1, <3>2
  <2>5. ASSUME NEW t \in Tokens, token' = [token EXCEPT ![q] = t],
               pc' = [pc EXCEPT ![q] = "resolve"]
        PROVE  token'[q] # None /\ pc'[q] \notin Flying
    BY <2>1, <2>5 DEF KeysInv, TypeOK, Flying
  <2>6. ASSUME NEW outcome \in Verdicts, Answer(q, outcome)
        PROVE  pc'[q] \notin Waiting /\ pc'[q] \notin Flying
    BY <2>6 DEF KeysInv, TypeOK, Answer, Verdicts, Waiting, Flying
  <2>7. CASE pc[q] \in Waiting /\ pc' = [pc EXCEPT ![q] = "rescue"] /\ UNCHANGED token
    BY <2>7 DEF KeysInv, TypeOK, Flying
  <2>8. ASSUME NEW step, Fly(q, step), pc[q] \in Waiting
        PROVE  token'[q] # None /\ flight'[q] # None
    BY <2>1, <2>2, <2>8 DEF KeysInv, TypeOK, Fly
  <2> QED
    BY <1>2, <2>4, <2>5, <2>6, <2>7, <2>8, RequestMoves
<1>3. ASSUME ~ \E r \in Requests : RequestStep(r)
      PROVE  \/ pc'[q] = "idle"
             \/ pc'[q] = pc[q] /\ token'[q] = token[q] /\ flight'[q] = flight[q]
  BY <1>3, Steps, SurroundingsMove DEF KeysInv, TypeOK
<1> QED
  BY <1>1, <1>2, <1>3 DEF KeysInv, Waiting, Flying

\* The throttle has the time of the last forced reload: whoever sends one records it in
\* the same step.
LEMMA ThrottleStep ==
  ASSUME KeysInv, [Next]_vars
  PROVE  sent' = forced'
<1>1. sent = forced
  BY DEF KeysInv
<1>2. ASSUME NEW r \in Requests, RequestStep(r) PROVE sent' = forced'
  BY <1>1, <1>2, RequestMoves DEF Fly, Answer
<1>3. ASSUME ~ \E r \in Requests : RequestStep(r) PROVE sent' = forced'
  BY <1>1, <1>3, Steps, SurroundingsMove
<1> QED
  BY <1>2, <1>3

\* The invariant holds initially.
LEMMA KeysInvInit == Init => KeysInv
<1> SUFFICES ASSUME Init PROVE KeysInv
  OBVIOUS
<1>1. now = 0 /\ published \subseteq Kids
  BY DEF Init
<1>2. TypeOK
  BY DEF Init, TypeOK
<1> QED
  BY <1>1, <1>2, KeysAssumption DEF Init, KeysInv, Waiting, Flying

\* Every step keeps the invariant.
LEMMA KeysInvStep == KeysInv /\ [Next]_vars => KeysInv'
<1> SUFFICES ASSUME KeysInv, [Next]_vars PROVE KeysInv'
  OBVIOUS
<1>1. TypeOK'
  BY TypeOKStep
<1>2. /\ \A i \in Isolates : forced'[i] # None => forced'[i] <= now'
      /\ \A r \in Requests : flight'[r] # None => FlightOK(flight[r])'
      /\ \A r \in Requests : pc'[r] \in Waiting => token'[r] # None
      /\ \A r \in Requests : pc'[r] \in Flying => flight'[r] # None
      /\ sent' = forced'
  BY ForcedStep, FlightsStep, WaitingStep, ThrottleStep
<1> QED
  BY <1>1, <1>2, IssuerStep, SetsStep DEF KeysInv

\* The inductive invariant: sets in memory hold just the keys served up to Timeout
\* before they arrived, snapshots those served within CacheMaxAge more.
THEOREM KeysInvariant == Spec => []KeysInv
<1> QED
  BY KeysInvInit, KeysInvStep, PTL DEF Spec

-----------------------------------------------------------------------------
(* Forced reloads                                                          *)

\* A request comes to a forced reload only by being let to.
LEMMA ForceIsAllowed ==
  ASSUME KeysInv, [Next]_vars, NEW q \in Requests, pc[q] # "force", pc'[q] = "force"
  PROVE  MayForceReload(home[q])
<1>1. ASSUME NEW r \in Requests, RequestStep(r), r # q PROVE pc'[q] = pc[q]
  BY <1>1, RequestMoves DEF KeysInv, TypeOK, Fly, Answer
<1>2. CASE RequestStep(q)
  <2>1. ASSUME NEW step, step # "force", pc' = [pc EXCEPT ![q] = step] PROVE FALSE
    BY <2>1 DEF KeysInv, TypeOK
  <2>2. ASSUME NEW outcome \in Verdicts, Answer(q, outcome) PROVE FALSE
    BY <2>1, <2>2 DEF Answer, Verdicts
  <2>3. ~Fly(q, "load") /\ ~Fly(q, "retry")
    BY <2>1 DEF Fly
  <2> QED
    BY <1>2, <2>1, <2>2, <2>3, RequestMoves
<1>3. ASSUME ~ \E r \in Requests : RequestStep(r) PROVE pc'[q] \in {pc[q], "idle"}
  BY <1>3, Steps, SurroundingsMove DEF KeysInv, TypeOK
<1> QED
  BY <1>1, <1>2, <1>3

\* A forced reload follows the last one of its isolate, answered or not, by the interval.
LEMMA SpacedStep ==
  ASSUME KeysInv, [Next]_vars, NEW q \in Requests, pc[q] # "force", pc'[q] = "force",
         sent[home[q]] # None
  PROVE  Age(sent[home[q]]) >= ForcedInterval
  BY ForceIsAllowed DEF MayForceReload, KeysInv

\* Forced reloads are spaced, in every isolate, whatever becomes of them and however many
\* requests miss at once.
THEOREM ForcedReloadsSpaced == Spec => ForcedReloadsAreSpaced
<1>1. KeysInv /\ [Next]_vars
      => [\A r \in Requests :
            pc[r] # "force" /\ pc'[r] = "force" /\ sent[home[r]] # None
              => Age(sent[home[r]]) >= ForcedInterval]_vars
  BY SpacedStep
<1> QED
  BY <1>1, KeysInvariant, PTL DEF Spec, ForcedReloadsAreSpaced

-----------------------------------------------------------------------------
(* The contract                                                            *)

\* A key in a set that SetOK holds of was served lately.
LEMMA HeldKey ==
  ASSUME KeysInv, NEW r \in Requests, NEW set, Held(r, set), NEW k \in set.keys
  PROVE  k \in Kids /\ Verdict!Served(k, CacheMaxAge + Timeout)
<1>1. set \in KeySets /\ SetOK(set) /\ Age(set.at) <= CacheMaxAge
  BY HeldOK
<1>2. set.at \in Nat /\ k \in Kids /\ now \in Nat
  BY <1>1 DEF KeySets, KeysInv, TypeOK
<1>3. LastPublished(k) # None /\ set.at <= LastPublished(k) + Timeout
  BY <1>1 DEF SetOK
<1>4. LastPublished(k) \in Nat
  BY <1>2, <1>3 DEF LastPublished, KeysInv, TypeOK
<1>5. now - LastPublished(k) <= CacheMaxAge + Timeout
  BY <1>1, <1>2, <1>3, <1>4, KeysAssumption DEF Age
<1> QED
  BY <1>2, <1>3, <1>5 DEF LastPublished, Verdict!Served, Verdict!LastServed

\* A key of a usable snapshot was served lately too.
LEMMA SnapshotKey ==
  ASSUME KeysInv, NEW v \in versions, Usable(v), NEW k \in v.keys
  PROVE  Verdict!Served(k, CacheMaxAge + Timeout + MaxAge)
<1>1. v \in KeySets /\ SnapshotOK(v) /\ Age(v.at) <= MaxAge
  BY DEF KeysInv, TypeOK, Usable
<1>2. v.at \in Nat /\ k \in Kids /\ now \in Nat
  BY <1>1 DEF KeySets, KeysInv, TypeOK
<1>3. LastPublished(k) # None /\ v.at <= LastPublished(k) + CacheMaxAge + Timeout
  BY <1>1 DEF SnapshotOK
<1>4. LastPublished(k) \in Nat
  BY <1>2, <1>3 DEF LastPublished, KeysInv, TypeOK
<1>5. now - LastPublished(k) <= CacheMaxAge + Timeout + MaxAge
  BY <1>1, <1>2, <1>3, <1>4, KeysAssumption DEF Age
<1> QED
  BY <1>3, <1>5 DEF LastPublished, Verdict!Served, Verdict!LastServed

\* A key missing from a young set is either not served or new.
LEMMA MissedKey ==
  ASSUME KeysInv, NEW r \in Requests, NEW set, Held(r, set), CoolingDown(set),
         NEW k \in published \ set.keys
  PROVE  ~(now - since[k] >= Cooldown + Timeout)
<1>1. set \in KeySets /\ SetOK(set)
  BY HeldOK
<1>2. set.at \in Nat /\ now \in Nat /\ since[k] \in Nat
  BY <1>1 DEF KeySets, KeysInv, TypeOK
<1>3. ~(since[k] + Timeout < set.at)
  BY <1>1 DEF SetOK
<1> QED
  BY <1>2, <1>3, KeysAssumption DEF CoolingDown, Age

\* A set that has just arrived is cooling down.
LEMMA ReceivedIsYoung ==
  ASSUME KeysInv, NEW r \in Requests, pc[r] \in Flying, Arrives(r)
  PROVE  Held(r, Received(r)) /\ CoolingDown(Received(r))
<1>1. flight[r] # None
  BY DEF KeysInv
<1>2. Age(Received(r).at) = 0
  BY <1>1, ReceivedOK DEF Arrives
<1> QED
  BY <1>2, KeysAssumption DEF Held, CoolingDown

\* What verification with a held set says is allowed.
LEMMA VerifyAllowed ==
  ASSUME KeysInv, NEW r \in Requests, NEW set, Held(r, set), Verify(r, set),
         token[r].kid \in set.keys
  PROVE  \E outcome \in Verdicts : Verdict!Allowed(token[r], outcome) /\ Answer(r, outcome)
<1>1. Verdict!Served(token[r].kid, CacheMaxAge + Timeout)
  BY HeldKey
<1> QED
  BY <1>1 DEF Verify, Verdict!Allowed, Verdicts

\* So is a 401 after a miss.
LEMMA MissAllowed ==
  ASSUME KeysInv, NEW r \in Requests, NEW set, Held(r, set), CoolingDown(set),
         token[r].kid \notin set.keys
  PROVE  Verdict!Allowed(token[r], "401")
<1>1. token[r].kid \in published => ~(now - since[token[r].kid] >= Cooldown + Timeout)
  BY MissedKey
<1> QED
  BY <1>1 DEF Verdict!Allowed

\* Every answer is allowed by the contract.
LEMMA AnswersAllowed ==
  ASSUME KeysInv, NEW r \in Requests, RequestStep(r)
  PROVE  \/ \E step \in Flying : Fly(r, step)
         \/ \E outcome \in Verdicts : Verdict!Allowed(token[r], outcome) /\ Answer(r, outcome)
         \/ IssuerAnswers(r)
         \/ \E i \in Isolates : Receive(r, i)
         \/ pc[r] \in Waiting /\ pc' = [pc EXCEPT ![r] = "rescue"] /\ UNCHANGED token
<1>1. ASSUME NEW set, Held(r, set), Select(r, set)
      PROVE  \/ \E step \in Flying : Fly(r, step)
             \/ \E outcome \in Verdicts : Verdict!Allowed(token[r], outcome) /\ Answer(r, outcome)
  <2>1. CASE token[r].kid \in set.keys /\ Verify(r, set)
    BY <1>1, <2>1, VerifyAllowed
  <2>2. CASE Fly(r, "retry")
    BY <2>2 DEF Flying
  <2>3. CASE token[r].kid \notin set.keys /\ CoolingDown(set) /\ Miss(r)
    <3>1. Verdict!Allowed(token[r], "401")
      BY <1>1, <2>3, MissAllowed
    <3> QED
      BY <2>3, <3>1 DEF Miss, Flying, Verdicts
  <2> QED
    BY <1>1, <2>1, <2>2, <2>3 DEF Select
<1>2. CASE Resolve(r)
  <2>1. CASE Fresh(home[r]) /\ Select(r, jwks[home[r]])
    BY <1>1, <1>2, <2>1 DEF Resolve, Held
  <2>2. CASE Fly(r, "load")
    BY <2>2 DEF Flying
  <2> QED
    BY <1>2, <2>1, <2>2 DEF Resolve
<1>3. CASE Loaded(r)
  BY <1>1, <1>3, ReceivedIsYoung DEF Loaded, Flying
<1>4. CASE Retried(r)
  <2>1. Held(r, Received(r)) /\ CoolingDown(Received(r)) /\ Received(r).keys = flight[r].reply
    BY <1>4, ReceivedIsYoung DEF Retried, Flying, Received
  <2>2. CASE token[r].kid \in flight[r].reply /\ Verify(r, Received(r))
    BY <2>1, <2>2, VerifyAllowed
  <2>3. CASE token[r].kid \notin flight[r].reply /\ Miss(r)
    <3>1. Verdict!Allowed(token[r], "401")
      BY <2>1, <2>3, MissAllowed
    <3> QED
      BY <2>3, <3>1 DEF Miss, Flying, Verdicts
  <2> QED
    BY <1>4, <2>2, <2>3 DEF Retried
<1>5. CASE Forced(r)
  <2>1. Held(r, Received(r)) /\ CoolingDown(Received(r)) /\ Received(r).keys = flight[r].reply
    BY <1>5, ReceivedIsYoung DEF Forced, Flying, Received
  <2>2. CASE token[r].kid \in flight[r].reply /\ token[r].good
    <3>1. Verdict!Allowed(token[r], "accepted")
      BY <2>1, <2>2, HeldKey DEF Verdict!Allowed
    <3> QED
      BY <1>5, <2>2, <3>1 DEF Forced, Verdicts
  <2>3. CASE ~(token[r].kid \in flight[r].reply /\ token[r].good)
    <3>1. Verdict!Allowed(token[r], "401")
      BY <2>1, <2>3, MissAllowed DEF Verdict!Allowed
    <3> QED
      BY <1>5, <2>3, <3>1 DEF Forced, Verdicts
  <2> QED
    BY <2>2, <2>3
<1>6. CASE FetchFails(r)
  BY <1>6 DEF FetchFails, Verdict!Allowed, Verdicts, Waiting, Flying
<1>7. CASE Rescue(r)
  <2>1. ASSUME NEW v \in versions, Usable(v), token[r].kid \in v.keys, token[r].good
        PROVE  Verdict!Allowed(token[r], "rescued")
    BY <2>1, SnapshotKey DEF Verdict!Allowed
  <2> QED
    BY <1>7, <2>1 DEF Rescue, Verdict!Allowed, Verdicts
<1> QED
  BY <1>2, <1>3, <1>4, <1>5, <1>6, <1>7 DEF RequestStep, RequestNext

\* A step of a request is a step of the contract, or a stutter.
LEMMA RequestKeepsContract ==
  ASSUME KeysInv, NEW r \in Requests, RequestStep(r)
  PROVE  [Verdict!Next]_Verdict!vars
<1> DEFINE said == [q \in Requests |-> IF pc[q] \in Verdicts THEN pc[q] ELSE None]
<1>1. UNCHANGED <<now, published, since, gone>>
  BY RequestsLeaveIssuer
<1>2. TypeOK
  BY DEF KeysInv
<1>3. ASSUME UNCHANGED token, said' = said
      PROVE  UNCHANGED Verdict!vars
  BY <1>1, <1>3 DEF Verdict!vars, Verdict!issuer
<1>4. ASSUME NEW step, step \notin Verdicts, pc[r] \notin Verdicts, pc' = [pc EXCEPT ![r] = step]
      PROVE  said' = said
  BY <1>2, <1>4 DEF TypeOK
<1>5. CASE \E step \in Flying : Fly(r, step)
  <2>1. pc[r] \notin Verdicts
    BY <1>5, RequestMoves DEF Waiting, Verdicts, Flying, Fly, Answer, KeysInv, TypeOK
  <2> QED
    BY <1>3, <1>4, <1>5, <2>1 DEF Fly, Flying, Verdicts
<1>6. ASSUME NEW outcome \in Verdicts, Verdict!Allowed(token[r], outcome), Answer(r, outcome)
      PROVE  Verdict!Next
  <2>1. pc[r] \in Waiting
    BY <1>2, <1>6, RequestMoves DEF Waiting, Verdicts, Flying, Fly, Answer, TypeOK
  <2>2. token[r] # None
    BY <2>1 DEF KeysInv
  <2>3. said' = [said EXCEPT ![r] = outcome]
    BY <1>2, <1>6 DEF Answer, TypeOK
  <2>4. Verdict!Decide(r)
    BY <1>1, <1>6, <2>2, <2>3 DEF Verdict!Decide, Answer, Verdict!issuer, Verdicts
  <2> QED
    BY <2>4 DEF Verdict!Next
<1>7. CASE IssuerAnswers(r)
  BY <1>3, <1>7 DEF IssuerAnswers
<1>8. ASSUME NEW i \in Isolates, Receive(r, i)
      PROVE  Verdict!Next
  <2>1. said' = [said EXCEPT ![r] = None]
    BY <1>2, <1>8 DEF Receive, TypeOK, Verdicts
  <2>2. Verdict!Ask(r)
    BY <1>1, <1>8, <2>1 DEF Receive, Verdict!Ask, Verdict!issuer, Tokens, Verdict!Tokens
  <2> QED
    BY <2>2 DEF Verdict!Next
<1>9. CASE pc[r] \in Waiting /\ pc' = [pc EXCEPT ![r] = "rescue"] /\ UNCHANGED token
  <2>1. pc[r] \notin Verdicts
    BY <1>9 DEF Waiting, Flying, Verdicts
  <2> QED
    BY <1>3, <1>4, <1>9, <2>1 DEF Verdicts
<1> QED
  BY <1>5, <1>6, <1>7, <1>8, <1>9, AnswersAllowed

\* And so is a step of the surroundings.
LEMMA SurroundingsKeepContract ==
  ASSUME KeysInv,
         \/ UNCHANGED vars \/ Tick
         \/ \E k \in Kids : PublishKey(k) \/ RetireKey(k)
         \/ \E i \in Isolates : Recycle(i)
  PROVE  [Verdict!Next]_Verdict!vars
<1>1. CASE UNCHANGED vars
  BY <1>1 DEF vars, request, issuer, Verdict!vars, Verdict!issuer
<1>2. CASE Tick
  BY <1>2 DEF Tick, request, issuer, Verdict!Next, Verdict!Tick, Verdict!issuer
<1>3. ASSUME NEW k \in Kids, PublishKey(k) \/ RetireKey(k) PROVE Verdict!Next
  BY <1>3 DEF PublishKey, RetireKey, request, Verdict!Next, Verdict!PublishKey,
              Verdict!RetireKey
<1>4. ASSUME NEW i \in Isolates, Recycle(i) PROVE Verdict!Next
  <2> DEFINE S == {r \in Requests : home[r] = i}
  <2>1. token' = [r \in Requests |-> IF r \in S THEN None ELSE token[r]]
    BY <1>4 DEF Recycle
  <2>2. \A r \in Requests : pc'[r] = IF r \in S THEN "idle" ELSE pc[r]
    BY <1>4 DEF Recycle
  <2>3. Verdict!Lose(S)
    BY <1>4, <2>1, <2>2 DEF Recycle, Verdict!Lose, Verdict!issuer, issuer, Verdicts
  <2>4. S \in SUBSET Requests
    OBVIOUS
  <2>5. \E T \in SUBSET Requests : Verdict!Lose(T)
    BY <2>3, <2>4 DEF Verdict!Lose
  <2> QED
    BY <2>5 DEF Verdict!Next
<1> QED
  BY <1>1, <1>2, <1>3, <1>4

\* The Worker implements the contract on verdicts.
THEOREM WorkerKeepsVerdicts == Spec => KeepsVerdicts
<1>1. Init => Verdict!Init
  BY DEF Init, Verdict!Init, Verdicts
<1>2. KeysInv /\ [Next]_vars => [Verdict!Next]_Verdict!vars
  BY Steps, RequestKeepsContract, SurroundingsKeepContract
<1> QED
  BY <1>1, <1>2, KeysInvariant, PTL DEF Spec, KeepsVerdicts, Verdict!Spec
=============================================================================
