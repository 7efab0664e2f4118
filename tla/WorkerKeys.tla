------------------------------ MODULE WorkerKeys ------------------------------
(***************************************************************************)
(* How the Cloudflare Worker (worker/src/index.ts) gets from an OIDC token *)
(* to a verdict.  An isolate keeps the issuer's key set in jose's remote   *)
(* set; the requests in it run concurrently, and since jose does not share *)
(* a fetch between requests on Workers, several fetches of the set may be  *)
(* in flight and answered out of order.  Each verification writes the set  *)
(* to KV, which serves when the issuer cannot be reached.  State is kept   *)
(* per issuer, and issuers do not interact: this is one of them.           *)
(***************************************************************************)
EXTENDS Integers, FiniteSets

CONSTANTS
  Kids,            \* key ids: the issuer's, and ones it never publishes
  Isolates,
  Requests,        \* at most so many at once
  CacheMaxAge,     \* JWKS_OPTIONS.cacheMaxAge
  Cooldown,        \* jose's cooldownDuration
  Timeout,         \* JWKS_OPTIONS.timeoutDuration
  ForcedInterval,  \* FORCED_RELOAD_MIN_INTERVAL_MS
  MaxAge,          \* JWKS_SNAPSHOT_MAX_AGE_MS
  Versions,        \* how many versions of the snapshot KV's replicas hold at most
  None             \* "nothing": no set, no time, no token, no reply

ASSUME KeysAssumption ==
  /\ CacheMaxAge \in Nat /\ Cooldown \in Nat \ {0} /\ Timeout \in Nat
  /\ ForcedInterval \in Nat /\ MaxAge \in Nat /\ Versions \in Nat
  /\ None \notin Nat

KeySets == [keys : SUBSET Kids, at : Nat]

\* A token by what verification sees of it: the key it names, and whether its
\* signature under that key, issuer, audience and expiry hold.
Tokens == [kid : Kids, good : BOOLEAN]

\* A fetch of the key set: when it was sent, and what it was answered with.
Flights == [began : Nat, reply : {None} \cup SUBSET Kids]

ASSUME NoneAssumption ==
  /\ None \notin KeySets \cup Tokens \cup Flights
  /\ \A S \in SUBSET Kids : S # None

VARIABLES
  now,        \* Date.now()
  published,  \* the keys the issuer serves
  since,      \* since[k]: when k was first served, or None
  gone,       \* gone[k]: when k was last served, once it no longer is
  jwks,       \* jwks[i]: jose's key set and the time it was stored, or None
  forced,     \* forced[i]: lastForcedReload, or None
  sent,       \* sent[i]: when i last sent a forced reload, or None (history)
  versions,   \* the snapshots in KV that a read may return, `at` being uat
  token,      \* token[r]: the token of request r, or None
  home,       \* home[r]: the isolate it runs in
  flight,     \* flight[r]: the fetch it waits for, or None
  pc          \* pc[r]: where it is

issuer == <<published, since, gone>>
reloads == <<forced, sent>>
request == <<token, home, flight, pc>>
vars == <<now, issuer, jwks, reloads, versions, request>>

Flying == {"load", "retry", "force"}
Waiting == {"resolve", "rescue"} \cup Flying
Verdicts == {"accepted", "rescued", "401", "503"}

TypeOK ==
  /\ now \in Nat
  /\ published \subseteq Kids
  /\ since \in [Kids -> Nat \cup {None}]
  /\ gone \in [Kids -> Nat \cup {None}]
  /\ jwks \in [Isolates -> KeySets \cup {None}]
  /\ forced \in [Isolates -> Nat \cup {None}]
  /\ sent \in [Isolates -> Nat \cup {None}]
  /\ versions \subseteq KeySets
  /\ token \in [Requests -> Tokens \cup {None}]
  /\ home \in [Requests -> Isolates]
  /\ flight \in [Requests -> Flights \cup {None}]
  /\ pc \in [Requests -> {"idle"} \cup Waiting \cup Verdicts]

Init ==
  /\ now = 0
  /\ \E k \in Kids : published = {k}
  /\ since = [k \in Kids |-> IF k \in published THEN 0 ELSE None]
  /\ gone = [k \in Kids |-> None]
  /\ jwks = [i \in Isolates |-> None]
  /\ forced = [i \in Isolates |-> None]
  /\ sent = [i \in Isolates |-> None]
  /\ versions = {}
  /\ token = [r \in Requests |-> None]
  /\ home \in [Requests -> Isolates]
  /\ flight = [r \in Requests |-> None]
  /\ pc = [r \in Requests |-> "idle"]

-----------------------------------------------------------------------------
(* The surroundings: time, the issuer's rotation, isolates that come and go *)

Tick ==
  /\ now' = now + 1
  /\ UNCHANGED <<issuer, jwks, reloads, versions, request>>

PublishKey(k) ==
  /\ since[k] = None
  /\ published' = published \cup {k}
  /\ since' = [since EXCEPT ![k] = now]
  /\ UNCHANGED <<now, gone, jwks, reloads, versions, request>>

RetireKey(k) ==
  /\ k \in published /\ published # {k}
  /\ published' = published \ {k}
  /\ gone' = [gone EXCEPT ![k] = now]
  /\ UNCHANGED <<now, since, jwks, reloads, versions, request>>

\* A new isolate starts with empty module state, the requests in it lost.
Recycle(i) ==
  /\ jwks' = [jwks EXCEPT ![i] = None]
  /\ forced' = [forced EXCEPT ![i] = None]
  /\ sent' = [sent EXCEPT ![i] = None]
  /\ token' = [r \in Requests |-> IF home[r] = i THEN None ELSE token[r]]
  /\ flight' = [r \in Requests |-> IF home[r] = i THEN None ELSE flight[r]]
  /\ pc' = [r \in Requests |-> IF home[r] = i THEN "idle" ELSE pc[r]]
  /\ UNCHANGED <<now, issuer, versions, home>>

\* The issuer answers a fetch with the keys it serves then; the answer is on its
\* way back until it arrives.
IssuerAnswers(r) ==
  /\ pc[r] \in Flying /\ flight[r].reply = None
  /\ flight' = [flight EXCEPT ![r].reply = published]
  /\ UNCHANGED <<now, issuer, jwks, reloads, versions, token, home, pc>>

-----------------------------------------------------------------------------
(* A request                                                               *)

Receive(r, i) ==
  /\ pc[r] \in {"idle"} \cup Verdicts
  /\ \E t \in Tokens : token' = [token EXCEPT ![r] = t]
  /\ home' = [home EXCEPT ![r] = i]
  /\ pc' = [pc EXCEPT ![r] = "resolve"]
  /\ UNCHANGED <<now, issuer, jwks, reloads, versions, flight>>

\* jose's reload, or jwks.reload(): a subrequest of this request's own.
Fly(r, step) ==
  /\ flight' = [flight EXCEPT ![r] = [began |-> now, reply |-> None]]
  /\ pc' = [pc EXCEPT ![r] = step]
  /\ sent' = IF step = "force" THEN [sent EXCEPT ![home[r]] = now] ELSE sent
  /\ UNCHANGED token

Answer(r, outcome) ==
  /\ pc' = [pc EXCEPT ![r] = outcome]
  /\ token' = [token EXCEPT ![r] = None]
  /\ flight' = [flight EXCEPT ![r] = None]
  /\ UNCHANGED sent

Age(t) == now - t

Fresh(i) == jwks[i] # None /\ Age(jwks[i].at) < CacheMaxAge

CoolingDown(set) == Age(set.at) < Cooldown

\* mayForceReload.
MayForceReload(i) == forced[i] # None => Age(forced[i]) >= ForcedInterval

\* snapshotJwks: the set jose holds is put in KV, dated now; best effort, and the
\* replicas catch up when they do.
Put(set) ==
  \/ \E kept \in SUBSET versions :
       /\ Cardinality(kept) < Versions
       /\ versions' = kept \cup {[keys |-> set.keys, at |-> now]}
  \/ UNCHANGED versions

\* The key is there: jwtVerify checks the token with it.
Verify(r, set) ==
  \/ token[r].good /\ Answer(r, "accepted") /\ Put(set)
  \/ ~token[r].good /\ Answer(r, "401") /\ UNCHANGED versions

\* (mutant: the time of a forced reload is not recorded)
MissUnrecorded(r) ==
  /\ \/ MayForceReload(home[r]) /\ Fly(r, "force")
     \/ ~MayForceReload(home[r]) /\ Answer(r, "401")
  /\ UNCHANGED <<forced, versions>>

\* jose found no key under the token's kid: one forced reload, every so often.
Miss(r) ==
  /\ \/ /\ MayForceReload(home[r])
        /\ forced' = [forced EXCEPT ![home[r]] = now]
        /\ Fly(r, "force")
     \/ /\ ~MayForceReload(home[r])
        /\ Answer(r, "401")
        /\ UNCHANGED forced
  /\ UNCHANGED versions

\* jose's lookup in the set it holds: on a miss it reloads, once it cooled down.
Select(r, set) ==
  \/ token[r].kid \in set.keys /\ Verify(r, set) /\ UNCHANGED forced
  \/ /\ token[r].kid \notin set.keys
     /\ \/ ~CoolingDown(set) /\ Fly(r, "retry") /\ UNCHANGED <<forced, versions>>
        \/ CoolingDown(set) /\ Miss(r)

Resolve(r) ==
  /\ pc[r] = "resolve"
  /\ \/ Fresh(home[r]) /\ Select(r, jwks[home[r]])
     \/ ~Fresh(home[r]) /\ Fly(r, "load") /\ UNCHANGED <<forced, versions>>
  /\ UNCHANGED <<now, issuer, jwks, home>>

\* What the answer to a request's fetch brings.
Received(r) == [keys |-> flight[r].reply, at |-> now]

\* (mutant: an answer is taken however late it comes)
ArrivesLate(r) ==
  /\ flight[r].reply # None
  /\ jwks' = [jwks EXCEPT ![home[r]] = Received(r)]
  /\ UNCHANGED <<now, issuer, home>>

\* The answer is back in time: jose stores it as the isolate's set, dated now,
\* whatever another request stored since it was sent.
Arrives(r) ==
  /\ flight[r].reply # None /\ Age(flight[r].began) <= Timeout
  /\ jwks' = [jwks EXCEPT ![home[r]] = Received(r)]
  /\ UNCHANGED <<now, issuer, home>>

\* jose had no fresh set.
Loaded(r) ==
  /\ pc[r] = "load"
  /\ Arrives(r)
  /\ Select(r, Received(r))

\* jose's own reload after a miss: a second miss goes to the forced one.
Retried(r) ==
  /\ pc[r] = "retry"
  /\ Arrives(r)
  /\ \/ token[r].kid \in flight[r].reply /\ Verify(r, Received(r)) /\ UNCHANGED forced
     \/ token[r].kid \notin flight[r].reply /\ Miss(r)

\* The forced reload: what it finds is final, and is not put in KV.
Forced(r) ==
  /\ pc[r] = "force"
  /\ Arrives(r)
  /\ Answer(r, IF token[r].kid \in flight[r].reply /\ token[r].good
               THEN "accepted" ELSE "401")
  /\ UNCHANGED <<forced, versions>>

\* No answer in time, or not a key set (jwks_unavailable).  Only jose's own
\* fetches lead to the snapshot: the forced reload is awaited in the handler of
\* the miss, and its failure is the caller's 503.
FetchFails(r) ==
  /\ \/ /\ pc[r] \in {"load", "retry"}
        /\ pc' = [pc EXCEPT ![r] = "rescue"]
        /\ flight' = [flight EXCEPT ![r] = None]
        /\ UNCHANGED <<token, sent>>
     \/ pc[r] = "force" /\ Answer(r, "503")
  /\ UNCHANGED <<now, issuer, jwks, forced, versions, home>>

\* (mutant: the age of a snapshot is not looked at)
UsableAtAnyAge(v) == TRUE

Usable(v) == Age(v.at) <= MaxAge

\* verifyFromSnapshot: the read returns some version or, when it fails, nothing.
\* Whatever goes wrong with it is the fetch's 503.
Rescue(r) ==
  /\ pc[r] = "rescue"
  /\ \/ /\ \E v \in versions : Usable(v) /\ token[r].kid \in v.keys
        /\ token[r].good
        /\ Answer(r, "rescued")
     \/ Answer(r, "503")
  /\ UNCHANGED <<now, issuer, jwks, forced, versions, home>>

RequestNext(r) ==
  \/ \E i \in Isolates : Receive(r, i)
  \/ Resolve(r) \/ Loaded(r) \/ Retried(r) \/ Forced(r) \/ FetchFails(r) \/ Rescue(r)

Next ==
  \/ Tick
  \/ \E k \in Kids : PublishKey(k) \/ RetireKey(k)
  \/ \E i \in Isolates : Recycle(i)
  \/ \E r \in Requests : IssuerAnswers(r) \/ RequestNext(r)

Spec == Init /\ [][Next]_vars

-----------------------------------------------------------------------------
(* Properties                                                              *)

LastPublished(k) == IF k \in published THEN now ELSE gone[k]

\* What a set stored at s.at says of the keys: the answer it came in was at most
\* Timeout old, however many others were stored before it.
SetOK(s) ==
  /\ s.at <= now
  /\ \A k \in s.keys : LastPublished(k) # None /\ s.at <= LastPublished(k) + Timeout
  /\ \A k \in published : since[k] + Timeout < s.at => k \in s.keys

\* What a snapshot says: it was taken of a fresh set, and dated anew.
SnapshotOK(v) ==
  /\ v.at <= now
  /\ \A k \in v.keys :
       LastPublished(k) # None /\ v.at <= LastPublished(k) + CacheMaxAge + Timeout

\* What a fetch under way says, once answered.
FlightOK(f) ==
  /\ f.began <= now
  /\ f.reply # None =>
       /\ \A k \in f.reply : LastPublished(k) # None /\ f.began <= LastPublished(k)
       /\ \A k \in published : since[k] < f.began => k \in f.reply

\* The inductive invariant: how far sets in memory, answers on their way and
\* snapshots can be from the keys the issuer serves, and that the throttle has the
\* time of the last forced reload.
KeysInv ==
  /\ TypeOK
  /\ \A k \in published : since[k] # None /\ since[k] <= now
  /\ \A k \in Kids : gone[k] # None => gone[k] <= now
  /\ \A i \in Isolates : jwks[i] # None => SetOK(jwks[i])
  /\ \A i \in Isolates : forced[i] # None => forced[i] <= now
  /\ \A v \in versions : SnapshotOK(v)
  /\ \A r \in Requests : flight[r] # None => FlightOK(flight[r])
  /\ \A r \in Requests : pc[r] \in Waiting => token[r] # None
  /\ \A r \in Requests : pc[r] \in Flying => flight[r] # None
  /\ sent = forced

\* Forced reloads go past jose's cooldown, and their failures past the snapshot:
\* an isolate sends one only when the last it sent is the interval ago, be that one
\* under way, answered or failed, and however many of its requests miss at once.
ForcedReloadsAreSpaced ==
  [][\A r \in Requests :
       pc[r] # "force" /\ pc'[r] = "force" /\ sent[home[r]] # None
         => Age(sent[home[r]]) >= ForcedInterval]_vars

\* The Worker keeps the contract on verdicts, with answers out of order, sets
\* dated when they arrive and snapshots dated when they are put: the bounds add up.
Verdict == INSTANCE TokenVerdicts WITH
  HonouredFor <- CacheMaxAge + Timeout,
  RescuedFor <- CacheMaxAge + Timeout + MaxAge,
  LearntIn <- Cooldown + Timeout,
  asked <- token,
  verdict <- [r \in Requests |-> IF pc[r] \in Verdicts THEN pc[r] ELSE None]

KeepsVerdicts == Verdict!Spec
=============================================================================
