----------------------------- MODULE SigningKeys -----------------------------
(***************************************************************************)
(* How the broker (broker/app) gets from a GitHub Actions OIDC token to a  *)
(* verdict on it: accepted, 401 or 503.  Every Lambda execution environment *)
(* keeps the issuer's key set in memory (oidc.py), reloads it when a token  *)
(* names a key it does not have, and falls back to a snapshot in DynamoDB   *)
(* (jwks_store.py) when the issuer cannot be reached (broker.py).  The      *)
(* issuer rotates its keys meanwhile.  State is kept per issuer, and        *)
(* issuers do not interact: this is one of them.                            *)
(***************************************************************************)
EXTENDS Integers

CONSTANTS
  Kids,            \* key ids: the issuer's, and ones it never publishes
  Environments,    \* execution environments, one request at a time in each
  CacheTTL,        \* JWKS_CACHE_TTL_S
  Cooldown,        \* JWKS_COOLDOWN_S
  ForcedInterval,  \* FORCED_RELOAD_MIN_INTERVAL_S
  WriteInterval,   \* WRITE_MIN_INTERVAL_S
  MaxAge,          \* SNAPSHOT_MAX_AGE_MS
  None             \* "nothing": no entry, no time, no token

ASSUME KeysAssumption ==
  /\ CacheTTL \in Nat /\ Cooldown \in Nat /\ ForcedInterval \in Nat
  /\ WriteInterval \in Nat /\ MaxAge \in Nat
  /\ None \notin Nat

\* The intervals as they are set: 5 s, 30 s and 300 s.
ASSUME IntervalsAssumption == ForcedInterval <= Cooldown /\ ForcedInterval <= CacheTTL

KeySets == [keys : SUBSET Kids, at : Nat]

\* A token by what verification sees of it: the key it names, and whether its
\* signature under that key, issuer, audience and expiry hold.
Tokens == [kid : Kids, good : BOOLEAN]

ASSUME NoneAssumption == None \notin KeySets \cup Tokens

VARIABLES
  now,        \* the clock: time.monotonic() and time.time() in one
  published,  \* the keys the issuer serves
  since,      \* since[k]: when k was first served, or None
  gone,       \* gone[k]: when k was last served, once it no longer is
  cache,      \* cache[e]: _jwks_cache, the key set and fetched_at, or None
  earlier,    \* earlier[e]: when the set before that one was fetched, or None (history)
  forced,     \* forced[e]: _last_forced_reload, or None
  written,    \* written[e]: _last_write, or None
  snapshot,   \* the item in DynamoDB, its `at` being uat, or None
  lagging,    \* an older version of it that a read may still return
  token,      \* token[e]: the token of the request in hand, or None
  pc          \* pc[e]: where the request is

issuer == <<published, since, gone>>
table == <<snapshot, lagging>>
memory == <<cache, earlier, forced, written>>
vars == <<now, issuer, memory, table, token, pc>>

Waiting == {"resolve", "fetch", "reload", "rescue"}
Verdicts == {"accepted", "rescued", "401", "503"}

TypeOK ==
  /\ now \in Nat
  /\ published \subseteq Kids
  /\ since \in [Kids -> Nat \cup {None}]
  /\ gone \in [Kids -> Nat \cup {None}]
  /\ cache \in [Environments -> KeySets \cup {None}]
  /\ earlier \in [Environments -> Nat \cup {None}]
  /\ forced \in [Environments -> Nat \cup {None}]
  /\ written \in [Environments -> Nat \cup {None}]
  /\ snapshot \in KeySets \cup {None}
  /\ lagging \in KeySets \cup {None}
  /\ token \in [Environments -> Tokens \cup {None}]
  /\ pc \in [Environments -> {"idle"} \cup Waiting \cup Verdicts]

Init ==
  /\ now = 0
  /\ \E k \in Kids : published = {k}
  /\ since = [k \in Kids |-> IF k \in published THEN 0 ELSE None]
  /\ gone = [k \in Kids |-> None]
  /\ cache = [e \in Environments |-> None]
  /\ earlier = [e \in Environments |-> None]
  /\ forced = [e \in Environments |-> None]
  /\ written = [e \in Environments |-> None]
  /\ snapshot = None
  /\ lagging = None
  /\ token = [e \in Environments |-> None]
  /\ pc = [e \in Environments |-> "idle"]

-----------------------------------------------------------------------------
(* The surroundings: time, the issuer's rotation, the table's replicas, and *)
(* environments that come and go                                            *)

Tick ==
  /\ now' = now + 1
  /\ UNCHANGED <<issuer, memory, table, token, pc>>

PublishKey(k) ==
  /\ since[k] = None
  /\ published' = published \cup {k}
  /\ since' = [since EXCEPT ![k] = now]
  /\ UNCHANGED <<now, gone, memory, table, token, pc>>

RetireKey(k) ==
  /\ k \in published /\ published # {k}
  /\ published' = published \ {k}
  /\ gone' = [gone EXCEPT ![k] = now]
  /\ UNCHANGED <<now, since, memory, table, token, pc>>

Replicate ==
  /\ lagging' = snapshot
  /\ UNCHANGED <<now, issuer, memory, snapshot, token, pc>>

\* A new environment starts with empty module state, its request lost.
Recycle(e) ==
  /\ cache' = [cache EXCEPT ![e] = None]
  /\ earlier' = [earlier EXCEPT ![e] = None]
  /\ forced' = [forced EXCEPT ![e] = None]
  /\ written' = [written EXCEPT ![e] = None]
  /\ token' = [token EXCEPT ![e] = None]
  /\ pc' = [pc EXCEPT ![e] = "idle"]
  /\ UNCHANGED <<now, issuer, table>>

-----------------------------------------------------------------------------
(* A request                                                               *)

Receive(e) ==
  /\ pc[e] \in {"idle"} \cup Verdicts
  /\ \E t \in Tokens : token' = [token EXCEPT ![e] = t]
  /\ pc' = [pc EXCEPT ![e] = "resolve"]
  /\ UNCHANGED <<now, issuer, memory, table>>

Goto(e, step) == pc' = [pc EXCEPT ![e] = step] /\ UNCHANGED token
Answer(e, verdict) ==
  /\ pc' = [pc EXCEPT ![e] = verdict]
  /\ token' = [token EXCEPT ![e] = None]

Age(t) == now - t

\* _cached: an entry older than the TTL is as good as none.
Cached(e) == cache[e] # None /\ Age(cache[e].at) <= CacheTTL

\* (mutant: the cooldown lasts as long as the cached set)
CoolingDownForTTL(entry) == Age(entry.at) <= CacheTTL

CoolingDown(entry) == Age(entry.at) < Cooldown

\* Never, or long enough ago.
Elapsed(t, interval) == t # None => Age(t) >= interval

MayForceReload(e) == Elapsed(forced[e], ForcedInterval)

\* jwks_store.save, after a verification with live keys: throttled, and best
\* effort -- the write can fail, or land with its answer lost.
Save(e, entry) ==
  \/ /\ Elapsed(written[e], WriteInterval)
     /\ snapshot' = [keys |-> entry.keys, at |-> now]
     /\ \E heard \in BOOLEAN :
          written' = IF heard THEN [written EXCEPT ![e] = now] ELSE written
  \/ UNCHANGED <<snapshot, written>>

\* The key is there: the token is verified with it.
Verify(e, entry) ==
  \/ /\ token[e].good
     /\ Save(e, entry)
     /\ Answer(e, "accepted")
  \/ /\ ~token[e].good
     /\ Answer(e, "401")
     /\ UNCHANGED <<snapshot, written>>

\* (mutant: a forced reload is not noted)
SelectUnthrottled(e, entry) ==
  \/ /\ token[e].kid \in entry.keys
     /\ Verify(e, entry)
     /\ UNCHANGED forced
  \/ /\ token[e].kid \notin entry.keys
     /\ IF ~CoolingDown(entry) \/ MayForceReload(e)
        THEN Goto(e, "reload")
        ELSE Answer(e, "401")
     /\ UNCHANGED <<forced, snapshot, written>>

\* _select_key on the set just found, and what a miss leads to: a reload, at
\* once unless the set is new, and then only every so often; else a 401.
Select(e, entry) ==
  \/ /\ token[e].kid \in entry.keys
     /\ Verify(e, entry)
     /\ UNCHANGED forced
  \/ /\ token[e].kid \notin entry.keys
     /\ \/ /\ ~CoolingDown(entry)
           /\ Goto(e, "reload")
           /\ UNCHANGED forced
        \/ /\ CoolingDown(entry) /\ MayForceReload(e)
           /\ forced' = [forced EXCEPT ![e] = now]
           /\ Goto(e, "reload")
        \/ /\ CoolingDown(entry) /\ ~MayForceReload(e)
           /\ Answer(e, "401")
           /\ UNCHANGED forced
     /\ UNCHANGED <<snapshot, written>>

Resolve(e) ==
  /\ pc[e] = "resolve"
  /\ \/ /\ Cached(e)
        /\ Select(e, cache[e])
     \/ /\ ~Cached(e)
        /\ Goto(e, "fetch")
        /\ UNCHANGED <<forced, written, snapshot>>
  /\ UNCHANGED <<now, issuer, cache, earlier, lagging>>

\* What a fetch that is answered brings, and what it replaces.
Fetched == [keys |-> published, at |-> now]
Store(e) ==
  /\ cache' = [cache EXCEPT ![e] = Fetched]
  /\ earlier' = [earlier EXCEPT ![e] = IF cache[e] = None THEN None ELSE cache[e].at]

Fetch(e) ==
  /\ pc[e] = "fetch"
  /\ Store(e)
  /\ Select(e, Fetched)
  /\ UNCHANGED <<now, issuer, lagging>>

\* The second lookup is final.
Reload(e) ==
  /\ pc[e] = "reload"
  /\ Store(e)
  /\ \/ token[e].kid \in published /\ Verify(e, Fetched)
     \/ /\ token[e].kid \notin published
        /\ Answer(e, "401")
        /\ UNCHANGED <<snapshot, written>>
  /\ UNCHANGED <<now, issuer, forced, lagging>>

\* (mutant: a failed fetch is taken for a bad token)
FetchFailsRejected(e) ==
  /\ pc[e] \in {"fetch", "reload"}
  /\ Answer(e, "401")
  /\ UNCHANGED <<now, issuer, memory, table>>

\* JwksUnavailable: the fetch failed, or was answered with something else.
FetchFails(e) ==
  /\ pc[e] \in {"fetch", "reload"}
  /\ Goto(e, "rescue")
  /\ UNCHANGED <<now, issuer, memory, table>>

\* (mutant: the age of a snapshot is not looked at)
UsableAtAnyAge(s) == s # None

Usable(s) == s # None /\ Age(s.at) <= MaxAge

\* (mutant: a rescued verification refreshes the snapshot like any other)
RescueAndSave(e) ==
  /\ pc[e] = "rescue"
  /\ \E s \in {snapshot, lagging, None} :
       IF Usable(s) /\ token[e].kid \in s.keys /\ token[e].good
       THEN Answer(e, "rescued") /\ snapshot' = [s EXCEPT !.at = now]
       ELSE Answer(e, "503") /\ UNCHANGED snapshot
  /\ UNCHANGED <<now, issuer, memory, lagging>>

\* _verify_with_snapshot_rescue: the read returns the item, an older version of
\* it or, when it fails, nothing.  Whatever goes wrong is the fetch's 503.
Rescue(e) ==
  /\ pc[e] = "rescue"
  /\ \E s \in {snapshot, lagging, None} :
       IF Usable(s) /\ token[e].kid \in s.keys /\ token[e].good
       THEN Answer(e, "rescued")
       ELSE Answer(e, "503")
  /\ UNCHANGED <<now, issuer, memory, table>>

Next ==
  \/ Tick \/ Replicate
  \/ \E k \in Kids : PublishKey(k) \/ RetireKey(k)
  \/ \E e \in Environments :
       \/ Recycle(e) \/ Receive(e) \/ Resolve(e) \/ Fetch(e) \/ Reload(e)
       \/ FetchFails(e) \/ Rescue(e)

Spec == Init /\ [][Next]_vars

-----------------------------------------------------------------------------
(* Properties                                                              *)

LastPublished(k) == IF k \in published THEN now ELSE gone[k]

Answers(e, verdict) == pc[e] \in Waiting /\ pc'[e] = verdict

\* A retired key is not honoured indefinitely: a token is accepted only with a
\* key the issuer served within the life of a cached set, or of a cached set and
\* then a snapshot, through whatever caches, lost writes and stale reads.
RetiredKeysExpire ==
  [][\A e \in Environments :
       LET last == LastPublished(token[e].kid)
       IN  /\ Answers(e, "accepted") =>
                last # None /\ Age(last) <= CacheTTL
           /\ Answers(e, "rescued") =>
                last # None /\ Age(last) <= CacheTTL + MaxAge]_vars

\* A good token whose key has been served for the length of the cooldown is never
\* answered 401, whatever the caches hold and however the issuer fails.
RotationIsFollowed ==
  [][\A e \in Environments :
       Answers(e, "401") /\ token[e].good /\ token[e].kid \in published
         => Age(since[token[e].kid]) < Cooldown]_vars

\* Whatever tokens it is sent, an environment gets no three answers from the issuer within
\* ForcedInterval: the three bounds (the TTL, the cooldown and the interval between forced
\* reloads) leave no way round one another.  (Failed fetches are not counted.)
IsAnswered(e) == pc[e] \in {"fetch", "reload"} /\ pc'[e] \notin {pc[e], "rescue", "idle"}

FetchesAreSpaced ==
  [][\A e \in Environments :
       IsAnswered(e) /\ earlier[e] # None => Age(earlier[e]) >= ForcedInterval]_vars

\* The Lambda broker keeps the contract on verdicts that the Worker keeps
\* (WorkerKeys), with tighter bounds: a fetch takes no time of its own here.
Verdict == INSTANCE TokenVerdicts WITH
  Requests <- Environments,
  HonouredFor <- CacheTTL,
  RescuedFor <- CacheTTL + MaxAge,
  LearntIn <- Cooldown,
  asked <- token,
  verdict <- [e \in Environments |-> IF pc[e] \in Verdicts THEN pc[e] ELSE None]

KeepsVerdicts == Verdict!Spec

\* The strengthening: what key sets, in memory and in the table, say of the keys
\* the issuer serves or served.
SetOK(s, age) ==
  /\ s.at <= now
  /\ \A k \in s.keys : LastPublished(k) # None /\ s.at <= LastPublished(k) + age

KeysInv ==
  /\ TypeOK
  /\ \A k \in published : since[k] # None /\ since[k] <= now
  /\ \A k \in Kids : gone[k] # None => gone[k] <= now
  /\ \A e \in Environments : cache[e] # None =>
       /\ SetOK(cache[e], 0)
       /\ \A k \in published : since[k] < cache[e].at => k \in cache[e].keys
  /\ \A s \in {snapshot, lagging} : s # None => SetOK(s, CacheTTL)
  /\ \A e \in Environments : pc[e] \in Waiting => token[e] # None

\* What FetchesAreSpaced rests on: of two sets fetched within the interval, the later was
\* a forced reload's, and a request goes to the issuer only when the set in memory has had
\* the interval or is being reloaded by force, and the one before has had it too.
ForcedSince(e, t) == forced[e] # None /\ t <= forced[e]
HasAged(t) == Age(t) >= ForcedInterval

SpacedInv ==
  \A e \in Environments :
    /\ forced[e] # None => forced[e] <= now
    /\ earlier[e] # None =>
         \/ HasAged(earlier[e])
         \/ cache[e] # None /\ earlier[e] <= cache[e].at /\ ForcedSince(e, earlier[e])
    /\ pc[e] \in {"fetch", "reload"} =>
         /\ cache[e] # None => HasAged(cache[e].at) \/ ForcedSince(e, cache[e].at)
         /\ earlier[e] # None => HasAged(earlier[e])
=============================================================================
