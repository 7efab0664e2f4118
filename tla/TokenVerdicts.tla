---------------------------- MODULE TokenVerdicts ----------------------------
(***************************************************************************)
(* What a broker promises of its verdicts on OIDC tokens, however it keeps *)
(* the issuer's key set: a token is accepted only if it is good and its key *)
(* was served within HonouredFor, or RescuedFor when the issuer could not be *)
(* reached; a good token under a key the issuer serves is refused only while *)
(* the key is younger than LearntIn; a 503 is always allowed.  SigningKeys *)
(* (the Lambda broker) and WorkerKeys (the Cloudflare Worker) implement it. *)
(***************************************************************************)
EXTENDS Integers

CONSTANTS
  Kids,         \* key ids
  Requests,     \* the places a request is handled in
  HonouredFor,  \* how long a key is honoured after it was last served
  RescuedFor,   \* the same, when the issuer cannot be reached
  LearntIn,     \* how long a new key may go unknown
  None

VARIABLES
  now,        \* the clock
  published,  \* the keys the issuer serves
  since,      \* since[k]: when k was first served, or None
  gone,       \* gone[k]: when k was last served, once it no longer is
  asked,      \* asked[r]: the token a verdict is due on, or None
  verdict     \* verdict[r]: the verdict on the last one, or None

issuer == <<published, since, gone>>
vars == <<now, issuer, asked, verdict>>

Tokens == [kid : Kids, good : BOOLEAN]

Init ==
  /\ now = 0
  /\ \E k \in Kids : published = {k}
  /\ since = [k \in Kids |-> IF k \in published THEN 0 ELSE None]
  /\ gone = [k \in Kids |-> None]
  /\ asked = [r \in Requests |-> None]
  /\ verdict = [r \in Requests |-> None]

-----------------------------------------------------------------------------
(* The issuer                                                              *)

Tick ==
  /\ now' = now + 1
  /\ UNCHANGED <<issuer, asked, verdict>>

PublishKey(k) ==
  /\ since[k] = None
  /\ published' = published \cup {k}
  /\ since' = [since EXCEPT ![k] = now]
  /\ UNCHANGED <<now, gone, asked, verdict>>

RetireKey(k) ==
  /\ k \in published /\ published # {k}
  /\ published' = published \ {k}
  /\ gone' = [gone EXCEPT ![k] = now]
  /\ UNCHANGED <<now, since, asked, verdict>>

-----------------------------------------------------------------------------
(* Verdicts                                                                *)

Ask(r) ==
  /\ verdict' = [verdict EXCEPT ![r] = None]
  /\ \E t \in Tokens : asked' = [asked EXCEPT ![r] = t]
  /\ UNCHANGED <<now, issuer>>

\* A broker that goes away takes the requests in it along.
Lose(S) ==
  /\ UNCHANGED <<now, issuer>>
  /\ asked' = [r \in Requests |-> IF r \in S THEN None ELSE asked[r]]
  /\ verdict' = [r \in Requests |-> IF r \in S THEN None ELSE verdict[r]]

LastServed(k) == IF k \in published THEN now ELSE gone[k]

\* k was served at some time in the last `limit`.
Served(k, limit) == LastServed(k) # None /\ now - LastServed(k) <= limit

Allowed(t, outcome) ==
  \/ outcome = "accepted" /\ t.good /\ Served(t.kid, HonouredFor)
  \/ outcome = "rescued" /\ t.good /\ Served(t.kid, RescuedFor)
  \/ outcome = "401" /\ ~(t.good /\ t.kid \in published /\ now - since[t.kid] >= LearntIn)
  \/ outcome = "503"

Decide(r) ==
  /\ asked[r] # None
  /\ \E outcome \in {"accepted", "rescued", "401", "503"} :
       /\ Allowed(asked[r], outcome)
       /\ verdict' = [verdict EXCEPT ![r] = outcome]
  /\ asked' = [asked EXCEPT ![r] = None]
  /\ UNCHANGED <<now, issuer>>

Next ==
  \/ Tick
  \/ \E S \in SUBSET Requests : Lose(S)
  \/ \E k \in Kids : PublishKey(k) \/ RetireKey(k)
  \/ \E r \in Requests : Ask(r) \/ Decide(r)

Spec == Init /\ [][Next]_vars
=============================================================================
