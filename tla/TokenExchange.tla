---------------------------- MODULE TokenExchange ----------------------------
(***************************************************************************)
(* How a job gets its App token: request-public-app-token.sh asks the      *)
(* primary URL's POST /token and, on no answer or a 5xx, the fallback      *)
(* URL's.  Behind a URL is the Lambda or the Worker: today the Lambda      *)
(* behind both, and the Worker behind either after a rollback.  The Lambda *)
(* takes the App's secrets from SSM once per execution environment, the    *)
(* Worker has them in its deployment.  Operators seed, deploy and rotate   *)
(* them and repoint the URLs meanwhile, and owners install and uninstall   *)
(* the App.  What verification decides is TokenVerdicts; here it is any of *)
(* its verdicts, those on a good token included.                           *)
(***************************************************************************)
EXTENDS Integers

CONSTANTS
  Jobs,
  Patient,       \* the jobs that are re-run until they have their token
  Environments,  \* of the Lambda
  Keys,          \* the App's private keys
  Primary,       \* token-broker-url
  Fallback,      \* token-broker-fallback-url, or None
  MaxChanges,    \* bound: what operators and owners do
  None, Unread, Empty

Urls == {Primary, Fallback} \ {None}
Brokers == {"lambda", "worker"}

ASSUME ExchangeAssumption ==
  /\ Patient \subseteq Jobs
  /\ None \notin Keys \cup Environments \cup {Primary}
  /\ Unread \notin Keys /\ Empty \notin Keys /\ Unread # Empty
  /\ MaxChanges \in Nat

VARIABLES
  installed,  \* the App is installed on the repository
  accepted,   \* the keys that GitHub accepts the App's JWT with
  params,     \* the key under SECRET_PATH in SSM, or None
  deployed,   \* the Worker's key, and whether its TOKEN_PERMISSIONS parse
  behind,     \* behind[u]: the broker that a URL reaches
  changes,    \* how many of these have been made, for the bound
  overlay,    \* overlay[e]: _cache of an environment: a key, Unread or Empty
  muted,      \* muted[e]: _negative_until has not passed
  at,         \* at[j]: where the job is
  broker,     \* broker[j]: the URL that it asks
  env,        \* env[j]: the environment that handles it, or None
  settings    \* settings[j]: what the handler goes by

world == <<installed, accepted, params, deployed, behind, changes>>
lambda == <<overlay, muted>>
job == <<at, broker, env, settings>>
vars == <<world, lambda, job>>

Settings == [key : Keys \cup {None}, readable : BOOLEAN]
Stages == {"config", "verify", "lookup", "mint"}
Ends == {"idle", "token", "refused", "failed"}
Unset == [key |-> None, readable |-> TRUE]

TypeOK ==
  /\ installed \in BOOLEAN
  /\ accepted \subseteq Keys
  /\ params \in Keys \cup {None}
  /\ deployed \in Settings
  /\ behind \in [Urls -> Brokers]
  /\ changes \in Nat
  /\ overlay \in [Environments -> Keys \cup {Unread, Empty}]
  /\ muted \in [Environments -> BOOLEAN]
  /\ at \in [Jobs -> Stages \cup Ends]
  /\ broker \in [Jobs -> Urls]
  /\ env \in [Jobs -> Environments \cup {None}]
  /\ settings \in [Jobs -> Settings]

Init ==
  /\ installed \in BOOLEAN
  /\ accepted \in SUBSET Keys
  /\ params \in accepted \cup {None}
  /\ deployed \in [key : accepted \cup {None}, readable : BOOLEAN]
  /\ behind \in [Urls -> Brokers]
  /\ changes = 0
  /\ overlay = [e \in Environments |-> Unread]
  /\ muted = [e \in Environments |-> FALSE]
  /\ at = [j \in Jobs |-> "idle"]
  /\ broker = [j \in Jobs |-> Primary]
  /\ env = [j \in Jobs |-> None]
  /\ settings = [j \in Jobs |-> Unset]

-----------------------------------------------------------------------------
(* Owners, operators and the platform                                      *)

Change ==
  /\ changes < MaxChanges
  /\ changes' = changes + 1

Install ==
  /\ Change
  /\ installed' = ~installed
  /\ UNCHANGED <<accepted, params, deployed, behind, lambda, job>>

AddKey(k) ==
  /\ Change
  /\ accepted' = accepted \cup {k}
  /\ UNCHANGED <<installed, params, deployed, behind, lambda, job>>

\* A key is put into SSM, by hand and after the first deploy or to rotate it.
Seed(k) ==
  /\ Change
  /\ k \in accepted
  /\ params' = k
  /\ UNCHANGED <<installed, accepted, deployed, behind, lambda, job>>

Deploy(k, readable) ==
  /\ Change
  /\ k \in accepted
  /\ deployed' = [key |-> k, readable |-> readable]
  /\ UNCHANGED <<installed, accepted, params, behind, lambda, job>>

\* The end of a rotation: neither broker is configured with the key any more.
DropKey(k) ==
  /\ Change
  /\ k # params /\ k # deployed.key
  /\ accepted' = accepted \ {k}
  /\ UNCHANGED <<installed, params, deployed, behind, lambda, job>>

\* A rollback to the Worker, or back: the name is changed in the DNS.
Repoint(u, b) ==
  /\ Change
  /\ b # behind[u]
  /\ behind' = [behind EXCEPT ![u] = b]
  /\ UNCHANGED <<installed, accepted, params, deployed, lambda, job>>

Busy(e) == \E j \in Jobs : at[j] \in Stages /\ env[j] = e

\* (mutant: the caches are dropped while a request is in hand)
RecycleBusy(e) ==
  /\ overlay' = [overlay EXCEPT ![e] = Unread]
  /\ muted' = [muted EXCEPT ![e] = FALSE]
  /\ UNCHANGED <<world, job>>

\* An environment is replaced by a new one, with empty caches.
Recycle(e) ==
  /\ ~Busy(e)
  /\ overlay' = [overlay EXCEPT ![e] = Unread]
  /\ muted' = [muted EXCEPT ![e] = FALSE]
  /\ UNCHANGED <<world, job>>

\* NEGATIVE_TTL_SECONDS are over.
Unmute(e) ==
  /\ muted[e]
  /\ muted' = [muted EXCEPT ![e] = FALSE]
  /\ UNCHANGED <<world, overlay, job>>

-----------------------------------------------------------------------------
(* A job's request                                                         *)

Asks(j, b) == at[j] = "config" /\ behind[broker[j]] = b

At(j, stage) == at' = [at EXCEPT ![j] = stage]

Goes(j, from, to) == at[j] = from /\ At(j, to)

\* The request has its answer.
Done(j, from, end) ==
  /\ Goes(j, from, end)
  /\ env' = [env EXCEPT ![j] = None]
  /\ settings' = [settings EXCEPT ![j] = Unset]

\* The step asks for a token, for the first time or in a re-run.
Start(j) ==
  /\ at[j] \in Ends \ {"token"}
  /\ At(j, "config")
  /\ broker' = [broker EXCEPT ![j] = Primary]
  /\ UNCHANGED <<world, lambda, env, settings>>

\* call_broker failed with no answer or a 5xx: once more, with the fallback
\* if that is another URL, whatever is behind it.
Fall(j) ==
  /\ IF Fallback \notin {None, Primary} /\ broker[j] = Primary
     THEN At(j, "config") /\ broker' = [broker EXCEPT ![j] = Fallback]
     ELSE At(j, "failed") /\ UNCHANGED broker
  /\ env' = [env EXCEPT ![j] = None]
  /\ settings' = [settings EXCEPT ![j] = Unset]

\* (mutant: the fallback is asked when the primary gives no answer only)
ErrsForGood(j) ==
  /\ at[j] \in Stages
  /\ At(j, "failed")
  /\ UNCHANGED <<world, lambda, broker, env, settings>>

\* A 5xx of the broker: no configuration, no key set to verify with, a key that
\* GitHub does not accept, an App that is gone, GitHub's own trouble.
Errs(j) ==
  /\ at[j] \in Stages
  /\ Fall(j)
  /\ UNCHANGED <<world, lambda>>

\* No answer at all; the broker may have made the token.
NoAnswer(j) ==
  /\ at[j] \in Stages
  /\ Fall(j)
  /\ UNCHANGED <<world, lambda>>

\* What SSM answers is kept for the environment's life, whether or not it has the
\* parameters.  Without them there is no request to go on with: 503.
ReadParameters(j, e) ==
  /\ Asks(j, "lambda") /\ ~Busy(e) /\ overlay[e] = Unread /\ ~muted[e]
  /\ overlay' = [overlay EXCEPT ![e] = IF params = None THEN Empty ELSE params]
  /\ IF params = None
     THEN Fall(j)
     ELSE /\ At(j, "verify")
          /\ env' = [env EXCEPT ![j] = e]
          /\ settings' = [settings EXCEPT ![j].key = params]
          /\ UNCHANGED broker
  /\ UNCHANGED <<world, muted>>

\* (mutant: a failure is kept for the environment's life, like an answer)
SsmFailsForGood(j, e) ==
  /\ Asks(j, "lambda") /\ ~Busy(e) /\ overlay[e] = Unread /\ ~muted[e]
  /\ overlay' = [overlay EXCEPT ![e] = Empty]
  /\ Fall(j)
  /\ UNCHANGED <<world, muted>>

\* SSM fails: 500, and not asked again for a while.
SsmFails(j, e) ==
  /\ Asks(j, "lambda") /\ ~Busy(e) /\ overlay[e] = Unread /\ ~muted[e]
  /\ muted' = [muted EXCEPT ![e] = TRUE]
  /\ Fall(j)
  /\ UNCHANGED <<world, overlay>>

UseCached(j, e) ==
  /\ Asks(j, "lambda") /\ ~Busy(e) /\ overlay[e] \in Keys
  /\ At(j, "verify")
  /\ env' = [env EXCEPT ![j] = e]
  /\ settings' = [settings EXCEPT ![j].key = overlay[e]]
  /\ UNCHANGED <<world, lambda, broker>>

\* The Worker's env is the deployment's.
UseDeployed(j) ==
  /\ Asks(j, "worker")
  /\ At(j, "verify")
  /\ settings' = [settings EXCEPT ![j] = deployed]
  /\ UNCHANGED <<world, lambda, broker, env>>

Verified(j) ==
  /\ Goes(j, "verify", "lookup")
  /\ UNCHANGED <<world, lambda, broker, env, settings>>

\* A 401 for the token, which may be good, or a 403 for its repository.
Rejected(j) ==
  /\ Done(j, "verify", "refused")
  /\ UNCHANGED <<world, lambda, broker>>

LookedUp(j) ==
  /\ settings[j].key \in accepted /\ installed
  /\ Goes(j, "lookup", "mint")
  /\ UNCHANGED <<world, lambda, broker, env, settings>>

\* GitHub's 404 to a JWT that it accepts: app_not_installed, 404.
NotInstalled(j) ==
  /\ settings[j].key \in accepted /\ ~installed
  /\ Done(j, "lookup", "refused")
  /\ UNCHANGED <<world, lambda, broker>>

\* parsePermissions of the Worker throws: invalid_token_permissions, 400.
Unparsed(j) ==
  /\ ~settings[j].readable
  /\ Done(j, "mint", "refused")
  /\ UNCHANGED <<world, lambda, broker>>

Minted(j) ==
  /\ settings[j].readable /\ settings[j].key \in accepted /\ installed
  /\ Done(j, "mint", "token")
  /\ UNCHANGED <<world, lambda, broker>>

Configured(j) ==
  UseDeployed(j) \/ \E e \in Environments : UseCached(j, e) \/ ReadParameters(j, e)

JobNext(j) ==
  \/ Start(j) \/ Errs(j) \/ NoAnswer(j)
  \/ Configured(j) \/ \E e \in Environments : SsmFails(j, e)
  \/ Verified(j) \/ Rejected(j) \/ LookedUp(j) \/ NotInstalled(j) \/ Unparsed(j) \/ Minted(j)

Next ==
  \/ Install
  \/ \E k \in Keys : AddKey(k) \/ Seed(k) \/ DropKey(k) \/ \E r \in BOOLEAN : Deploy(k, r)
  \/ \E u \in Urls, b \in Brokers : Repoint(u, b)
  \/ \E e \in Environments : Recycle(e) \/ Unmute(e)
  \/ \E j \in Jobs : JobNext(j)

Spec == Init /\ [][Next]_vars

\* A patient job is re-run until it has its token, and its request goes on.  A call that is
\* made again and again is answered at last, at each URL; SSM is one of them.
\* Nothing is assumed of when an environment is recycled.
Fairness ==
  /\ \A e \in Environments : WF_vars(Unmute(e))
  /\ \A j \in Patient :
       /\ WF_vars(JobNext(j))
       /\ \A u \in Urls :
            /\ SF_vars(broker[j] = u /\ Configured(j))
            /\ SF_vars(broker[j] = u /\ Verified(j))
            /\ SF_vars(broker[j] = u /\ LookedUp(j))
            /\ SF_vars(broker[j] = u /\ Minted(j))

FairSpec == Spec /\ Fairness

-----------------------------------------------------------------------------
(* Properties                                                              *)

\* What is known of a job: what it goes by is what its environment keeps.
JobInv(j) ==
  /\ at[j] \in Stages \ {"config"} /\ env[j] # None =>
       overlay[env[j]] = settings[j].key /\ settings[j].readable
  /\ at[j] \in Ends \cup {"config"} => env[j] = None /\ settings[j] = Unset

\* A request goes by what its environment keeps, whatever is seeded, deployed, dropped
\* or repointed meanwhile, and nothing of it outlives its answer.
ExchangeInv ==
  /\ TypeOK
  /\ params \in accepted \cup {None} /\ deployed.key \in accepted \cup {None}
  /\ \A j \in Jobs : JobInv(j)

\* A request at the URL can have its token: the secrets that its broker goes by, or will
\* read, are there and are not rotated away.
InOrder(u) ==
  IF behind[u] = "worker"
  THEN deployed.readable /\ deployed.key \in accepted
  ELSE params \in accepted /\ \A e \in Environments : overlay[e] \in {Unread, params}

\* The Worker does not answer 400 at the first URL.  That is the one trouble of a
\* broker's own for which the second is not asked.
PrimaryParses == behind[Primary] = "worker" => deployed.readable

\* If the broker behind the second URL is at last in order for good, a job that is re-run
\* gets its token, whatever the secrets behind the first.  With one Lambda behind both the
\* second is in order only when every environment is: a kept empty answer or a key
\* that has been rotated away is then met at both.
FallbackSuffices ==
  Fallback # None =>
    \A j \in Patient :
      <>[](installed /\ PrimaryParses /\ InOrder(Fallback)) => <>(at[j] = "token")

\* An outage of SSM is got over: parameters that were there all the time, and stay, are
\* enough with the Lambda behind the first URL, whatever is behind the second.
OutagesPass ==
  \A j \in Patient :
    /\ \E k \in Keys : [](params = k /\ k \in accepted)
    /\ <>[](installed /\ behind[Primary] = "lambda")
    => <>(at[j] = "token")
=============================================================================
