------------------------- MODULE TokenExchangeProofs -------------------------
(***************************************************************************)
(* Proofs about TokenExchange, for any jobs, environments and keys, any    *)
(* primary URL and any fallback or none.                                   *)
(***************************************************************************)
EXTENDS TokenExchange, TLAPS

\* What is proved inductive: the parts of ExchangeInv.
KeysKept ==
  params \in accepted \cup {None} /\ deployed.key \in accepted \cup {None}

IInv == TypeOK /\ KeysKept /\ \A j \in Jobs : JobInv(j)

WorldNext ==
  \/ Install
  \/ \E k \in Keys : AddKey(k) \/ Seed(k) \/ DropKey(k) \/ \E r \in BOOLEAN : Deploy(k, r)
  \/ \E u \in Urls, b \in Brokers : Repoint(u, b)

LEMMA UnsetTyped == Unset \in Settings /\ Unset.readable = TRUE /\ Unset.key = None
  BY DEF Unset, Settings

-----------------------------------------------------------------------------
(* Types, and the keys that the brokers are configured with                *)

LEMMA WorldTyped ==
  ASSUME TypeOK, KeysKept, WorldNext
  PROVE  TypeOK' /\ KeysKept'
<1> USE DEF TypeOK
<1>1. UNCHANGED <<overlay, muted, at, broker, env, settings>>
  BY DEF WorldNext, Install, AddKey, Seed, DropKey, Deploy, Repoint, lambda, job
<1>2. changes' \in Nat
  BY DEF WorldNext, Install, AddKey, Seed, DropKey, Deploy, Repoint, Change
<1>3. behind' \in [Urls -> Brokers]
  BY DEF WorldNext, Install, AddKey, Seed, DropKey, Deploy, Repoint
<1>4. CASE Install
  <2>1. UNCHANGED <<accepted, params, deployed>> /\ installed' \in BOOLEAN
    BY <1>4 DEF Install
  <2> QED
    BY <1>1, <1>2, <1>3, <2>1 DEF KeysKept
<1>5. ASSUME NEW k \in Keys, AddKey(k) PROVE TypeOK' /\ KeysKept'
  <2>1. UNCHANGED <<installed, params, deployed>> /\ accepted' = accepted \cup {k}
    BY <1>5 DEF AddKey
  <2> QED
    BY <1>1, <1>2, <1>3, <2>1 DEF KeysKept
<1>6. ASSUME NEW k \in Keys, Seed(k) PROVE TypeOK' /\ KeysKept'
  <2>1. UNCHANGED <<installed, accepted, deployed>> /\ params' = k /\ k \in accepted
    BY <1>6 DEF Seed
  <2> QED
    BY <1>1, <1>2, <1>3, <2>1 DEF KeysKept
<1>7. ASSUME NEW k \in Keys, DropKey(k) PROVE TypeOK' /\ KeysKept'
  <2>1. UNCHANGED <<installed, params, deployed>> /\ accepted' = accepted \ {k}
        /\ k # params /\ k # deployed.key
    BY <1>7 DEF DropKey
  <2> QED
    BY <1>1, <1>2, <1>3, <2>1 DEF KeysKept
<1>8. ASSUME NEW k \in Keys, NEW r \in BOOLEAN, Deploy(k, r) PROVE TypeOK' /\ KeysKept'
  <2>1. UNCHANGED <<installed, accepted, params>> /\ deployed' = [key |-> k, readable |-> r]
        /\ k \in accepted
    BY <1>8 DEF Deploy
  <2> QED
    BY <1>1, <1>2, <1>3, <2>1 DEF KeysKept, Settings
<1>9. ASSUME NEW u \in Urls, NEW b \in Brokers, Repoint(u, b) PROVE TypeOK' /\ KeysKept'
  <2>1. UNCHANGED <<installed, accepted, params, deployed>>
    BY <1>9 DEF Repoint
  <2> QED
    BY <1>1, <1>2, <1>3, <2>1 DEF KeysKept
<1> QED
  BY <1>4, <1>5, <1>6, <1>7, <1>8, <1>9 DEF WorldNext

\* Where a job's own variables go in a step that is not the start of a request.
Moves(j) ==
  /\ \E to \in Stages \cup Ends : At(j, to)
  /\ broker' = broker \/ \E u \in Urls : broker' = [broker EXCEPT ![j] = u]
  /\ env' = env \/ \E e \in Environments \cup {None} : env' = [env EXCEPT ![j] = e]
  /\ settings' = settings \/ \E s \in Settings : settings' = [settings EXCEPT ![j] = s]

LEMMA FallMoves ==
  ASSUME NEW j \in Jobs, Fall(j)
  PROVE  Moves(j)
<1>1. broker' = broker \/ \E u \in Urls : broker' = [broker EXCEPT ![j] = u]
  BY DEF Fall, Urls
<1>2. \E to \in Stages \cup Ends : At(j, to)
  BY DEF Fall, Stages, Ends
<1> QED
  BY <1>1, <1>2, UnsetTyped DEF Fall, Moves

LEMMA DoneMoves ==
  ASSUME NEW j \in Jobs, NEW from, NEW end \in Ends, Done(j, from, end),
         UNCHANGED broker
  PROVE  Moves(j)
  BY UnsetTyped DEF Done, Goes, Moves

LEMMA JobMoves ==
  ASSUME TypeOK, NEW j \in Jobs, JobNext(j)
  PROVE  Moves(j)
<1>1. CASE Start(j)
  BY <1>1, ExchangeAssumption DEF Start, Moves, Stages, Urls
<1>2. CASE Errs(j) \/ NoAnswer(j) \/ \E e \in Environments : SsmFails(j, e)
  BY <1>2, FallMoves DEF Errs, NoAnswer, SsmFails
<1>3. ASSUME NEW e \in Environments, UseCached(j, e) \/ ReadParameters(j, e)
      PROVE  Moves(j)
  <2>1. \A k \in Keys : [settings[j] EXCEPT !.key = k] \in Settings
    BY DEF TypeOK, Settings
  <2>2. CASE Fall(j)
    BY <2>2, FallMoves
  <2>3. CASE ~Fall(j)
    <3>1. \E k \in Keys : settings' = [settings EXCEPT ![j].key = k]
      BY <1>3, <2>3 DEF UseCached, ReadParameters, TypeOK
    <3>2. \E s \in Settings : settings' = [settings EXCEPT ![j] = s]
      BY <2>1, <3>1 DEF TypeOK
    <3> QED
      BY <1>3, <2>3, <3>2 DEF UseCached, ReadParameters, Moves, Stages
  <2> QED
    BY <2>2, <2>3
<1>4. CASE UseDeployed(j)
  BY <1>4 DEF UseDeployed, Moves, Stages, TypeOK
<1>5. CASE Verified(j) \/ LookedUp(j)
  BY <1>5 DEF Verified, LookedUp, Goes, Moves, Stages
<1>6. CASE Rejected(j) \/ NotInstalled(j) \/ Unparsed(j) \/ Minted(j)
  BY <1>6, DoneMoves DEF Rejected, NotInstalled, Unparsed, Minted, Ends
<1> QED
  BY <1>1, <1>2, <1>3, <1>4, <1>5, <1>6 DEF JobNext, Configured

LEMMA JobTyped ==
  ASSUME TypeOK, KeysKept, NEW j \in Jobs, JobNext(j)
  PROVE  TypeOK' /\ KeysKept'
<1>1. Moves(j)
  BY JobMoves
<1>2. /\ at' \in [Jobs -> Stages \cup Ends] /\ broker' \in [Jobs -> Urls]
      /\ env' \in [Jobs -> Environments \cup {None}] /\ settings' \in [Jobs -> Settings]
  BY <1>1 DEF Moves, At, TypeOK
<1>3. UNCHANGED world
  BY DEF JobNext, Start, Errs, NoAnswer, Configured, SsmFails, UseDeployed, UseCached,
         ReadParameters, Verified, Rejected, LookedUp, NotInstalled, Unparsed, Minted
<1>4. overlay' \in [Environments -> Keys \cup {Unread, Empty}]
  <2>1. overlay' = overlay \/ \E e \in Environments : ReadParameters(j, e)
    BY DEF JobNext, Start, Errs, NoAnswer, Configured, SsmFails, UseDeployed, UseCached,
           Verified, Rejected, LookedUp, NotInstalled, Unparsed, Minted, lambda
  <2> QED
    BY <2>1 DEF ReadParameters, TypeOK
<1>5. muted' \in [Environments -> BOOLEAN]
  <2>1. muted' = muted \/ \E e \in Environments : SsmFails(j, e)
    BY DEF JobNext, Start, Errs, NoAnswer, Configured, ReadParameters, UseDeployed, UseCached,
           Verified, Rejected, LookedUp, NotInstalled, Unparsed, Minted, lambda
  <2>2. muted \in [Environments -> BOOLEAN]
    BY DEF TypeOK
  <2>3. ASSUME NEW e \in Environments, SsmFails(j, e) PROVE muted' \in [Environments -> BOOLEAN]
    BY <2>2, <2>3, Zenon DEF SsmFails
  <2> QED
    BY <2>1, <2>2, <2>3
<1> QED
  BY <1>2, <1>3, <1>4, <1>5 DEF TypeOK, KeysKept, world

LEMMA LambdaTyped ==
  ASSUME TypeOK, KeysKept, NEW e \in Environments, Recycle(e) \/ Unmute(e)
  PROVE  TypeOK' /\ KeysKept'
<1>1. overlay' \in [Environments -> Keys \cup {Unread, Empty}]
  BY DEF Recycle, Unmute, TypeOK
<1>2. muted' \in [Environments -> BOOLEAN]
  <2>1. muted \in [Environments -> BOOLEAN] /\ muted' = [muted EXCEPT ![e] = FALSE]
    BY DEF Recycle, Unmute, TypeOK
  <2> QED
    BY <2>1, Zenon
<1> QED
  BY <1>1, <1>2 DEF Recycle, Unmute, TypeOK, KeysKept, world, job

-----------------------------------------------------------------------------
(* What is known of a job                                                  *)

\* A job whose own variables stay keeps what is known of it, as long as its environment
\* keeps what it has read.
LEMMA Elsewhere ==
  ASSUME NEW j \in Jobs, JobInv(j),
         at'[j] = at[j], broker'[j] = broker[j], env'[j] = env[j], settings'[j] = settings[j],
         at[j] \in Stages /\ env[j] # None => overlay'[env[j]] = overlay[env[j]]
  PROVE  JobInv(j)'
  BY DEF JobInv

LEMMA WorldKeeps ==
  ASSUME IInv, WorldNext
  PROVE  \A j \in Jobs : JobInv(j)'
<1> SUFFICES ASSUME NEW j \in Jobs PROVE JobInv(j)'
  OBVIOUS
<1>1. JobInv(j) /\ TypeOK
  BY DEF IInv
<1>2. UNCHANGED <<overlay, muted, at, broker, env, settings>>
  BY DEF WorldNext, Install, AddKey, Seed, DropKey, Deploy, Repoint, lambda, job
<1> QED
  BY <1>1, <1>2, Elsewhere

LEMMA LambdaKeeps ==
  ASSUME IInv, NEW e \in Environments, Recycle(e) \/ Unmute(e)
  PROVE  \A j \in Jobs : JobInv(j)'
<1> SUFFICES ASSUME NEW j \in Jobs PROVE JobInv(j)'
  OBVIOUS
<1>1. JobInv(j) /\ TypeOK
  BY DEF IInv
<1>2. UNCHANGED <<at, broker, env, settings>>
  BY DEF Recycle, Unmute, world, job
<1>3. at[j] \in Stages /\ env[j] # None => overlay'[env[j]] = overlay[env[j]]
  BY <1>1 DEF Recycle, Unmute, Busy, TypeOK
<1> QED
  BY <1>1, <1>2, <1>3, Elsewhere

\* The other jobs keep what they have.
LEMMA OthersKeep ==
  ASSUME IInv, NEW i \in Jobs, JobNext(i), NEW j \in Jobs, j # i
  PROVE  JobInv(j)'
<1>1. JobInv(j) /\ TypeOK
  BY DEF IInv
<1>2. Moves(i)
  BY <1>1, JobMoves
<1>3. /\ at'[j] = at[j] /\ broker'[j] = broker[j] /\ env'[j] = env[j]
      /\ settings'[j] = settings[j]
  BY <1>1, <1>2 DEF Moves, At, TypeOK
<1>4. at[j] \in Stages /\ env[j] # None => overlay'[env[j]] = overlay[env[j]]
  <2>1. overlay' = overlay \/ \E e \in Environments : ReadParameters(i, e)
    BY DEF JobNext, Start, Errs, NoAnswer, Configured, SsmFails, UseDeployed, UseCached,
           Verified, Rejected, LookedUp, NotInstalled, Unparsed, Minted, lambda
  <2> QED
    BY <1>1, <2>1 DEF ReadParameters, Busy, TypeOK
<1> QED
  BY <1>1, <1>3, <1>4, Elsewhere

LEMMA FallKeeps ==
  ASSUME TypeOK, NEW j \in Jobs, JobInv(j), Fall(j)
  PROVE  JobInv(j)'
<1>1. at'[j] \in {"config", "failed"} /\ env'[j] = None /\ settings'[j] = Unset
  BY DEF Fall, At, TypeOK
<1> QED
  BY <1>1, UnsetTyped DEF JobInv, Stages, Ends

LEMMA StartKeeps ==
  ASSUME TypeOK, NEW j \in Jobs, JobInv(j), Start(j)
  PROVE  JobInv(j)'
<1>1. at'[j] = "config" /\ env'[j] = None /\ settings'[j] = Unset
  BY DEF Start, At, TypeOK, JobInv
<1> QED
  BY <1>1, UnsetTyped DEF JobInv, Stages, Ends

LEMMA ConfiguredKeeps ==
  ASSUME TypeOK, NEW j \in Jobs, JobInv(j), Configured(j)
  PROVE  JobInv(j)'
<1>1. CASE UseDeployed(j)
  <2>1. at'[j] = "verify" /\ env'[j] = None
    BY <1>1 DEF UseDeployed, Asks, At, TypeOK, JobInv
  <2> QED
    BY <2>1 DEF JobInv, Stages, Ends
<1>2. ASSUME NEW e \in Environments, UseCached(j, e) \/ ReadParameters(j, e)
      PROVE  JobInv(j)'
  <2>1. CASE Fall(j)
    BY <1>2, <2>1, FallKeeps DEF UseCached, ReadParameters
  <2>2. CASE ~Fall(j)
    <3> DEFINE k == IF overlay[e] = Unread THEN params ELSE overlay[e]
    <3>1. /\ at' = [at EXCEPT ![j] = "verify"] /\ env' = [env EXCEPT ![j] = e]
          /\ settings' = [settings EXCEPT ![j].key = k]
          /\ overlay'[e] = k
      <4>1. CASE UseCached(j, e)
        BY <4>1, ExchangeAssumption DEF UseCached, At, lambda
      <4>2. CASE ReadParameters(j, e)
        BY <2>2, <4>2 DEF ReadParameters, At, TypeOK
      <4> QED
        BY <1>2, <4>1, <4>2
    <3> HIDE DEF k
    <3>2. /\ at'[j] = "verify" /\ env'[j] = e /\ settings'[j].key = k
          /\ settings'[j].readable = settings[j].readable
      BY <3>1 DEF TypeOK, Settings
    <3>3. settings[j].readable
      BY <1>2, UnsetTyped DEF UseCached, ReadParameters, Asks, JobInv, Ends
    <3> QED
      BY <3>1, <3>2, <3>3 DEF JobInv, Stages, Ends
  <2> QED
    BY <2>1, <2>2
<1> QED
  BY <1>1, <1>2 DEF Configured

LEMMA DoneKeeps ==
  ASSUME TypeOK, NEW j \in Jobs, JobInv(j), NEW from, NEW end \in Ends, Done(j, from, end)
  PROVE  JobInv(j)'
<1>1. at'[j] = end /\ env'[j] = None /\ settings'[j] = Unset
  BY DEF Done, Goes, At, TypeOK
<1> QED
  BY <1>1, UnsetTyped DEF JobInv, Stages, Ends

LEMMA GoesKeeps ==
  ASSUME TypeOK, NEW j \in Jobs, JobInv(j), NEW from \in Stages \ {"config"},
         NEW to \in Stages \ {"config"}, Goes(j, from, to),
         UNCHANGED <<lambda, env, settings>>
  PROVE  JobInv(j)'
<1>1. at[j] = from /\ at'[j] = to
  BY DEF Goes, At, TypeOK
<1> QED
  BY <1>1 DEF JobInv, lambda, Stages, Ends

LEMMA JobKeeps ==
  ASSUME TypeOK, NEW j \in Jobs, JobInv(j), JobNext(j)
  PROVE  JobInv(j)'
<1>1. CASE Start(j)
  BY <1>1, StartKeeps
<1>2. CASE Errs(j) \/ NoAnswer(j) \/ \E e \in Environments : SsmFails(j, e)
  BY <1>2, FallKeeps DEF Errs, NoAnswer, SsmFails
<1>3. CASE Configured(j)
  BY <1>3, ConfiguredKeeps
<1>4. CASE Verified(j) \/ LookedUp(j)
  BY <1>4, GoesKeeps DEF Verified, LookedUp, Stages
<1>5. CASE Rejected(j) \/ NotInstalled(j) \/ Unparsed(j) \/ Minted(j)
  BY <1>5, DoneKeeps DEF Rejected, NotInstalled, Unparsed, Minted, Ends
<1> QED
  BY <1>1, <1>2, <1>3, <1>4, <1>5 DEF JobNext

-----------------------------------------------------------------------------
(* Theorems                                                                *)

LEMMA Inductive == Spec => []IInv
<1>1. Init => IInv
  <2> SUFFICES ASSUME Init PROVE IInv
    OBVIOUS
  <2>1. TypeOK /\ KeysKept
    <3>1. deployed \in Settings /\ deployed.key \in accepted \cup {None}
      BY DEF Init, Settings
    <3> QED
      BY <3>1, UnsetTyped, ExchangeAssumption DEF Init, TypeOK, KeysKept, Ends, Urls
  <2>2. ASSUME NEW j \in Jobs PROVE JobInv(j)
    BY DEF Init, JobInv, Stages, Ends
  <2> QED
    BY <2>1, <2>2 DEF IInv
<1>2. IInv /\ [Next]_vars => IInv'
  <2> SUFFICES ASSUME IInv, [Next]_vars PROVE IInv'
    OBVIOUS
  <2>1. CASE WorldNext
    BY <2>1, WorldTyped, WorldKeeps DEF IInv
  <2>2. ASSUME NEW e \in Environments, Recycle(e) \/ Unmute(e) PROVE IInv'
    BY <2>2, LambdaTyped, LambdaKeeps DEF IInv
  <2>3. ASSUME NEW j \in Jobs, JobNext(j) PROVE IInv'
    <3>1. TypeOK' /\ KeysKept'
      BY <2>3, JobTyped DEF IInv
    <3>2. ASSUME NEW i \in Jobs PROVE JobInv(i)'
      BY <2>3, JobKeeps, OthersKeep DEF IInv
    <3> QED
      BY <3>1, <3>2 DEF IInv
  <2>4. CASE UNCHANGED vars
    BY <2>4 DEF vars, world, lambda, job, IInv, TypeOK, KeysKept, JobInv
  <2> QED
    BY <2>1, <2>2, <2>3, <2>4 DEF Next, WorldNext
<1> QED
  BY <1>1, <1>2, PTL DEF Spec

\* Every request goes by what its own environment or deployment has, and by nothing of
\* an earlier one.
THEOREM ExchangeInvariant == Spec => []ExchangeInv
<1>1. IInv => ExchangeInv
  BY DEF IInv, KeysKept, ExchangeInv
<1> QED
  BY <1>1, Inductive, PTL

=============================================================================
