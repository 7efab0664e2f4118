---------------------------- MODULE MCWorkerKeys ----------------------------
(* Values of the constants of WorkerKeys for its TLC run, and the view that  *)
(* makes it finite without a bound on time                                   *)
EXTENDS WorkerKeys, TLC

CONSTANTS k1, k2, i1, r1, r2

\* A time by its age, up to the age at which it no longer makes a difference.
Upto(t, limit) ==
  IF t = None THEN None ELSE IF Age(t) > limit THEN limit + 1 ELSE Age(t)

SetView(s, limit) == <<s.keys, Upto(s.at, limit)>>

FlightView(f) ==
  IF f = None THEN None
  ELSE IF Age(f.began) > Timeout THEN "late" ELSE <<f.reply, Age(f.began)>>

\* Two states with the same view differ in the hour only, every guard and every
\* property comparing an age with a limit, or in what is too old to be looked at.
KeysView ==
  << published,
     [k \in Kids |-> <<Upto(since[k], Cooldown + Timeout),
                       Upto(gone[k], CacheMaxAge + Timeout + MaxAge)>>],
     [i \in Isolates |->
        <<IF Fresh(i) THEN <<jwks[i].keys, Age(jwks[i].at)>> ELSE None,
          Upto(forced[i], ForcedInterval), Upto(sent[i], ForcedInterval)>>],
     {SetView(v, MaxAge) : v \in versions},
     [r \in Requests |->
        <<token[r], home[r], FlightView(flight[r]),
          IF pc[r] \in Verdicts THEN "idle" ELSE pc[r]>>] >>

KeysSymmetry == Permutations(Kids) \cup Permutations(Requests)
=============================================================================
