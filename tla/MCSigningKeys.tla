---------------------------- MODULE MCSigningKeys ----------------------------
(* Values of the constants of SigningKeys for its TLC runs, and the view that *)
(* makes them finite without a bound on time                                  *)
EXTENDS SigningKeys, TLC

CONSTANTS k1, k2, e1, e2

\* A time by its age, up to the age at which it no longer makes a difference.
Upto(t, limit) ==
  IF t = None THEN None ELSE IF Age(t) > limit THEN limit + 1 ELSE Age(t)

SetView(s, limit) ==
  IF s = None THEN None ELSE <<s.keys, Upto(s.at, limit)>>

\* Two states with the same view differ in the hour only: every guard and every
\* property compares an age with a limit.
KeysView ==
  << published,
     [k \in Kids |-> <<Upto(since[k], Cooldown), Upto(gone[k], CacheTTL + MaxAge)>>],
     [e \in Environments |->
        <<SetView(cache[e], CacheTTL), Upto(earlier[e], ForcedInterval),
          Upto(forced[e], ForcedInterval), Upto(written[e], WriteInterval),
          token[e], IF pc[e] \in Verdicts THEN "idle" ELSE pc[e]>>],
     SetView(snapshot, MaxAge), SetView(lagging, MaxAge) >>

KeysSymmetry == Permutations(Kids) \cup Permutations(Environments)
=============================================================================
