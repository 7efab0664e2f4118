--------------------------- MODULE MCTokenExchange ---------------------------
(* The model values of TokenExchange's TLC runs: one job, re-run as often as   *)
(* it takes, whose requests meet in what the environments keep                 *)
EXTENDS TokenExchange

CONSTANTS j1, e1, e2, k1, k2, u1, u2

\* Of two keys that are alike k1 is the one accepted, put into SSM or deployed first.
KeysInTurn ==
  /\ accepted \in {{k1}, {k1, k2}}
  /\ params # k2
  /\ params = None => deployed.key # k2

\* Init with the App installed and the first URL not rolled back to the Worker.
InitInTurn == Init /\ KeysInTurn /\ installed /\ behind[Primary] = "lambda"

FairSpecInTurn == InitInTurn /\ [][Next]_vars /\ Fairness
=============================================================================
