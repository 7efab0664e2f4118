---------------------------- MODULE VersionLedger ----------------------------
(***************************************************************************)
(* What a release promises about a version number, with no workflow in     *)
(* sight.  A version is claimed at most once, for one commit, and the      *)
(* claim is never moved.  It ships (something can be pulled under it) only *)
(* once claimed, and it is announced (a GitHub Release exists, which is    *)
(* what deploy tooling listens to) only once it ships.                     *)
(***************************************************************************)
CONSTANTS
  Versions,   \* version numbers
  Commits,    \* commits of the repository
  None        \* "no commit" (not in Commits): an unclaimed version

VARIABLES
  claim,      \* claim[v]: the commit v names, or None
  shipped,    \* versions that can be pulled
  announced   \* versions with a GitHub Release

ledgerVars == <<claim, shipped, announced>>

LedgerInit ==
  /\ claim = [v \in Versions |-> None]
  /\ shipped = {}
  /\ announced = {}

Claim(v, c) ==
  /\ claim[v] = None
  /\ claim' = [claim EXCEPT ![v] = c]
  /\ UNCHANGED <<shipped, announced>>

Ship(v) ==
  /\ claim[v] # None
  /\ shipped' = shipped \cup {v}
  /\ UNCHANGED <<claim, announced>>

Announce(v) ==
  /\ v \in shipped
  /\ announced' = announced \cup {v}
  /\ UNCHANGED <<claim, shipped>>

LedgerNext ==
  \E v \in Versions :
    \/ \E c \in Commits : Claim(v, c)
    \/ Ship(v)
    \/ Announce(v)

LedgerSpec == LedgerInit /\ [][LedgerNext]_ledgerVars
=============================================================================
