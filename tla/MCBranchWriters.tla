--------------------------- MODULE MCBranchWriters ---------------------------
(* Values of the constants of BranchWriters for its TLC run: two pull requests *)
(* onto the main branch, more than the page of the list holds, and one from it *)
(* to an environment's branch, which leads back to it                         *)
EXTENDS BranchWriters, TLC

CONSTANTS main, dev, fix, forth, back, side, h1, h2, s1

Heads == [p \in Pulls |-> CASE p = forth -> dev [] p = back -> main [] p = side -> fix]
Bases == [p \in Pulls |-> IF p = back THEN dev ELSE main]
Start == [b \in Branches |-> CASE b = main -> {1} [] b = dev -> {1, 2} [] b = fix -> {1, 3}]
Aims == [s \in Clients |-> main]
=============================================================================
