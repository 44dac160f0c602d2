--------------------------- MODULE MCGateBaseline ---------------------------
(* Four commits, two parts of one statement each.                             *)
EXTENDS GateBaseline, TLC

CONSTANTS c1, c2, c3, c4, unit, e2e

Alike == Permutations(Commit) \cup Permutations(Part)
=============================================================================
