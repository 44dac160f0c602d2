--------------------------- MODULE MCGrantRefresh ---------------------------
(* Instances of GrantRefresh for TLC. *)
EXTENDS GrantRefresh

CONSTANTS p1, p2, r1, r2, c0, c1, d1

\* r1 runs in p1 with the disconnect, r2 in p2 with the new
\* consent.
TwoProcesses ==
    [a \in Actor |-> IF a \in {r2, c1} THEN p2 ELSE p1]

\* The second consent is another member's.
NewAccount == [c \in Consent |-> c]
=============================================================================
