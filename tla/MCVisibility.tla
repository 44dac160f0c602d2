---------------------------- MODULE MCVisibility ----------------------------
(* Instances of Visibility for TLC. *)
EXTENDS Visibility

CONSTANTS p1, p2, up, page, pub, priv, disc

\* The publicized webhook arrives at the other process.
TwoProcesses == [a \in Actor |-> IF a = pub THEN p2 ELSE p1]

Kinds ==
    [a \in Actor |-> CASE a = up -> "upload"
                       [] a = page -> "serve"
                       [] a = pub -> "publicized"
                       [] a = priv -> "privatized"
                       [] a = disc -> "disconnect"]
=============================================================================
