---------------------------- MODULE MCCommitPush ----------------------------
(* Instances of CommitPush for TLC. *)
EXTENDS CommitPush

CONSTANTS a1, a2, b1

\* One part uploaded twice (a CI retry) and a second part.
RetryAndPart == [u \in {a1, a2, b1} |-> IF u = b1 THEN "b" ELSE "a"]

\* Two parts.
TwoParts == [u \in {a1, b1} |-> IF u = b1 THEN "b" ELSE "a"]
=============================================================================
