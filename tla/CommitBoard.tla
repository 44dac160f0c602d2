----------------------------- MODULE CommitBoard -----------------------------
(***************************************************************************)
(* What a commit is to those who look at it, on the report page or on the  *)
(* forge: uploads that get numbers and become visible, one merged report   *)
(* that only grows, a merge of visible uploads on each surface of the      *)
(* forge, and the number recorded as pushed.                               *)
(*                                                                         *)
(* CommitPush implements this with workers in several processes, which     *)
(* read, lock, lease, fail and die between any two of these steps.         *)
(***************************************************************************)
EXTENDS Integers

CONSTANTS Upload, Part, Surface, Status

VARIABLES
    id,        \* the uploads' numbers, 0 = none yet
    landed,    \* the visible uploads
    report,    \* what the report is merged from
    board,     \* what each surface shows
    recorded,  \* the number up to which the forge is known to be up to date
    inverted   \* an upload became visible after one with a larger number

vars == <<id, landed, report, board, recorded, inverted>>

Covers(S, u) == \E v \in S : Part[v] = Part[u] /\ id[u] <= id[v]

CoversUpTo(S, n) == \A u \in landed : id[u] <= n => Covers(S, u)

\* The merges there can be: visible uploads, at most one of each part.
Merges == {S \in SUBSET landed : \A u, v \in S : Part[u] = Part[v] => u = v}

Init ==
    /\ id = [u \in Upload |-> 0]
    /\ landed = {}
    /\ report = {}
    /\ board = [s \in Surface |-> {}]
    /\ recorded = 0
    /\ inverted = FALSE

\* An upload gets a number larger than every other.
Number(u) ==
    /\ id[u] = 0
    /\ id' \in [Upload -> Nat]
    /\ \A v \in Upload \ {u} : id'[v] = id[v] /\ id[v] < id'[u]
    /\ UNCHANGED <<landed, report, board, recorded, inverted>>

Land(u) ==
    /\ id[u] /= 0
    /\ u \notin landed
    /\ landed' = landed \cup {u}
    /\ inverted' = (inverted \/ \E v \in landed : id[u] < id[v])
    /\ UNCHANGED <<id, report, board, recorded>>

\* A merge drops nothing the report has.
Merge ==
    \E S \in Merges :
        /\ \A u \in landed : Covers(report, u) => Covers(S, u)
        /\ report' = S
        /\ UNCHANGED <<id, landed, board, recorded, inverted>>

\* A surface gets a merge that is no newer than the report and, if it is the
\* build status, not older than what is recorded.
Show(s) ==
    \E S \in Merges :
        /\ \A u \in S : Covers(report, u)
        /\ s = Status /\ ~inverted => CoversUpTo(S, recorded)
        /\ board' = [board EXCEPT ![s] = S]
        /\ UNCHANGED <<id, landed, report, recorded, inverted>>

\* What is recorded is shown, and only advances.
Record(u) ==
    /\ recorded < id[u]
    /\ ~inverted => CoversUpTo(board[Status], id[u])
    /\ recorded' = id[u]
    /\ UNCHANGED <<id, landed, report, board, inverted>>

Next ==
    \/ \E u \in Upload : Number(u) \/ Land(u)
    \/ Merge
    \/ \E s \in Surface : Show(s)
    \/ \E u \in landed : Record(u)

Spec == Init /\ [][Next]_vars

\* The promise: no surface is ahead of the report, and the build status shows
\* every upload up to the recorded one.
InOrder ==
    /\ \A s \in Surface : \A u \in board[s] : Covers(report, u)
    /\ ~inverted => CoversUpTo(board[Status], recorded)

=============================================================================
