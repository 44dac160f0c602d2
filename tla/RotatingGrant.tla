---------------------------- MODULE RotatingGrant ----------------------------
(***************************************************************************)
(* What a workspace's grant is to the requests that use it, whichever      *)
(* process they are served by: one register, which holds the refresh token *)
(* the next refresh spends. A refresh is one step: the forge rotates the   *)
(* token and the register has its successor.                               *)
(*                                                                         *)
(* GrantRefresh implements this: there the forge and the database change   *)
(* one after the other, under the grant lock, and owners store grants      *)
(* beside it.                                                              *)
(***************************************************************************)
EXTENDS Integers

CONSTANTS Consent, First, NoConsent

VARIABLES
    consent,   \* the consent the grant comes from
    number,    \* of its refresh tokens, the one the next refresh spends
    live,      \* forge: the live refresh token of each consent, 0 = none
    lost       \* a rotation's answer was lost, and with it the promise

vars == <<consent, number, live, lost>>

Init ==
    /\ consent = First
    /\ number = 1
    /\ live = [c \in Consent |-> IF c = First THEN 1 ELSE 0]
    /\ lost = FALSE

\* The forge gives a consent its first token, or takes away what it has.
Exchange(c) ==
    /\ c /= consent
    /\ live' = [live EXCEPT ![c] = 1]
    /\ UNCHANGED <<consent, number, lost>>

Revoke(c) ==
    /\ live' = [live EXCEPT ![c] = 0]
    /\ UNCHANGED <<consent, number, lost>>

\* A refresh, also of a grant that has been replaced meanwhile.
Refresh(c) ==
    /\ live[c] > 0
    /\ live' = [live EXCEPT ![c] = @ + 1]
    /\ number' = IF c = consent THEN live[c] + 1 ELSE number
    /\ UNCHANGED <<consent, lost>>

\* Another consent's newest token is stored: an owner connects, or a refresh
\* that was under way writes its answer over what an owner has done since.
Store(c) ==
    /\ c /= consent
    /\ consent' = c
    /\ number' \in Nat \ {0}
    /\ lost \/ live[c] \in {0, number'}
    /\ UNCHANGED <<live, lost>>

Remove ==
    /\ consent' = NoConsent
    /\ number' = 0
    /\ UNCHANGED <<live, lost>>

\* The answer to a rotation reaches nobody, or nobody who can write it.
Lose ==
    /\ lost' = TRUE
    /\ number' \in Nat
    /\ \/ live' = live
       \/ \E c \in Consent : live' = [live EXCEPT ![c] = @ + 1]
    /\ UNCHANGED consent

Next ==
    \/ \E c \in Consent : Exchange(c) \/ Revoke(c) \/ Refresh(c) \/ Store(c)
    \/ Remove
    \/ Lose

Spec == Init /\ [][Next]_vars

\* The promise: what the register holds is live, unless the forge took it away or
\* an answer was lost. So no refresh spends a token that another has spent.
InStep == ~lost /\ consent /= NoConsent => live[consent] \in {0, number}

=============================================================================
