----------------------------- MODULE MCAccounts -----------------------------
(* Two users: one signs in, claims and deletes, the other signs in and claims. *)
EXTENDS Accounts, TLC

CONSTANTS ann, bob, p1, p2, annSigns, bobSigns, annClaims, bobClaims, annDeletes

MCUserOf ==
    [a \in Actor |-> IF a \in {annSigns, annClaims, annDeletes} THEN ann ELSE bob]
MCPrefixOf == [a \in Claim \cup Delete |-> p1]
MCFirstRoles ==
    ann :> (p1 :> "owner" @@ p2 :> "member") @@
    bob :> (p1 :> "member" @@ p2 :> "owner")
=============================================================================
