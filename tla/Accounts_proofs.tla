-------------------------- MODULE Accounts_proofs --------------------------
(* Theorems about Accounts, for any users, workspaces and requests.           *)
EXTENDS Accounts, TLAPS

\* The variables hold what Accounts says they hold.
Types ==
    /\ forge \in [User -> Roles]
    /\ users \in [User -> Roles]
    /\ seats \in [User -> Roles]
    /\ ws \in [Prefix -> Nat]
    /\ nextId \in Nat \ {0}
    /\ pc \in [Actor -> Pc]
    /\ seen \in [Actor -> Roles]
    /\ copy \in [Actor -> Copy]
    /\ alone \subseteq Actor

\* The forge has said so of u, or role says nothing.
Reported(u, p, role) == role = "none" \/ <<u, p, role>> \in reported

\* Whatever a user's row, a seat or a request in flight says of someone's role,
\* the forge has said.
ReportedInv ==
    /\ \A u \in User, p \in Prefix :
        Reported(u, p, users[u][p]) /\ Reported(u, p, seats[u][p])
    /\ \A a \in Actor, p \in Prefix :
        /\ Reported(UserOf[a], p, seen[a][p])
        /\ Reported(UserOf[a], p, copy[a].roles[p])

\* Who is about to make a workspace is its owner on the forge.
OwnerInv ==
    \A c \in Claim : pc[c] = "absent" => seen[c][PrefixOf[c]] = "owner"

\* What alone records: no other request of the user is in flight.
AloneInv ==
    \A a \in alone : pc[a] /= "idle" /\ (InFlight(a) => Others(a) = {})

\* A sign-in between its write of the user's row and its last seat.
Working(s) == pc[s] \in {"upserted", "listed", "deleting"}

Match(u) ==
    \A p \in Prefix : seats[u][p] /= "none" => seats[u][p] = users[u][p]

\* Seats match the snapshot but while a sign-in is bringing them to it.
MatchInv ==
    \A u \in User \ mixed :
        Match(u) \/ \E s \in SignIn : UserOf[s] = u /\ Working(s)

\* A sign-in that nothing overlaps writes the seats of its own snapshot, and has
\* deleted those it does not write.
OwnSnapshot(s) ==
    /\ Working(s) => users[UserOf[s]] = seen[s]
    /\ pc[s] \in {"listed", "deleting"} =>
          \A p \in Sits(s) : copy[s].roles[p] = seen[s][p]
    /\ pc[s] = "deleting" =>
          \A p \in Prefix \ Sits(s) :
              seats[UserOf[s]][p] /= "none" => p \in copy[s].deleted

SignInInv == \A s \in SignIn \cap alone : OwnSnapshot(s)

\* A claim that nothing overlaps works from the user's current row.
CurrentRow(c) ==
    /\ InFlight(c) => seen[c] = users[UserOf[c]]
    /\ pc[c] \in {"listed", "deleting"} /\ UserOf[c] \notin mixed =>
          \A p \in Sits(c) : copy[c].roles[p] = users[UserOf[c]][p]

ClaimInv == \A c \in Claim \cap alone : CurrentRow(c)

IndInv ==
    /\ Types /\ ReportedInv /\ OwnerInv /\ SeatHasWorkspace
    /\ AloneInv /\ MatchInv /\ SignInInv /\ ClaimInv

\* What an answered request keeps.
LEMMA NoCopyType == NoCopy \in Copy /\ None \in Roles
BY DEF NoCopy, None, Copy, Roles, Role

\* Seats written from a copy are seats.
LEMMA SeatsStay ==
  ASSUME Types, NEW a \in Actor, InsertSeats(a)
  PROVE seats' \in [User -> Roles]
<1>1. copy[a].roles \in Roles
  BY DEF Types, Copy
<1> QED BY <1>1, ActorAssumption DEF InsertSeats, Types, Roles, Role

\* Every step keeps the types.
LEMMA TypesStep == IndInv /\ [Next]_vars => Types'
<1> SUFFICES ASSUME IndInv, [Next]_vars PROVE Types'
  OBVIOUS
<1> USE DEF IndInv
<1>1. ASSUME NEW s \in SignIn, Identity(s) PROVE Types'
  BY <1>1, ActorAssumption, NoCopyType DEF Identity, Begin, Goto, Actor,
     tables, Types, Pc
<1>2. ASSUME NEW s \in SignIn, AdmitSignIn(s) PROVE Types'
  BY <1>2, ActorAssumption, NoCopyType DEF AdmitSignIn, Goto, history, tables,
     Types, Pc
<1>3. ASSUME NEW s \in SignIn, SignInDenied(s) PROVE Types'
  BY <1>3, ActorAssumption, NoCopyType DEF SignInDenied, End, Goto, history,
     tables, Types, Pc
<1>4. ASSUME NEW s \in SignIn, UpsertUser(s) PROVE Types'
  <2>1. seen[s] \in Roles /\ UserOf[s] \in User
    BY ActorAssumption DEF Types, Actor
  <2> QED BY <1>4, <2>1 DEF UpsertUser, Wrote, Goto, Types, Pc
<1>5. ASSUME NEW s \in SignIn, ListWorkspaces(s) PROVE Types'
  <2>1. [p \in Prefix |-> IF ws[p] = 0 THEN "none" ELSE seen[s][p]] \in Roles
    BY DEF Types, Actor, Roles, Role
  <2>2. copy' \in [Actor -> Copy]
    BY <1>5, <2>1 DEF ListWorkspaces, NoCopy, Types, Copy
  <2> QED BY <1>5, <2>2 DEF ListWorkspaces, Goto, tables, history, Types, Pc
<1>6. ASSUME NEW s \in SignIn, DeleteSeats(s) PROVE Types'
  <2>1. copy' \in [Actor -> Copy]
    BY <1>6 DEF DeleteSeats, Types, Copy
  <2> QED
    BY <1>6, <2>1 DEF DeleteSeats, Goto, tables, history, Types, Pc
<1>7. ASSUME NEW s \in SignIn, SyncMemberships(s) PROVE Types'
  <2>1. seats' \in [User -> Roles]
    BY <1>7, SeatsStay DEF SyncMemberships, Actor
  <2>2. copy' \in [Actor -> Copy]
    BY <1>7, NoCopyType DEF SyncMemberships, Types
  <2> QED
    BY <1>7, <2>1, <2>2 DEF SyncMemberships, Types, Pc
<1>8. ASSUME NEW s \in SignIn, SeatsFail(s) PROVE Types'
  BY <1>8, ActorAssumption, NoCopyType DEF SeatsFail, End, Goto, tables,
     Types, Pc
<1>9. ASSUME NEW s \in SignIn, CreateSession(s) PROVE Types'
  BY <1>9, ActorAssumption, NoCopyType DEF CreateSession, End, Goto, history,
     Types, Pc
<1>10. ASSUME NEW c \in Claim, Authenticate(c) PROVE Types'
  BY <1>10, ActorAssumption, NoCopyType DEF Authenticate, Begin, Goto, Actor,
     tables, Types, Pc
<1>11. ASSUME NEW c \in Claim, ClaimRefused(c) PROVE Types'
  BY <1>11, ActorAssumption, NoCopyType DEF ClaimRefused, End, Goto, history,
     tables, Types, Pc
<1>12. ASSUME NEW c \in Claim, WorkspaceAbsent(c) PROVE Types'
  BY <1>12, ActorAssumption, NoCopyType DEF WorkspaceAbsent, Goto, history,
     tables, Types, Pc
<1>13. ASSUME NEW c \in Claim, WorkspaceFound(c) PROVE Types'
  <2>1. ws[PrefixOf[c]] \in Nat
    BY ActorAssumption DEF Types
  <2>2. copy' \in [Actor -> Copy]
    BY <1>13, <2>1 DEF WorkspaceFound, Types, Copy
  <2> QED BY <1>13, <2>2 DEF WorkspaceFound, Goto, tables, history, Types, Pc
<1>14. ASSUME NEW c \in Claim, RegisterWorkspace(c) PROVE Types'
  <2>1. seats' \in [User -> Roles]
    BY <1>14, ActorAssumption DEF RegisterWorkspace, Types, Roles, Role
  <2>2. nextId \in Nat /\ nextId + 1 \in Nat \ {0}
    BY DEF Types
  <2>3. ws' \in [Prefix -> Nat] /\ nextId' \in Nat \ {0}
    BY <1>14, <2>2 DEF RegisterWorkspace, Types
  <2>4. copy' \in [Actor -> Copy] /\ seen' \in [Actor -> Roles]
    BY <1>14, NoCopyType DEF RegisterWorkspace, End, Types
  <2> QED BY <1>14, <2>1, <2>3, <2>4 DEF RegisterWorkspace, End, Goto, Wrote,
         Types, Pc
<1>15. ASSUME NEW c \in Claim, CreateRaceLost(c) PROVE Types'
  BY <1>15, ActorAssumption, NoCopyType DEF CreateRaceLost, Goto, history,
     tables, Types, Pc
<1>16. ASSUME NEW c \in Claim, ListMemberships(c) PROVE Types'
  <2>1. ASSUME NEW id \in Nat
        PROVE /\ [ws EXCEPT ![PrefixOf[c]] = id] \in [Prefix -> Nat]
              /\ [seats[UserOf[c]] EXCEPT
                     ![PrefixOf[c]] = seen[c][PrefixOf[c]]] \in Roles
    BY ActorAssumption DEF Types, Actor, Roles
  <2>2. copy[c].ids[PrefixOf[c]] \in Nat
    BY ActorAssumption DEF Types, Actor, Copy
  <2>3. copy' \in [Actor -> Copy] /\ seen' \in [Actor -> Roles]
    <3>1. CASE End(c)
      BY <1>16, <3>1, NoCopyType DEF End, Types
    <3>2. CASE ~End(c)
      <4>1. UNCHANGED seen
        BY <1>16, <3>2 DEF ListMemberships
      <4> DEFINE row == [NoCopy EXCEPT
                    !.ids = [ws EXCEPT ![PrefixOf[c]] =
                                       copy[c].ids[PrefixOf[c]]],
                    !.roles = [seats[UserOf[c]] EXCEPT
                                  ![PrefixOf[c]] = seen[c][PrefixOf[c]]]]
      <4>2. copy' = [copy EXCEPT ![c] = row]
        BY <1>16, <3>2 DEF ListMemberships
      <4>3. row \in Copy
        BY <2>1, <2>2 DEF NoCopy, Copy
      <4> QED BY <4>1, <4>2, <4>3 DEF Types
    <3> QED BY <3>1, <3>2
  <2> QED BY <1>16, <2>3 DEF ListMemberships, End, Goto, tables, history,
         Types, Pc
<1>17. ASSUME NEW c \in Claim, DeleteSeats(c) PROVE Types'
  <2>1. copy' \in [Actor -> Copy]
    BY <1>17 DEF DeleteSeats, Types, Copy
  <2> QED
    BY <1>17, <2>1 DEF DeleteSeats, Goto, tables, history, Types, Pc
<1>18. ASSUME NEW c \in Claim, JoinWorkspace(c) PROVE Types'
  <2>1. seats' \in [User -> Roles]
    BY <1>18, SeatsStay DEF JoinWorkspace, Actor
  <2>2. copy' \in [Actor -> Copy] /\ seen' \in [Actor -> Roles]
    BY <1>18, NoCopyType DEF JoinWorkspace, End, Types
  <2> QED BY <1>18, <2>1, <2>2 DEF JoinWorkspace, End, Goto, Wrote, Types, Pc
<1>19. ASSUME NEW c \in Claim, SeatsFail(c) PROVE Types'
  BY <1>19, ActorAssumption, NoCopyType DEF SeatsFail, End, Goto, tables,
     Types, Pc
<1>20. ASSUME NEW d \in Delete, AuthenticateDelete(d) PROVE Types'
  BY <1>20, ActorAssumption, NoCopyType DEF AuthenticateDelete, Begin, Goto,
     Actor, tables, Types, Pc
<1>21. ASSUME NEW d \in Delete, OwnerWorkspace(d) PROVE Types'
  <2>1. ws[PrefixOf[d]] \in Nat
    BY ActorAssumption DEF Types
  <2>2. copy' \in [Actor -> Copy] /\ seen' \in [Actor -> Roles]
    <3>1. CASE End(d)
      BY <1>21, <3>1, NoCopyType DEF End, Types
    <3>2. CASE ~End(d)
      <4>1. UNCHANGED seen
        BY <1>21, <3>2 DEF OwnerWorkspace
      <4>2. copy' = [copy EXCEPT ![d].ids[PrefixOf[d]] = ws[PrefixOf[d]]]
        BY <1>21, <3>2 DEF OwnerWorkspace
      <4> QED BY <2>1, <4>1, <4>2 DEF Types, Copy
    <3> QED BY <3>1, <3>2
  <2> QED BY <1>21, <2>2 DEF OwnerWorkspace, End, Goto, tables, history,
         Types, Pc
<1>22. ASSUME NEW d \in Delete, DeleteWorkspace(d) PROVE Types'
  <2>1. seats' \in [User -> Roles] /\ ws' \in [Prefix -> Nat]
    <3>1. [u \in User |-> [seats[u] EXCEPT ![PrefixOf[d]] = "none"]]
              \in [User -> Roles]
      BY DEF Types, Roles, Role
    <3> QED BY <1>22, <3>1 DEF DeleteWorkspace, Types
  <2>2. copy' \in [Actor -> Copy] /\ seen' \in [Actor -> Roles]
    BY <1>22, NoCopyType DEF DeleteWorkspace, End, Types
  <2> QED BY <1>22, <2>1, <2>2 DEF DeleteWorkspace, End, Goto, history, Types,
         Pc
<1>23. ASSUME NEW u \in User, EndSession(u) PROVE Types'
  BY <1>23, ActorAssumption, NoCopyType DEF EndSession, history, Types
<1>24. ASSUME NEW u \in User, NEW p \in Prefix, NEW role \in Role,
              ForgeChanges(u, p, role)
      PROVE Types'
  <2>1. forge' \in [User -> Roles]
    BY <1>24 DEF ForgeChanges, Types, Roles
  <2> QED BY <1>24, <2>1 DEF ForgeChanges, tables, history, Types
<1>25. CASE UNCHANGED vars
  BY <1>25, ActorAssumption, NoCopyType DEF vars, Types
<1> QED
  BY <1>1, <1>2, <1>3, <1>4, <1>5, <1>6, <1>7, <1>8, <1>9, <1>10, <1>11,
     <1>12, <1>13, <1>14, <1>15, <1>16, <1>17, <1>18, <1>19, <1>20, <1>21,
     <1>22, <1>23, <1>24, <1>25 DEF Next, SignInStep, ClaimStep, DeleteStep

\* No step writes or carries a role that the forge has not reported.
LEMMA ReportedStep == IndInv /\ [Next]_vars => ReportedInv'
<1> SUFFICES ASSUME IndInv, [Next]_vars PROVE ReportedInv'
  OBVIOUS
<1> USE DEF IndInv
<1>1. ASSUME NEW s \in SignIn, Identity(s) PROVE ReportedInv'
  BY <1>1, ActorAssumption DEF Identity, tables, Types, ReportedInv, Reported
<1>2. ASSUME NEW s \in SignIn, AdmitSignIn(s) PROVE ReportedInv'
  BY <1>2, ActorAssumption DEF AdmitSignIn, history, tables, ReportedInv,
     Reported
<1>3. ASSUME NEW s \in SignIn, SignInDenied(s) PROVE ReportedInv'
  BY <1>3, ActorAssumption DEF SignInDenied, End, history, tables, Types,
     ReportedInv, Reported, None, NoCopy
<1>4. ASSUME NEW s \in SignIn, UpsertUser(s) PROVE ReportedInv'
  BY <1>4, ActorAssumption DEF UpsertUser, Wrote, Actor, Types, ReportedInv,
     Reported
<1>5. ASSUME NEW s \in SignIn, ListWorkspaces(s) PROVE ReportedInv'
  BY <1>5, ActorAssumption DEF ListWorkspaces, history, tables, Types,
     ReportedInv, Reported, NoCopy
<1>6. ASSUME NEW s \in SignIn, DeleteSeats(s) PROVE ReportedInv'
  BY <1>6, ActorAssumption DEF DeleteSeats, history, tables, ReportedInv,
     Reported
<1>7. ASSUME NEW s \in SignIn, SyncMemberships(s) PROVE ReportedInv'
  BY <1>7, ActorAssumption DEF SyncMemberships, InsertSeats, Actor, Types,
     ReportedInv, Reported, None, NoCopy
<1>8. ASSUME NEW s \in SignIn, SeatsFail(s) PROVE ReportedInv'
  BY <1>8, ActorAssumption DEF SeatsFail, End, tables, Types, ReportedInv,
     Reported, None, NoCopy
<1>9. ASSUME NEW s \in SignIn, CreateSession(s) PROVE ReportedInv'
  BY <1>9, ActorAssumption DEF CreateSession, End, history, Types,
     ReportedInv, Reported, None, NoCopy
<1>10. ASSUME NEW c \in Claim, Authenticate(c) PROVE ReportedInv'
  BY <1>10, ActorAssumption DEF Authenticate, tables, Types, ReportedInv,
     Reported
<1>11. ASSUME NEW c \in Claim, ClaimRefused(c) PROVE ReportedInv'
  BY <1>11, ActorAssumption DEF ClaimRefused, End, history, tables, Types,
     ReportedInv, Reported, None, NoCopy
<1>12. ASSUME NEW c \in Claim, WorkspaceAbsent(c) PROVE ReportedInv'
  BY <1>12, ActorAssumption DEF WorkspaceAbsent, history, tables, ReportedInv,
     Reported
<1>13. ASSUME NEW c \in Claim, WorkspaceFound(c) PROVE ReportedInv'
  BY <1>13, ActorAssumption DEF WorkspaceFound, history, tables, ReportedInv,
     Reported
<1>14. ASSUME NEW c \in Claim, RegisterWorkspace(c) PROVE ReportedInv'
  <2>1. Reported(UserOf[c], PrefixOf[c], "owner")
    BY <1>14, ActorAssumption DEF RegisterWorkspace, OwnerInv, ReportedInv,
       Actor
  <2>2. \A u \in User, p \in Prefix :
            seats'[u][p] = IF u = UserOf[c] /\ p = PrefixOf[c] THEN "owner"
                           ELSE seats[u][p]
    BY <1>14, ActorAssumption DEF RegisterWorkspace, Types, Roles
  <2>3. \A a \in Actor, p \in Prefix :
            /\ seen'[a][p] \in {"none", seen[a][p]}
            /\ copy'[a].roles[p] \in {"none", copy[a].roles[p]}
    BY <1>14 DEF RegisterWorkspace, End, None, NoCopy
  <2>4. users' = users /\ reported' = reported
    BY <1>14 DEF RegisterWorkspace, Wrote
  <2>5. ASSUME NEW u \in User, NEW p \in Prefix
        PROVE Reported(u, p, users[u][p])' /\ Reported(u, p, seats[u][p])'
    <3>1. CASE u = UserOf[c] /\ p = PrefixOf[c]
      BY <2>1, <2>2, <2>4, <3>1 DEF ReportedInv, Reported
    <3>2. CASE ~(u = UserOf[c] /\ p = PrefixOf[c])
      BY <2>2, <2>4, <3>2 DEF ReportedInv, Reported
    <3> QED BY <3>1, <3>2
  <2>6. ASSUME NEW a \in Actor, NEW p \in Prefix
        PROVE /\ Reported(UserOf[a], p, seen[a][p])'
              /\ Reported(UserOf[a], p, copy[a].roles[p])'
    BY <2>3, <2>4 DEF ReportedInv, Reported
  <2> QED BY <2>5, <2>6 DEF ReportedInv
<1>15. ASSUME NEW c \in Claim, CreateRaceLost(c) PROVE ReportedInv'
  BY <1>15, ActorAssumption DEF CreateRaceLost, history, tables, ReportedInv,
     Reported
<1>16. ASSUME NEW c \in Claim, ListMemberships(c) PROVE ReportedInv'
  <2>1. CASE End(c)
    <3>1. \A a \in Actor, p \in Prefix :
              /\ seen'[a][p] \in {"none", seen[a][p]}
              /\ copy'[a].roles[p] \in {"none", copy[a].roles[p]}
      BY <2>1 DEF End, None, NoCopy
    <3> QED BY <1>16, <3>1 DEF ListMemberships, tables, history, ReportedInv,
           Reported
  <2>2. CASE ~End(c)
    <3> DEFINE roles == [seats[UserOf[c]] EXCEPT
                            ![PrefixOf[c]] = seen[c][PrefixOf[c]]]
    <3>1. \A p \in Prefix : Reported(UserOf[c], p, roles[p])
      BY ActorAssumption DEF ReportedInv, Actor
    <3>2. UNCHANGED <<users, seats, seen, reported>>
      BY <1>16, <2>2 DEF ListMemberships, tables, history
    <3>3. copy' = [copy EXCEPT ![c] =
              [NoCopy EXCEPT !.ids = [ws EXCEPT ![PrefixOf[c]] =
                                                copy[c].ids[PrefixOf[c]]],
                             !.roles = roles]]
      BY <1>16, <2>2 DEF ListMemberships
    <3>4. \A a \in Actor : copy'[a].roles = IF a = c THEN roles
                                            ELSE copy[a].roles
      BY <3>3 DEF NoCopy, Types
    <3> QED BY <3>1, <3>2, <3>4 DEF ReportedInv, Reported
  <2> QED BY <2>1, <2>2
<1>17. ASSUME NEW c \in Claim, DeleteSeats(c) PROVE ReportedInv'
  BY <1>17, ActorAssumption DEF DeleteSeats, history, tables, ReportedInv,
     Reported
<1>18. ASSUME NEW c \in Claim, JoinWorkspace(c) PROVE ReportedInv'
  BY <1>18, ActorAssumption DEF JoinWorkspace, InsertSeats, End, Wrote, Actor,
     Types, ReportedInv, Reported, None, NoCopy
<1>19. ASSUME NEW c \in Claim, SeatsFail(c) PROVE ReportedInv'
  BY <1>19, ActorAssumption DEF SeatsFail, End, tables, Types, ReportedInv,
     Reported, None, NoCopy
<1>20. ASSUME NEW d \in Delete, AuthenticateDelete(d) PROVE ReportedInv'
  BY <1>20, ActorAssumption DEF AuthenticateDelete, tables, ReportedInv,
     Reported
<1>21. ASSUME NEW d \in Delete, OwnerWorkspace(d) PROVE ReportedInv'
  <2>1. \A a \in Actor, p \in Prefix :
            /\ seen'[a][p] \in {"none", seen[a][p]}
            /\ copy'[a].roles[p] \in {"none", copy[a].roles[p]}
    <3>1. CASE End(d)
      BY <3>1 DEF End, None, NoCopy
    <3>2. CASE ~End(d)
      <4>1. UNCHANGED seen
        BY <1>21, <3>2 DEF OwnerWorkspace
      <4>2. copy' = [copy EXCEPT ![d].ids[PrefixOf[d]] = ws[PrefixOf[d]]]
        BY <1>21, <3>2 DEF OwnerWorkspace
      <4> QED BY <4>1, <4>2 DEF Types, Copy
    <3> QED BY <3>1, <3>2
  <2> QED BY <1>21, <2>1 DEF OwnerWorkspace, tables, history, ReportedInv,
         Reported
<1>22. ASSUME NEW d \in Delete, DeleteWorkspace(d) PROVE ReportedInv'
  <2>1. \A a \in Actor, p \in Prefix :
            /\ seen'[a][p] \in {"none", seen[a][p]}
            /\ copy'[a].roles[p] \in {"none", copy[a].roles[p]}
    BY <1>22 DEF DeleteWorkspace, End, None, NoCopy
  <2>2. \A u \in User, p \in Prefix : seats'[u][p] \in {"none", seats[u][p]}
    BY <1>22 DEF DeleteWorkspace, Types, Roles
  <2> QED BY <1>22, <2>1, <2>2 DEF DeleteWorkspace, history, ReportedInv,
         Reported
<1>23. ASSUME NEW u \in User, EndSession(u) PROVE ReportedInv'
  BY <1>23, ActorAssumption DEF EndSession, history, ReportedInv, Reported
<1>24. ASSUME NEW u \in User, NEW p \in Prefix, NEW role \in Role,
              ForgeChanges(u, p, role)
      PROVE ReportedInv'
  BY <1>24, ActorAssumption DEF ForgeChanges, history, tables, ReportedInv,
     Reported
<1>25. CASE UNCHANGED vars
  BY <1>25, ActorAssumption DEF vars, ReportedInv, Reported
<1> QED
  BY <1>1, <1>2, <1>3, <1>4, <1>5, <1>6, <1>7, <1>8, <1>9, <1>10, <1>11,
     <1>12, <1>13, <1>14, <1>15, <1>16, <1>17, <1>18, <1>19, <1>20, <1>21,
     <1>22, <1>23, <1>24, <1>25 DEF Next, SignInStep, ClaimStep, DeleteStep

\* Only an owner's claim goes on to make a workspace.
LEMMA OwnerStep == IndInv /\ [Next]_vars => OwnerInv'
<1> SUFFICES ASSUME IndInv, [Next]_vars PROVE OwnerInv'
  OBVIOUS
<1> USE DEF IndInv
<1>1. ASSUME NEW s \in SignIn, Identity(s) PROVE OwnerInv'
  BY <1>1, ActorAssumption DEF Identity, Begin, Goto, OwnerInv
<1>2. ASSUME NEW s \in SignIn, AdmitSignIn(s) PROVE OwnerInv'
  BY <1>2, ActorAssumption DEF AdmitSignIn, Goto, OwnerInv
<1>3. ASSUME NEW s \in SignIn, SignInDenied(s) PROVE OwnerInv'
  BY <1>3, ActorAssumption DEF SignInDenied, End, Goto, OwnerInv
<1>4. ASSUME NEW s \in SignIn, UpsertUser(s) PROVE OwnerInv'
  BY <1>4, ActorAssumption DEF UpsertUser, Goto, OwnerInv
<1>5. ASSUME NEW s \in SignIn, ListWorkspaces(s) PROVE OwnerInv'
  BY <1>5, ActorAssumption DEF ListWorkspaces, Goto, OwnerInv
<1>6. ASSUME NEW s \in SignIn, DeleteSeats(s) PROVE OwnerInv'
  BY <1>6, ActorAssumption DEF DeleteSeats, Goto, OwnerInv
<1>7. ASSUME NEW s \in SignIn, SyncMemberships(s) PROVE OwnerInv'
  BY <1>7, ActorAssumption DEF SyncMemberships, OwnerInv
<1>8. ASSUME NEW s \in SignIn, SeatsFail(s) PROVE OwnerInv'
  BY <1>8, ActorAssumption DEF SeatsFail, End, Goto, OwnerInv
<1>9. ASSUME NEW s \in SignIn, CreateSession(s) PROVE OwnerInv'
  BY <1>9, ActorAssumption DEF CreateSession, End, Goto, OwnerInv
<1>10. ASSUME NEW c \in Claim, Authenticate(c) PROVE OwnerInv'
  BY <1>10, ActorAssumption DEF Authenticate, Begin, Goto, OwnerInv
<1>11. ASSUME NEW c \in Claim, ClaimRefused(c) PROVE OwnerInv'
  BY <1>11, ActorAssumption DEF ClaimRefused, End, Goto, OwnerInv
<1>12. ASSUME NEW c \in Claim, WorkspaceAbsent(c) PROVE OwnerInv'
  BY <1>12, ActorAssumption DEF WorkspaceAbsent, Goto, OwnerInv
<1>13. ASSUME NEW c \in Claim, WorkspaceFound(c) PROVE OwnerInv'
  BY <1>13, ActorAssumption DEF WorkspaceFound, Goto, OwnerInv
<1>14. ASSUME NEW c \in Claim, RegisterWorkspace(c) PROVE OwnerInv'
  BY <1>14, ActorAssumption DEF RegisterWorkspace, End, Goto, Types, OwnerInv
<1>15. ASSUME NEW c \in Claim, CreateRaceLost(c) PROVE OwnerInv'
  BY <1>15, ActorAssumption DEF CreateRaceLost, Goto, OwnerInv
<1>16. ASSUME NEW c \in Claim, ListMemberships(c) PROVE OwnerInv'
  BY <1>16, ActorAssumption DEF ListMemberships, End, Goto, Actor, Types,
     OwnerInv
<1>17. ASSUME NEW c \in Claim, DeleteSeats(c) PROVE OwnerInv'
  BY <1>17, ActorAssumption DEF DeleteSeats, Goto, OwnerInv
<1>18. ASSUME NEW c \in Claim, JoinWorkspace(c) PROVE OwnerInv'
  BY <1>18, ActorAssumption DEF JoinWorkspace, InsertSeats, End, Goto,
     OwnerInv
<1>19. ASSUME NEW c \in Claim, SeatsFail(c) PROVE OwnerInv'
  BY <1>19, ActorAssumption DEF SeatsFail, End, Goto, OwnerInv
<1>20. ASSUME NEW d \in Delete, AuthenticateDelete(d) PROVE OwnerInv'
  BY <1>20, ActorAssumption DEF AuthenticateDelete, Begin, Goto, OwnerInv
<1>21. ASSUME NEW d \in Delete, OwnerWorkspace(d) PROVE OwnerInv'
  BY <1>21, ActorAssumption DEF OwnerWorkspace, End, Goto, Actor, Types,
     OwnerInv
<1>22. ASSUME NEW d \in Delete, DeleteWorkspace(d) PROVE OwnerInv'
  BY <1>22, ActorAssumption DEF DeleteWorkspace, End, Goto, OwnerInv
<1>23. ASSUME NEW u \in User, EndSession(u) PROVE OwnerInv'
  BY <1>23, ActorAssumption DEF EndSession, OwnerInv
<1>24. ASSUME NEW u \in User, NEW p \in Prefix, NEW role \in Role,
              ForgeChanges(u, p, role)
      PROVE OwnerInv'
  BY <1>24, ActorAssumption DEF ForgeChanges, OwnerInv
<1>25. CASE UNCHANGED vars
  BY <1>25, ActorAssumption DEF vars, OwnerInv
<1> QED
  BY <1>1, <1>2, <1>3, <1>4, <1>5, <1>6, <1>7, <1>8, <1>9, <1>10, <1>11,
     <1>12, <1>13, <1>14, <1>15, <1>16, <1>17, <1>18, <1>19, <1>20, <1>21,
     <1>22, <1>23, <1>24, <1>25 DEF Next, SignInStep, ClaimStep, DeleteStep

\* No step leaves a seat without its workspace.
LEMMA SeatStep == IndInv /\ [Next]_vars => SeatHasWorkspace'
<1> SUFFICES ASSUME IndInv, [Next]_vars PROVE SeatHasWorkspace'
  OBVIOUS
<1> USE DEF IndInv
<1>1. ASSUME NEW s \in SignIn, Identity(s) PROVE SeatHasWorkspace'
  BY <1>1, ActorAssumption DEF Identity, tables, SeatHasWorkspace
<1>2. ASSUME NEW s \in SignIn, AdmitSignIn(s) PROVE SeatHasWorkspace'
  BY <1>2, ActorAssumption DEF AdmitSignIn, tables, SeatHasWorkspace
<1>3. ASSUME NEW s \in SignIn, SignInDenied(s) PROVE SeatHasWorkspace'
  BY <1>3, ActorAssumption DEF SignInDenied, tables, SeatHasWorkspace
<1>4. ASSUME NEW s \in SignIn, UpsertUser(s) PROVE SeatHasWorkspace'
  BY <1>4, ActorAssumption DEF UpsertUser, SeatHasWorkspace
<1>5. ASSUME NEW s \in SignIn, ListWorkspaces(s) PROVE SeatHasWorkspace'
  BY <1>5, ActorAssumption DEF ListWorkspaces, tables, SeatHasWorkspace
<1>6. ASSUME NEW s \in SignIn, DeleteSeats(s) PROVE SeatHasWorkspace'
  BY <1>6, ActorAssumption DEF DeleteSeats, tables, SeatHasWorkspace
<1>7. ASSUME NEW s \in SignIn, SyncMemberships(s) PROVE SeatHasWorkspace'
  BY <1>7, ActorAssumption DEF SyncMemberships, InsertSeats, SeatHasWorkspace
<1>8. ASSUME NEW s \in SignIn, SeatsFail(s) PROVE SeatHasWorkspace'
  BY <1>8, ActorAssumption DEF SeatsFail, tables, SeatHasWorkspace
<1>9. ASSUME NEW s \in SignIn, CreateSession(s) PROVE SeatHasWorkspace'
  BY <1>9, ActorAssumption DEF CreateSession, SeatHasWorkspace
<1>10. ASSUME NEW c \in Claim, Authenticate(c) PROVE SeatHasWorkspace'
  BY <1>10, ActorAssumption DEF Authenticate, tables, SeatHasWorkspace
<1>11. ASSUME NEW c \in Claim, ClaimRefused(c) PROVE SeatHasWorkspace'
  BY <1>11, ActorAssumption DEF ClaimRefused, tables, SeatHasWorkspace
<1>12. ASSUME NEW c \in Claim, WorkspaceAbsent(c) PROVE SeatHasWorkspace'
  BY <1>12, ActorAssumption DEF WorkspaceAbsent, tables, SeatHasWorkspace
<1>13. ASSUME NEW c \in Claim, WorkspaceFound(c) PROVE SeatHasWorkspace'
  BY <1>13, ActorAssumption DEF WorkspaceFound, tables, SeatHasWorkspace
<1>14. ASSUME NEW c \in Claim, RegisterWorkspace(c) PROVE SeatHasWorkspace'
  BY <1>14, ActorAssumption DEF RegisterWorkspace, Types, SeatHasWorkspace
<1>15. ASSUME NEW c \in Claim, CreateRaceLost(c) PROVE SeatHasWorkspace'
  BY <1>15, ActorAssumption DEF CreateRaceLost, tables, SeatHasWorkspace
<1>16. ASSUME NEW c \in Claim, ListMemberships(c) PROVE SeatHasWorkspace'
  BY <1>16, ActorAssumption DEF ListMemberships, tables, SeatHasWorkspace
<1>17. ASSUME NEW c \in Claim, DeleteSeats(c) PROVE SeatHasWorkspace'
  BY <1>17, ActorAssumption DEF DeleteSeats, tables, SeatHasWorkspace
<1>18. ASSUME NEW c \in Claim, JoinWorkspace(c) PROVE SeatHasWorkspace'
  BY <1>18, ActorAssumption DEF JoinWorkspace, InsertSeats, SeatHasWorkspace
<1>19. ASSUME NEW c \in Claim, SeatsFail(c) PROVE SeatHasWorkspace'
  BY <1>19, ActorAssumption DEF SeatsFail, tables, SeatHasWorkspace
<1>20. ASSUME NEW d \in Delete, AuthenticateDelete(d) PROVE SeatHasWorkspace'
  BY <1>20, ActorAssumption DEF AuthenticateDelete, tables, SeatHasWorkspace
<1>21. ASSUME NEW d \in Delete, OwnerWorkspace(d) PROVE SeatHasWorkspace'
  BY <1>21, ActorAssumption DEF OwnerWorkspace, tables, SeatHasWorkspace
<1>22. ASSUME NEW d \in Delete, DeleteWorkspace(d) PROVE SeatHasWorkspace'
  BY <1>22, ActorAssumption DEF DeleteWorkspace, Types, Roles,
     SeatHasWorkspace
<1>23. ASSUME NEW u \in User, EndSession(u) PROVE SeatHasWorkspace'
  BY <1>23, ActorAssumption DEF EndSession, SeatHasWorkspace
<1>24. ASSUME NEW u \in User, NEW p \in Prefix, NEW role \in Role,
              ForgeChanges(u, p, role)
      PROVE SeatHasWorkspace'
  BY <1>24, ActorAssumption DEF ForgeChanges, tables, SeatHasWorkspace
<1>25. CASE UNCHANGED vars
  BY <1>25, ActorAssumption DEF vars, SeatHasWorkspace
<1> QED
  BY <1>1, <1>2, <1>3, <1>4, <1>5, <1>6, <1>7, <1>8, <1>9, <1>10, <1>11,
     <1>12, <1>13, <1>14, <1>15, <1>16, <1>17, <1>18, <1>19, <1>20, <1>21,
     <1>22, <1>23, <1>24, <1>25 DEF Next, SignInStep, ClaimStep, DeleteStep

\* A request that goes on, or ends, leaves those alone that were.
LEMMA GoesOn ==
  ASSUME Types, AloneInv, NEW a \in Actor, NEW state \in Pc \ {"idle"},
         InFlight(a), Goto(a, state), alone' = alone
  PROVE AloneInv'
BY DEF Types, AloneInv, InFlight, Others, Goto

\* One that begins is alone, or nobody of its user is.
LEMMA Begins ==
  ASSUME Types, AloneInv, NEW a \in Actor, Begin(a, "identified") \/
         Begin(a, "authenticated")
  PROVE AloneInv'
<1>1. PICK state \in {"identified", "authenticated"} : Begin(a, state)
  OBVIOUS
<1>2. pc' = [pc EXCEPT ![a] = state] /\ pc[a] = "idle" /\ a \notin alone
  BY <1>1 DEF Begin, Goto, AloneInv
<1>3. SUFFICES ASSUME NEW b \in alone', NEW d \in Others(b)', InFlight(b)'
               PROVE FALSE
  BY <1>1, <1>2 DEF Begin, AloneInv, Types
<1>4. b \in Actor /\ d \in Actor \ {b} /\ UserOf[d] = UserOf[b] /\ InFlight(d)'
  BY <1>1, <1>3 DEF Begin, Others, Types
<1>5. CASE b = a
  <2>1. Others(a) = {}
    BY <1>1, <1>2, <1>5 DEF Begin
  <2>2. InFlight(d)
    BY <1>2, <1>4, <1>5 DEF InFlight, Types
  <2> QED BY <1>4, <1>5, <2>1, <2>2 DEF Others
<1>6. CASE b /= a
  <2>1. b \in alone /\ InFlight(b)
    BY <1>1, <1>2, <1>3, <1>4, <1>6 DEF Begin, InFlight, Types
  <2>2. CASE d = a
    <3>1. b \in Others(a)
      BY <1>4, <1>6, <2>1, <2>2 DEF Others
    <3> QED BY <1>1, <1>3, <1>6, <3>1 DEF Begin
  <2>3. CASE d /= a
    <3>1. InFlight(d)
      BY <1>2, <1>4, <2>3 DEF InFlight, Types
    <3> QED BY <1>4, <2>1, <3>1 DEF AloneInv, Others
  <2> QED BY <2>2, <2>3
<1> QED BY <1>5, <1>6

\* Who begins beside another request of its user ends that one's being alone.
LEMMA AloneStep == IndInv /\ [Next]_vars => AloneInv'
<1> SUFFICES ASSUME IndInv, [Next]_vars PROVE AloneInv'
  OBVIOUS
<1> USE DEF IndInv
<1>1. ASSUME NEW s \in SignIn, Identity(s) PROVE AloneInv'
  BY <1>1, Begins DEF Identity, Actor
<1>2. ASSUME NEW s \in SignIn, AdmitSignIn(s) PROVE AloneInv'
  BY <1>2, GoesOn DEF AdmitSignIn, history, Actor, InFlight, Pc
<1>3. ASSUME NEW s \in SignIn, SignInDenied(s) PROVE AloneInv'
  BY <1>3, GoesOn DEF SignInDenied, End, history, Actor, InFlight, Pc
<1>4. ASSUME NEW s \in SignIn, UpsertUser(s) PROVE AloneInv'
  BY <1>4, GoesOn DEF UpsertUser, Wrote, Actor, InFlight, Pc
<1>5. ASSUME NEW s \in SignIn, ListWorkspaces(s) PROVE AloneInv'
  BY <1>5, GoesOn DEF ListWorkspaces, history, Actor, InFlight, Pc
<1>6. ASSUME NEW s \in SignIn, DeleteSeats(s) PROVE AloneInv'
  BY <1>6, GoesOn DEF DeleteSeats, history, Actor, InFlight, Pc
<1>7. ASSUME NEW s \in SignIn, SyncMemberships(s) PROVE AloneInv'
  BY <1>7, GoesOn DEF SyncMemberships, Actor, InFlight, Pc, InsertSeats, Goto
<1>8. ASSUME NEW s \in SignIn, SeatsFail(s) PROVE AloneInv'
  BY <1>8, GoesOn DEF SeatsFail, End, Actor, InFlight, Pc
<1>9. ASSUME NEW s \in SignIn, CreateSession(s) PROVE AloneInv'
  BY <1>9, GoesOn DEF CreateSession, End, history, Actor, InFlight, Pc
<1>10. ASSUME NEW c \in Claim, Authenticate(c) PROVE AloneInv'
  BY <1>10, Begins DEF Authenticate, Actor
<1>11. ASSUME NEW c \in Claim, ClaimRefused(c) PROVE AloneInv'
  BY <1>11, GoesOn DEF ClaimRefused, End, history, Actor, InFlight, Pc
<1>12. ASSUME NEW c \in Claim, WorkspaceAbsent(c) PROVE AloneInv'
  BY <1>12, GoesOn DEF WorkspaceAbsent, history, Actor, InFlight, Pc
<1>13. ASSUME NEW c \in Claim, WorkspaceFound(c) PROVE AloneInv'
  BY <1>13, GoesOn DEF WorkspaceFound, history, Actor, InFlight, Pc
<1>14. ASSUME NEW c \in Claim, RegisterWorkspace(c) PROVE AloneInv'
  BY <1>14, GoesOn DEF RegisterWorkspace, End, Wrote, Actor, InFlight, Pc
<1>15. ASSUME NEW c \in Claim, CreateRaceLost(c) PROVE AloneInv'
  BY <1>15, GoesOn DEF CreateRaceLost, history, Actor, InFlight, Pc
<1>16. ASSUME NEW c \in Claim, ListMemberships(c) PROVE AloneInv'
  <2>1. InFlight(c) /\ alone' = alone
    BY <1>16 DEF ListMemberships, InFlight, history
  <2>2. Goto(c, "done") \/ Goto(c, "listed")
    BY <1>16 DEF ListMemberships, End
  <2> QED BY <2>1, <2>2, GoesOn DEF Pc, Actor
<1>17. ASSUME NEW c \in Claim, DeleteSeats(c) PROVE AloneInv'
  BY <1>17, GoesOn DEF DeleteSeats, history, Actor, InFlight, Pc
<1>18. ASSUME NEW c \in Claim, JoinWorkspace(c) PROVE AloneInv'
  BY <1>18, GoesOn DEF JoinWorkspace, End, Wrote, Actor, InFlight, Pc,
     InsertSeats
<1>19. ASSUME NEW c \in Claim, SeatsFail(c) PROVE AloneInv'
  BY <1>19, GoesOn DEF SeatsFail, End, Actor, InFlight, Pc
<1>20. ASSUME NEW d \in Delete, AuthenticateDelete(d) PROVE AloneInv'
  BY <1>20, Begins DEF AuthenticateDelete, Actor
<1>21. ASSUME NEW d \in Delete, OwnerWorkspace(d) PROVE AloneInv'
  <2>1. InFlight(d) /\ alone' = alone
    BY <1>21 DEF OwnerWorkspace, InFlight, history
  <2>2. Goto(d, "done") \/ Goto(d, "allowed")
    BY <1>21 DEF OwnerWorkspace, End
  <2> QED BY <2>1, <2>2, GoesOn DEF Pc, Actor
<1>22. ASSUME NEW d \in Delete, DeleteWorkspace(d) PROVE AloneInv'
  BY <1>22, GoesOn DEF DeleteWorkspace, End, history, Actor, InFlight, Pc
<1>23. ASSUME NEW u \in User, EndSession(u) PROVE AloneInv'
  BY <1>23 DEF EndSession, history, AloneInv, InFlight, Others
<1>24. ASSUME NEW u \in User, NEW p \in Prefix, NEW role \in Role,
              ForgeChanges(u, p, role)
      PROVE AloneInv'
  BY <1>24 DEF ForgeChanges, history, AloneInv, InFlight, Others
<1>25. CASE UNCHANGED vars
  BY <1>25 DEF vars, AloneInv, InFlight, Others
<1> QED
  BY <1>1, <1>2, <1>3, <1>4, <1>5, <1>6, <1>7, <1>8, <1>9, <1>10, <1>11,
     <1>12, <1>13, <1>14, <1>15, <1>16, <1>17, <1>18, <1>19, <1>20, <1>21,
     <1>22, <1>23, <1>24, <1>25 DEF Next, SignInStep, ClaimStep, DeleteStep

\* What a's step may touch: its own place and copies, and its user's row and
\* seats; of others' seats it only takes some away.
Moves(a) ==
    /\ InFlight(a) \/ InFlight(a)'
    /\ alone' \subseteq alone \cup {a}
    /\ \A b \in Actor \ {a} :
          pc'[b] = pc[b] /\ seen'[b] = seen[b] /\ copy'[b] = copy[b]
    /\ \A u \in User \ {UserOf[a]} :
          /\ users'[u] = users[u]
          /\ u \in mixed' <=> u \in mixed
          /\ \A p \in Prefix : seats'[u][p] \in {"none", seats[u][p]}

\* Every step is one request's, or touches none of what Moves speaks of.
LEMMA SignInMoves ==
  ASSUME IndInv, NEW s \in SignIn, SignInStep(s)
  PROVE Moves(s)
<1> USE DEF IndInv, Types, Moves, InFlight, Actor
<1>1. CASE Identity(s)
  BY <1>1, ActorAssumption DEF Identity, Begin, Goto, tables
<1>2. CASE AdmitSignIn(s)
  BY <1>2, ActorAssumption DEF AdmitSignIn, Goto, history, tables
<1>3. CASE SignInDenied(s)
  BY <1>3, ActorAssumption DEF SignInDenied, End, Goto, history, tables
<1>4. CASE UpsertUser(s)
  BY <1>4, ActorAssumption DEF UpsertUser, Wrote, Goto
<1>5. CASE ListWorkspaces(s)
  BY <1>5, ActorAssumption DEF ListWorkspaces, Goto, history, tables
<1>6. CASE DeleteSeats(s)
  BY <1>6, ActorAssumption DEF DeleteSeats, Goto, history, tables
<1>7. CASE SyncMemberships(s)
  BY <1>7, ActorAssumption DEF SyncMemberships, InsertSeats
<1>8. CASE SeatsFail(s)
  BY <1>8, ActorAssumption DEF SeatsFail, End, Goto, tables
<1>9. CASE CreateSession(s)
  BY <1>9, ActorAssumption DEF CreateSession, End, Goto, history
<1> QED
  BY <1>1, <1>2, <1>3, <1>4, <1>5, <1>6, <1>7, <1>8, <1>9 DEF SignInStep

LEMMA ClaimMoves ==
  ASSUME IndInv, NEW c \in Claim, ClaimStep(c)
  PROVE Moves(c)
<1> USE DEF IndInv, Types, Moves, InFlight, Actor
<1>1. CASE Authenticate(c)
  BY <1>1, ActorAssumption DEF Authenticate, Begin, Goto, tables
<1>2. CASE ClaimRefused(c)
  BY <1>2, ActorAssumption DEF ClaimRefused, End, Goto, history, tables
<1>3. CASE WorkspaceAbsent(c)
  BY <1>3, ActorAssumption DEF WorkspaceAbsent, Goto, history, tables
<1>4. CASE WorkspaceFound(c)
  BY <1>4, ActorAssumption DEF WorkspaceFound, Goto, history, tables
<1>5. CASE RegisterWorkspace(c)
  BY <1>5, ActorAssumption DEF RegisterWorkspace, End, Wrote, Goto
<1>6. CASE CreateRaceLost(c)
  BY <1>6, ActorAssumption DEF CreateRaceLost, Goto, history, tables
<1>7. CASE ListMemberships(c)
  BY <1>7, ActorAssumption DEF ListMemberships, End, Goto, history, tables
<1>8. CASE DeleteSeats(c)
  BY <1>8, ActorAssumption DEF DeleteSeats, Goto, history, tables
<1>9. CASE JoinWorkspace(c)
  BY <1>9, ActorAssumption DEF JoinWorkspace, InsertSeats, End, Wrote, Goto
<1>10. CASE SeatsFail(c)
  BY <1>10, ActorAssumption DEF SeatsFail, End, Goto, tables
<1> QED
  BY <1>1, <1>2, <1>3, <1>4, <1>5, <1>6, <1>7, <1>8, <1>9, <1>10 DEF ClaimStep

LEMMA DeleteMoves ==
  ASSUME IndInv, NEW d \in Delete, DeleteStep(d)
  PROVE Moves(d)
<1> USE DEF IndInv, Types, Moves, InFlight, Actor
<1>1. CASE AuthenticateDelete(d)
  BY <1>1, ActorAssumption DEF AuthenticateDelete, Begin, Goto, tables
<1>2. CASE OwnerWorkspace(d)
  BY <1>2, ActorAssumption DEF OwnerWorkspace, End, Goto, history, tables
<1>3. CASE DeleteWorkspace(d)
  BY <1>3, ActorAssumption DEF DeleteWorkspace, End, Goto, history, Roles
<1> QED
  BY <1>1, <1>2, <1>3 DEF DeleteStep

\* Where a is alone after its step, or b was, their users differ.
LEMMA Apart ==
  ASSUME IndInv, Types', AloneInv', NEW a \in Actor, Moves(a),
         NEW b \in alone', b /= a, InFlight(b)
  PROVE UserOf[b] /= UserOf[a]
<1>1. b \in Actor /\ b \in alone /\ InFlight(b)'
  BY DEF Moves, Types, InFlight
<1>2. CASE InFlight(a)
  BY <1>1, <1>2 DEF IndInv, AloneInv, Others
<1>3. CASE InFlight(a)'
  BY <1>1, <1>3 DEF AloneInv, Others
<1> QED BY <1>2, <1>3 DEF Moves

\* A step of another request leaves a lone sign-in its snapshot.
LEMMA OwnSnapshotKept ==
  ASSUME IndInv, Types', AloneInv', NEW a \in Actor, Moves(a),
         NEW s \in SignIn \cap alone', s /= a
  PROVE OwnSnapshot(s)'
<1>1. /\ s \in Actor /\ s \in alone /\ UserOf[s] \in User
      /\ pc'[s] = pc[s] /\ seen'[s] = seen[s] /\ copy'[s] = copy[s]
  BY ActorAssumption DEF Moves, Actor
<1>2. CASE Working(s)
  <2>1. UserOf[s] /= UserOf[a]
    BY <1>2, Apart DEF Working, InFlight
  <2>2. /\ users'[UserOf[s]] = users[UserOf[s]]
        /\ \A p \in Prefix :
              seats'[UserOf[s]][p] \in {"none", seats[UserOf[s]][p]}
    BY <1>1, <2>1 DEF Moves
  <2>3. OwnSnapshot(s)
    BY <1>1 DEF IndInv, SignInInv
  <2> QED BY <1>1, <2>2, <2>3 DEF OwnSnapshot, Working, Sits
<1>3. CASE ~Working(s)
  BY <1>1, <1>3 DEF OwnSnapshot, Working
<1> QED BY <1>2, <1>3

\* A step of another request leaves a lone claim its user's current row.
LEMMA CurrentRowKept ==
  ASSUME IndInv, Types', AloneInv', NEW a \in Actor, Moves(a),
         NEW c \in Claim \cap alone', c /= a
  PROVE CurrentRow(c)'
<1>1. /\ c \in Actor /\ c \in alone /\ UserOf[c] \in User
      /\ pc'[c] = pc[c] /\ seen'[c] = seen[c] /\ copy'[c] = copy[c]
  BY ActorAssumption DEF Moves, Actor
<1>2. CASE InFlight(c)
  <2>1. UserOf[c] /= UserOf[a]
    BY <1>2, Apart
  <2>2. /\ users'[UserOf[c]] = users[UserOf[c]]
        /\ UserOf[c] \in mixed' <=> UserOf[c] \in mixed
    BY <1>1, <2>1 DEF Moves
  <2>3. CurrentRow(c)
    BY <1>1 DEF IndInv, ClaimInv
  <2> QED BY <1>1, <2>2, <2>3 DEF CurrentRow, InFlight, Sits
<1>3. CASE ~InFlight(c)
  BY <1>1, <1>3 DEF CurrentRow, InFlight
<1> QED BY <1>2, <1>3

Covered(u) == Match(u) \/ \E s \in SignIn : UserOf[s] = u /\ Working(s)

\* Seats match as before where rows stay, seats only go, and the sign-ins that
\* are at work stay at it.
LEMMA StillCovered ==
  ASSUME NEW u \in User, Covered(u), users'[u] = users[u],
         \A p \in Prefix : seats'[u][p] \in {"none", seats[u][p]},
         \A s \in SignIn : UserOf[s] = u /\ Working(s) => Working(s)'
  PROVE Covered(u)'
<1>1. CASE Match(u)
  BY <1>1 DEF Match, Covered
<1>2. CASE \E s \in SignIn : UserOf[s] = u /\ Working(s)
  BY <1>2 DEF Covered
<1> QED BY <1>1, <1>2 DEF Covered

\* Another user's step leaves u's seats as they are, or less of them.
LEMMA CoveredKept ==
  ASSUME IndInv, NEW a \in Actor, Moves(a), NEW u \in User \ mixed',
         u /= UserOf[a]
  PROVE Covered(u)'
<1>1. u \notin mixed /\ users'[u] = users[u]
  BY DEF Moves
<1>2. \A p \in Prefix : seats'[u][p] \in {"none", seats[u][p]}
  BY DEF Moves
<1>3. \A s \in SignIn : UserOf[s] = u /\ Working(s) => Working(s)'
  BY DEF Moves, Working, Actor
<1>4. Covered(u)
  BY <1>1 DEF IndInv, MatchInv, Covered
<1> QED BY <1>1, <1>2, <1>3, <1>4, StillCovered

\* A lone request in flight has no sign-in of its user beside it.
LEMMA NoOtherWorks ==
  ASSUME IndInv, NEW a \in alone, InFlight(a),
         NEW s \in SignIn, s /= a, UserOf[s] = UserOf[a]
  PROVE ~Working(s)
BY DEF IndInv, AloneInv, Others, InFlight, Working, Actor

\* A lone sign-in's own steps keep to its snapshot.
LEMMA OwnSnapshotStep ==
  ASSUME IndInv, NEW s \in SignIn, SignInStep(s), s \in alone'
  PROVE OwnSnapshot(s)'
<1> USE DEF Goto, Actor
<1>1. CASE \/ Identity(s) \/ AdmitSignIn(s) \/ SignInDenied(s)
           \/ SyncMemberships(s) \/ SeatsFail(s) \/ CreateSession(s)
  <2>1. pc'[s] \notin {"upserted", "listed", "deleting"}
    BY <1>1 DEF IndInv, Types, Identity, Begin, AdmitSignIn, SignInDenied,
       SyncMemberships, SeatsFail, CreateSession, End
  <2> QED BY <2>1 DEF OwnSnapshot, Working
<1>2. CASE UpsertUser(s)
  <2>1. pc'[s] = "upserted" /\ users'[UserOf[s]] = seen[s] /\ seen' = seen
    BY <1>2, ActorAssumption DEF UpsertUser, IndInv, Types
  <2> QED BY <2>1 DEF OwnSnapshot
<1>3. CASE ListWorkspaces(s)
  <2>1. /\ pc[s] = "upserted" /\ pc'[s] = "listed"
        /\ UNCHANGED <<users, seen, alone>>
        /\ \A p \in Prefix : copy'[s].roles[p] \in {"none", seen[s][p]}
    BY <1>3 DEF ListWorkspaces, tables, history, IndInv, Types
  <2>2. OwnSnapshot(s)
    BY <2>1 DEF IndInv, SignInInv
  <2> QED BY <2>1, <2>2 DEF OwnSnapshot, Working, Sits
<1>4. CASE DeleteSeats(s)
  <2>1. /\ pc[s] = "listed" /\ pc'[s] = "deleting"
        /\ UNCHANGED <<users, seats, seen, alone>>
        /\ copy'[s].roles = copy[s].roles
        /\ copy'[s].deleted =
              {p \in Prefix \ Sits(s) : seats[UserOf[s]][p] /= "none"}
    BY <1>4 DEF DeleteSeats, tables, history, IndInv, Types
  <2>2. OwnSnapshot(s)
    BY <2>1 DEF IndInv, SignInInv
  <2> QED BY <2>1, <2>2 DEF OwnSnapshot, Working, Sits
<1> QED BY <1>1, <1>2, <1>3, <1>4 DEF SignInStep

\* A lone claim's own steps keep to its user's row.
LEMMA CurrentRowStep ==
  ASSUME IndInv, NEW c \in Claim, ClaimStep(c), c \in alone'
  PROVE CurrentRow(c)'
<1> USE DEF Goto, Actor
<1>1. CASE Authenticate(c)
  BY <1>1 DEF Authenticate, Begin, tables, IndInv, Types, CurrentRow
<1>2. CASE \/ ClaimRefused(c) \/ RegisterWorkspace(c) \/ JoinWorkspace(c)
           \/ SeatsFail(c)
  <2>1. pc'[c] = "done"
    BY <1>2 DEF IndInv, Types, ClaimRefused, RegisterWorkspace, JoinWorkspace,
       SeatsFail, End
  <2> QED BY <2>1 DEF CurrentRow, InFlight
<1>3. CASE WorkspaceAbsent(c) \/ WorkspaceFound(c) \/ CreateRaceLost(c)
  <2>1. /\ InFlight(c) /\ pc'[c] \in {"absent", "joining", "taken"}
        /\ UNCHANGED <<users, seen, alone>>
    BY <1>3 DEF WorkspaceAbsent, WorkspaceFound, CreateRaceLost, tables,
       history, IndInv, Types, InFlight
  <2>2. CurrentRow(c)
    BY <2>1 DEF IndInv, ClaimInv
  <2> QED BY <2>1, <2>2 DEF CurrentRow
<1>4. CASE ListMemberships(c)
  <2>1. InFlight(c) /\ c \in alone /\ UNCHANGED <<users, mixed>>
    BY <1>4 DEF ListMemberships, tables, history, InFlight
  <2>2. seen[c] = users[UserOf[c]]
    BY <2>1 DEF IndInv, ClaimInv, CurrentRow
  <2>3. CASE End(c)
    <3>1. pc'[c] = "done"
      BY <2>3 DEF End, IndInv, Types
    <3> QED BY <3>1 DEF CurrentRow, InFlight
  <2>4. CASE ~End(c)
    <3>1. /\ UNCHANGED seen
          /\ copy'[c].roles = [seats[UserOf[c]] EXCEPT
                                  ![PrefixOf[c]] = seen[c][PrefixOf[c]]]
      <4> DEFINE roles == [seats[UserOf[c]] EXCEPT
                              ![PrefixOf[c]] = seen[c][PrefixOf[c]]]
      <4>1. UNCHANGED seen
        BY <1>4, <2>4 DEF ListMemberships
      <4>2. copy' = [copy EXCEPT ![c] =
                [NoCopy EXCEPT !.ids = [ws EXCEPT ![PrefixOf[c]] =
                                                  copy[c].ids[PrefixOf[c]]],
                               !.roles = roles]]
        BY <1>4, <2>4 DEF ListMemberships
      <4> QED BY <4>1, <4>2 DEF NoCopy, IndInv, Types
    <3>2. ASSUME UserOf[c] \notin mixed PROVE Match(UserOf[c])
      BY <2>1, <3>2, NoOtherWorks, ActorAssumption DEF IndInv, MatchInv
    <3>3. UserOf[c] \in User /\ seats[UserOf[c]] \in Roles
      BY ActorAssumption DEF IndInv, Types
    <3>4. ASSUME UserOf[c] \notin mixed, NEW p \in Prefix,
                 copy'[c].roles[p] /= "none"
          PROVE copy'[c].roles[p] = users[UserOf[c]][p]
      BY <2>2, <3>1, <3>2, <3>3, <3>4 DEF Match, Roles
    <3> QED BY <2>1, <2>2, <3>1, <3>4 DEF CurrentRow, Sits
  <2> QED BY <2>3, <2>4
<1>5. CASE DeleteSeats(c)
  <2>1. /\ pc[c] = "listed" /\ pc'[c] = "deleting"
        /\ UNCHANGED <<users, seen, alone, mixed>>
        /\ copy'[c].roles = copy[c].roles
    BY <1>5 DEF DeleteSeats, tables, history, IndInv, Types
  <2>2. CurrentRow(c)
    BY <2>1 DEF IndInv, ClaimInv
  <2> QED BY <2>1, <2>2 DEF CurrentRow, InFlight, Sits
<1> QED BY <1>1, <1>2, <1>3, <1>4, <1>5 DEF ClaimStep

\* A sign-in's own steps: its user's seats match its snapshot once they are
\* written, and only a sign-in that fails or overlaps leaves it at that.
LEMMA SignInCovers ==
  ASSUME IndInv, NEW s \in SignIn, SignInStep(s), UserOf[s] \notin mixed'
  PROVE Covered(UserOf[s])'
<1> USE DEF Goto, Actor
<1>0. UserOf[s] \in User
  BY ActorAssumption
<1>1. CASE Identity(s) \/ AdmitSignIn(s) \/ SignInDenied(s) \/ CreateSession(s)
  <2>1. UNCHANGED <<users, seats, mixed>>
    BY <1>1 DEF Identity, Begin, AdmitSignIn, SignInDenied, CreateSession,
       tables, history
  <2>2. \A t \in SignIn : Working(t) => Working(t)'
    BY <1>1 DEF Identity, Begin, AdmitSignIn, SignInDenied, CreateSession,
       End, Working, IndInv, Types
  <2>3. Covered(UserOf[s])
    BY <1>0, <2>1 DEF IndInv, MatchInv, Covered
  <2> QED BY <1>0, <2>1, <2>2, <2>3, StillCovered
<1>2. CASE UpsertUser(s) \/ ListWorkspaces(s) \/ DeleteSeats(s)
  <2>1. pc'[s] \in {"upserted", "listed", "deleting"}
    BY <1>2 DEF UpsertUser, ListWorkspaces, DeleteSeats, IndInv, Types
  <2> QED BY <2>1 DEF Covered, Working
<1>3. CASE SyncMemberships(s)
  <2>1. s \in alone /\ pc[s] = "deleting" /\ UNCHANGED users
    BY <1>3 DEF SyncMemberships, InsertSeats
  <2>2. /\ users[UserOf[s]] = seen[s]
        /\ \A p \in Sits(s) : copy[s].roles[p] = seen[s][p]
        /\ \A p \in Prefix \ Sits(s) :
              seats[UserOf[s]][p] /= "none" => p \in copy[s].deleted
    BY <2>1 DEF IndInv, SignInInv, OwnSnapshot, Working
  <2>3. \A p \in Prefix :
            seats'[UserOf[s]][p] = IF p \in Sits(s) THEN copy[s].roles[p]
                                   ELSE IF p \in copy[s].deleted THEN "none"
                                   ELSE seats[UserOf[s]][p]
    BY <1>0, <1>3 DEF SyncMemberships, InsertSeats, IndInv, Types
  <2> QED BY <2>1, <2>2, <2>3 DEF Covered, Match
<1>4. CASE SeatsFail(s)
  BY <1>4 DEF SeatsFail
<1> QED BY <1>1, <1>2, <1>3, <1>4 DEF SignInStep

\* A claim's own steps: what it writes alone is of the user's current row.
LEMMA ClaimCovers ==
  ASSUME IndInv, NEW c \in Claim, ClaimStep(c), UserOf[c] \notin mixed'
  PROVE Covered(UserOf[c])'
<1> USE DEF Goto, Actor
<1>0. UserOf[c] \in User /\ c \notin SignIn
  BY ActorAssumption
<1>1. \A s \in SignIn : Working(s) => Working(s)'
  <2>1. \A s \in SignIn : pc'[s] = pc[s]
    BY <1>0, ClaimMoves DEF Moves
  <2> QED BY <2>1 DEF Working
<1>2. CASE ~RegisterWorkspace(c) /\ ~JoinWorkspace(c)
  <2>1. UNCHANGED <<users, seats>> /\ mixed' = mixed
    BY <1>0, <1>2 DEF ClaimStep, Authenticate, Begin, ClaimRefused,
       WorkspaceAbsent, WorkspaceFound, CreateRaceLost, ListMemberships,
       DeleteSeats, SeatsFail, tables, history
  <2>2. Covered(UserOf[c])
    BY <1>0, <2>1 DEF IndInv, MatchInv, Covered
  <2> QED BY <1>0, <1>1, <2>1, <2>2, StillCovered
<1>3. CASE RegisterWorkspace(c) \/ JoinWorkspace(c)
  <2>1. c \in alone /\ InFlight(c) /\ UserOf[c] \notin mixed /\ UNCHANGED users
    BY <1>3 DEF RegisterWorkspace, JoinWorkspace, InsertSeats, Wrote, InFlight
  <2>2. Match(UserOf[c])
    BY <1>0, <2>1, NoOtherWorks DEF IndInv, MatchInv
  <2>3. ASSUME NEW p \in Prefix
        PROVE seats'[UserOf[c]][p] \in
                  {"none", seats[UserOf[c]][p], users[UserOf[c]][p]}
    <3>1. CASE RegisterWorkspace(c)
      <4>1. users[UserOf[c]][PrefixOf[c]] = "owner"
        BY <2>1, <3>1 DEF RegisterWorkspace, IndInv, OwnerInv, ClaimInv,
           CurrentRow
      <4> QED BY <1>0, <3>1, <4>1 DEF RegisterWorkspace, IndInv, Types
    <3>2. CASE JoinWorkspace(c)
      <4>1. \A q \in Sits(c) : copy[c].roles[q] = users[UserOf[c]][q]
        BY <2>1, <3>2 DEF JoinWorkspace, InsertSeats, IndInv, ClaimInv,
           CurrentRow
      <4> QED BY <1>0, <3>2, <4>1 DEF JoinWorkspace, InsertSeats, IndInv
    <3> QED BY <1>3, <3>1, <3>2
  <2> QED BY <2>1, <2>2, <2>3 DEF Covered, Match
<1> QED BY <1>2, <1>3

\* A deletion only takes seats away.
LEMMA DeleteCovers ==
  ASSUME IndInv, NEW d \in Delete, DeleteStep(d), UserOf[d] \notin mixed'
  PROVE Covered(UserOf[d])'
<1> USE DEF Goto, Actor
<1>0. UserOf[d] \in User /\ d \notin SignIn
  BY ActorAssumption
<1>1. \A s \in SignIn : Working(s) => Working(s)'
  <2>1. \A s \in SignIn : pc'[s] = pc[s]
    BY <1>0, DeleteMoves DEF Moves
  <2> QED BY <2>1 DEF Working
<1>2. UNCHANGED users /\ mixed' = mixed
  BY DEF DeleteStep, AuthenticateDelete, Begin, OwnerWorkspace,
     DeleteWorkspace, tables, history
<1>3. \A p \in Prefix : seats'[UserOf[d]][p] \in {"none", seats[UserOf[d]][p]}
  BY <1>0 DEF DeleteStep, AuthenticateDelete, OwnerWorkspace, DeleteWorkspace,
     tables, IndInv, Types, Roles
<1>4. Covered(UserOf[d])
  BY <1>0, <1>2 DEF IndInv, MatchInv, Covered
<1> QED BY <1>0, <1>1, <1>2, <1>3, <1>4, StillCovered

\* One request's step, for all of its user's requests and for everyone else's.
LEMMA RequestStep ==
  ASSUME IndInv, [Next]_vars, NEW a \in Actor, Moves(a),
         a \in SignIn => SignInStep(a),
         a \in Claim => ClaimStep(a),
         UserOf[a] \notin mixed' => Covered(UserOf[a])'
  PROVE MatchInv' /\ SignInInv' /\ ClaimInv'
<1>1. Types' /\ AloneInv'
  BY TypesStep, AloneStep
<1>2. MatchInv'
  BY CoveredKept DEF MatchInv, Covered
<1>3. SignInInv'
  BY <1>1, OwnSnapshotKept, OwnSnapshotStep DEF SignInInv
<1>4. ClaimInv'
  BY <1>1, CurrentRowKept, CurrentRowStep DEF ClaimInv
<1> QED BY <1>2, <1>3, <1>4

\* Every step keeps the seats of whom nothing overlaps to the snapshot.
LEMMA SnapshotStep ==
  IndInv /\ [Next]_vars => MatchInv' /\ SignInInv' /\ ClaimInv'
<1> SUFFICES ASSUME IndInv, [Next]_vars
             PROVE MatchInv' /\ SignInInv' /\ ClaimInv'
  OBVIOUS
<1>1. ASSUME NEW s \in SignIn, SignInStep(s)
      PROVE MatchInv' /\ SignInInv' /\ ClaimInv'
  BY <1>1, SignInMoves, SignInCovers, RequestStep, ActorAssumption DEF Actor
<1>2. ASSUME NEW c \in Claim, ClaimStep(c)
      PROVE MatchInv' /\ SignInInv' /\ ClaimInv'
  BY <1>2, ClaimMoves, ClaimCovers, RequestStep, ActorAssumption DEF Actor
<1>3. ASSUME NEW d \in Delete, DeleteStep(d)
      PROVE MatchInv' /\ SignInInv' /\ ClaimInv'
  BY <1>3, DeleteMoves, DeleteCovers, RequestStep, ActorAssumption DEF Actor
<1>4. CASE UNCHANGED <<pc, seen, copy, users, seats, alone, mixed>>
  BY <1>4 DEF IndInv, MatchInv, Match, SignInInv, OwnSnapshot, ClaimInv,
     CurrentRow, Working, InFlight, Sits
<1>5. CASE \E u \in User : EndSession(u)
  BY <1>4, <1>5 DEF EndSession, history
<1>6. CASE \E u \in User, p \in Prefix, role \in Role : ForgeChanges(u, p, role)
  BY <1>4, <1>6 DEF ForgeChanges, tables, history
<1>7. CASE UNCHANGED vars
  BY <1>4, <1>7 DEF vars
<1> QED BY <1>1, <1>2, <1>3, <1>5, <1>6, <1>7 DEF Next

\* The first state satisfies the invariant.
LEMMA InitInv == Init => IndInv
<1> SUFFICES ASSUME Init PROVE IndInv
  OBVIOUS
<1>1. Types
  BY StartAssumption, NoCopyType DEF Init, Types, Pc, Roles, Role
<1>2. ReportedInv
  BY StartAssumption, ActorAssumption DEF Init, ReportedInv, Reported, None,
     NoCopy
<1>3. OwnerInv /\ SeatHasWorkspace
  BY DEF Init, OwnerInv, SeatHasWorkspace, Actor
<1>4. AloneInv /\ SignInInv /\ ClaimInv
  BY DEF Init, AloneInv, SignInInv, ClaimInv
<1>5. MatchInv
  BY DEF Init, MatchInv, Match
<1> QED BY <1>1, <1>2, <1>3, <1>4, <1>5 DEF IndInv

LEMMA Invariant == Spec => []IndInv
<1>1. IndInv /\ [Next]_vars => IndInv'
  BY TypesStep, ReportedStep, OwnerStep, SeatStep, AloneStep, SnapshotStep
     DEF IndInv
<1> QED BY InitInv, <1>1, PTL DEF Spec

\* Whatever the requests of a user overlap, nobody sits in a workspace in a role
\* that the forge never reported for them: SetUserMemberships and
\* RegisterWorkspace write roles of a snapshot, however old it is.
THEOREM RolesComeFromTheForge == Spec => []RoleWasReported
<1>1. IndInv => RoleWasReported
  BY DEF IndInv, ReportedInv, Reported, RoleWasReported
<1> QED BY Invariant, <1>1, PTL

\* No seat outlives its workspace's row: not one that a sign-in or a claim was
\* writing while DeleteWorkspace took the row away.
THEOREM SeatsGoWithTheirWorkspace == Spec => []SeatHasWorkspace
<1>1. IndInv => SeatHasWorkspace
  BY DEF IndInv
<1> QED BY Invariant, <1>1, PTL

\* A user whose requests did not overlap has, when none is in flight, every seat
\* in the role of the last sign-in's snapshot and none that it dropped.
THEOREM QuietSeatsMatch == Spec => []SeatsMatchSnapshot
<1>1. IndInv => SeatsMatchSnapshot
  <2> SUFFICES ASSUME IndInv, NEW u \in User \ mixed, NEW p \in Prefix,
                      Quiet(u), seats[u][p] /= "none"
               PROVE seats[u][p] = users[u][p]
    BY DEF SeatsMatchSnapshot
  <2>1. ~ \E s \in SignIn : UserOf[s] = u /\ Working(s)
    BY DEF Quiet, InFlight, Working, Actor
  <2> QED BY <2>1 DEF IndInv, MatchInv, Match
<1> QED BY Invariant, <1>1, PTL
=============================================================================
