------------------------------ MODULE Accounts ------------------------------
(***************************************************************************)
(* Users of one forge, their seats in workspaces, and their sessions:      *)
(* sign-in (internal/server/oauth.go), claiming and joining a workspace    *)
(* (register.go, githubapp.go), deleting one (workspace.go), signing out   *)
(* (session.go).                                                           *)
(*                                                                         *)
(* Roles come from the forge: a sign-in takes a snapshot of them, and a    *)
(* seat is written from a snapshot, often from an earlier read, beside     *)
(* other requests of the same user.                                        *)
(***************************************************************************)
EXTENDS Integers

CONSTANTS
    User,
    Prefix,          \* workspaces of the forge
    SignIn,          \* sign-ins, each once
    Claim,           \* requests to register or join, each once
    Delete,          \* requests to delete a workspace, each once
    UserOf,          \* [SignIn \cup Claim \cup Delete -> User]
    PrefixOf,        \* [Claim \cup Delete -> Prefix]
    Hosted,          \* GOCOV_MODE=hosted
    Allowed,         \* GOCOV_ALLOWED_WORKSPACES, {} when it is not set
    RepoPrefix,      \* prefixes of repos that no workspace here owns
    FirstRoles,      \* [User -> [Prefix -> Role]]: the forge's, at the start
    Registered,      \* the workspaces registered at the start
    MaxForgeChanges  \* role changes on the forge

Actor == SignIn \cup Claim \cup Delete
Role == {"none", "member", "owner"}
Roles == [Prefix -> Role]

ASSUME ActorAssumption ==
    /\ UserOf \in [Actor -> User]
    /\ PrefixOf \in [Claim \cup Delete -> Prefix]
    /\ SignIn \cap Claim = {} /\ SignIn \cap Delete = {}
    /\ Claim \cap Delete = {}
ASSUME StartAssumption ==
    /\ Hosted \in BOOLEAN
    /\ Allowed \subseteq Prefix
    /\ RepoPrefix \subseteq Prefix
    /\ FirstRoles \in [User -> Roles]
    /\ Registered \subseteq Prefix
    /\ MaxForgeChanges \in Nat

VARIABLES
    forge,    \* the forge's answer to who is what, [User -> Roles]
    changes,  \* how often it has changed
    users,    \* the users table: each one's snapshot
    ws,       \* the workspaces table: each prefix's row, 0 for none; a number
              \* tells the rows of one prefix apart
    nextId,
    seats,    \* workspace_members, [User -> Roles]; rows go with their
              \* workspace's row
    signedIn, \* users with a live session
    pc,
    seen,     \* the snapshot an actor works from
    copy,     \* workspace ids an actor has listed, the seats to write, and
              \* the rows its open transaction has deleted
    \* History, for the properties only.
    reported, \* roles the forge has reported to a sign-in
    alone,    \* actors that no other request of their user has overlapped
    mixed     \* users whose last writes overlapped

vars == <<forge, changes, users, ws, nextId, seats, signedIn, pc, seen, copy,
          reported, alone, mixed>>
history == <<reported, alone, mixed>>
tables == <<users, ws, nextId, seats, signedIn>>

None == [p \in Prefix |-> "none"]
NoCopy == [ids |-> [p \in Prefix |-> 0], roles |-> None, deleted |-> {}]
Copy == [ids : [Prefix -> Nat], roles : Roles, deleted : SUBSET Prefix]
Pc == {"idle", "identified", "admitted", "upserted", "listed", "deleting",
       "synced", "authenticated", "absent", "taken", "joining", "allowed",
       "done"}

----------------------------------------------------------------------------
Init ==
    /\ forge = FirstRoles
    /\ changes = 0
    /\ users = FirstRoles
    /\ ws = [p \in Prefix |-> IF p \in Registered THEN 1 ELSE 0]
    /\ nextId = 2
    /\ seats = [u \in User |-> [p \in Prefix |->
                   IF p \in Registered THEN FirstRoles[u][p] ELSE "none"]]
    /\ signedIn = User
    /\ pc = [a \in Actor |-> "idle"]
    /\ seen = [a \in Actor |-> None]
    /\ copy = [a \in Actor |-> NoCopy]
    /\ reported = {<<u, p, FirstRoles[u][p]>> : u \in User, p \in Prefix}
    /\ alone = {}
    /\ mixed = {}

----------------------------------------------------------------------------
InFlight(a) == pc[a] \notin {"idle", "done"}
Others(a) == {b \in Actor \ {a} : UserOf[b] = UserOf[a] /\ InFlight(b)}
Goto(a, state) == pc' = [pc EXCEPT ![a] = state]

\* An actor's first step, which notes whom it overlaps.
Begin(a, state) ==
    /\ pc[a] = "idle"
    /\ Goto(a, state)
    /\ alone' = IF Others(a) = {} THEN alone \cup {a} ELSE alone \ Others(a)
    /\ UNCHANGED mixed

\* A write of the user's row or seats, or of nothing.
Wrote(a) ==
    /\ mixed' = IF a \in alone THEN mixed ELSE mixed \cup {UserOf[a]}
    /\ UNCHANGED <<reported, alone>>

\* The actor's answer; what it held is forgotten.
End(a) ==
    /\ Goto(a, "done")
    /\ seen' = [seen EXCEPT ![a] = None]
    /\ copy' = [copy EXCEPT ![a] = NoCopy]

\* The forge's admins change someone's role.
ForgeChanges(u, p, role) ==
    /\ changes < MaxForgeChanges
    /\ role /= forge[u][p]
    /\ changes' = changes + 1
    /\ forge' = [forge EXCEPT ![u][p] = role]
    /\ UNCHANGED <<tables, pc, seen, copy, history>>

----------------------------------------------------------------------------
(* SetUserMemberships: a DELETE, then an INSERT per seat, read committed. *)

Sits(a) == {p \in Prefix : copy[a].roles[p] /= "none"}

\* Mutant: seats the forge no longer reports are left where they are.
DeleteSeats_None(a) ==
    /\ pc[a] = "listed"
    /\ Goto(a, "deleting")
    /\ UNCHANGED <<forge, changes, tables, seen, copy, history>>

\* A seat that another request writes from here on is not among the deleted.
DeleteSeats(a) ==
    /\ pc[a] = "listed"
    /\ Goto(a, "deleting")
    /\ copy' = [copy EXCEPT ![a].deleted =
                   {p \in Prefix \ Sits(a) : seats[UserOf[a]][p] /= "none"}]
    /\ UNCHANGED <<forge, changes, tables, seen, history>>

\* The rows that a waits for: others' deletes keep them until they commit.
Locked(a) == UNION {copy[b].deleted : b \in Others(a)}

\* The inserts and the commit; every seat needs its workspace's row.
InsertSeats(a) ==
    /\ pc[a] = "deleting"
    /\ Sits(a) \cap Locked(a) = {}
    /\ \A p \in Sits(a) : ws[p] /= 0 /\ ws[p] = copy[a].ids[p]
    /\ seats' = [seats EXCEPT ![UserOf[a]] =
                    [p \in Prefix |-> IF p \in Sits(a) THEN copy[a].roles[p]
                                      ELSE IF p \in copy[a].deleted THEN "none"
                                      ELSE @[p]]]

\* Rolled back: a workspace is gone, two writers wait for each other, or the
\* database fails.
SeatsFail(a) ==
    /\ pc[a] = "deleting"
    /\ End(a)
    /\ mixed' = IF a \in SignIn THEN mixed \cup {UserOf[a]} ELSE mixed
    /\ UNCHANGED <<forge, changes, tables, reported, alone>>

----------------------------------------------------------------------------
(* A sign-in: handleOAuthCallback. *)

Identity(s) ==
    /\ Begin(s, "identified")
    /\ seen' = [seen EXCEPT ![s] = forge[UserOf[s]]]
    /\ reported' = reported \cup
           {<<UserOf[s], p, forge[UserOf[s]][p]>> : p \in Prefix}
    /\ UNCHANGED <<forge, changes, tables, copy>>

AllowedWorkspaces ==
    IF Allowed /= {} THEN Allowed
    ELSE {p \in Prefix : ws[p] /= 0} \cup RepoPrefix

Admits(s) ==
    Hosted \/ \E p \in AllowedWorkspaces : seen[s][p] /= "none"

AdmitSignIn(s) ==
    /\ pc[s] = "identified"
    /\ Admits(s)
    /\ Goto(s, "admitted")
    /\ UNCHANGED <<forge, changes, tables, seen, copy, history>>

SignInDenied(s) ==
    /\ pc[s] = "identified"
    /\ ~Admits(s)
    /\ End(s)
    /\ UNCHANGED <<forge, changes, tables, history>>

UpsertUser(s) ==
    /\ pc[s] = "admitted"
    /\ Goto(s, "upserted")
    /\ users' = [users EXCEPT ![UserOf[s]] = seen[s]]
    /\ Wrote(s)
    /\ UNCHANGED <<forge, changes, ws, nextId, seats, signedIn, seen, copy>>

\* syncMemberships: first the list of workspaces, then the user's seats.
ListWorkspaces(s) ==
    /\ pc[s] = "upserted"
    /\ Goto(s, "listed")
    /\ copy' = [copy EXCEPT ![s] =
                   [NoCopy EXCEPT
                        !.ids = ws,
                        !.roles = [p \in Prefix |-> IF ws[p] = 0 THEN "none"
                                                 ELSE seen[s][p]]]]
    /\ UNCHANGED <<forge, changes, tables, seen, history>>

SyncMemberships(s) ==
    /\ InsertSeats(s)
    /\ pc' = [pc EXCEPT ![s] = "synced"]
    /\ copy' = [copy EXCEPT ![s] = NoCopy]
    /\ mixed' = IF s \in alone THEN mixed \ {UserOf[s]}
                ELSE mixed \cup {UserOf[s]}
    /\ UNCHANGED <<forge, changes, users, ws, nextId, signedIn, seen,
                   reported, alone>>

CreateSession(s) ==
    /\ pc[s] = "synced"
    /\ End(s)
    /\ signedIn' = signedIn \cup {UserOf[s]}
    /\ UNCHANGED <<forge, changes, users, ws, nextId, seats, history>>

\* handleLogout, or thirty days are over: the user's last session ends.
EndSession(u) ==
    /\ u \in signedIn
    /\ signedIn' = signedIn \ {u}
    /\ UNCHANGED <<forge, changes, users, ws, nextId, seats, pc, seen, copy,
                   history>>

----------------------------------------------------------------------------
(* A claim: claimOrJoin, or linkInstallation's way to the same two ends. *)

\* requireAuth hands the request the user's row.
Authenticate(c) ==
    /\ UserOf[c] \in signedIn
    /\ Begin(c, "authenticated")
    /\ seen' = [seen EXCEPT ![c] = users[UserOf[c]]]
    /\ UNCHANGED <<forge, changes, tables, copy, reported>>

\* Not in the forge's list, or not its owner where there is no workspace yet;
\* or what won the create race is gone again.
ClaimRefused(c) ==
    /\ \/ pc[c] = "authenticated" /\ seen[c][PrefixOf[c]] = "none"
       \/ /\ pc[c] = "authenticated"
          /\ ws[PrefixOf[c]] = 0 /\ seen[c][PrefixOf[c]] /= "owner"
       \/ pc[c] = "taken" /\ ws[PrefixOf[c]] = 0
    /\ End(c)
    /\ UNCHANGED <<forge, changes, tables, history>>

\* WorkspaceByPrefix finds none, and the role is enough to make one.
WorkspaceAbsent(c) ==
    /\ pc[c] = "authenticated"
    /\ ws[PrefixOf[c]] = 0 /\ seen[c][PrefixOf[c]] = "owner"
    /\ Goto(c, "absent")
    /\ UNCHANGED <<forge, changes, tables, seen, copy, history>>

\* Someone has it already: before the request, or in the create race.
WorkspaceFound(c) ==
    /\ pc[c] \in {"authenticated", "taken"}
    /\ seen[c][PrefixOf[c]] /= "none"
    /\ ws[PrefixOf[c]] /= 0
    /\ Goto(c, "joining")
    /\ copy' = [copy EXCEPT ![c].ids[PrefixOf[c]] = ws[PrefixOf[c]]]
    /\ UNCHANGED <<forge, changes, tables, seen, history>>

RegisterWorkspace(c) ==
    LET p == PrefixOf[c]
    IN  /\ pc[c] = "absent"
        /\ ws[p] = 0
        /\ ws' = [ws EXCEPT ![p] = nextId]
        /\ nextId' = nextId + 1
        /\ seats' = [seats EXCEPT ![UserOf[c]][p] = "owner"]
        /\ End(c)
        /\ Wrote(c)
        /\ UNCHANGED <<forge, changes, users, signedIn>>

\* RegisterWorkspace fails, its prefix being taken.
CreateRaceLost(c) ==
    /\ pc[c] = "absent"
    /\ ws[PrefixOf[c]] /= 0
    /\ Goto(c, "taken")
    /\ UNCHANGED <<forge, changes, tables, seen, copy, history>>

\* Mutant: whoever joins is an owner, as whoever registers is.
ListMemberships_Owner(c) ==
    LET p == PrefixOf[c]
        id == copy[c].ids[p]
        mine == seats[UserOf[c]]
    IN  /\ pc[c] = "joining"
        /\ IF ws[p] = id /\ mine[p] /= "none"
           THEN End(c)
           ELSE /\ Goto(c, "listed")
                /\ copy' = [copy EXCEPT ![c] =
                       [NoCopy EXCEPT !.ids = [ws EXCEPT ![p] = id],
                                      !.roles = [mine EXCEPT ![p] = "owner"]]]
                /\ UNCHANGED seen
        /\ UNCHANGED <<forge, changes, tables, history>>

\* joinWorkspace reads the user's seats; nothing to do for one who has it.
ListMemberships(c) ==
    LET p == PrefixOf[c]
        id == copy[c].ids[p]
        mine == seats[UserOf[c]]
    IN  /\ pc[c] = "joining"
        /\ IF ws[p] = id /\ mine[p] /= "none"
           THEN End(c)
           ELSE /\ Goto(c, "listed")
                /\ copy' = [copy EXCEPT ![c] =
                       [NoCopy EXCEPT !.ids = [ws EXCEPT ![p] = id],
                                      !.roles = [mine EXCEPT ![p] = seen[c][p]]]]
                /\ UNCHANGED seen
        /\ UNCHANGED <<forge, changes, tables, history>>

JoinWorkspace(c) ==
    /\ InsertSeats(c)
    /\ End(c)
    /\ Wrote(c)
    /\ UNCHANGED <<forge, changes, users, ws, nextId, signedIn>>

----------------------------------------------------------------------------
(* A deletion: ownerWorkspace, then DeleteWorkspace. *)

AuthenticateDelete(d) ==
    /\ UserOf[d] \in signedIn
    /\ Begin(d, "authenticated")
    /\ UNCHANGED <<forge, changes, tables, seen, copy, reported>>

OwnerWorkspace(d) ==
    LET p == PrefixOf[d]
    IN  /\ pc[d] = "authenticated"
        /\ IF ws[p] /= 0 /\ seats[UserOf[d]][p] = "owner"
           THEN /\ Goto(d, "allowed")
                /\ copy' = [copy EXCEPT ![d].ids[p] = ws[p]]
                /\ UNCHANGED seen
           ELSE End(d)
        /\ UNCHANGED <<forge, changes, tables, history>>

\* Mutant: the seats stay when their workspace goes.
DeleteWorkspace_KeepsSeats(d) ==
    LET p == PrefixOf[d]
    IN  /\ pc[d] = "allowed"
        /\ \A a \in Actor : p \notin copy[a].deleted
        /\ IF ws[p] = copy[d].ids[p]
           THEN ws' = [ws EXCEPT ![p] = 0] /\ UNCHANGED seats
           ELSE UNCHANGED <<ws, seats>>
        /\ End(d)
        /\ UNCHANGED <<forge, changes, users, nextId, signedIn, history>>

\* Its repos and seats go with it, once no writer of one is still at it.
DeleteWorkspace(d) ==
    LET p == PrefixOf[d]
    IN  /\ pc[d] = "allowed"
        /\ \A a \in Actor : p \notin copy[a].deleted
        /\ IF ws[p] = copy[d].ids[p]
           THEN /\ ws' = [ws EXCEPT ![p] = 0]
                /\ seats' = [u \in User |-> [seats[u] EXCEPT ![p] = "none"]]
           ELSE UNCHANGED <<ws, seats>>
        /\ End(d)
        /\ UNCHANGED <<forge, changes, users, nextId, signedIn, history>>

----------------------------------------------------------------------------
SignInStep(s) ==
    \/ Identity(s) \/ AdmitSignIn(s) \/ SignInDenied(s) \/ UpsertUser(s)
    \/ ListWorkspaces(s) \/ DeleteSeats(s) \/ SyncMemberships(s)
    \/ SeatsFail(s) \/ CreateSession(s)

ClaimStep(c) ==
    \/ Authenticate(c) \/ ClaimRefused(c) \/ WorkspaceAbsent(c)
    \/ WorkspaceFound(c) \/ RegisterWorkspace(c) \/ CreateRaceLost(c)
    \/ ListMemberships(c) \/ DeleteSeats(c) \/ JoinWorkspace(c) \/ SeatsFail(c)

DeleteStep(d) ==
    AuthenticateDelete(d) \/ OwnerWorkspace(d) \/ DeleteWorkspace(d)

Next ==
    \/ \E s \in SignIn : SignInStep(s)
    \/ \E c \in Claim : ClaimStep(c)
    \/ \E d \in Delete : DeleteStep(d)
    \/ \E u \in User : EndSession(u)
    \/ \E u \in User, p \in Prefix, role \in Role : ForgeChanges(u, p, role)

Spec == Init /\ [][Next]_vars

----------------------------------------------------------------------------
\* Roles come from the forge: whatever the requests of a user overlap, nobody
\* sits in a workspace in a role the forge never reported for them
\* (docs/sign-in.md, "Owners and members").
RoleWasReported ==
    \A u \in User, p \in Prefix :
        seats[u][p] /= "none" => <<u, p, seats[u][p]>> \in reported

\* No seat outlives its workspace, whichever writes of it were in flight; the
\* next workspace of that name starts without it.
SeatHasWorkspace ==
    \A u \in User, p \in Prefix : seats[u][p] /= "none" => ws[p] /= 0

Quiet(u) == \A a \in Actor : UserOf[a] = u => ~InFlight(a)

\* What a user's requests leave behind when they did not overlap: every seat in
\* the role of the last sign-in's snapshot, none that it dropped.
SeatsMatchSnapshot ==
    \A u \in User \ mixed, p \in Prefix :
        Quiet(u) /\ seats[u][p] /= "none" => seats[u][p] = users[u][p]
=============================================================================
