---------------------------- MODULE GrantRefresh ----------------------------
(***************************************************************************)
(* The Bitbucket or GitLab grant of one workspace: kept alive by requests  *)
(* in several server processes (internal/core/forges.go), given and taken  *)
(* away by the workspace's owners (internal/server/grant.go).              *)
(*                                                                         *)
(* The forge rotates the refresh token on every use: the token a refresh   *)
(* spends is dead and the answer carries its successor. A consent is one   *)
(* trip of an owner through the forge's consent page; its refresh tokens   *)
(* are numbered 1, 2, ... and only the newest is live. An access token is  *)
(* abstracted to the consent it was minted from.                           *)
(***************************************************************************)
EXTENDS Integers

CONSTANTS
    Process,      \* server processes sharing the database
    Request,      \* requests that need a forge client
    Consent,      \* the consents owners give, each to one connect callback
    Disconnect,   \* the disconnect requests of owners
    First,        \* the consent the workspace starts connected through
    NoConsent,
    NoOne,
    ProcessOf,    \* [Request \cup Consent \cup Disconnect -> Process]
    AccountOf     \* [Consent -> the account that consents]

Actor == Request \cup Consent \cup Disconnect

ASSUME FirstAssumption == First \in Consent
ASSUME NoConsentAssumption == NoConsent \notin Consent
ASSUME NoOneAssumption == NoOne \notin Request
ASSUME ProcessAssumption == ProcessOf \in [Actor -> Process]
ASSUME ActorAssumption ==
    /\ Request \cap Consent = {}
    /\ Request \cap Disconnect = {}
    /\ Consent \cap Disconnect = {}

VARIABLES
    grant,     \* the workspace row's grant: consent (NoConsent = no account),
               \* number of the refresh token, broken flag
    readable,  \* the stored refresh token opens under the current key
    lock,      \* the holder of the workspace's grant lock
    live,      \* forge: the live refresh token of each consent, 0 = none
    cache,     \* the access token each process has cached
    pc,
    copy,      \* the grant a request read before it asked for the lock
    token,     \* the refresh token a request sends, then the one it got
    \* History, for the properties only.
    lost,      \* a rotation whose answer never reached the database
    refused    \* the accounts whose request was refused a refresh

vars == <<grant, readable, lock, live, cache, pc, copy, token, lost, refused>>

NoGrant == [consent |-> NoConsent, number |-> 0, broken |-> FALSE]
NoToken == [consent |-> NoConsent, number |-> 0]

GrantRow == [consent : Consent \cup {NoConsent}, number : Nat, broken : BOOLEAN]
RefreshToken == [consent : Consent \cup {NoConsent}, number : Nat]

RequestState == {"idle", "read", "waiting", "locked", "asking", "answered",
                 "revoked", "done"}
OwnerState == {"idle", "exchanged", "stored", "done"}

Connected == grant.consent /= NoConsent
Cached(a) == cache[ProcessOf[a]] /= NoConsent

----------------------------------------------------------------------------
Init ==
    /\ grant = [consent |-> First, number |-> 1, broken |-> FALSE]
    /\ readable = TRUE
    /\ lock = NoOne
    /\ live = [c \in Consent |-> IF c = First THEN 1 ELSE 0]
    /\ cache = [p \in Process |-> NoConsent]
    /\ pc = [a \in Actor |-> IF a = First THEN "done" ELSE "idle"]
    /\ copy = [r \in Request |-> NoGrant]
    /\ token = [r \in Request |-> NoToken]
    /\ lost = FALSE
    /\ refused = {}

----------------------------------------------------------------------------
(* A request needs a client: grantForge and accessToken. *)

Goto(a, state) == pc' = [pc EXCEPT ![a] = state]
Unlock(r) == lock' = IF lock = r THEN NoOne ELSE lock
CachePut(a, c) == cache' = [cache EXCEPT ![ProcessOf[a]] = c]

\* The request is over; what it read is forgotten.
End(r) ==
    /\ Goto(r, "done")
    /\ Unlock(r)
    /\ copy' = [copy EXCEPT ![r] = NoGrant]
    /\ token' = [token EXCEPT ![r] = NoToken]

\* The workspace row as scanWorkspace returns it: a token that does not open
\* reads as a broken grant.
ReadWorkspace(r) ==
    /\ pc[r] = "idle"
    /\ IF Connected
       THEN /\ Goto(r, "read")
            /\ copy' = [copy EXCEPT ![r] =
                           [grant EXCEPT !.broken = @ \/ ~readable]]
       ELSE /\ Goto(r, "done")
            /\ UNCHANGED copy
    /\ UNCHANGED <<grant, readable, lock, live, cache, token, lost, refused>>

\* A cached access token answers, before the lock or under it.
CacheHit(r) ==
    /\ \/ pc[r] = "read"
       \/ pc[r] = "waiting" /\ lock = NoOne
    /\ Cached(r)
    /\ End(r)
    /\ UNCHANGED <<grant, readable, live, cache, lost, refused>>

CacheMiss(r) ==
    /\ pc[r] = "read"
    /\ ~Cached(r)
    /\ Goto(r, "waiting")
    /\ UNCHANGED <<grant, readable, lock, live, cache, copy, token, lost,
                   refused>>

\* Mutant: a mutex in this process where the database's lock belongs.
GrantLock_ProcessLocal(r) ==
    /\ pc[r] = "waiting"
    /\ \A q \in Request : lock = q => ProcessOf[q] /= ProcessOf[r]
    /\ ~Cached(r)
    /\ lock' = r
    /\ Goto(r, "locked")
    /\ UNCHANGED <<grant, readable, live, cache, copy, token, lost, refused>>

GrantLock(r) ==
    /\ pc[r] = "waiting"
    /\ lock = NoOne
    /\ ~Cached(r)
    /\ lock' = r
    /\ Goto(r, "locked")
    /\ UNCHANGED <<grant, readable, live, cache, copy, token, lost, refused>>

\* Mutant: the refresh token read before the lock.
Reread_UsesCopy(r) ==
    /\ pc[r] = "locked"
    /\ Connected /\ readable
    /\ token' = [token EXCEPT ![r] = [consent |-> copy[r].consent,
                                      number |-> copy[r].number]]
    /\ Goto(r, "asking")
    /\ UNCHANGED <<grant, readable, lock, live, cache, copy, lost, refused>>

\* Under the lock the row is read again: the stored refresh token is the one
\* to spend.
Reread(r) ==
    /\ pc[r] = "locked"
    /\ Connected /\ readable
    /\ token' = [token EXCEPT ![r] = [consent |-> grant.consent,
                                      number |-> grant.number]]
    /\ Goto(r, "asking")
    /\ UNCHANGED <<grant, readable, lock, live, cache, copy, lost, refused>>

\* Mutant: the lock is kept.
RereadDisconnected_KeepsLock(r) ==
    /\ pc[r] = "locked"
    /\ ~Connected
    /\ Goto(r, "done")
    /\ copy' = [copy EXCEPT ![r] = NoGrant]
    /\ UNCHANGED <<grant, readable, lock, live, cache, token, lost, refused>>

\* errGrantDisconnected: nothing to refresh and nothing to mark.
RereadDisconnected(r) ==
    /\ pc[r] = "locked"
    /\ ~Connected
    /\ End(r)
    /\ UNCHANGED <<grant, readable, live, cache, lost, refused>>

\* A stored token that does not open counts as revoked.
RereadUnreadable(r) ==
    /\ pc[r] = "locked"
    /\ Connected /\ ~readable
    /\ refused' = refused \cup {AccountOf[copy[r].consent]}
    /\ Goto(r, "revoked")
    /\ Unlock(r)
    /\ UNCHANGED <<grant, readable, live, cache, copy, token, lost>>

IsLive(t) == t.number > 0 /\ live[t.consent] = t.number

\* The forge takes the refresh token and rotates it.
RefreshAnswered(r) ==
    /\ pc[r] = "asking"
    /\ IsLive(token[r])
    /\ live' = [live EXCEPT ![token[r].consent] = @ + 1]
    /\ token' = [token EXCEPT ![r].number = @ + 1]
    /\ Goto(r, "answered")
    /\ UNCHANGED <<grant, readable, lock, cache, copy, lost, refused>>

\* The forge says the grant is gone; the transaction rolls back. Bitbucket
\* may say so of a live token as well (a short client lockout).
RefreshRefused(r) ==
    /\ pc[r] = "asking"
    /\ refused' = refused \cup {AccountOf[copy[r].consent]}
    /\ Goto(r, "revoked")
    /\ Unlock(r)
    /\ UNCHANGED <<grant, readable, live, cache, copy, token, lost>>

\* Mutant: the rotated token stays in memory only.
Persist_CacheOnly(r) ==
    /\ pc[r] = "answered"
    /\ CachePut(r, token[r].consent)
    /\ End(r)
    /\ UNCHANGED <<grant, readable, live, lost, refused>>

\* The rotated token is written, the access token cached and the lock gone
\* with the commit. The write names the workspace and nothing else.
Persist(r) ==
    /\ pc[r] = "answered"
    /\ grant' = [consent |-> token[r].consent, number |-> token[r].number,
                 broken |-> FALSE]
    /\ readable' = TRUE
    /\ CachePut(r, token[r].consent)
    /\ End(r)
    /\ UNCHANGED <<live, lost, refused>>

\* Mutant: the flag without the guard on the account.
MarkGrantBroken_Unguarded(r) ==
    /\ pc[r] = "revoked"
    /\ grant' = [grant EXCEPT !.broken = @ \/ (~copy[r].broken /\ Connected)]
    /\ End(r)
    /\ UNCHANGED <<readable, live, cache, lost, refused>>

\* markGrantBroken: a flag on the row, if the account is still the one the
\* request first read. A request that read it broken leaves it alone.
MarkGrantBroken(r) ==
    /\ pc[r] = "revoked"
    /\ grant' = [grant EXCEPT !.broken =
                    @ \/ /\ ~copy[r].broken
                         /\ Connected
                         /\ AccountOf[grant.consent] = AccountOf[copy[r].consent]]
    /\ End(r)
    /\ UNCHANGED <<readable, live, cache, lost, refused>>

----------------------------------------------------------------------------
(* The owners' handlers. Neither takes the grant lock. *)

\* connectCallback trades the code for a grant ...
Exchange(c) ==
    /\ c \in Consent
    /\ pc[c] = "idle"
    /\ live' = [live EXCEPT ![c] = 1]
    /\ Goto(c, "exchanged")
    /\ UNCHANGED <<grant, readable, lock, cache, copy, token, lost, refused>>

\* ... stores it ...
ConnectStore(c) ==
    /\ pc[c] = "exchanged"
    /\ grant' = [consent |-> c, number |-> 1, broken |-> FALSE]
    /\ readable' = TRUE
    /\ Goto(c, "stored")
    /\ UNCHANGED <<lock, live, cache, copy, token, lost, refused>>

\* ... and caches its access token in this process.
ConnectCache(c) ==
    /\ c \in Consent
    /\ pc[c] = "stored"
    /\ CachePut(c, c)
    /\ Goto(c, "done")
    /\ UNCHANGED <<grant, readable, lock, live, copy, token, lost, refused>>

\* disconnectWorkspace empties the row ...
DisconnectStore(d) ==
    /\ pc[d] = "idle"
    /\ grant' = NoGrant
    /\ readable' = TRUE
    /\ Goto(d, "stored")
    /\ UNCHANGED <<lock, live, cache, copy, token, lost, refused>>

\* ... and drops this process's cached token.
DropGrantToken(d) ==
    /\ d \in Disconnect
    /\ pc[d] = "stored"
    /\ CachePut(d, NoConsent)
    /\ Goto(d, "done")
    /\ UNCHANGED <<grant, readable, lock, live, copy, token, lost, refused>>

----------------------------------------------------------------------------
(* What happens around them. *)

\* The access token is within tokenLeeway of its expiry.
Expire(p) ==
    /\ cache[p] /= NoConsent
    /\ cache' = [cache EXCEPT ![p] = NoConsent]
    /\ UNCHANGED <<grant, readable, lock, live, pc, copy, token, lost, refused>>

\* The account leaves or revokes the application on the forge.
Revoke(c) ==
    /\ live[c] > 0
    /\ pc[c] = "done"
    /\ live' = [live EXCEPT ![c] = 0]
    /\ UNCHANGED <<grant, readable, lock, cache, pc, copy, token, lost, refused>>

\* The deployment restarts under another secret key: what is stored no longer
\* opens.
LoseKey ==
    /\ \A a \in Actor : pc[a] \in {"idle", "done"}
    /\ Connected /\ readable
    /\ readable' = FALSE
    /\ cache' = [p \in Process |-> NoConsent]
    /\ UNCHANGED <<grant, lock, live, pc, copy, token, lost, refused>>

\* The lock, the read or the call to the forge fails, or the client goes away:
\* no client, and nothing marked. The forge may have rotated all the same.
RefreshFails(r) ==
    /\ pc[r] \in {"waiting", "locked", "asking"}
    /\ \/ UNCHANGED <<live, lost>>
       \/ /\ pc[r] = "asking"
          /\ IsLive(token[r])
          /\ live' = [live EXCEPT ![token[r].consent] = @ + 1]
          /\ lost' = TRUE
    /\ End(r)
    /\ UNCHANGED <<grant, readable, cache, refused>>

\* The rotated token cannot be written: logged, and cached all the same.
PersistFails(r) ==
    /\ pc[r] = "answered"
    /\ CachePut(r, token[r].consent)
    /\ lost' = TRUE
    /\ End(r)
    /\ UNCHANGED <<grant, readable, live, refused>>

\* A process dies with its cache and everything it was doing.
Crash(p) ==
    LET mine == {a \in Actor : ProcessOf[a] = p /\ pc[a] \notin {"idle", "done"}}
    IN
    /\ mine /= {}
    /\ cache' = [cache EXCEPT ![p] = NoConsent]
    /\ lock' = IF lock \in mine THEN NoOne ELSE lock
    /\ lost' = (lost \/ \E a \in mine : pc[a] = "answered")
    /\ pc' = [a \in Actor |-> IF a \in mine THEN "done" ELSE pc[a]]
    /\ copy' = [r \in Request |-> IF r \in mine THEN NoGrant ELSE copy[r]]
    /\ token' = [r \in Request |-> IF r \in mine THEN NoToken ELSE token[r]]
    /\ UNCHANGED <<grant, readable, live, refused>>

----------------------------------------------------------------------------
RequestStep(r) ==
    \/ ReadWorkspace(r)
    \/ CacheHit(r)
    \/ CacheMiss(r)
    \/ GrantLock(r)
    \/ Reread(r)
    \/ RereadDisconnected(r)
    \/ RereadUnreadable(r)
    \/ RefreshAnswered(r)
    \/ RefreshRefused(r)
    \/ Persist(r)
    \/ MarkGrantBroken(r)

Next ==
    \/ \E r \in Request : RequestStep(r) \/ RefreshFails(r) \/ PersistFails(r)
    \/ \E c \in Consent :
        Exchange(c) \/ ConnectStore(c) \/ ConnectCache(c) \/ Revoke(c)
    \/ \E d \in Disconnect : DisconnectStore(d) \/ DropGrantToken(d)
    \/ \E p \in Process : Expire(p) \/ Crash(p)
    \/ LoseKey

Spec == Init /\ [][Next]_vars

\* A request that runs takes its next step: the calls it makes end, by answer
\* or timeout, and the database hands a free lock to a waiter.
Fairness == \A r \in Request : WF_vars(RequestStep(r))

LiveSpec == Spec /\ Fairness

----------------------------------------------------------------------------
(* Properties. *)

TypeOK ==
    /\ grant \in GrantRow
    /\ readable \in BOOLEAN
    /\ lock \in Request \cup {NoOne}
    /\ live \in [Consent -> Nat]
    /\ cache \in [Process -> Consent \cup {NoConsent}]
    /\ pc \in [Actor -> RequestState \cup OwnerState]
    /\ copy \in [Request -> GrantRow]
    /\ token \in [Request -> RefreshToken]
    /\ lost \in BOOLEAN
    /\ refused \subseteq {AccountOf[c] : c \in Consent}

\* "Bitbucket and GitLab rotate the refresh token on every use" (WithGrantLock):
\* no process sends the forge a refresh token that another has spent, unless a
\* rotation was lost or the forge revoked the consent.
NoTokenSpentTwice ==
    \A r \in Request :
        pc[r] = "asking" => lost \/ IsLive(token[r]) \/ live[token[r].consent] = 0

\* "The rotated token is persisted before the access token is handed out"
\* (accessToken): while nobody holds the lock the stored token is the live one,
\* so a restart costs a refresh and never a reconnect.
StoredTokenIsLive ==
    /\ lock = NoOne
    /\ Connected
    /\ ~lost
    => live[grant.consent] \in {0, grant.number}

\* A request that asks for a client gets its answer, with or without one:
\* nobody waits for ever on a lock nobody will release (LiveSpec).
RequestsEnd == \A r \in Request : pc[r] /= "idle" ~> pc[r] = "done"

\* A replacement is not blamed for its predecessor (markGrantBroken): a grant
\* flagged broken belongs to an account some refresh started out with and was
\* refused.
OnlyRefusedAccountIsBroken ==
    grant.broken => AccountOf[grant.consent] \in refused

\* Whoever holds the lock with the answer to a refresh of the stored grant has
\* the successor of the stored token in hand.
InHand ==
    /\ lock \in Request
    /\ pc[lock] = "answered"
    /\ token[lock].consent = grant.consent

NextToken == IF InHand THEN token[lock].number ELSE grant.number

Register == INSTANCE RotatingGrant WITH
    consent <- grant.consent, number <- NextToken

\* A refresh "persists the rotated one through it too; the lock is released when
\* fn returns" (WithGrantLock): to those who use the grant it is one step, in the
\* forge and in the database, whatever the owners store beside it.
RefreshIsAtomic == Register!Spec

\* The grant an owner removed "must not be written back" (accessToken): only a
\* consent brings a disconnected workspace back.  Does NOT hold (README, "What
\* does not hold"), so no run lists it.
DisconnectSticks ==
    [][~Connected /\ Connected' => \E c \in Consent : ConnectStore(c)]_vars

=============================================================================
