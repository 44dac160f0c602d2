----------------------------- MODULE GitHubApp -----------------------------
(***************************************************************************)
(* One workspace's connection to a GitHub App installation: requests that  *)
(* need a client (internal/core/forges.go, internal/forge/github/app.go),  *)
(* owners who edit the workspace row (internal/server/githubapp.go,        *)
(* workspace.go) and webhooks (internal/server/githubwebhook.go).          *)
(*                                                                         *)
(* Owners write the whole row from an earlier read; everyone else writes   *)
(* the broken flag alone, guarded by row id and installation.  An upload   *)
(* token and a row id are named by the owner whose request made them.      *)
(***************************************************************************)
EXTENDS Integers

CONSTANTS
    Process,         \* server processes sharing the database
    Installation,    \* GitHub's installations of the app on the account
    NoInstallation,  \* github_installation_id = 0
    Request,         \* requests that need a client, each again and again
    Owner,           \* owners' requests, each once
    Founder,         \* made the workspace there may be at the start
    NoRow,           \* the row id where there is no workspace
    First,           \* the installation it is linked to then
    ProcessOf,       \* [Request -> Process]
    UseOf,           \* [Request -> Use]
    KindsOf,         \* [Owner -> the kinds of request an owner may make]
    InstallationOf,  \* [Owner -> the installation a "connect" names]
    MaxFaults,       \* calls that fail, and processes that restart
    MaxWithheld      \* times an installation is suspended

Use == {"push", "claim"}
Kind == {"save", "rotate", "connect", "disconnect", "delete"}

ASSUME RequestAssumption ==
    /\ ProcessOf \in [Request -> Process]
    /\ UseOf \in [Request -> Use]
ASSUME OwnerAssumption ==
    /\ KindsOf \in [Owner -> SUBSET Kind]
    /\ InstallationOf \in [Owner -> Installation]
    /\ Founder \notin Owner
    /\ NoRow \notin Owner \cup {Founder}
ASSUME InstallationAssumption ==
    /\ First \in Installation
    /\ NoInstallation \notin Installation
ASSUME BoundAssumption == MaxFaults \in Nat /\ MaxWithheld \in Nat

Maker == Owner \cup {Founder}

VARIABLES
    row,       \* the workspace row
    github,    \* GitHub: the state of each installation
    announced, \* GitHub: the deliveries sent, which may arrive late and again
    cache,     \* each process's installation tokens
    req,       \* requests: where they are, the row they read, their token
    own,       \* owners: where they are, what they ask, the row they read
    hook,      \* a webhook handler: the row it has listed and the flag to set
    faults,
    withheld

vars == <<row, github, announced, cache, req, own, hook, faults, withheld>>
forge == <<github, announced, withheld>>

Empty == [id |-> NoRow, inst |-> NoInstallation, broken |-> FALSE,
          token |-> Founder]
Row == [id : Maker \cup {NoRow}, inst : Installation \cup {NoInstallation},
        broken : BOOLEAN, token : Maker]
Token == {"none", "good", "dead"}
Delivery == [inst : Installation, broken : BOOLEAN]
RequestState == [pc : {"idle", "read", "probing", "again", "minting", "minted",
                       "client", "refused"},
                 copy : Row, token : Token]
OwnerState == [pc : {"idle", "confirmed", "absent", "taken", "read", "done"},
               kind : Kind, copy : Row]
HookState == [pc : {"idle", "listed"}, id : Maker \cup {NoRow},
              flag : Delivery]

Idle == [pc |-> "idle", copy |-> Empty, token |-> "none"]
Waiting == [pc |-> "idle", kind |-> "save", copy |-> Empty]
Done == [Waiting EXCEPT !.pc = "done"]
NotListed == [pc |-> "idle", id |-> NoRow,
              flag |-> [inst |-> First, broken |-> FALSE]]

----------------------------------------------------------------------------
Init ==
    /\ row \in {Empty, [id |-> Founder, inst |-> First, broken |-> FALSE,
                       token |-> Founder]}
    /\ github = [i \in Installation |-> "live"]
    /\ announced = {}
    /\ cache = [p \in Process |-> [i \in Installation |-> "none"]]
    /\ req = [r \in Request |-> Idle]
    /\ own = [o \in Owner |-> Waiting]
    /\ hook = NotListed
    /\ faults = 0
    /\ withheld = 0

----------------------------------------------------------------------------
(* GitHub. *)

\* What held a token holds a dead one.
Killed(t) == IF t = "good" THEN "dead" ELSE t

KillTokens(i) ==
    /\ cache' = [p \in Process |-> [cache[p] EXCEPT ![i] = Killed(@)]]
    /\ req' = [r \in Request |->
                  IF req[r].copy.inst = i
                  THEN [req[r] EXCEPT !.token = Killed(@)] ELSE req[r]]

Announce(i, broken) ==
    announced' = announced \cup {[inst |-> i, broken |-> broken]}

\* The account suspends the app, or the app's key is rotated at GitHub.
Withhold(i) ==
    /\ github[i] = "live"
    /\ withheld < MaxWithheld
    /\ withheld' = withheld + 1
    /\ github' = [github EXCEPT ![i] = "withheld"]
    /\ KillTokens(i)
    /\ Announce(i, TRUE)
    /\ UNCHANGED <<row, own, hook, faults>>

Restore(i) ==
    /\ github[i] = "withheld"
    /\ github' = [github EXCEPT ![i] = "live"]
    /\ Announce(i, FALSE)
    /\ UNCHANGED <<row, cache, req, own, hook, faults, withheld>>

Uninstall(i) ==
    /\ github[i] /= "gone"
    /\ github' = [github EXCEPT ![i] = "gone"]
    /\ KillTokens(i)
    /\ Announce(i, TRUE)
    /\ UNCHANGED <<row, own, hook, faults, withheld>>

----------------------------------------------------------------------------
(* A request: installationForge ("push") or VerifyGitHubRunClaim ("claim"). *)

Cached(r) == cache[ProcessOf[r]][req[r].copy.inst]
Fault == faults < MaxFaults /\ faults' = faults + 1

ReadWorkspace(r) ==
    /\ req[r].pc = "idle"
    /\ row.inst /= NoInstallation
    /\ req' = [req EXCEPT ![r] = [Idle EXCEPT !.pc = "read", !.copy = row]]
    /\ UNCHANGED <<row, forge, cache, own, hook, faults>>

\* Mutant: a cached token is handed out as it is.
TokenCached_NoProbe(r) ==
    /\ req[r].pc \in {"read", "again"}
    /\ Cached(r) /= "none"
    /\ req' = [req EXCEPT ![r].token = Cached(r), ![r].pc = "client"]
    /\ UNCHANGED <<row, forge, cache, own, hook, faults>>

\* Only ForgeClient's first cached token is probed.
TokenCached(r) ==
    /\ req[r].pc \in {"read", "again"}
    /\ Cached(r) /= "none"
    /\ req' = [req EXCEPT ![r].token = Cached(r),
                          ![r].pc = IF req[r].pc = "read" /\ UseOf[r] = "push"
                                    THEN "probing" ELSE "client"]
    /\ UNCHANGED <<row, forge, cache, own, hook, faults>>

TokenMissing(r) ==
    /\ req[r].pc \in {"read", "again"}
    /\ Cached(r) = "none"
    /\ req' = [req EXCEPT ![r].pc = "minting"]
    /\ UNCHANGED <<row, forge, cache, own, hook, faults>>

\* tokenValid: only a 401 fails the token.
TokenValid(r) ==
    /\ req[r].pc = "probing"
    /\ IF req[r].token = "dead" THEN Fault ELSE UNCHANGED faults
    /\ req' = [req EXCEPT ![r].pc = "client"]
    /\ UNCHANGED <<row, forge, cache, own, hook>>

Invalidate(r) ==
    /\ req[r].pc = "probing"
    /\ req[r].token = "dead"
    /\ cache' = [cache EXCEPT ![ProcessOf[r]][req[r].copy.inst] = "none"]
    /\ req' = [req EXCEPT ![r].pc = "again", ![r].token = "none"]
    /\ UNCHANGED <<row, forge, own, hook, faults>>

Mint(r) ==
    /\ req[r].pc = "minting"
    /\ github[req[r].copy.inst] = "live"
    /\ req' = [req EXCEPT ![r].pc = "minted", ![r].token = "good"]
    /\ UNCHANGED <<row, forge, cache, own, hook, faults>>

\* 401 or 404: forge.ErrCredentialsRevoked.
MintRefused(r) ==
    /\ req[r].pc = "minting"
    /\ github[req[r].copy.inst] /= "live"
    /\ req' = [req EXCEPT ![r].pc = "refused"]
    /\ UNCHANGED <<row, forge, cache, own, hook, faults>>

\* Any other answer, a suspended installation's 403 among them.
MintFails(r) ==
    /\ req[r].pc = "minting"
    /\ IF github[req[r].copy.inst] = "withheld"
       THEN UNCHANGED faults ELSE Fault
    /\ req' = [req EXCEPT ![r] = Idle]
    /\ UNCHANGED <<row, forge, cache, own, hook>>

PutToken(r) ==
    /\ req[r].pc = "minted"
    /\ cache' = [cache EXCEPT ![ProcessOf[r]][req[r].copy.inst] =
                                  req[r].token]
    /\ req' = [req EXCEPT ![r].pc = "client"]
    /\ UNCHANGED <<row, forge, own, hook, faults>>

----------------------------------------------------------------------------
(* The flag. *)

\* Mutant: the flag is written to whatever the workspace is linked to now.
SetGitHubAppBroken_Unguarded(id, inst, broken) ==
    row' = IF row.id = id /\ id /= NoRow
           THEN [row EXCEPT !.broken = broken] ELSE row

SetGitHubAppBroken(id, inst, broken) ==
    row' = IF row.id = id /\ id /= NoRow /\ row.inst = inst
           THEN [row EXCEPT !.broken = broken] ELSE row

\* Mutant: the flag goes out with the rest of the row that was read.
Heal_FullRow(r) ==
    /\ req[r].pc = "client"
    /\ UseOf[r] = "push" /\ req[r].copy.broken
    /\ req' = [req EXCEPT ![r] = Idle]
    /\ row' = IF row.id = req[r].copy.id
              THEN [req[r].copy EXCEPT !.broken = FALSE] ELSE row
    /\ UNCHANGED <<forge, cache, own, hook, faults>>

\* Mutant: only a webhook clears the flag.
Heal_Never(r) ==
    /\ req[r].pc = "client"
    /\ UseOf[r] = "push" /\ req[r].copy.broken
    /\ req' = [req EXCEPT ![r] = Idle]
    /\ UNCHANGED <<row, forge, cache, own, hook, faults>>

\* installationForge got a client although the row it read was flagged.
Heal(r) ==
    /\ req[r].pc = "client"
    /\ UseOf[r] = "push" /\ req[r].copy.broken
    /\ req' = [req EXCEPT ![r] = Idle]
    /\ SetGitHubAppBroken(req[r].copy.id, req[r].copy.inst, FALSE)
    /\ UNCHANGED <<forge, cache, own, hook, faults>>

UseClient(r) ==
    /\ req[r].pc = "client"
    /\ ~(UseOf[r] = "push" /\ req[r].copy.broken)
    /\ req' = [req EXCEPT ![r] = Idle]
    /\ UNCHANGED <<row, forge, cache, own, hook, faults>>

MarkAppBroken(r) ==
    /\ req[r].pc = "refused"
    /\ req' = [req EXCEPT ![r] = Idle]
    /\ IF req[r].copy.broken
       THEN UNCHANGED row
       ELSE SetGitHubAppBroken(req[r].copy.id, req[r].copy.inst, TRUE)
    /\ UNCHANGED <<forge, cache, own, hook, faults>>

\* Either write of the flag is lost; the request goes on regardless.
FlagLost(r) ==
    /\ \/ req[r].pc = "client" /\ UseOf[r] = "push" /\ req[r].copy.broken
       \/ req[r].pc = "refused" /\ ~req[r].copy.broken
    /\ Fault
    /\ req' = [req EXCEPT ![r] = Idle]
    /\ UNCHANGED <<row, forge, cache, own, hook>>

\* handleInstallationEvent and the listing in SetInstallationBroken. A
\* delivery may be late, or be sent again by hand.
ListWorkspaces(d) ==
    /\ hook.pc = "idle"
    /\ d \in announced
    /\ row.inst = d.inst /\ row.broken /= d.broken
    /\ hook' = [pc |-> "listed", id |-> row.id, flag |-> d]
    /\ UNCHANGED <<row, forge, cache, req, own, faults>>

\* The write of SetInstallationBroken.
SetInstallationBroken ==
    /\ hook.pc = "listed"
    /\ hook' = NotListed
    /\ SetGitHubAppBroken(hook.id, hook.flag.inst, hook.flag.broken)
    /\ UNCHANGED <<forge, cache, req, own, faults>>

----------------------------------------------------------------------------
(* Owners. A request that fails or is refused is one that stops. *)

Goto(o, state) == own' = [own EXCEPT ![o].pc = state]

\* linkInstallation asks GitHub whose installation it is.
InstallationAccount(o) ==
    /\ own[o].pc = "idle"
    /\ "connect" \in KindsOf[o]
    /\ github[InstallationOf[o]] /= "gone"
    /\ own' = [own EXCEPT ![o].pc = "confirmed", ![o].kind = "connect"]
    /\ UNCHANGED <<row, forge, cache, req, hook, faults>>

\* ownerWorkspace, or linkInstallation's WorkspaceByPrefix, and the seat check.
OwnerReads(o, kind) ==
    /\ IF kind = "connect" THEN own[o].pc \in {"confirmed", "taken"}
                            ELSE own[o].pc = "idle" /\ kind \in KindsOf[o]
    /\ row.id /= NoRow
    /\ own' = [own EXCEPT ![o] = [pc |-> "read", kind |-> kind, copy |-> row]]
    /\ UNCHANGED <<row, forge, cache, req, hook, faults>>

\* linkInstallation found no workspace; connectNew makes one.
OwnerFindsNone(o) ==
    /\ own[o].pc = "confirmed"
    /\ row.id = NoRow
    /\ Goto(o, "absent")
    /\ UNCHANGED <<row, forge, cache, req, hook, faults>>

RegisterWorkspace(o) ==
    /\ own[o].pc = "absent"
    /\ IF row.id = NoRow
       THEN /\ row' = [id |-> o, inst |-> InstallationOf[o],
                     broken |-> FALSE, token |-> o]
            /\ own' = [own EXCEPT ![o] = Done]
       ELSE Goto(o, "taken") /\ UNCHANGED row
    /\ UNCHANGED <<forge, cache, req, hook, faults>>

\* The row an owner writes, from the row read.
Edited(o, kind, r) ==
    CASE kind = "rotate" -> [r EXCEPT !.token = o]
      [] kind = "connect" ->
             [r EXCEPT !.inst = InstallationOf[o], !.broken = FALSE]
      [] kind = "disconnect" ->
             [r EXCEPT !.inst = NoInstallation, !.broken = FALSE]
      [] OTHER -> r

\* UpdateWorkspace: every column, found by id alone.
UpdateWorkspace(o) ==
    /\ own[o].pc = "read" /\ own[o].kind /= "delete"
    /\ own' = [own EXCEPT ![o] = Done]
    /\ IF row.id = own[o].copy.id
       THEN row' = Edited(o, own[o].kind, own[o].copy) ELSE UNCHANGED row
    /\ UNCHANGED <<forge, cache, req, hook, faults>>

DeleteWorkspace(o) ==
    /\ own[o].pc = "read" /\ own[o].kind = "delete"
    /\ own' = [own EXCEPT ![o] = Done]
    /\ IF row.id = own[o].copy.id
       THEN row' = Empty ELSE UNCHANGED row
    /\ UNCHANGED <<forge, cache, req, hook, faults>>

----------------------------------------------------------------------------
(* The process: a token's hour is over; a restart empties the memory. *)

Expire(p, i) ==
    /\ cache[p][i] /= "none"
    /\ cache' = [cache EXCEPT ![p][i] = "none"]
    /\ UNCHANGED <<row, forge, req, own, hook, faults>>

ProcessRestarts(p) ==
    /\ Fault
    /\ cache' = [cache EXCEPT ![p] = [i \in Installation |-> "none"]]
    /\ req' = [r \in Request |-> IF ProcessOf[r] = p THEN Idle ELSE req[r]]
    /\ UNCHANGED <<row, forge, own, hook>>

RequestStep(r) ==
    \/ ReadWorkspace(r) \/ TokenCached(r) \/ TokenMissing(r)
    \/ TokenValid(r) \/ Invalidate(r)
    \/ Mint(r) \/ MintRefused(r) \/ MintFails(r) \/ PutToken(r)
    \/ Heal(r) \/ UseClient(r) \/ MarkAppBroken(r) \/ FlagLost(r)

OwnerStep(o) ==
    \/ InstallationAccount(o) \/ OwnerFindsNone(o)
    \/ \E kind \in Kind : OwnerReads(o, kind)
    \/ RegisterWorkspace(o) \/ UpdateWorkspace(o) \/ DeleteWorkspace(o)

Next ==
    \/ \E r \in Request : RequestStep(r)
    \/ \E o \in Owner : OwnerStep(o)
    \/ \E d \in Delivery : ListWorkspaces(d)
    \/ SetInstallationBroken
    \/ \E i \in Installation : Withhold(i) \/ Restore(i) \/ Uninstall(i)
    \/ \E p \in Process :
           ProcessRestarts(p) \/ \E i \in Installation : Expire(p, i)

Spec == Init /\ [][Next]_vars

\* Uploads keep coming, and each goes on: Go schedules it and every call has a
\* timeout. Claims, owners and webhooks may stop at any point.
LiveSpec ==
    /\ Spec
    /\ \A r \in Request : UseOf[r] = "push" => WF_vars(RequestStep(r))

----------------------------------------------------------------------------
TypeOK ==
    /\ row \in Row
    /\ row.inst = NoInstallation => ~row.broken
    /\ github \in [Installation -> {"live", "withheld", "gone"}]
    /\ announced \subseteq Delivery
    /\ cache \in [Process -> [Installation -> Token]]
    /\ req \in [Request -> RequestState]
    /\ own \in [Owner -> OwnerState]
    /\ hook \in HookState
    /\ faults \in 0..MaxFaults
    /\ withheld \in 0..MaxWithheld

\* The settings page asks for a reconnect only of an installation GitHub has
\* withheld or lost, which it then announced: a late refusal, a late webhook or
\* an owner's write from an old read never flags the installation that
\* replaced it.
BrokenWasRefused ==
    row.broken => [inst |-> row.inst, broken |-> TRUE] \in announced

\* Upkeep writes the flag and nothing else: the link, the row and the upload
\* token stay as the last owner's write left them, whatever a request or a
\* webhook had read before it (the comments at forges.go:280 and store.go:413).
OwnersHaveTheLastWord ==
    [][own' = own => [row' EXCEPT !.broken = FALSE] =
                     [row EXCEPT !.broken = FALSE]]_vars

\* A link to an installation that is gone does not stay unflagged, even if no
\* webhook says so: tokens that look valid by the clock are probed.
GoneIsNoticed ==
    \A i \in Installation :
        <>[](row.inst = i /\ github[i] = "gone") => []<>row.broken

\* A link that works again does not stay flagged, even if no webhook says so.
LiveIsHealed ==
    \A i \in Installation :
        <>[](row.inst = i /\ github[i] = "live") => []<>~row.broken
=============================================================================
