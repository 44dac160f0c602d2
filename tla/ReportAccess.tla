---------------------------- MODULE ReportAccess ----------------------------
(* internal/server: who may read a report (scope.go, dashboard.go, reportapi, *)
(* mcp.go), change a repo's or workspace's settings (repo_settings.go,        *)
(* workspace.go) and upload to a slug (uploadrepo.go, oidc.go), and how an    *)
(* MCP client is signed in (mcpauth.go).                                      *)
(*                                                                            *)
(* One repo slug on one forge; its row may go and come back under a new id.   *)
(* A request reads the store call by call, so what it decides by (the user,   *)
(* the row, the memberships) was true at different moments.                   *)
EXTENDS Integers, Sequences, FiniteSets, Functions

CONSTANTS
  Slot,         \* requests in flight at once
  User, Nobody, Workspace,
  Owning,       \* the prefixes of the slug, longest first (core.SlugPrefixes)
  RedirectsOf,  \* MCP client ids, each an encoded registration: its redirect URIs
  UriOf,        \* a redirect URI's [scheme, host, bare |-> no fragment, no user]
  Challenge,    \* PKCE challenges; the verifier of one is named like it
  Instances,    \* [calls |-> what is asked, atOnce |-> by how many requests,
                \*  changes |-> of the world at most, public |-> GOCOV_PUBLIC_REPORTS]
  SessionTTL, CodeTTL, TokenTTL,
  MaxTime, MaxFresh  \* bounds: the clock, secrets

ASSUME OwningAssumption == Owning \in Seq(Workspace)
ASSUME NobodyAssumption == Nobody \notin User
ASSUME WorkspaceAssumption == IsFiniteSet(Workspace)
ASSUME BoundsAssumption == {SessionTTL, CodeTTL, TokenTTL, MaxTime, MaxFresh} \subseteq Nat

VARIABLES
  instance,
  repo,       \* the row of the slug; id 0 when it is not tracked
  wsToken,    \* the workspaces there are, with their upload tokens
  seats,      \* workspace_members
  slugIs,     \* the forge's id of the repo that has the slug
  session,    \* by user, when the browser session expires
  codes, tokens,  \* authorization codes and MCP tokens, by number
  fresh,      \* the number of the next secret
  req,        \* by slot, the request in flight
  now, changes,
  \* What happened, for the properties:
  chance,     \* by slot, what was true at some moment of the request
  approved,   \* by code, the row it was stored with
  issued,     \* by token, its code and the exchange that got it
  refused,    \* codes refused to an exchange that had taken them
  dead        \* upload tokens a rotation answered for
world == <<instance, repo, wsToken, seats, slugIs, session, codes, tokens, fresh, now, changes>>
past == <<approved, issued, refused, dead>>
vars == <<world, req, chance, past>>

NoRepo == [id |-> 0, public |-> FALSE, disabled |-> FALSE, token |-> 0]
Idle == [pc |-> "idle"]
Done == {"served", "refused"}
Nothing == [x \in {} |-> x]
At(q, pc) == req[q].pc = pc
With(new, old) ==
  [x \in DOMAIN new \cup DOMAIN old |-> IF x \in DOMAIN new THEN new[x] ELSE old[x]]
Goes(q, changed) == req' = [req EXCEPT ![q] = With(changed, @)]
Ends(q, answer) == Goes(q, [pc |-> answer])

-----------------------------------------------------------------------------
(* Scope                                                                      *)

viewerWorkspaces(u) == {w \in DOMAIN wsToken : \E s \in seats : s.user = u /\ s.workspace = w}

\* Mutant: membership of any workspace at all.
allows_Anyone(spaces) == spaces # {}
\* repoScope.allows: any slash-boundary prefix may carry the membership.
allows(spaces) == \E i \in DOMAIN Owning : Owning[i] \in spaces

\* The most specific of the workspaces that own the repo, if any.
owningWorkspace(spaces) ==
  LET own == {i \in DOMAIN Owning : Owning[i] \in spaces}
  IN  {Owning[i] : i \in {j \in own : \A k \in own : j <= k}}

\* Serving on it also re-verifies an aged answer: Visibility.tla.
servesPublicly(row) == instance.public /\ row.public /\ ~ row.disabled

\* Only a repo the forge reports public has a "Public reports" switch to save.
publicReportsSwitch(row) == instance.public /\ row.public

roleIn(u, w) == {s.role : s \in {t \in seats : t.user = u /\ t.workspace = w}}

-----------------------------------------------------------------------------
(* What was true of a request: its credential lived, its user had a seat or   *)
(* was an owner above the slug, the repo was public, its key was the repo's.  *)

Who(c) ==
  IF c.kind \in {"page", "dashboard", "settings", "workspace", "approve"} THEN c.cred
  ELSE IF c.kind = "tool" /\ c.cred \in DOMAIN issued THEN issued[c.cred].user ELSE Nobody

Truths(c) ==
  LET above == IF c.kind = "workspace" THEN {c.workspace} ELSE Range(Owning)
      seat(role) == \E s \in seats : s.user = Who(c) /\ s.role \in role /\ s.workspace \in above
      truth ==
        [live |-> IF c.kind = "tool" THEN c.cred \in DOMAIN tokens /\ tokens[c.cred].expires > now
                  ELSE Who(c) # Nobody /\ session[Who(c)] > now,
         seat |-> seat({"owner", "member"}),
         owner |-> seat({"owner"}),
         public |-> servesPublicly(repo),
         key |-> /\ c.kind \in {"api", "upload"}
                 /\ \/ c.oidc = "slug"
                    \/ c.oidc = "id" /\ c.forgeId = slugIs
                    \/ repo.id # 0 /\ c.cred = repo.token
                    \/ \E w \in Range(Owning) \cap DOMAIN wsToken : c.cred = wsToken[w]]
  IN  {t \in DOMAIN truth : truth[t]}

\* An action leaves these alone, and every request in flight sees the outcome.
Leaves(same) ==
  /\ UNCHANGED same
  /\ chance' = [q \in Slot |-> IF req'[q] = Idle THEN {} ELSE chance[q] \cup Truths(req[q].call)']

-----------------------------------------------------------------------------
(* The steps of a request                                                     *)

FirstStep ==
  [page |-> "session", dashboard |-> "session", settings |-> "session", workspace |-> "session",
   approve |-> "session", tool |-> "token", api |-> "repo", upload |-> "credential", register |-> "client", exchange |-> "consume"]

\* What a request may ask: a kind of the above, with a key of no forge, signed
\* for a slug, for a repo's id, or for something else.
ASSUME CallAssumption ==
  \A i \in Instances : \A c \in i.calls :
    /\ c.kind \in DOMAIN FirstStep
    /\ c.kind \in {"api", "upload"} => c.oidc \in {"none", "slug", "id", "other"}

Arrive(q) ==
  /\ At(q, "idle") /\ Cardinality({p \in Slot : ~ At(p, "idle")}) < instance.atOnce
  /\ \E c \in instance.calls :
       /\ c.kind = "tool" => c.cred < fresh
       /\ c.kind = "exchange" => c.code < fresh
       /\ req' = [req EXCEPT ![q] =
                    [call |-> c, pc |-> FirstStep[c.kind], user |-> Nobody, row |-> NoRepo,
                     spaces |-> {}, at |-> 0]]
  /\ Leaves(<<world, past>>)

\* requireAuth: the user behind the cookie.  Report pages let a signed-out
\* browser through for the repo to decide, while the instance allows it.
RequireAuth(q) ==
  /\ At(q, "session")
  /\ LET c == req[q].call
         live == c.cred # Nobody /\ session[c.cred] > now
         next == [page |-> "repo", dashboard |-> "spaces", settings |-> "repo",
                  workspace |-> "workspace", approve |-> "code"]
     IN  /\ IF live THEN Goes(q, [user |-> c.cred, pc |-> next[c.kind]])
            ELSE IF c.kind = "page" /\ instance.public THEN Goes(q, [pc |-> "repo"])
            ELSE Ends(q, "refused")
         /\ session' = IF live \/ c.cred = Nobody THEN session ELSE [session EXCEPT ![c.cred] = 0]
  /\ Leaves(<<instance, repo, wsToken, seats, slugIs, codes, tokens, fresh, now, changes, past>>)

\* handleMCP: every message carries a token; the cookie is never consulted.
HandleMCP(q) ==
  /\ At(q, "token")
  /\ LET t == req[q].call.cred
         live == t \in DOMAIN tokens /\ tokens[t].expires > now
     IN  /\ IF live THEN Goes(q, [user |-> tokens[t].user, pc |-> "repo"]) ELSE Ends(q, "refused")
         /\ tokens' = IF live THEN tokens ELSE Restrict(tokens, DOMAIN tokens \ {t})
  /\ Leaves(<<instance, repo, wsToken, seats, slugIs, session, codes, fresh, now, changes, past>>)

\* RepoBySlug: a repo that is not tracked answers like one that may not be read.
LoadRepo(q) ==
  /\ At(q, "repo")
  /\ LET next == [page |-> "access", tool |-> "access", api |-> "grant", settings |-> "spaces"]
     IN  IF repo.id = 0 THEN Ends(q, "refused")
         ELSE Goes(q, [row |-> repo, pc |-> next[req[q].call.kind]])
  /\ Leaves(<<world, past>>)

\* authorizeReport, and the tool's member rule: memberships read now, the row
\* read before.
AuthorizeReport(q) ==
  /\ At(q, "access")
  /\ IF allows(viewerWorkspaces(req[q].user)) \/ servesPublicly(req[q].row)
     THEN Goes(q, [pc |-> "read"]) ELSE Ends(q, "refused")
  /\ Leaves(<<world, past>>)

\* reportCredentialGrants: what may upload to the repo may read it, another
\* repo's credential leaves the public rule to decide, and one that is none
\* is refused.
CredentialGrants(q) ==
  /\ At(q, "grant") /\ req[q].call.oidc = "none"
  /\ LET c == req[q].call
         row == req[q].row
         ofRepo == repo.id # 0 /\ repo.token = c.cred
         ofSpace == {w \in DOMAIN wsToken : wsToken[w] = c.cred}
         granted == IF ofRepo THEN repo.id = row.id ELSE allows(ofSpace)
     IN  IF c.cred # 0 /\ ~ ofRepo /\ ofSpace = {} THEN Ends(q, "refused")
         ELSE IF (c.cred # 0 /\ granted) \/ servesPublicly(row) THEN Goes(q, [pc |-> "read"])
         ELSE Ends(q, "refused")
  /\ Leaves(<<world, past>>)

\* oidcGrantsRead: the forge signed for the slug or, Bitbucket, for a repo's id
\* that the workspace's connection says the slug has.  Refused when the token
\* does not verify, the connection is gone or the limit is reached.
OIDCGrantsRead(q) ==
  /\ At(q, "grant") /\ req[q].call.oidc # "none"
  /\ \/ Ends(q, "refused")
     \/ /\ \/ req[q].call.oidc = "slug"
           \/ servesPublicly(req[q].row)
           \/ req[q].call.oidc = "id" /\ req[q].call.forgeId = slugIs
        /\ Goes(q, [pc |-> "read"])
  /\ Leaves(<<world, past>>)

\* loadReport: by the id of the row read before; a deleted repo's reports are
\* gone with it.
LoadReport(q) ==
  /\ At(q, "read")
  /\ Ends(q, IF repo.id = req[q].row.id THEN "served" ELSE "refused")
  /\ Leaves(<<world, past>>)

\* memberRepo: the user's own workspace that owns the repo; the dashboard
\* takes them all.
ListWorkspaces(q) ==
  /\ At(q, "spaces")
  /\ LET mine == viewerWorkspaces(req[q].user)
     IN  IF req[q].call.kind = "dashboard" THEN Goes(q, [spaces |-> mine, pc |-> "list"])
         ELSE IF ~ allows(mine) THEN Ends(q, "refused")
         ELSE Goes(q, [spaces |-> owningWorkspace(mine), pc |-> "seat"])
  /\ Leaves(<<world, past>>)

\* visibleRepos: the repos under the workspaces listed.
VisibleRepos(q) ==
  /\ At(q, "list")
  /\ Ends(q, IF repo.id # 0 /\ allows(req[q].spaces) THEN "served" ELSE "refused")
  /\ Leaves(<<world, past>>)

\* ownerRepo: members read, owners change.
OwnerRepo(q) ==
  /\ At(q, "seat")
  /\ \E w \in req[q].spaces :
       IF req[q].call.asks = "view" THEN Ends(q, "served")
       ELSE IF "owner" \in roleIn(req[q].user, w) THEN Goes(q, [pc |-> "write"])
       ELSE Ends(q, "refused")
  /\ Leaves(<<world, past>>)

\* memberWorkspace: the row, then the user's seat in it.
LoadWorkspace(q) ==
  /\ At(q, "workspace")
  /\ LET w == req[q].call.workspace
     IN  IF w \notin DOMAIN wsToken THEN Ends(q, "refused")
         ELSE Goes(q, [row |-> [token |-> wsToken[w]], pc |-> "member"])
  /\ Leaves(<<world, past>>)

OwnerWorkspace(q) ==
  /\ At(q, "member")
  /\ LET role == roleIn(req[q].user, req[q].call.workspace)
     IN  IF role = {} THEN Ends(q, "refused")
         ELSE IF req[q].call.asks = "view" THEN Ends(q, "served")
         ELSE IF "owner" \in role THEN Goes(q, [pc |-> "write"])
         ELSE Ends(q, "refused")
  /\ Leaves(<<world, past>>)

\* UpdateWorkspace too writes the row as it was read.
SavedWorkspace(q, token) ==
  LET w == req[q].call.workspace
  IN  IF w \in DOMAIN wsToken THEN wsToken' = [wsToken EXCEPT ![w] = token] /\ Ends(q, "served")
      ELSE Ends(q, "refused") /\ UNCHANGED wsToken

SaveWorkspace(q) ==
  /\ At(q, "write") /\ req[q].call.kind = "workspace" /\ req[q].call.asks = "save"
  /\ SavedWorkspace(q, req[q].row.token)
  /\ Leaves(<<instance, repo, seats, slugIs, session, codes, tokens, fresh, now, changes, past>>)

RotateWorkspace(q) ==
  /\ At(q, "write") /\ req[q].call.kind = "workspace" /\ req[q].call.asks = "rotate"
  /\ fresh <= MaxFresh /\ fresh' = fresh + 1
  /\ SavedWorkspace(q, fresh)
  /\ dead' = dead \cup {wsToken[w] : w \in DOMAIN wsToken \cap {req[q].call.workspace}}
  /\ Leaves(<<instance, repo, seats, slugIs, session, codes, tokens, now, changes,
              approved, issued, refused>>)

\* The workspace with its seats, and the repos under its prefix.
Drops(w) ==
  /\ w \in DOMAIN wsToken
  /\ wsToken' = Restrict(wsToken, DOMAIN wsToken \ {w})
  /\ seats' = {s \in seats : s.workspace # w}
  /\ repo' = IF allows({w}) THEN NoRepo ELSE repo

DropWorkspace(q) ==
  /\ At(q, "write") /\ req[q].call.kind = "workspace" /\ req[q].call.asks = "delete"
  /\ \/ Drops(req[q].call.workspace) /\ Ends(q, "served")
     \/ req[q].call.workspace \notin DOMAIN wsToken /\ Ends(q, "refused") /\ UNCHANGED <<wsToken, seats, repo>>
  /\ Leaves(<<instance, slugIs, session, codes, tokens, fresh, now, changes, past>>)

\* UpdateRepo writes the row as it was read, but never the visibility.
Saved(q, row) == repo' = [row EXCEPT !.public = repo.public] /\ Ends(q, "served")

SaveSettings(q) ==
  /\ At(q, "write") /\ req[q].call.kind = "settings" /\ req[q].call.asks = "save"
  /\ \E d \in BOOLEAN :
       LET row == req[q].row
       IN  IF repo.id # row.id THEN Ends(q, "refused") /\ UNCHANGED repo
           ELSE Saved(q, [row EXCEPT !.disabled = IF publicReportsSwitch(row) THEN d ELSE @])
  /\ Leaves(<<instance, wsToken, seats, slugIs, session, codes, tokens, fresh, now, changes, past>>)

RotateToken(q) ==
  /\ At(q, "write") /\ req[q].call.kind = "settings" /\ req[q].call.asks = "rotate"
  /\ fresh <= MaxFresh /\ fresh' = fresh + 1
  /\ IF repo.id # req[q].row.id THEN Ends(q, "refused") /\ UNCHANGED <<repo, dead>>
     ELSE Saved(q, [req[q].row EXCEPT !.token = fresh]) /\ dead' = dead \cup {repo.token}
  /\ Leaves(<<instance, wsToken, seats, slugIs, session, codes, tokens, now, changes,
                 approved, issued, refused>>)

RevealToken(q) ==
  /\ At(q, "write") /\ req[q].call.asks = "reveal"
  /\ Ends(q, "served")
  /\ Leaves(<<world, past>>)

DeleteRepo(q) ==
  /\ At(q, "write") /\ req[q].call.kind = "settings" /\ req[q].call.asks = "delete"
  /\ IF repo.id # req[q].row.id THEN Ends(q, "refused") /\ UNCHANGED repo
     ELSE repo' = NoRepo /\ Ends(q, "served")
  /\ Leaves(<<instance, wsToken, seats, slugIs, session, codes, tokens, fresh, now, changes, past>>)

-----------------------------------------------------------------------------
(* What an upload is for                                                      *)

\* lookupUploadToken: a repo's token, or a workspace's, whose slug it must be.
LookupUploadToken(q) ==
  /\ At(q, "credential") /\ req[q].call.oidc = "none"
  /\ LET key == req[q].call.cred
         ofSpace == {w \in DOMAIN wsToken : wsToken[w] = key}
     IN  IF repo.id # 0 /\ repo.token = key THEN Ends(q, "served")
         ELSE IF allows(ofSpace) THEN Goes(q, [pc |-> "target"])
         ELSE Ends(q, "refused")
  /\ Leaves(<<world, past>>)

\* authOIDC, verifyOIDC: the forge's signature, issuer and audience.
AuthOIDC(q) ==
  /\ At(q, "credential") /\ req[q].call.oidc # "none"
  /\ \/ Ends(q, "refused")
     \/ req[q].call.oidc # "other" /\ Goes(q, [pc |-> "target"])
  /\ Leaves(<<world, past>>)

\* RepoBySlug: a slug not tracked is registered, once what is checked holds.
ResolveUploadRepo(q) ==
  /\ At(q, "target")
  /\ IF req[q].call.oidc # "none" THEN Goes(q, [row |-> repo, pc |-> "owner"])
     ELSE IF repo.id = 0 THEN Goes(q, [pc |-> "register"])
     ELSE Ends(q, "served")
  /\ Leaves(<<world, past>>)

Resolved(q) == IF req[q].row.id = 0 THEN Goes(q, [pc |-> "register"]) ELSE Ends(q, "served")

\* oidcLookup: the slug's workspace, connected; a Bitbucket token is one its
\* own pipelines minted.
OIDCLookup(q) ==
  /\ At(q, "owner")
  /\ \/ Ends(q, "refused")
     \/ \E w \in owningWorkspace(DOMAIN wsToken) :
          IF req[q].call.oidc = "slug" THEN Resolved(q)
          ELSE req[q].call.issuer = w /\ Goes(q, [pc |-> "identify"])
  /\ Leaves(<<world, past>>)

\* oidcResolveBitbucket: the id the forge has for the slug must be the signed
\* one.  Refused too under the rate limit or when the forge does not answer.
GetRepoID(q) ==
  /\ At(q, "identify")
  /\ \/ Ends(q, "refused")
     \/ slugIs = req[q].call.forgeId /\ Resolved(q)
  /\ Leaves(<<world, past>>)

NewRepo == [NoRepo EXCEPT !.id = fresh, !.token = fresh]

\* RegisterRepo: refused when the forge has no such repo; when another upload
\* has won the race, its row.
RegisterRepo(q) ==
  /\ At(q, "register")
  /\ \/ Ends(q, "refused") /\ UNCHANGED <<repo, fresh>>
     \/ /\ Ends(q, "served")
        /\ IF repo.id # 0 THEN UNCHANGED <<repo, fresh>>
           ELSE fresh <= MaxFresh /\ fresh' = fresh + 1 /\ repo' = NewRepo
  /\ Leaves(<<instance, wsToken, seats, slugIs, session, codes, tokens, now, changes, past>>)

-----------------------------------------------------------------------------
(* Signing an MCP client in                                                   *)

validMCPRedirectURI(u) ==
  LET uri == UriOf[u]
  IN  /\ uri.bare
      /\ uri.scheme = "https" => uri.host # ""
      /\ uri.scheme = "http" => uri.host \in {"localhost", "127.0.0.1", "::1"}
      /\ uri.scheme \notin {"", "javascript", "data", "file", "vbscript", "blob", "about",
                           "ftp", "ws", "wss"}

\* Whoever sends an id: it must hold what a registration may.
validateMCPClient(id) ==
  /\ Cardinality(RedirectsOf[id]) \in 1 .. 4
  /\ \A u \in RedirectsOf[id] : validMCPRedirectURI(u)
parseMCPClient(id) == id \in DOMAIN RedirectsOf /\ validateMCPClient(id)

\* The id is the registration encoded: the server keeps nothing.
HandleMCPRegister(q) ==
  /\ At(q, "client")
  /\ Ends(q, IF validateMCPClient(req[q].call.client) THEN "served" ELSE "refused")
  /\ Leaves(<<world, past>>)

\* parseMCPAuthRequest: the redirect URI is one of the client's (left out, the
\* only one), under PKCE and for this server.
redirectOf(ask) ==
  IF ask.redirect = "" /\ Cardinality(RedirectsOf[ask.client]) = 1
  THEN CHOOSE r \in RedirectsOf[ask.client] : TRUE ELSE ask.redirect
validRequest(ask) ==
  /\ parseMCPClient(ask.client) /\ redirectOf(ask) \in RedirectsOf[ask.client]
  /\ ask.challenge \in Challenge /\ ask.ours

Approve(q) ==
  /\ At(q, "code")
  /\ fresh <= MaxFresh
  /\ IF ~ validRequest(req[q].call) THEN Ends(q, "refused") /\ UNCHANGED <<codes, fresh, approved>>
     ELSE LET row == [user |-> req[q].user, client |-> req[q].call.client, redirect |-> redirectOf(req[q].call),
                      challenge |-> req[q].call.challenge, expires |-> now + CodeTTL]
          IN  /\ codes' = With([k \in {fresh} |-> row], codes)
              /\ approved' = With([k \in {fresh} |-> row], approved)
              /\ fresh' = fresh + 1
              /\ Ends(q, "served")
  /\ Leaves(<<instance, repo, wsToken, seats, slugIs, session, tokens, now, changes, issued, refused, dead>>)

\* What the token endpoint holds against the code it has taken: a client or
\* redirect URI that is left out agrees, a verifier does not.
\* Mutant: the redirect URI is not compared.
matches_AnyRedirect(ask, row) ==
  ask.client \in {"", row.client} /\ ask.verifier = row.challenge /\ ask.ours
matches(ask, row) ==
  /\ ask.client \in {"", row.client} /\ ask.redirect \in {"", row.redirect}
  /\ ask.verifier = row.challenge
  /\ ask.ours

\* handleMCPToken: the code is spent whether or not it matches.
ConsumeCode(q) ==
  /\ At(q, "consume")
  /\ LET k == req[q].call.code
         live == k \in DOMAIN codes /\ codes[k].expires > now
         good == live /\ matches(req[q].call, codes[k])
     IN  /\ codes' = Restrict(codes, DOMAIN codes \ {k})
         /\ refused' = IF live /\ ~ good THEN refused \cup {k} ELSE refused
         /\ IF good THEN Goes(q, [pc |-> "issue", user |-> codes[k].user, at |-> now])
            ELSE Ends(q, "refused")
  /\ Leaves(<<instance, repo, wsToken, seats, slugIs, session, tokens, fresh, now, changes,
                 approved, issued, dead>>)

IssueToken(q) ==
  /\ At(q, "issue")
  /\ fresh <= MaxFresh /\ fresh' = fresh + 1
  /\ tokens' = With([t \in {fresh} |-> [user |-> req[q].user, expires |-> now + TokenTTL]], tokens)
  /\ issued' = With([t \in {fresh} |-> req[q]], issued)
  /\ Ends(q, "served")
  /\ Leaves(<<instance, repo, wsToken, seats, slugIs, session, codes, now, changes,
                 approved, refused, dead>>)

-----------------------------------------------------------------------------
(* The rest of the world, and failures                                        *)

\* A store call fails, or the process or its client goes away.
RequestFails(q) ==
  /\ req[q].pc \notin Done \cup {"idle"}
  /\ Ends(q, "refused")
  /\ Leaves(<<world, past>>)

RequestEnds(q) ==
  /\ req[q].pc \in Done
  /\ req' = [req EXCEPT ![q] = Idle]
  /\ Leaves(<<world, past>>)

Changes == changes < instance.changes /\ changes' = changes + 1

\* SetRepoVisibility: what the forge answered of the repo.
SetRepoVisibility ==
  /\ Changes /\ repo.id # 0
  /\ repo' = [repo EXCEPT !.public = ~ @]
  /\ Leaves(<<instance, wsToken, seats, slugIs, session, codes, tokens, fresh, now, req, past>>)

\* Another upload registers the slug, its visibility not asked yet.
CreateRepo ==
  /\ Changes /\ repo.id = 0 /\ allows(DOMAIN wsToken)
  /\ fresh <= MaxFresh /\ fresh' = fresh + 1
  /\ repo' = NewRepo
  /\ Leaves(<<instance, wsToken, seats, slugIs, session, codes, tokens, now, req, past>>)

\* A sign-in: a new session, and the user's seats as the forge reports them.
SignIn(u) ==
  /\ Changes
  /\ session' = [session EXCEPT ![u] = now + SessionTTL]
  /\ \E roles \in [DOMAIN wsToken -> {"owner", "member", "none"}] :
       /\ Cardinality({w \in DOMAIN wsToken : roles[w] # "none"}) <= 1
       /\ seats' = {s \in seats : s.user # u}
                     \cup {[user |-> u, workspace |-> w, role |-> roles[w]] :
                             w \in {v \in DOMAIN wsToken : roles[v] # "none"}}
  /\ Leaves(<<instance, repo, wsToken, slugIs, codes, tokens, fresh, now, req, past>>)

SignOut(u) ==
  /\ Changes /\ session[u] # 0
  /\ session' = [session EXCEPT ![u] = 0]
  /\ Leaves(<<instance, repo, wsToken, seats, slugIs, codes, tokens, fresh, now, req, past>>)

DeleteWorkspace(w) ==
  /\ Changes /\ Drops(w)
  /\ Leaves(<<instance, slugIs, session, codes, tokens, fresh, now, req, past>>)

RotateWorkspaceToken(w) ==
  /\ Changes /\ w \in DOMAIN wsToken
  /\ fresh <= MaxFresh /\ fresh' = fresh + 1
  /\ wsToken' = [wsToken EXCEPT ![w] = fresh]
  /\ Leaves(<<instance, repo, seats, slugIs, session, codes, tokens, now, req, past>>)

\* On the forge, another repo takes the slug.
SlugMoves ==
  /\ Changes
  /\ slugIs' = 3 - slugIs
  /\ Leaves(<<instance, repo, wsToken, seats, session, codes, tokens, fresh, now, req, past>>)

Tick ==
  /\ now < MaxTime /\ now' = now + 1
  /\ Leaves(<<instance, repo, wsToken, seats, slugIs, session, codes, tokens, fresh, changes, req, past>>)

-----------------------------------------------------------------------------

Init ==
  /\ instance \in Instances
  /\ repo = [id |-> 1, public |-> FALSE, disabled |-> FALSE, token |-> 1]
  /\ wsToken = CHOOSE f \in [Workspace -> 2 .. 1 + Cardinality(Workspace)] : IsInjective(f)
  /\ seats = {} /\ slugIs = 1
  /\ session = [u \in User |-> 0]
  /\ codes = Nothing /\ tokens = Nothing
  /\ fresh = 2 + Cardinality(Workspace)
  /\ req = [q \in Slot |-> Idle]
  /\ now = 1 /\ changes = 0
  /\ chance = [q \in Slot |-> {}]
  /\ approved = Nothing /\ issued = Nothing /\ refused = {} /\ dead = {}

Serve(q) ==
  \/ Arrive(q) \/ RequireAuth(q) \/ HandleMCP(q) \/ LoadRepo(q)
  \/ AuthorizeReport(q) \/ CredentialGrants(q) \/ OIDCGrantsRead(q) \/ LoadReport(q)
  \/ ListWorkspaces(q) \/ VisibleRepos(q) \/ OwnerRepo(q)
  \/ SaveSettings(q) \/ RotateToken(q) \/ RevealToken(q) \/ DeleteRepo(q)
  \/ LoadWorkspace(q) \/ OwnerWorkspace(q) \/ SaveWorkspace(q) \/ RotateWorkspace(q)
  \/ DropWorkspace(q)
  \/ LookupUploadToken(q) \/ AuthOIDC(q) \/ ResolveUploadRepo(q)
  \/ OIDCLookup(q) \/ GetRepoID(q) \/ RegisterRepo(q)
  \/ HandleMCPRegister(q) \/ Approve(q) \/ ConsumeCode(q) \/ IssueToken(q)
  \/ RequestFails(q) \/ RequestEnds(q)

Next ==
  \/ \E q \in Slot : Serve(q)
  \/ SetRepoVisibility \/ CreateRepo \/ SlugMoves \/ Tick
  \/ \E u \in User : SignIn(u) \/ SignOut(u)
  \/ \E w \in Workspace : DeleteWorkspace(w) \/ RotateWorkspaceToken(w)

Spec == Init /\ [][Next]_vars

-----------------------------------------------------------------------------

\* Whatever changes while a request reads the store call by call, it is served
\* only if its reader could read at some moment of it: a live session or token
\* and a seat above the repo (an owner's, to change it), a key of the repo, or
\* a public report.  A visitor is never served by a stale row or seat alone.
ServedWasEntitled ==
  \A q \in Slot :
    LET c == req[q].call
        was(t) == t \subseteq chance[q]
    IN  At(q, "served") =>
          /\ c.kind \in {"page", "tool"} => was({"live", "seat"}) \/ was({"public"})
          /\ c.kind = "api" => was({"key"}) \/ was({"public"})
          /\ c.kind = "upload" => was({"key"})
          /\ c.kind = "dashboard" => was({"live", "seat"})
          /\ c.kind \in {"settings", "workspace"} =>
                was({"live", IF c.asks = "view" THEN "seat" ELSE "owner"})

\* A code gets one answer: one token, for the user who approved it, to an
\* exchange in time that showed its client, redirect URI and verifier - or,
\* taken by one that did not, none ever.  Exchanges of one code may race.
OneAnswerPerCode ==
  \A t \in DOMAIN issued :
    LET x == issued[t]
        code == x.call.code
        row == approved[code]
    IN  /\ \A s \in DOMAIN issued : issued[s].call.code = code => s = t
        /\ code \notin refused
        /\ x.user = row.user /\ x.at < row.expires
        /\ x.call.client \in {"", row.client} /\ x.call.redirect \in {"", row.redirect}
        /\ x.call.verifier = row.challenge

\* repo_settings.go, handleAPIRepoRotateToken: "the old one is dead by then".  Does
\* NOT hold (README, "What does not hold"), so no run lists it.
RotatedTokenStaysDead == repo.token \notin dead /\ Range(wsToken) \cap dead = {}
=============================================================================
