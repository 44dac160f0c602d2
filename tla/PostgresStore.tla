--------------------------- MODULE PostgresStore ---------------------------
(* internal/store/postgres: the store the server runs on, as its tables and   *)
(* statements.  It is the specification the in-memory store is held to: what  *)
(* the repository's tests find out with that store they find out about this   *)
(* one only if every call answers alike.                                      *)
(*                                                                            *)
(* A call is a record of an operation and its arguments; it is one step, for  *)
(* each is one statement or one transaction.  Names, hashes and tokens of new *)
(* rows are as the callers make them: random ones are never used twice.       *)
EXTENDS StoreData

CONSTANT Calls   \* the calls made, each [op |-> its name, ...its arguments]

VARIABLES
  db,     \* the tables: by id, by hash, or sets of rows without an id, and
          \*   seq, the last id of each sequence
  now,    \* the clock
  call,   \* the last call
  ret     \* its answer
vars == <<db, now, call, ret>>

-----------------------------------------------------------------------------
(* Statements                                                                 *)

Answers(c, answer, after) == call' = c /\ ret' = answer /\ db' = after /\ UNCHANGED now

\* An INSERT takes the next id of its table's sequence.
Insert(t, row) ==
  [db EXCEPT !.seq[t] = @ + 1, ![t] = With(@, db.seq[t] + 1, row)]
Inserts(c, t, row) == Answers(c, Created(db.seq[t] + 1), Insert(t, row))

\* An INSERT that fails, or that ON CONFLICT turns into an update, may leave a
\* gap in the ids: callers only rely on their order.
Gap(t, d) == {d, [d EXCEPT !.seq[t] = @ + 1]}
Refuses(c, t) == \E d \in Gap(t, db) : Answers(c, Failed, d)

\* affected: an UPDATE or DELETE that touched no row is ErrNotFound.
Affects(c, touched, after) ==
  Answers(c, IF touched THEN Ok ELSE NotFound, IF touched THEN after ELSE db)

\* ON DELETE CASCADE from repos: uploads with their files, reports, claims.
DropRepos(d, ids) ==
  LET gone == {u \in DOMAIN d.uploads : d.uploads[u].repo \in ids}
  IN  [d EXCEPT !.repos = Without(@, ids),
                !.uploads = Without(@, gone),
                !.files = {f \in @ : f.upload \notin gone},
                !.reports = Without(@, {i \in DOMAIN @ : @[i].repo \in ids}),
                !.claims = {k \in @ : k.repo \notin ids}]

\* ON DELETE CASCADE from users.
DropUser(d, id) ==
  LET theirs(t) == {h \in DOMAIN t : t[h].user = id}
  IN  [d EXCEPT !.users = Without(@, {id}),
                !.members = {m \in @ : m.user # id},
                !.sessions = Without(@, theirs(@)),
                !.codes = Without(@, theirs(@)),
                !.tokens = Without(@, theirs(@))]

-----------------------------------------------------------------------------
(* Repos                                                                      *)

CreateRepo(c) ==
  /\ c.op = "CreateRepo"
  /\ IF \E r \in Rows(db.repos) : \/ r.forge = c.row.forge /\ r.slug = c.row.slug
                                  \/ r.token = c.row.token
     THEN Refuses(c, "repos")
     ELSE Inserts(c, "repos", Over(c.row, [checked |-> Never]))

UpdateRepo(c) ==
  /\ c.op = "UpdateRepo"
  /\ Affects(c, c.id \in DOMAIN db.repos,
             [db EXCEPT !.repos[c.id] =
                Over([c.row EXCEPT !.visibility = db.repos[c.id].visibility],
                     [checked |-> db.repos[c.id].checked])])

SetRepoVisibility(c) ==
  /\ c.op = "SetRepoVisibility"
  /\ LET fresher == /\ c.id \in DOMAIN db.repos
                    /\ db.repos[c.id].checked \in {Never} \cup 0 .. c.at - 1
     IN  Answers(c, IF c.id \in DOMAIN db.repos THEN Ok ELSE NotFound,
                 IF fresher THEN [db EXCEPT !.repos[c.id].visibility = c.visibility,
                                            !.repos[c.id].checked = c.at]
                 ELSE db)

DeleteRepo(c) ==
  /\ c.op = "DeleteRepo"
  /\ Affects(c, c.id \in DOMAIN db.repos, DropRepos(db, {c.id}))

\* prefixRange: the slugs from "prefix/" up to, not including, "prefix0".
underPrefix(r, forge, prefix) ==
  /\ r.forge = forge
  /\ ~ Below(r.slug, Append(prefix, Slash)) /\ Below(r.slug, Append(prefix, Slash + 1))

-----------------------------------------------------------------------------
(* Workspaces                                                                 *)

\* sealToken and openToken, under a key that stays the same.
sealToken(token) == IF token = <<>> THEN <<>> ELSE <<"sealed">> \o token
openToken(sealed) == IF sealed = <<>> THEN <<>> ELSE Tail(sealed)
Sealed(grant) == [grant EXCEPT !.refresh = sealToken(@)]

\* The row of a workspace: a grant lands in its forge's columns.
createWorkspace(row, grant) ==
  Over(row, [bitbucket |-> Sealed(IF row.forge = "bitbucket" THEN grant ELSE EmptyGrant),
             gitlab |-> Sealed(IF row.forge = "gitlab" THEN grant ELSE EmptyGrant)])

WorkspaceTaken(row) ==
  \E w \in Rows(db.workspaces) :
    (w.forge = row.forge /\ w.prefix = row.prefix) \/ w.token = row.token

CreateWorkspace(c) ==
  /\ c.op = "CreateWorkspace"
  /\ IF WorkspaceTaken(c.row) THEN Refuses(c, "workspaces")
     ELSE Inserts(c, "workspaces", createWorkspace(c.row, c.grant))

\* The workspace and its owner's seat in one transaction.
RegisterWorkspace(c) ==
  /\ c.op = "RegisterWorkspace"
  /\ IF WorkspaceTaken(c.row) \/ c.user \notin DOMAIN db.users THEN Refuses(c, "workspaces")
     ELSE LET id == db.seq.workspaces + 1
          IN  Answers(c, Created(id),
                [Insert("workspaces", createWorkspace(c.row, c.grant)) EXCEPT
                   !.members = @ \cup {[workspace |-> id, user |-> c.user, role |-> "owner"]}])

UpdateWorkspace(c) ==
  /\ c.op = "UpdateWorkspace"
  /\ Affects(c, c.id \in DOMAIN db.workspaces,
             [db EXCEPT !.workspaces[c.id] = Over(c.row, @)])

SetWorkspaceGrant(c) ==
  /\ c.op = "SetWorkspaceGrant"
  /\ Affects(c, /\ c.forge \in GrantForges /\ c.id \in DOMAIN db.workspaces
                /\ db.workspaces[c.id].forge = c.forge,
             [db EXCEPT !.workspaces[c.id][c.forge] = Sealed(c.grant)])

SetGitHubAppBroken(c) ==
  /\ c.op = "SetGitHubAppBroken"
  /\ Answers(c, Ok,
       IF /\ c.id \in DOMAIN db.workspaces /\ db.workspaces[c.id].forge = "github"
          /\ db.workspaces[c.id].installation = c.installation /\ c.installation # 0
       THEN [db EXCEPT !.workspaces[c.id].appBroken = c.broken] ELSE db)

MarkWorkspaceGrantBroken(c) ==
  /\ c.op = "MarkWorkspaceGrantBroken"
  /\ IF c.forge \notin GrantForges THEN Answers(c, NotFound, db)
     ELSE LET held == db.workspaces[c.id][c.forge]
          IN  Answers(c, Ok,
                IF /\ c.id \in DOMAIN db.workspaces /\ db.workspaces[c.id].forge = c.forge
                   /\ held.account = c.account /\ held.account # "" /\ held.refresh # <<>>
                THEN [db EXCEPT !.workspaces[c.id][c.forge].broken = TRUE] ELSE db)

DeleteWorkspace(c) ==
  /\ c.op = "DeleteWorkspace"
  /\ IF c.id \notin DOMAIN db.workspaces THEN Answers(c, NotFound, db)
     ELSE LET w == db.workspaces[c.id]
              under == {r.id : r \in {s \in Rows(db.repos) : underPrefix(s, w.forge, w.prefix)}}
          IN  Answers(c, Ok,
                [DropRepos(db, under) EXCEPT
                   !.workspaces = Without(@, {c.id}),
                   !.members = {m \in @ : m.workspace # c.id}])

-----------------------------------------------------------------------------
(* Accounts                                                                   *)

UpsertUser(c) ==
  /\ c.op = "UpsertUser"
  /\ LET found == {i \in DOMAIN db.users :
                     db.users[i].forge = c.row.forge /\ db.users[i].uuid = c.row.uuid}
     IN  IF found = {} THEN Inserts(c, "users", Over(c.row, [created |-> now, login |-> now]))
         ELSE \E i \in found, d \in Gap("users", db) :
                Answers(c, Created(i), [d EXCEPT !.users[i].profile = c.row.profile,
                                                 !.users[i].login = now])

DeleteUser(c) ==
  /\ c.op = "DeleteUser"
  /\ Affects(c, c.id \in DOMAIN db.users, DropUser(db, c.id))

\* The rows of the user outside the set go, the others are added or take the
\* set's role; a workspace or role the schema refuses undoes it all.
SetUserMemberships(c) ==
  /\ c.op = "SetUserMemberships"
  /\ LET seats == {[workspace |-> s.workspace, user |-> c.user, role |-> s.role] : s \in c.seats}
     IN  IF \E s \in seats : s.workspace \notin DOMAIN db.workspaces \/ s.role \notin Roles
         THEN Answers(c, Failed, db)
         ELSE Answers(c, Ok, [db EXCEPT !.members = {m \in @ : m.user # c.user} \cup seats])

\* Sessions, authorization codes and MCP tokens: a hash, its user, an expiry.
Keeps(c, t) ==
  IF c.row.user \notin DOMAIN db.users \/ c.hash \in DOMAIN db[t] THEN Answers(c, Failed, db)
  ELSE Answers(c, Ok, [db EXCEPT ![t] = With(@, c.hash, c.row)])

CreateSession(c) == c.op = "CreateSession" /\ Keeps(c, "sessions")
CreateOAuthCode(c) == c.op = "CreateOAuthCode" /\ Keeps(c, "codes")
CreateMCPToken(c) == c.op = "CreateMCPToken" /\ Keeps(c, "tokens")

\* The user behind a hash that has not expired; an expired row goes when its
\* hash is presented.
Resolves(c, t) ==
  LET live == {h \in DOMAIN db[t] : h = c.hash /\ db[t][h].expires > now}
      dead == {h \in DOMAIN db[t] : h = c.hash /\ db[t][h].expires <= now}
  IN  IF live # {} THEN Answers(c, <<"user", db[t][c.hash].user>>, db)
      ELSE Answers(c, NotFound, [db EXCEPT ![t] = Without(@, dead)])

UserBySession(c) == c.op = "UserBySession" /\ Resolves(c, "sessions")
UserByMCPToken(c) == c.op = "UserByMCPToken" /\ Resolves(c, "tokens")

DeleteSession(c) ==
  /\ c.op = "DeleteSession"
  /\ Affects(c, c.hash \in DOMAIN db.sessions, [db EXCEPT !.sessions = Without(@, {c.hash})])

ConsumeOAuthCode(c) ==
  /\ c.op = "ConsumeOAuthCode"
  /\ LET got == {db.codes[h] : h \in {c.hash} \cap DOMAIN db.codes}
     IN  Answers(c, IF \E k \in got : k.expires > now THEN <<"code", got>> ELSE NotFound,
                 [db EXCEPT !.codes = Without(@, {c.hash})])

-----------------------------------------------------------------------------
(* Uploads and reports                                                        *)

CreateUpload(c) ==
  /\ c.op = "CreateUpload"
  /\ IF c.row.repo \notin DOMAIN db.repos THEN Refuses(c, "uploads")
     ELSE LET id == db.seq.uploads + 1
          IN  Answers(c, Created(id),
                [Insert("uploads", c.row) EXCEPT
                   !.files = @ \cup {Over([upload |-> id], f) : f \in c.files}])

ReportsOf(repo, commit) ==
  {i \in DOMAIN db.reports : db.reports[i].repo = repo /\ db.reports[i].commit = commit}

\* upsertCommitReport: the columns of the lease and the stamp of the first
\* upload survive the conflict update.
UpsertCommitReport(c) ==
  /\ c.op = "UpsertCommitReport"
  /\ LET found == ReportsOf(c.row.repo, c.row.commit)
         fresh == [created |-> now, updated |-> now, lease |-> Never, pushed |-> 0]
     IN  IF c.row.repo \notin DOMAIN db.repos THEN Refuses(c, "reports")
         ELSE IF found = {} THEN Inserts(c, "reports", Over(c.row, fresh))
         ELSE \E i \in found, d \in Gap("reports", db) :
                Answers(c, Created(i), [d EXCEPT !.reports[i] = Over(c.row, [@ EXCEPT !.updated = now])])

ClaimPush(c) ==
  /\ c.op = "ClaimPush"
  /\ LET cur == {i \in ReportsOf(c.repo, c.commit) : db.reports[i].pushed <= c.version}
         free == {i \in cur : db.reports[i].lease <= now}
     IN  IF cur = {} THEN Answers(c, <<"superseded">>, db)
         ELSE IF free = {} THEN Answers(c, <<"queued">>, db)
         ELSE \E i \in free : Answers(c, <<"claimed", now + c.lease>>,
                                      [db EXCEPT !.reports[i].lease = now + c.lease])

FinishPush(c) ==
  /\ c.op = "FinishPush"
  /\ LET cur == ReportsOf(c.repo, c.commit)
         mine == \E i \in cur : db.reports[i].lease = c.lease
         newer == \E u \in Rows(db.uploads) :
                    u.repo = c.repo /\ u.commit = c.commit /\ u.id > c.version
     IN  IF cur = {} THEN Answers(c, <<"again", FALSE>>, db)
         ELSE \E i \in cur :
                Answers(c, <<"again", mine /\ newer>>,
                  [db EXCEPT !.reports[i].pushed = IF c.pushed THEN Max({@, c.version}) ELSE @,
                             !.reports[i].lease = IF mine THEN Never ELSE @])

ClaimTokenlessUpload(c) ==
  /\ c.op = "ClaimTokenlessUpload"
  /\ IF c.key.repo \notin DOMAIN db.repos THEN Answers(c, Failed, db)
     ELSE Answers(c, <<"won", c.key \notin db.claims>>, [db EXCEPT !.claims = @ \cup {c.key}])

ReleaseTokenlessUpload(c) ==
  /\ c.op = "ReleaseTokenlessUpload"
  /\ Answers(c, Ok, [db EXCEPT !.claims = @ \ {c.key}])

-----------------------------------------------------------------------------
(* Queries.  A single row is a sequence of at most one.                       *)

Only(rows) == SetToSeq(rows)
\* limitArg: a limit that is not positive binds NULL, which is none.
Limit(s, n) == IF n <= 0 THEN s ELSE SubSeq(s, 1, Min({n, Len(s)}))
Offset(s, n) == SubSeq(s, n + 1, Len(s))
Repos == Rows(db.repos)

RepoByID(id) == Only({r \in Repos : r.id = id})
RepoBySlug(forge, slug) == Only({r \in Repos : r.forge = forge /\ r.slug = slug})
RepoByToken(token) == Only({r \in Repos : r.token = token})
ListRepos == Sorted(Rows(db.repos), ByForgeSlug)
ListWorkspaceRepos(forge, prefix) ==
  Sorted({r \in Repos : underPrefix(r, forge, prefix)}, ByForgeSlug)

PublicRepoRefs(limit) ==
  LET public == Sorted({r \in Repos : r.visibility = "public" /\ ~ r.disabled}, ByForgeSlug)
  IN  Limit([i \in DOMAIN public |-> <<public[i].forge, public[i].slug>>], limit)

\* Only the columns of the workspace's own forge carry its grant.
scanWorkspace(w) ==
  LET columns == IF w.forge \in GrantForges THEN w[w.forge] ELSE EmptyGrant
  IN  Over(Restrict(w, DOMAIN w \ GrantForges),
           [grant |-> [columns EXCEPT !.refresh = openToken(@)]])
Workspaces == {scanWorkspace(w) : w \in Rows(db.workspaces)}

WorkspaceByPrefix(forge, prefix) ==
  Only({w \in Workspaces : w.forge = forge /\ w.prefix = prefix})
WorkspaceByToken(token) == Only({w \in Workspaces : w.token = token})
ListWorkspaces == Sorted(Workspaces, ByForgePrefix)

ListMembershipsForUser(user) ==
  LET mine == {[workspace |-> m.workspace, role |-> m.role] : m \in {n \in db.members : n.user = user}}
  IN  Sorted(mine, LAMBDA a, b : a.workspace < b.workspace)
ListWorkspacesForUser(user) ==
  LET ids == {m.workspace : m \in {n \in db.members : n.user = user}}
  IN  Sorted({w \in Workspaces : w.id \in ids}, ByForgePrefix)

UserByID(id) == Only({u \in Rows(db.users) : u.id = id})
ListUsers == Sorted(Rows(db.users), Oldest)

Uploads == Rows(db.uploads)
Upload(id) == Only({u \in Uploads : u.id = id})
ListUploads(repo, offset, limit) ==
  Limit(Offset(Sorted({u \in Uploads : u.repo = repo}, Newest), offset), limit)
ListBranchUploads(repo, branch, offset, limit) ==
  Limit(Offset(Sorted({u \in Uploads : u.repo = repo /\ u.branch = branch}, Newest), offset), limit)
RecentBranches(repo, scan) ==
  LET recent == ListUploads(repo, 0, scan) IN {recent[i].branch : i \in DOMAIN recent}
LatestPassedUpload(repo, branch, before, exclude) ==
  Limit(Sorted({u \in Uploads : /\ u.repo = repo /\ u.branch = branch
                                /\ u.pr = Unnamed /\ ~ u.failed
                                /\ before = 0 \/ u.id < before
                                /\ u.commit # exclude}, Newest), 1)

UploadFiles(upload) == {f \in db.files : f.upload = upload}
UploadFile(upload, path) == Only({f \in db.files : f.upload = upload /\ f.path = path})
PartFiles(uploads) == {f \in db.files : f.upload \in uploads}

CommitUploads(repo, commit) == {u \in Uploads : u.repo = repo /\ u.commit = commit}
\* DISTINCT ON (part) ... ORDER BY part, id DESC.
LatestUploadsPerPart(repo, commit) ==
  {u \in CommitUploads(repo, commit) :
     \A v \in CommitUploads(repo, commit) : v.part = u.part => v.id <= u.id}
CommitParts(repo, commit) == {u.part : u \in CommitUploads(repo, commit)}

\* scanCommitReport: the lease and the pushed version stay in the row.
scanCommitReport(r) == Restrict(r, DOMAIN r \ {"lease", "pushed"})
Reports == {scanCommitReport(r) : r \in Rows(db.reports)}

CommitReport(repo, commit) == Only({r \in Reports : r.repo = repo /\ r.commit = commit})
LatestPassedCommitReport(repo, branch, before, exclude) ==
  Limit(Sorted({r \in Reports : /\ r.repo = repo /\ r.branch = branch
                                /\ r.commit # exclude /\ ~ r.failed /\ r.pr = Unnamed
                                /\ before = 0 \/ r.id < before}, Newest), 1)
ListBranchCommitReports(repo, branch, limit) ==
  LET default == {r.branch : r \in {x \in Repos : x.id = repo}}
  IN  Limit(Sorted({r \in Reports : /\ r.repo = repo /\ r.branch = branch
                                    /\ r.pr = Unnamed \/ branch \notin default}, Newest), limit)
DefaultBranchReports(repos, limit) ==
  LET of(repo) == Limit(Sorted({s \in Reports : /\ s.repo = repo.id /\ s.branch = repo.branch
                                                /\ s.pr = Unnamed}, Newest), limit)
      found == {r \in Repos : r.id \in repos /\ of(r) # <<>>}
  IN  {<<r.id, of(r)>> : r \in found}

-----------------------------------------------------------------------------

Init ==
  /\ db = [seq |-> [repos |-> 0, workspaces |-> 0, users |-> 0, uploads |-> 0, reports |-> 0],
           repos |-> Nothing, workspaces |-> Nothing, users |-> Nothing, members |-> {},
           sessions |-> Nothing, codes |-> Nothing, tokens |-> Nothing,
           uploads |-> Nothing, files |-> {}, reports |-> Nothing, claims |-> {}]
  /\ now = 1
  /\ call = [op |-> "none"]
  /\ ret = <<>>

Tick == now' = now + 1 /\ UNCHANGED <<db, call, ret>>

Serve(c) ==
  \/ CreateRepo(c) \/ UpdateRepo(c) \/ SetRepoVisibility(c) \/ DeleteRepo(c)
  \/ CreateWorkspace(c) \/ RegisterWorkspace(c) \/ UpdateWorkspace(c) \/ DeleteWorkspace(c)
  \/ SetWorkspaceGrant(c) \/ SetGitHubAppBroken(c) \/ MarkWorkspaceGrantBroken(c)
  \/ UpsertUser(c) \/ DeleteUser(c) \/ SetUserMemberships(c)
  \/ CreateSession(c) \/ UserBySession(c) \/ DeleteSession(c)
  \/ CreateOAuthCode(c) \/ ConsumeOAuthCode(c) \/ CreateMCPToken(c) \/ UserByMCPToken(c)
  \/ CreateUpload(c) \/ UpsertCommitReport(c) \/ ClaimPush(c) \/ FinishPush(c)
  \/ ClaimTokenlessUpload(c) \/ ReleaseTokenlessUpload(c)

Next == Tick \/ \E c \in Calls : call' = c /\ Serve(c)

Spec == Init /\ [][Next]_vars
=============================================================================
