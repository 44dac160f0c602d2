---------------------------- MODULE MemoryStore ----------------------------
(* internal/store/memory: the store the repository's tests and the preview    *)
(* run on, as its maps.  Every method runs under one mutex, so a call is one  *)
(* step.  It implements PostgresStore: Tables says what the maps stand for.   *)
(*                                                                            *)
(* Three maps outlive what they are about: the leases, pushed versions and    *)
(* tokenless claims of a repo that is gone.  Ids are never used twice, so     *)
(* nothing finds them again, and Tables leaves them out.                      *)
EXTENDS StoreData

CONSTANTS
  Families,  \* sets of calls; a behaviour makes calls of one of them
  MaxId,     \* bounds the rows ever created in a table
  MaxTime    \* bounds the clock

ASSUME BoundsAssumption == MaxId \in Nat \ {0} /\ MaxTime \in Nat \ {0}

\* The calls carry what their types say and their callers make sure of: rows
\* have the columns of their table, names are bytes, a report is of a commit, a
\* workspace of a forge without a grant has none, and no two seats of a user
\* are in one workspace.
IsGrant(g) == g \in [account : {g.account}, refresh : Seq(Range(g.refresh)), broken : BOOLEAN]
Creates(c) == c.op \in {"CreateWorkspace", "RegisterWorkspace"}
ASSUME CallsAssumption ==
  \A c \in UNION Families :
    /\ c.op \in {"CreateRepo", "UpdateRepo"} => DOMAIN c.row = RepoColumns /\ c.row.slug \in Seq(Nat)
    /\ c.op = "SetRepoVisibility" => c.at \in Nat
    /\ Creates(c) \/ c.op = "UpdateWorkspace" =>
         DOMAIN c.row = WorkspaceColumns /\ c.row.prefix \in Seq(Nat)
    /\ Creates(c) \/ c.op = "SetWorkspaceGrant" => IsGrant(c.grant)
    /\ Creates(c) /\ c.row.forge \notin GrantForges => c.grant = EmptyGrant
    /\ c.op = "UpsertUser" => DOMAIN c.row = UserColumns
    /\ c.op = "SetUserMemberships" => \A s, t \in c.seats : s.workspace = t.workspace => s = t
    /\ c.op \in {"CreateSession", "CreateOAuthCode", "CreateMCPToken"} => c.row.expires \in Nat
    /\ c.op = "CreateUpload" => DOMAIN c.row = UploadColumns
    /\ c.op = "UpsertCommitReport" => DOMAIN c.row = ReportColumns /\ c.row.commit # Unnamed
    /\ c.op \in {"ClaimPush", "FinishPush"} => c.version \in Nat /\ c.lease \in Nat

VARIABLES
  mem,       \* the Store struct
  now, call, ret,
  family     \* the calls of this behaviour
storeVars == <<mem, now, call, ret, family>>

-----------------------------------------------------------------------------

Answers(c, answer, after) ==
  call' = c /\ ret' = answer /\ mem' = after /\ UNCHANGED <<now, family>>

\* A row stored under the next id of its counter.
Stored(m, t, row) == [m EXCEPT !.seq[t] = @ + 1, ![t] = With(@, m.seq[t] + 1, row)]
Stores(c, t, row) == Answers(c, Created(mem.seq[t] + 1), Stored(mem, t, row))

Updates(c, t, after) ==
  IF c.id \in DOMAIN mem[t] THEN Answers(c, Ok, after) ELSE Answers(c, NotFound, mem)

\* find: the row keep admits, if any; lookups are by a unique column.
find(rows) == IF rows = {} THEN <<>> ELSE <<CHOOSE r \in rows : TRUE>>

atMost(s, limit) == IF limit > 0 THEN SubSeq(s, 1, Min({Len(s), limit})) ELSE s

-----------------------------------------------------------------------------
(* Repos                                                                      *)

CreateRepo(c) ==
  /\ c.op = "CreateRepo"
  /\ IF find({x \in Rows(mem.repos) : \/ x.forge = c.row.forge /\ x.slug = c.row.slug
                                      \/ x.token = c.row.token}) # <<>>
     THEN Answers(c, Failed, mem)
     ELSE Stores(c, "repos", Over(c.row, [checked |-> Never]))

\* A settings save: never the visibility and its stamp.  The callers save a row
\* they read under its own name, with its own token or a fresh one.
UpdateRepo(c) ==
  /\ c.op = "UpdateRepo"
  /\ \A r \in Rows(mem.repos) : IF r.id = c.id THEN r.forge = c.row.forge /\ r.slug = c.row.slug
                               ELSE r.token # c.row.token
  /\ Updates(c, "repos",
       [mem EXCEPT !.repos[c.id] =
          Over([visibility |-> @.visibility, checked |-> @.checked], c.row)])

SetRepoVisibility(c) ==
  /\ c.op = "SetRepoVisibility"
  /\ Updates(c, "repos",
       IF mem.repos[c.id].checked # Never /\ ~ mem.repos[c.id].checked < c.at THEN mem
       ELSE [mem EXCEPT !.repos[c.id].visibility = c.visibility, !.repos[c.id].checked = c.at])

\* Mutant: the reports stay behind.
deleteRepoLocked_KeepsReports(m, ids) ==
  LET gone == {u \in DOMAIN m.uploads : m.uploads[u].repo \in ids}
  IN  [m EXCEPT !.uploads = Without(@, gone), !.files = Without(@, gone), !.repos = Without(@, ids)]

\* For one repo, or for each that a workspace owned.
deleteRepoLocked(m, ids) ==
  LET gone == {u \in DOMAIN m.uploads : m.uploads[u].repo \in ids}
  IN  [m EXCEPT !.uploads = Without(@, gone), !.files = Without(@, gone),
                !.reports = Without(@, {i \in DOMAIN @ : @[i].repo \in ids}),
                !.repos = Without(@, ids)]

DeleteRepo(c) ==
  /\ c.op = "DeleteRepo"
  /\ Updates(c, "repos", deleteRepoLocked(mem, {c.id}))

-----------------------------------------------------------------------------
(* Workspaces: the grant is one field, whichever forge it is of.              *)

prefixTaken(row) ==
  find({x \in Rows(mem.workspaces) : \/ x.forge = row.forge /\ x.prefix = row.prefix
                                     \/ x.token = row.token}) # <<>>

CreateWorkspace(c) ==
  /\ c.op = "CreateWorkspace"
  /\ IF prefixTaken(c.row) THEN Answers(c, Failed, mem)
     ELSE Stores(c, "workspaces", Over(c.row, [grant |-> c.grant]))

SeatsOf(user) == IF user \in DOMAIN mem.members THEN mem.members[user] ELSE Nothing

RegisterWorkspace(c) ==
  /\ c.op = "RegisterWorkspace"
  /\ IF c.user \notin DOMAIN mem.users \/ prefixTaken(c.row) THEN Answers(c, Failed, mem)
     ELSE LET id == mem.seq.workspaces + 1
          IN  Answers(c, Created(id),
                [Stored(mem, "workspaces", Over(c.row, [grant |-> c.grant])) EXCEPT
                   !.members = With(@, c.user, With(SeatsOf(c.user), id, "owner"))])

\* A full-row save of a row that was read: everything but the grant.
UpdateWorkspace(c) ==
  /\ c.op = "UpdateWorkspace"
  /\ \A w \in Rows(mem.workspaces) : IF w.id = c.id THEN w.forge = c.row.forge /\ w.prefix = c.row.prefix
                                    ELSE w.token # c.row.token
  /\ Updates(c, "workspaces", [mem EXCEPT !.workspaces[c.id] = Over(c.row, [grant |-> @.grant])])

SetWorkspaceGrant(c) ==
  /\ c.op = "SetWorkspaceGrant"
  /\ IF c.id \notin DOMAIN mem.workspaces \/ c.forge \notin GrantForges THEN Answers(c, NotFound, mem)
     ELSE IF mem.workspaces[c.id].forge # c.forge THEN Answers(c, NotFound, mem)
     ELSE Answers(c, Ok, [mem EXCEPT !.workspaces[c.id].grant = c.grant])

SetGitHubAppBroken(c) ==
  /\ c.op = "SetGitHubAppBroken"
  /\ LET hit == {i \in {c.id} \cap DOMAIN mem.workspaces :
                   /\ mem.workspaces[i].forge = "github" /\ c.installation # 0
                   /\ mem.workspaces[i].installation = c.installation}
     IN  Answers(c, Ok, IF hit = {} THEN mem
                        ELSE [mem EXCEPT !.workspaces[c.id].appBroken = c.broken])

MarkWorkspaceGrantBroken(c) ==
  /\ c.op = "MarkWorkspaceGrantBroken"
  /\ LET hit == {i \in {c.id} \cap DOMAIN mem.workspaces :
                   /\ mem.workspaces[i].forge = c.forge /\ c.account # ""
                   /\ mem.workspaces[i].grant.account = c.account
                   /\ mem.workspaces[i].grant.refresh # <<>>}
     IN  IF c.forge \notin GrantForges THEN Answers(c, NotFound, mem)
         ELSE Answers(c, Ok, IF hit = {} THEN mem
                             ELSE [mem EXCEPT !.workspaces[c.id].grant.broken = TRUE])

DeleteWorkspace(c) ==
  /\ c.op = "DeleteWorkspace"
  /\ Updates(c, "workspaces",
       LET ws == mem.workspaces[c.id]
           owned == {i \in DOMAIN mem.repos : Owns(ws, mem.repos[i])}
       IN  [deleteRepoLocked(mem, owned) EXCEPT
              !.workspaces = Without(@, {c.id}),
              !.members = [u \in DOMAIN @ |-> Without(@[u], {c.id})]])

-----------------------------------------------------------------------------
(* Accounts                                                                   *)

UpsertUser(c) ==
  /\ c.op = "UpsertUser"
  /\ LET existing == find({x \in Rows(mem.users) : x.forge = c.row.forge /\ x.uuid = c.row.uuid})
     IN  IF existing = <<>> THEN Stores(c, "users", Over(c.row, [created |-> now, login |-> now]))
         ELSE Answers(c, Created(existing[1].id),
                [mem EXCEPT !.users[existing[1].id].profile = c.row.profile,
                            !.users[existing[1].id].login = now])

OfUser(t, id) == {h \in DOMAIN t : t[h].user = id}

DeleteUser(c) ==
  /\ c.op = "DeleteUser"
  /\ Updates(c, "users",
       [mem EXCEPT !.users = Without(@, {c.id}), !.members = Without(@, {c.id}),
                   !.sessions = Without(@, OfUser(@, c.id)),
                   !.oauthCodes = Without(@, OfUser(@, c.id)),
                   !.mcpTokens = Without(@, OfUser(@, c.id))])

\* Called at sign-in, for the user that signed in.
SetUserMemberships(c) ==
  /\ c.op = "SetUserMemberships" /\ c.user \in DOMAIN mem.users
  /\ LET roleIn(w) == (CHOOSE s \in c.seats : s.workspace = w).role
         set == [w \in {s.workspace : s \in c.seats} |-> roleIn(w)]
     IN  IF c.seats = {} THEN Answers(c, Ok, [mem EXCEPT !.members = Without(@, {c.user})])
         ELSE IF \E s \in c.seats : s.workspace \notin DOMAIN mem.workspaces \/ s.role \notin Roles
         THEN Answers(c, Failed, mem)
         ELSE Answers(c, Ok, [mem EXCEPT !.members = With(@, c.user, set)])

\* Hashes are of random tokens: a new one is never one that is stored.
Keeps(c, t) ==
  /\ c.hash \notin DOMAIN mem[t]
  /\ IF c.row.user \notin DOMAIN mem.users THEN Answers(c, Failed, mem)
     ELSE Answers(c, Ok, [mem EXCEPT ![t] = With(@, c.hash, c.row)])

CreateSession(c) == c.op = "CreateSession" /\ Keeps(c, "sessions")
CreateOAuthCode(c) == c.op = "CreateOAuthCode" /\ Keeps(c, "oauthCodes")
CreateMCPToken(c) == c.op = "CreateMCPToken" /\ Keeps(c, "mcpTokens")

\* The user of a hash; one that expired is deleted.
Resolves(c, t) ==
  IF c.hash \notin DOMAIN mem[t] THEN Answers(c, NotFound, mem)
  ELSE IF ~ mem[t][c.hash].expires > now
  THEN Answers(c, NotFound, [mem EXCEPT ![t] = Without(@, {c.hash})])
  ELSE IF mem[t][c.hash].user \notin DOMAIN mem.users THEN Answers(c, NotFound, mem)
  ELSE Answers(c, <<"user", mem[t][c.hash].user>>, mem)

UserBySession(c) == c.op = "UserBySession" /\ Resolves(c, "sessions")
UserByMCPToken(c) == c.op = "UserByMCPToken" /\ Resolves(c, "mcpTokens")

DeleteSession(c) ==
  /\ c.op = "DeleteSession"
  /\ IF c.hash \notin DOMAIN mem.sessions THEN Answers(c, NotFound, mem)
     ELSE Answers(c, Ok, [mem EXCEPT !.sessions = Without(@, {c.hash})])

ConsumeOAuthCode(c) ==
  /\ c.op = "ConsumeOAuthCode"
  /\ IF c.hash \notin DOMAIN mem.oauthCodes THEN Answers(c, NotFound, mem)
     ELSE Answers(c, IF mem.oauthCodes[c.hash].expires > now THEN <<"code", {mem.oauthCodes[c.hash]}>>
                     ELSE NotFound,
                  [mem EXCEPT !.oauthCodes = Without(@, {c.hash})])

-----------------------------------------------------------------------------
(* Uploads and reports, of repos that exist: an upload or a recompute that    *)
(* races the deletion of its repo is answered differently here (README).      *)

CreateUpload(c) ==
  /\ c.op = "CreateUpload" /\ c.row.repo \in DOMAIN mem.repos
  /\ LET id == mem.seq.uploads + 1
     IN  Answers(c, Created(id), [Stored(mem, "uploads", c.row) EXCEPT
                                    !.files = With(@, id, c.files)])

commitReportLocked(repo, commit) ==
  find({r \in Rows(mem.reports) : r.repo = repo /\ r.commit = commit})

UpsertCommitReport(c) ==
  /\ c.op = "UpsertCommitReport" /\ c.row.repo \in DOMAIN mem.repos
  /\ LET existing == commitReportLocked(c.row.repo, c.row.commit)
     IN  IF existing = <<>> THEN Stores(c, "reports", Over(c.row, [created |-> now, updated |-> now]))
         ELSE Answers(c, Created(existing[1].id),
                [mem EXCEPT !.reports[existing[1].id] =
                   Over(c.row, [created |-> existing[1].created, updated |-> now])])

commitKey(repo, commit) == [repo |-> repo, commit |-> commit]
ValueAt(f, key, zero) == IF key \in DOMAIN f THEN f[key] ELSE zero
LeaseOf(key) == ValueAt(mem.crLease, key, Never)
StatusOf(key) == ValueAt(mem.crStatus, key, 0)

ClaimPush(c) ==
  /\ c.op = "ClaimPush"
  /\ LET key == commitKey(c.repo, c.commit)
     IN  IF commitReportLocked(c.repo, c.commit) = <<>> \/ c.version < StatusOf(key)
         THEN Answers(c, <<"superseded">>, mem)
         ELSE IF LeaseOf(key) > now THEN Answers(c, <<"queued">>, mem)
         ELSE Answers(c, <<"claimed", now + c.lease>>,
                      [mem EXCEPT !.crLease = With(@, key, now + c.lease)])

RaisedStatus(key, version, pushed) ==
  IF pushed /\ version > StatusOf(key) THEN With(mem.crStatus, key, version) ELSE mem.crStatus

FinishPush(c) ==
  /\ c.op = "FinishPush"
  /\ LET key == commitKey(c.repo, c.commit)
         raised == [mem EXCEPT !.crStatus = RaisedStatus(key, c.version, c.pushed)]
         newer == \E i \in DOMAIN mem.uploads :
                    /\ mem.uploads[i].repo = c.repo /\ mem.uploads[i].commit = c.commit
                    /\ i > c.version
     IN  IF commitReportLocked(c.repo, c.commit) = <<>> THEN Answers(c, <<"again", FALSE>>, mem)
         ELSE IF LeaseOf(key) # c.lease THEN Answers(c, <<"again", FALSE>>, raised)
         ELSE Answers(c, <<"again", newer>>, [raised EXCEPT !.crLease = Without(@, {key})])

ClaimTokenlessUpload(c) ==
  /\ c.op = "ClaimTokenlessUpload" /\ c.key.repo \in DOMAIN mem.repos
  /\ IF c.key \in mem.tokenless THEN Answers(c, <<"won", FALSE>>, mem)
     ELSE Answers(c, <<"won", TRUE>>, [mem EXCEPT !.tokenless = @ \cup {c.key}])

ReleaseTokenlessUpload(c) ==
  /\ c.op = "ReleaseTokenlessUpload"
  /\ Answers(c, Ok, [mem EXCEPT !.tokenless = @ \ {c.key}])

-----------------------------------------------------------------------------
(* Reads: loops over the maps, sorted and cut.                                *)

RepoByID(id) == find({r \in Rows(mem.repos) : r.id = id})
RepoBySlug(forge, slug) == find({r \in Rows(mem.repos) : r.forge = forge /\ r.slug = slug})
RepoByToken(token) == find({r \in Rows(mem.repos) : r.token = token})
ListRepos == Sorted(Rows(mem.repos), ByForgeSlug)
ListWorkspaceRepos(forge, prefix) ==
  Sorted({r \in Rows(mem.repos) : Owns([forge |-> forge, prefix |-> prefix], r)}, ByForgeSlug)
PublicRepoRefs(limit) ==
  LET public == Sorted({r \in Rows(mem.repos) : ReportsPublic(r)}, ByForgeSlug)
  IN  atMost([i \in DOMAIN public |-> <<public[i].forge, public[i].slug>>], limit)

WorkspaceByPrefix(forge, prefix) ==
  find({w \in Rows(mem.workspaces) : w.forge = forge /\ w.prefix = prefix})
WorkspaceByToken(token) == find({w \in Rows(mem.workspaces) : w.token = token})
ListWorkspaces == Sorted(Rows(mem.workspaces), ByForgePrefix)

ListMembershipsForUser(user) ==
  LET ids == DOMAIN SeatsOf(user) \cap DOMAIN mem.workspaces
  IN  Sorted({[workspace |-> w, role |-> SeatsOf(user)[w]] : w \in ids},
             LAMBDA a, b : a.workspace < b.workspace)
ListWorkspacesForUser(user) ==
  Sorted({w \in Rows(mem.workspaces) : w.id \in DOMAIN SeatsOf(user)}, ByForgePrefix)

UserByID(id) == find({u \in Rows(mem.users) : u.id = id})
ListUsers == Sorted(Rows(mem.users), Oldest)

\* Mutant: the limit counts the rows the offset skips.
page_LimitFirst(out, offset, limit) ==
  LET cut == atMost(out, limit) IN SubSeq(cut, Min({offset, Len(cut)}) + 1, Len(cut))
page(out, offset, limit) ==
  atMost(SubSeq(out, Min({offset, Len(out)}) + 1, Len(out)), limit)

newestUploads(offset, limit, uploads) == page(Sorted(uploads, Newest), offset, limit)

Upload(id) == find({u \in Rows(mem.uploads) : u.id = id})
ListUploads(repo, offset, limit) ==
  newestUploads(offset, limit, {u \in Rows(mem.uploads) : u.repo = repo})
ListBranchUploads(repo, branch, offset, limit) ==
  newestUploads(offset, limit, {u \in Rows(mem.uploads) : u.repo = repo /\ u.branch = branch})
RecentBranches(repo, scan) ==
  {u.branch : u \in Range(newestUploads(0, scan, {x \in Rows(mem.uploads) : x.repo = repo}))}
LatestPassedUpload(repo, branch, before, exclude) ==
  newestUploads(0, 1, {u \in Rows(mem.uploads) : /\ u.repo = repo /\ u.branch = branch
                                                 /\ u.pr = Unnamed /\ ~ u.failed
                                                 /\ before = 0 \/ u.id < before
                                                 /\ u.commit # exclude})

FilesOf(upload) == {Over([upload |-> upload], f) : f \in ValueAt(mem.files, upload, {})}
UploadFiles(upload) == FilesOf(upload)
UploadFile(upload, path) == SetToSeq({f \in FilesOf(upload) : f.path = path})
PartFiles(uploads) == UNION {FilesOf(u) : u \in uploads}

OfCommit(repo, commit) == {u \in Rows(mem.uploads) : u.repo = repo /\ u.commit = commit}
LatestUploadsPerPart(repo, commit) ==
  LET latest(part) == CHOOSE u \in OfCommit(repo, commit) :
                        /\ u.part = part
                        /\ \A v \in OfCommit(repo, commit) : v.part = part => v.id <= u.id
  IN  {latest(u.part) : u \in OfCommit(repo, commit)}
CommitParts(repo, commit) == {u.part : u \in OfCommit(repo, commit)}

CommitReport(repo, commit) == commitReportLocked(repo, commit)
LatestPassedCommitReport(repo, branch, before, exclude) ==
  atMost(Sorted({r \in Rows(mem.reports) :
                   /\ r.repo = repo /\ r.branch = branch /\ ~ r.failed /\ r.pr = Unnamed
                   /\ ~ (exclude # Unnamed /\ r.commit = exclude)
                   /\ ~ (before > 0 /\ r.id >= before)}, Newest), 1)
ListBranchCommitReports(repo, branch, limit) ==
  LET default == repo \in DOMAIN mem.repos /\ branch = mem.repos[repo].branch
  IN  atMost(Sorted({r \in Rows(mem.reports) :
                       /\ r.repo = repo /\ r.branch = branch
                       /\ ~ (default /\ r.pr # Unnamed)}, Newest), limit)
DefaultBranchReports(repos, limit) ==
  LET of(id) == ListBranchCommitReports(id, mem.repos[id].branch, limit)
  IN  {<<id, of(id)>> : id \in {i \in repos \cap DOMAIN mem.repos : of(i) # <<>>}}

-----------------------------------------------------------------------------

StoreInit ==
  /\ mem = [seq |-> [repos |-> 0, workspaces |-> 0, users |-> 0, uploads |-> 0, reports |-> 0],
            repos |-> Nothing, workspaces |-> Nothing, users |-> Nothing, members |-> Nothing,
            sessions |-> Nothing, oauthCodes |-> Nothing, mcpTokens |-> Nothing,
            uploads |-> Nothing, files |-> Nothing, reports |-> Nothing,
            crLease |-> Nothing, crStatus |-> Nothing, tokenless |-> {}]
  /\ now = 1
  /\ call = [op |-> "none"]
  /\ ret = <<>>
  /\ family \in Families

Tick == now < MaxTime /\ now' = now + 1 /\ UNCHANGED <<mem, call, ret, family>>

\* Bound: MaxId rows ever in each table.
Room == \A t \in DOMAIN mem.seq : mem.seq[t] < MaxId

StoreNext ==
  \/ Tick
  \/ \E c \in family :
       \/ Room /\ CreateRepo(c)
       \/ UpdateRepo(c)
       \/ SetRepoVisibility(c)
       \/ DeleteRepo(c)
       \/ Room /\ CreateWorkspace(c)
       \/ Room /\ RegisterWorkspace(c)
       \/ UpdateWorkspace(c)
       \/ SetWorkspaceGrant(c)
       \/ SetGitHubAppBroken(c)
       \/ MarkWorkspaceGrantBroken(c)
       \/ DeleteWorkspace(c)
       \/ Room /\ UpsertUser(c)
       \/ DeleteUser(c)
       \/ SetUserMemberships(c)
       \/ CreateSession(c)
       \/ UserBySession(c)
       \/ DeleteSession(c)
       \/ CreateOAuthCode(c)
       \/ ConsumeOAuthCode(c)
       \/ CreateMCPToken(c)
       \/ UserByMCPToken(c)
       \/ Room /\ CreateUpload(c)
       \/ Room /\ UpsertCommitReport(c)
       \/ ClaimPush(c)
       \/ FinishPush(c)
       \/ ClaimTokenlessUpload(c)
       \/ ReleaseTokenlessUpload(c)

StoreSpec == StoreInit /\ [][StoreNext]_storeVars

-----------------------------------------------------------------------------
(* The refinement                                                             *)

GrantOf(w, forge) == IF w.forge = forge THEN w.grant ELSE EmptyGrant
SealedGrant(g) == [g EXCEPT !.refresh = IF @ = <<>> THEN <<>> ELSE <<"sealed">> \o @]

Tables ==
  [seq |-> mem.seq, repos |-> mem.repos, users |-> mem.users,
   sessions |-> mem.sessions, codes |-> mem.oauthCodes, tokens |-> mem.mcpTokens,
   uploads |-> mem.uploads,
   workspaces |->
     [i \in DOMAIN mem.workspaces |->
        LET w == mem.workspaces[i]
        IN  Over(Restrict(w, DOMAIN w \ {"grant"}),
                 [f \in GrantForges |-> SealedGrant(GrantOf(w, f))])],
   members |-> UNION {{[workspace |-> w, user |-> u, role |-> mem.members[u][w]] :
                         w \in DOMAIN mem.members[u]} : u \in DOMAIN mem.members},
   files |-> UNION {FilesOf(u) : u \in DOMAIN mem.files},
   reports |->
     [i \in DOMAIN mem.reports |->
        LET key == commitKey(mem.reports[i].repo, mem.reports[i].commit)
        IN  Over(mem.reports[i], [lease |-> LeaseOf(key), pushed |-> StatusOf(key)])],
   claims |-> {k \in mem.tokenless : k.repo \in DOMAIN mem.repos}]

PG == INSTANCE PostgresStore WITH db <- Tables, Calls <- UNION Families

\* Every call on the in-memory store answers as the Postgres store may answer
\* it, and leaves what Postgres would: cascades, guards and upserts included.
ImplementsPostgres == PG!Spec

\* Every query reads the same rows, in the same order, from both.
SameReads ==
  LET ids == 1 .. MaxId
      names == {w.prefix : w \in Rows(mem.workspaces)} \cup {r.slug : r \in Rows(mem.repos)}
      tokens == {w.token : w \in Rows(mem.workspaces)} \cup {r.token : r \in Rows(mem.repos)}
      all == Rows(mem.uploads) \cup Rows(mem.reports)
      branches == {x.branch : x \in all}
      commits == {Unnamed} \cup {x.commit : x \in all}
      paths == {f.path : f \in UNION {FilesOf(u) : u \in DOMAIN mem.files}}
  IN  /\ ListRepos = PG!ListRepos /\ ListWorkspaces = PG!ListWorkspaces /\ ListUsers = PG!ListUsers
      /\ \A n \in 0 .. 2 : /\ PublicRepoRefs(n) = PG!PublicRepoRefs(n)
                           /\ DefaultBranchReports(ids, n) = PG!DefaultBranchReports(ids, n)
      /\ \A t \in tokens : /\ RepoByToken(t) = PG!RepoByToken(t)
                           /\ WorkspaceByToken(t) = PG!WorkspaceByToken(t)
      /\ \A f \in DOMAIN ForgeRank, n \in names :
           /\ RepoBySlug(f, n) = PG!RepoBySlug(f, n)
           /\ WorkspaceByPrefix(f, n) = PG!WorkspaceByPrefix(f, n)
           /\ ListWorkspaceRepos(f, n) = PG!ListWorkspaceRepos(f, n)
      /\ \A i \in ids :
           /\ RepoByID(i) = PG!RepoByID(i) /\ UserByID(i) = PG!UserByID(i)
           /\ ListMembershipsForUser(i) = PG!ListMembershipsForUser(i)
           /\ ListWorkspacesForUser(i) = PG!ListWorkspacesForUser(i)
           /\ Upload(i) = PG!Upload(i) /\ UploadFiles(i) = PG!UploadFiles(i)
           /\ PartFiles(1 .. i) = PG!PartFiles(1 .. i)
           /\ \A p \in paths : UploadFile(i, p) = PG!UploadFile(i, p)
      /\ all # {} =>
           \A i \in DOMAIN mem.repos, n \in 0 .. 2 :
             /\ \A k \in 0 .. 2 : ListUploads(i, k, n) = PG!ListUploads(i, k, n)
             /\ RecentBranches(i, n) = PG!RecentBranches(i, n)
             /\ \A b \in branches :
                  /\ \A k \in 0 .. 2 : ListBranchUploads(i, b, k, n) = PG!ListBranchUploads(i, b, k, n)
                  /\ ListBranchCommitReports(i, b, n) = PG!ListBranchCommitReports(i, b, n)
             /\ \A c \in commits :
                  /\ LatestUploadsPerPart(i, c) = PG!LatestUploadsPerPart(i, c)
                  /\ CommitParts(i, c) = PG!CommitParts(i, c)
                  /\ CommitReport(i, c) = PG!CommitReport(i, c)
                  /\ \A b \in branches, before \in 0 .. MaxId :
                       /\ LatestPassedUpload(i, b, before, c) = PG!LatestPassedUpload(i, b, before, c)
                       /\ LatestPassedCommitReport(i, b, before, c)
                            = PG!LatestPassedCommitReport(i, b, before, c)
=============================================================================
