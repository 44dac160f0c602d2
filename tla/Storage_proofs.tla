-------------------------- MODULE Storage_proofs --------------------------
(* Theorems about what is stored: the two stores, for any calls, and the      *)
(* grants of a workspace, for any processes, requests, consents and           *)
(* disconnects.                                                               *)
EXTENDS MemoryStore, GrantRefresh, FiniteSetTheorems, SequenceTheorems, WellFoundedInduction, TLAPS

----------------------------------------------------------------------------
(* The in-memory store (MemoryStore) implements the Postgres one.             *)

\* The maps of the Store struct, and those whose rows take ids.
Maps == {"seq", "repos", "workspaces", "users", "members", "sessions", "oauthCodes",
         "mcpTokens", "uploads", "files", "reports", "crLease", "crStatus", "tokenless"}
Counted == {"repos", "workspaces", "users", "uploads", "reports"}

IsFunction(f) == f = [x \in DOMAIN f |-> f[x]]

\* Ids come from counters.
IdsInv ==
    /\ DOMAIN mem = Maps /\ DOMAIN mem.seq = Counted
    /\ \A t \in Counted : mem.seq[t] \in Nat
    /\ DOMAIN mem.repos \subseteq 1 .. mem.seq["repos"]
    /\ DOMAIN mem.workspaces \subseteq 1 .. mem.seq["workspaces"]
    /\ DOMAIN mem.users \subseteq 1 .. mem.seq["users"]
    /\ DOMAIN mem.uploads \subseteq 1 .. mem.seq["uploads"]
    /\ DOMAIN mem.files \subseteq 1 .. mem.seq["uploads"]
    /\ DOMAIN mem.reports \subseteq 1 .. mem.seq["reports"]

\* No two repos share a name or a token.
RepoInv ==
    /\ \A i \in DOMAIN mem.repos :
         LET r == mem.repos[i]
         IN  DOMAIN r = RepoColumns \cup {"checked"} /\ r.slug \in Seq(Nat) /\ r.checked \in Nat
    /\ \A i, j \in DOMAIN mem.repos :
         LET r == mem.repos[i]
             s == mem.repos[j]
         IN  (r.forge = s.forge /\ r.slug = s.slug) \/ r.token = s.token => i = j

WorkspaceInv ==
    /\ \A i \in DOMAIN mem.workspaces :
         LET w == mem.workspaces[i]
         IN  /\ DOMAIN w = WorkspaceColumns \cup {"grant"} /\ w.prefix \in Seq(Nat)
             /\ IsGrant(w.grant) /\ (w.forge \notin GrantForges => w.grant = EmptyGrant)
    /\ \A i, j \in DOMAIN mem.workspaces :
         LET w == mem.workspaces[i]
             v == mem.workspaces[j]
         IN  (w.forge = v.forge /\ w.prefix = v.prefix) \/ w.token = v.token => i = j

AccountInv ==
    /\ \A i \in DOMAIN mem.users : DOMAIN mem.users[i] = UserColumns \cup {"created", "login"}
    /\ \A u \in DOMAIN mem.members : DOMAIN mem.members[u] \subseteq DOMAIN mem.workspaces
    /\ IsFunction(mem.sessions) /\ IsFunction(mem.oauthCodes) /\ IsFunction(mem.mcpTokens)
    /\ \A h \in DOMAIN mem.sessions : mem.sessions[h].user \in DOMAIN mem.users /\ mem.sessions[h].expires \in Nat
    /\ \A h \in DOMAIN mem.mcpTokens : mem.mcpTokens[h].user \in DOMAIN mem.users /\ mem.mcpTokens[h].expires \in Nat
    /\ \A h \in DOMAIN mem.oauthCodes : mem.oauthCodes[h].expires \in Nat

ReportInv ==
    /\ \A i \in DOMAIN mem.uploads : DOMAIN mem.uploads[i] = UploadColumns
    /\ \A i \in DOMAIN mem.reports :
         LET r == mem.reports[i]
         IN  /\ DOMAIN r = ReportColumns \cup {"created", "updated"}
             /\ r.repo \in DOMAIN mem.repos /\ r.commit /= Unnamed
    /\ \A i, j \in DOMAIN mem.reports :
         mem.reports[i].repo = mem.reports[j].repo /\ mem.reports[i].commit = mem.reports[j].commit => i = j

\* A lease or a pushed version is of a report there is, or of a repo that is gone.
PushInv ==
    /\ \A k \in DOMAIN mem.crLease : mem.crLease[k] \in Nat
    /\ \A k \in DOMAIN mem.crStatus : mem.crStatus[k] \in Nat
    /\ \A k \in DOMAIN mem.crLease \cup DOMAIN mem.crStatus :
         /\ k.repo \in 1 .. mem.seq["repos"]
         /\ k.repo \in DOMAIN mem.repos =>
              \E i \in DOMAIN mem.reports : k = commitKey(mem.reports[i].repo, mem.reports[i].commit)
    /\ \A k \in mem.tokenless : k.repo \in 1 .. mem.seq["repos"]

StoreInv ==
    /\ now \in Nat /\ family \in Families
    /\ IdsInv /\ RepoInv /\ WorkspaceInv /\ AccountInv /\ ReportInv /\ PushInv

----------------------------------------------------------------------------
(* The definitions the two stores share are the same seen from either.        *)

\* Both stores have the same answers, roles and forges.
LEMMA SameConstants ==
    /\ PG!Never = Never /\ PG!Unnamed = Unnamed /\ PG!Ok = Ok /\ PG!NotFound = NotFound
    /\ PG!Failed = Failed /\ (\A i : PG!Created(i) = Created(i))
    /\ PG!GrantForges = GrantForges /\ PG!EmptyGrant = EmptyGrant /\ PG!Roles = Roles
    /\ PG!Nothing = Nothing
BY DEF PG!Never, Never, PG!Unnamed, Unnamed, PG!Ok, Ok, PG!NotFound, NotFound, PG!Failed, Failed,
       PG!Created, Created, PG!GrantForges, GrantForges, PG!EmptyGrant, EmptyGrant, PG!Roles, Roles,
       PG!Nothing, Nothing

\* Both lay a row's columns over another's alike.
LEMMA SameOver == \A f, g : PG!Over(f, g) = Over(f, g)
BY DEF PG!Over, Over

\* Both give a table's rows the ids they are stored under.
LEMMA SameRows == \A t : PG!Rows(t) = Rows(t)
BY DEF PG!Rows, Rows, PG!Over, Over

\* Both store a value under a key alike.
LEMMA SameWith == \A f, k, v : PG!With(f, k, v) = With(f, k, v)
BY DEF PG!With, With

\* Both drop keys alike.
LEMMA SameWithout == \A f, s : PG!Without(f, s) = Without(f, s)
BY DEF PG!Without, Without, PG!Restrict, Restrict

\* A row has its id, and its columns.
LEMMA RowsOfATable ==
    ASSUME NEW t, NEW r
    PROVE  r \in Rows(t) <=> \E i \in DOMAIN t : r = Over([id |-> i], t[i])
BY DEF Rows

\* An id laid over a row leaves its other columns.
LEMMA RowColumns ==
    ASSUME NEW i, NEW row
    PROVE  /\ Over([id |-> i], row).id = i
           /\ DOMAIN Over([id |-> i], row) = DOMAIN row \cup {"id"}
           /\ \A k \in DOMAIN row \ {"id"} : Over([id |-> i], row)[k] = row[k]
BY DEF Over

\* find answers nothing only when there is nothing to find.
LEMMA FindNone == \A rows : find(rows) = <<>> <=> rows = {}
BY DEF find

----------------------------------------------------------------------------
(* The tables the maps stand for. *)

TableNames == {"seq", "repos", "workspaces", "users", "members", "sessions", "codes",
               "tokens", "uploads", "files", "reports", "claims"}
IsTables(d) == DOMAIN d = TableNames /\ IsFunction(d)

ShownWorkspace(w) ==
    Over(Restrict(w, DOMAIN w \ {"grant"}), [f \in GrantForges |-> SealedGrant(GrantOf(w, f))])
ShownWorkspaces(ws) == [i \in DOMAIN ws |-> ShownWorkspace(ws[i])]
ShownMembers(ms) ==
    UNION {{[workspace |-> w, user |-> u, role |-> ms[u][w]] : w \in DOMAIN ms[u]} : u \in DOMAIN ms}
ShownFiles(fs) == UNION {{Over([upload |-> u], f) : f \in fs[u]} : u \in DOMAIN fs}
ShownReport(r, leases, status) ==
    LET key == commitKey(r.repo, r.commit)
    IN  Over(r, [lease |-> ValueAt(leases, key, Never), pushed |-> ValueAt(status, key, 0)])
ShownReports(rs, leases, status) == [i \in DOMAIN rs |-> ShownReport(rs[i], leases, status)]
ShownClaims(keys, repos) == {k \in keys : k.repo \in DOMAIN repos}

\* d are the tables that the maps m stand for.
Shows(d, m) ==
    /\ IsTables(d)
    /\ d.seq = m.seq /\ d.repos = m.repos /\ d.users = m.users
    /\ d.sessions = m.sessions /\ d.codes = m.oauthCodes /\ d.tokens = m.mcpTokens
    /\ d.uploads = m.uploads
    /\ d.workspaces = ShownWorkspaces(m.workspaces)
    /\ d.members = ShownMembers(m.members)
    /\ d.files = ShownFiles(m.files)
    /\ d.reports = ShownReports(m.reports, m.crLease, m.crStatus)
    /\ d.claims = ShownClaims(m.tokenless, m.repos)

\* Maps stand for one database only.
LEMMA ShowsOne ==
    ASSUME NEW d, NEW e, NEW m, Shows(d, m), Shows(e, m)
    PROVE  d = e
<1>1. \A t \in TableNames : d[t] = e[t]
  BY DEF Shows, TableNames
<1> QED BY <1>1 DEF Shows, IsTables, IsFunction

\* Setting one table leaves tables.
LEMMA TablesExcept ==
    ASSUME NEW d, IsTables(d), NEW k, NEW v
    PROVE  IsTables([d EXCEPT ![k] = v])
BY DEF IsTables, IsFunction

\* Tables are what the maps stand for,
LEMMA TablesShow == Shows(Tables, mem)
<1>1. IsTables(Tables)
  BY DEF IsTables, TableNames, IsFunction, Tables
<1>2. {FilesOf(u) : u \in DOMAIN mem.files}
      = {{Over([upload |-> u], f) : f \in mem.files[u]} : u \in DOMAIN mem.files}
  BY DEF FilesOf, ValueAt
<1>3. Tables.files = ShownFiles(mem.files)
  <2>1. Tables.files = UNION {FilesOf(u) : u \in DOMAIN mem.files}
    BY DEF Tables
  <2> QED BY <1>2, <2>1 DEF ShownFiles
<1>4. Tables.workspaces = ShownWorkspaces(mem.workspaces)
  BY DEF Tables, ShownWorkspaces, ShownWorkspace
<1>5. Tables.reports = ShownReports(mem.reports, mem.crLease, mem.crStatus)
  BY DEF Tables, ShownReports, ShownReport, LeaseOf, StatusOf
<1>6. /\ Tables.members = ShownMembers(mem.members)
      /\ Tables.claims = ShownClaims(mem.tokenless, mem.repos)
  BY DEF Tables, ShownMembers, ShownClaims
<1>7. /\ Tables.seq = mem.seq /\ Tables.repos = mem.repos /\ Tables.users = mem.users
      /\ Tables.sessions = mem.sessions /\ Tables.codes = mem.oauthCodes
      /\ Tables.tokens = mem.mcpTokens /\ Tables.uploads = mem.uploads
  BY DEF Tables
<1> QED BY <1>1, <1>3, <1>4, <1>5, <1>6, <1>7 DEF Shows

\* and after a step they are what the new maps stand for.
LEMMA TablesShowNext == Shows(Tables', mem')
<1>1. IsTables(Tables')
  BY DEF IsTables, TableNames, IsFunction, Tables
<1>2. {FilesOf(u)' : u \in DOMAIN mem'.files}
      = {{Over([upload |-> u], f) : f \in mem'.files[u]} : u \in DOMAIN mem'.files}
  BY DEF FilesOf, ValueAt
<1>3. Tables'.files = ShownFiles(mem'.files)
  <2>1. Tables'.files = UNION {FilesOf(u)' : u \in DOMAIN mem'.files}
    BY DEF Tables
  <2> QED BY <1>2, <2>1 DEF ShownFiles
<1>4. Tables'.workspaces = ShownWorkspaces(mem'.workspaces)
  BY DEF Tables, ShownWorkspaces, ShownWorkspace
<1>5. Tables'.reports = ShownReports(mem'.reports, mem'.crLease, mem'.crStatus)
  BY DEF Tables, ShownReports, ShownReport, LeaseOf, StatusOf
<1>6. /\ Tables'.members = ShownMembers(mem'.members)
      /\ Tables'.claims = ShownClaims(mem'.tokenless, mem'.repos)
  BY DEF Tables, ShownMembers, ShownClaims
<1>7. /\ Tables'.seq = mem'.seq /\ Tables'.repos = mem'.repos /\ Tables'.users = mem'.users
      /\ Tables'.sessions = mem'.sessions /\ Tables'.codes = mem'.oauthCodes
      /\ Tables'.tokens = mem'.mcpTokens /\ Tables'.uploads = mem'.uploads
  BY DEF Tables
<1> QED BY <1>1, <1>3, <1>4, <1>5, <1>6, <1>7 DEF Shows

\* A call answers as the tables do if what it leaves stands for what they leave.
LEMMA Answered ==
    ASSUME NEW c, NEW answer, NEW after, NEW left, Answers(c, answer, after), Shows(left, after)
    PROVE  PG!Answers(c, answer, left)
<1>1. mem' = after /\ Tables' = left
  BY TablesShowNext, ShowsOne DEF Answers
<1> QED BY <1>1 DEF Answers, PG!Answers

----------------------------------------------------------------------------
(* Repos *)

\* A new repo has no claims, for its id is new.
LEMMA ShowsNewRepo ==
    ASSUME IdsInv, PushInv, NEW row
    PROVE  Shows(PG!Insert("repos", row), Stored(mem, "repos", row))
<1> DEFINE d == PG!Insert("repos", row)
           m == Stored(mem, "repos", row)
<1>1. IsTables(d)
  BY TablesShow DEF Shows, IsTables, IsFunction, TableNames, PG!Insert
<1>2. /\ m.repos = With(mem.repos, mem.seq["repos"] + 1, row)
      /\ m.seq = [mem.seq EXCEPT !["repos"] = @ + 1]
      /\ \A x \in Maps \ {"repos", "seq"} : m[x] = mem[x]
  BY DEF Stored, IdsInv, Maps
<1>3. /\ d.repos = m.repos /\ d.seq = m.seq
      /\ \A x \in TableNames \ {"repos", "seq"} : d[x] = Tables[x]
  BY <1>2, TablesShow, SameWith DEF Shows, IsTables, TableNames, PG!Insert
<1>4. ShownClaims(m.tokenless, m.repos) = ShownClaims(mem.tokenless, mem.repos)
  BY <1>2 DEF ShownClaims, With, PushInv, IdsInv, Maps, Counted
<1> HIDE DEF d, m
<1>5. Shows(d, m)
  BY <1>1, <1>2, <1>3, <1>4, TablesShow DEF Shows, Maps, TableNames
<1> QED BY <1>5 DEF d, m

\* CreateRepo: find over the map refuses what the unique indexes refuse.
LEMMA CreateRepoImplements ==
    ASSUME IdsInv, PushInv, NEW c, CreateRepo(c)
    PROVE  PG!CreateRepo(c)
<1> DEFINE taken == {x \in Rows(mem.repos) : \/ x.forge = c.row.forge /\ x.slug = c.row.slug
                                             \/ x.token = c.row.token}
<1>1. (\E r \in PG!Rows(Tables.repos) : \/ r.forge = c.row.forge /\ r.slug = c.row.slug
                                        \/ r.token = c.row.token)
      <=> find(taken) # <<>>
  <2>1. find(taken) = <<>> <=> taken = {}
    BY FindNone
  <2>2. PG!Rows(Tables.repos) = Rows(mem.repos)
    BY TablesShow, SameRows DEF Shows
  <2> QED BY <2>1, <2>2
<1>2. CASE find(taken) # <<>>
  <2>1. Answers(c, Failed, mem)
    BY <1>2 DEF CreateRepo
  <2>2. PG!Refuses(c, "repos")
    BY <2>1, TablesShow, Answered, SameConstants DEF PG!Refuses, PG!Gap
  <2> QED BY <1>1, <1>2, <2>2 DEF PG!CreateRepo, CreateRepo
<1>3. CASE find(taken) = <<>>
  <2> DEFINE row == Over(c.row, [checked |-> Never])
  <2>1. Answers(c, Created(mem.seq["repos"] + 1), Stored(mem, "repos", row))
    BY <1>3 DEF CreateRepo, Stores
  <2>2. PG!Answers(c, Created(mem.seq["repos"] + 1), PG!Insert("repos", row))
    BY <2>1, ShowsNewRepo, Answered
  <2>3. row = PG!Over(c.row, [checked |-> PG!Never])
    BY SameOver, SameConstants
  <2>4. PG!Inserts(c, "repos", row)
    BY <2>2, SameConstants, TablesShow DEF PG!Inserts, Shows
  <2> QED BY <1>1, <1>3, <2>3, <2>4 DEF PG!CreateRepo, CreateRepo
<1> QED BY <1>2, <1>3

\* UpdateRepo: both keep the visibility and its stamp.
LEMMA UpdateRepoImplements ==
    ASSUME IdsInv, RepoInv, NEW c, DOMAIN c.row = RepoColumns, UpdateRepo(c)
    PROVE  PG!UpdateRepo(c)
<1> DEFINE r == mem.repos[c.id]
           was == Over([c.row EXCEPT !.visibility = r.visibility], [checked |-> r.checked])
           is == Over([visibility |-> r.visibility, checked |-> r.checked], c.row)
<1>1. CASE c.id \in DOMAIN mem.repos
  <2>1. was = is
    BY DEF Over, RepoColumns
  <2> DEFINE m == [mem EXCEPT !.repos[c.id] = is]
             d == [Tables EXCEPT !.repos[c.id] = was]
  <2>2. Answers(c, Ok, m)
    BY <1>1 DEF UpdateRepo, Updates
  <2>3. Shows(d, m)
    <3>1. IsTables(d)
      BY TablesShow DEF Shows, IsTables, IsFunction, TableNames
    <3>2. m.repos = [mem.repos EXCEPT ![c.id] = is] /\ \A x \in Maps \ {"repos"} : m[x] = mem[x]
      BY DEF IdsInv, Maps
    <3>3. d.repos = m.repos /\ \A x \in TableNames \ {"repos"} : d[x] = Tables[x]
      BY <2>1, <3>2, TablesShow DEF Shows, IsTables, TableNames
    <3>4. ShownClaims(m.tokenless, m.repos) = ShownClaims(mem.tokenless, mem.repos)
      BY <3>2 DEF ShownClaims, Maps
    <3> HIDE DEF d, m
    <3> QED BY <3>1, <3>2, <3>3, <3>4, TablesShow DEF Shows, Maps, TableNames
  <2>4. PG!Answers(c, Ok, d)
    BY <2>2, <2>3, Answered
  <2> QED BY <1>1, <2>4, TablesShow, SameOver, SameConstants DEF UpdateRepo, PG!UpdateRepo, PG!Affects, Shows
<1>2. CASE c.id \notin DOMAIN mem.repos
  <2>1. Answers(c, NotFound, mem)
    BY <1>2 DEF UpdateRepo, Updates
  <2> QED BY <1>2, <2>1, TablesShow, Answered, SameConstants DEF UpdateRepo, PG!UpdateRepo, PG!Affects, Shows
<1> QED BY <1>1, <1>2

\* SetRepoVisibility: both drop a verdict older than the one they hold.
LEMMA SetRepoVisibilityImplements ==
    ASSUME IdsInv, RepoInv, NEW c, c.at \in Nat, SetRepoVisibility(c)
    PROVE  PG!SetRepoVisibility(c)
<1> DEFINE checked == mem.repos[c.id].checked
           m == [mem EXCEPT !.repos[c.id].visibility = c.visibility, !.repos[c.id].checked = c.at]
           d == [Tables EXCEPT !.repos[c.id].visibility = c.visibility,
                               !.repos[c.id].checked = c.at]
<1>0. Tables.repos = mem.repos
  BY TablesShow DEF Shows
<1>1. c.id \in DOMAIN mem.repos =>
        (checked \in {PG!Never} \cup 0 .. c.at - 1 <=> ~ (checked # Never /\ ~ checked < c.at))
  BY SameConstants DEF RepoInv, Never
<1>2. Shows(d, m)
  <2>1. IsTables(d)
    BY TablesShow, TablesExcept DEF Shows
  <2>2. DOMAIN m.repos = DOMAIN mem.repos /\ \A x \in Maps \ {"repos"} : m[x] = mem[x]
    BY DEF IdsInv, Maps
  <2>3. d.repos = m.repos /\ \A x \in TableNames \ {"repos"} : d[x] = Tables[x]
    BY <2>2, TablesShow DEF Shows, IsTables, TableNames, IdsInv, Maps
  <2>4. ShownClaims(m.tokenless, m.repos) = ShownClaims(mem.tokenless, mem.repos)
    BY <2>2 DEF ShownClaims, Maps
  <2> HIDE DEF d, m
  <2> QED BY <2>1, <2>2, <2>3, <2>4, TablesShow DEF Shows, Maps, TableNames
<1>3. CASE c.id \notin DOMAIN mem.repos
  <2>1. Answers(c, NotFound, mem)
    BY <1>3 DEF SetRepoVisibility, Updates
  <2>2. PG!Answers(c, NotFound, Tables)
    BY <2>1, TablesShow, Answered
  <2> QED BY <1>0, <1>3, <2>2, SameConstants DEF SetRepoVisibility, PG!SetRepoVisibility
<1>4. CASE c.id \in DOMAIN mem.repos /\ (checked # Never /\ ~ checked < c.at)
  <2>1. Answers(c, Ok, mem)
    BY <1>4 DEF SetRepoVisibility, Updates
  <2>2. PG!Answers(c, Ok, Tables)
    BY <2>1, TablesShow, Answered
  <2> QED BY <1>0, <1>1, <1>4, <2>2, SameConstants DEF SetRepoVisibility, PG!SetRepoVisibility
<1>5. CASE c.id \in DOMAIN mem.repos /\ ~ (checked # Never /\ ~ checked < c.at)
  <2>1. Answers(c, Ok, m)
    BY <1>5 DEF SetRepoVisibility, Updates
  <2>2. PG!Answers(c, Ok, d)
    BY <1>2, <2>1, Answered
  <2> QED BY <1>0, <1>1, <1>5, <2>2, SameConstants DEF SetRepoVisibility, PG!SetRepoVisibility
<1> QED BY <1>3, <1>4, <1>5

\* The cascade of a deleted repo is what deleteRepoLocked takes along; the claims
\* and leases it leaves are of a repo that is gone.
LEMMA ShowsDropped ==
    ASSUME IdsInv, ReportInv, NEW ids
    PROVE  Shows(PG!DropRepos(Tables, ids), deleteRepoLocked(mem, ids))
<1> DEFINE d == PG!DropRepos(Tables, ids)
           m == deleteRepoLocked(mem, ids)
           gone == {u \in DOMAIN mem.uploads : mem.uploads[u].repo \in ids}
<1>1. IsTables(d)
  BY TablesShow DEF Shows, IsTables, IsFunction, TableNames, PG!DropRepos
<1>2. /\ m.repos = Without(mem.repos, ids) /\ m.uploads = Without(mem.uploads, gone)
      /\ m.files = Without(mem.files, gone)
      /\ m.reports = Without(mem.reports, {i \in DOMAIN mem.reports : mem.reports[i].repo \in ids})
      /\ \A x \in Maps \ {"repos", "uploads", "files", "reports"} : m[x] = mem[x]
  BY DEF deleteRepoLocked, IdsInv, Maps
<1>3. /\ d.repos = Without(mem.repos, ids) /\ d.uploads = Without(mem.uploads, gone)
      /\ d.files = {f \in Tables.files : f.upload \notin gone}
      /\ d.reports = Without(Tables.reports,
                             {i \in DOMAIN Tables.reports : Tables.reports[i].repo \in ids})
      /\ d.claims = {k \in Tables.claims : k.repo \notin ids}
      /\ \A x \in TableNames \ {"repos", "uploads", "files", "reports", "claims"} : d[x] = Tables[x]
  BY TablesShow, SameWithout DEF Shows, IsTables, TableNames, PG!DropRepos
<1>4. d.claims = ShownClaims(m.tokenless, m.repos)
  BY <1>2, <1>3, TablesShow DEF Shows, ShownClaims, Without, Restrict, Maps
<1>5. d.reports = ShownReports(m.reports, m.crLease, m.crStatus)
  <2>1. \A i \in DOMAIN mem.reports :
          Tables.reports[i] = ShownReport(mem.reports[i], mem.crLease, mem.crStatus)
          /\ Tables.reports[i].repo = mem.reports[i].repo
    BY TablesShow DEF Shows, ShownReports, ShownReport, Over, ReportInv, ReportColumns
  <2>2. DOMAIN Tables.reports = DOMAIN mem.reports
    BY TablesShow DEF Shows, ShownReports
  <2>3. m.crLease = mem.crLease /\ m.crStatus = mem.crStatus
    BY <1>2 DEF Maps
  <2> QED BY <1>2, <1>3, <2>1, <2>2, <2>3 DEF Without, Restrict, ShownReports
<1>6. d.files = ShownFiles(m.files)
  <2>1. \A u, f : Over([upload |-> u], f).upload = u
    BY DEF Over
  <2>2. ASSUME NEW x
        PROVE  x \in ShownFiles(mem.files) /\ x.upload \notin gone <=> x \in ShownFiles(m.files)
    <3>1. \A fs : x \in ShownFiles(fs) <=> \E u \in DOMAIN fs : \E f \in fs[u] : x = Over([upload |-> u], f)
      BY DEF ShownFiles
    <3>2. DOMAIN m.files = DOMAIN mem.files \ gone /\ \A u \in DOMAIN m.files : m.files[u] = mem.files[u]
      BY <1>2 DEF Without, Restrict
    <3> HIDE DEF m, gone
    <3>3. ASSUME x \in ShownFiles(mem.files), x.upload \notin gone PROVE x \in ShownFiles(m.files)
      <4>1. PICK u \in DOMAIN mem.files : \E f \in mem.files[u] : x = Over([upload |-> u], f)
        BY <3>1, <3>3
      <4>2. u \notin gone
        BY <2>1, <3>3, <4>1
      <4> QED BY <3>1, <3>2, <4>1, <4>2
    <3>4. ASSUME x \in ShownFiles(m.files)
          PROVE  x \in ShownFiles(mem.files) /\ x.upload \notin gone
      <4>1. PICK u \in DOMAIN m.files : \E f \in m.files[u] : x = Over([upload |-> u], f)
        BY <3>1, <3>4
      <4>2. u \in DOMAIN mem.files /\ u \notin gone /\ x.upload = u
        BY <2>1, <3>2, <4>1
      <4> QED BY <3>1, <3>2, <4>1, <4>2
    <3> QED BY <3>3, <3>4
  <2>3. Tables.files = ShownFiles(mem.files)
    BY TablesShow DEF Shows
  <2>4. d.files = {f \in ShownFiles(mem.files) : f.upload \notin gone}
    BY <1>3, <2>3
  <2> HIDE DEF d, m, gone
  <2> QED BY <2>2, <2>4
<1> HIDE DEF d, m
<1>7. /\ d.seq = Tables.seq /\ d.users = Tables.users /\ d.sessions = Tables.sessions
      /\ d.codes = Tables.codes /\ d.tokens = Tables.tokens
      /\ d.workspaces = Tables.workspaces /\ d.members = Tables.members
  BY <1>3 DEF TableNames
<1>8. /\ m.seq = mem.seq /\ m.users = mem.users /\ m.sessions = mem.sessions
      /\ m.oauthCodes = mem.oauthCodes /\ m.mcpTokens = mem.mcpTokens
      /\ m.workspaces = mem.workspaces /\ m.members = mem.members
  BY <1>2 DEF Maps
<1>9. d.repos = m.repos /\ d.uploads = m.uploads
  BY <1>2, <1>3
<1>10. Shows(d, m)
  BY <1>1, <1>4, <1>5, <1>6, <1>7, <1>8, <1>9, TablesShow DEF Shows
<1> QED BY <1>10 DEF d, m

\* DeleteRepo: what deleteRepoLocked drops is what the foreign keys cascade to.
LEMMA DeleteRepoImplements ==
    ASSUME IdsInv, ReportInv, NEW c, DeleteRepo(c)
    PROVE  PG!DeleteRepo(c)
<1>0. Tables.repos = mem.repos
  BY TablesShow DEF Shows
<1>1. CASE c.id \in DOMAIN mem.repos
  <2>1. Answers(c, Ok, deleteRepoLocked(mem, {c.id}))
    BY <1>1 DEF DeleteRepo, Updates
  <2>2. PG!Answers(c, Ok, PG!DropRepos(Tables, {c.id}))
    BY <2>1, ShowsDropped, Answered
  <2> QED BY <1>0, <1>1, <2>2, SameConstants DEF DeleteRepo, PG!DeleteRepo, PG!Affects
<1>2. CASE c.id \notin DOMAIN mem.repos
  <2>1. Answers(c, NotFound, mem)
    BY <1>2 DEF DeleteRepo, Updates
  <2>2. PG!Answers(c, NotFound, Tables)
    BY <2>1, TablesShow, Answered
  <2> QED BY <1>0, <1>2, <2>2, SameConstants DEF DeleteRepo, PG!DeleteRepo, PG!Affects
<1> QED BY <1>1, <1>2

----------------------------------------------------------------------------
(* The slugs under a prefix: those that start with it and a slash, and those  *)
(* in the byte range from "prefix/" to "prefix0".                             *)

\* Two names are alike up to n.
Alike(a, b, n) == \A i \in 1 .. n : a[i] = b[i]

\* Equal beginnings agree byte by byte.
LEMMA SubSeqAlike ==
    ASSUME NEW a \in Seq(Nat), NEW b \in Seq(Nat), NEW n \in Nat, n <= Len(a), n <= Len(b)
    PROVE  SubSeq(a, 1, n) = SubSeq(b, 1, n) <=> Alike(a, b, n)
<1>1. /\ SubSeq(a, 1, n) \in Seq(Nat) /\ Len(SubSeq(a, 1, n)) = n
      /\ \A i \in 1 .. n : SubSeq(a, 1, n)[i] = a[i]
  OBVIOUS
<1>2. /\ SubSeq(b, 1, n) \in Seq(Nat) /\ Len(SubSeq(b, 1, n)) = n
      /\ \A i \in 1 .. n : SubSeq(b, 1, n)[i] = b[i]
  OBVIOUS
<1>3. ASSUME Alike(a, b, n) PROVE SubSeq(a, 1, n) = SubSeq(b, 1, n)
  BY <1>1, <1>2, <1>3 DEF Alike
<1>4. ASSUME SubSeq(a, 1, n) = SubSeq(b, 1, n) PROVE Alike(a, b, n)
  BY <1>1, <1>2, <1>4 DEF Alike
<1> QED BY <1>3, <1>4

\* The order of slugs, byte by byte.
LEMMA BelowMeans ==
    ASSUME NEW a \in Seq(Nat), NEW b \in Seq(Nat), NEW l \in Nat, Len(b) = l + 1
    PROVE  PG!Below(a, b) <=> \E n \in 0 .. l :
                                /\ n <= Len(a) /\ Alike(a, b, n)
                                /\ n = Len(a) \/ a[n + 1] < b[n + 1]
<1>1. ASSUME NEW n \in 0 .. l, n <= Len(a)
      PROVE  SubSeq(a, 1, n) = SubSeq(b, 1, n) <=> Alike(a, b, n)
  BY <1>1, SubSeqAlike
<1>2. 0 .. Len(b) - 1 = 0 .. l
  OBVIOUS
<1> QED BY <1>1, <1>2 DEF PG!Below

\* The range scan from "prefix/" to "prefix0" finds the slugs below a prefix.
LEMMA OwnedIsUnder ==
    ASSUME NEW p \in Seq(Nat), NEW s \in Seq(Nat)
    PROVE  IsPrefix(Append(p, Slash), s)
           <=> ~ PG!Below(s, Append(p, PG!Slash)) /\ PG!Below(s, Append(p, PG!Slash + 1))
<1> DEFINE P == Append(p, 47)
           Q == Append(p, 48)
           L == Len(p)
<1>0. PG!Slash = 47 /\ Slash = 47
  BY DEF PG!Slash, Slash
<1>1. /\ P \in Seq(Nat) /\ Len(P) = L + 1 /\ P[L + 1] = 47 /\ \A i \in 1 .. L : P[i] = p[i]
      /\ Q \in Seq(Nat) /\ Len(Q) = L + 1 /\ Q[L + 1] = 48 /\ \A i \in 1 .. L : Q[i] = p[i]
      /\ L \in Nat /\ Len(s) \in Nat /\ \A i \in 1 .. Len(s) : s[i] \in Nat
  OBVIOUS
<1> HIDE DEF P, Q, L
<1>2. IsPrefix(P, s) <=> L + 1 <= Len(s) /\ Alike(P, s, L + 1)
  <2>1. IsPrefix(P, s) <=> L + 1 <= Len(s) /\ SubSeq(P, 1, L + 1) = SubSeq(s, 1, L + 1)
    BY <1>1 DEF IsPrefix
  <2>2. CASE L + 1 <= Len(s)
    <3>1. SubSeq(P, 1, L + 1) = SubSeq(s, 1, L + 1) <=> Alike(P, s, L + 1)
      <4>1. L + 1 \in Nat /\ L + 1 <= Len(P)
        BY <1>1
      <4> QED BY <1>1, <2>2, <4>1, SubSeqAlike
    <3> QED BY <2>1, <2>2, <3>1
  <2> QED BY <2>1, <2>2
<1>2a. ASSUME NEW R \in {P, Q}
      PROVE  PG!Below(s, R) <=> \E n \in 0 .. L : /\ n <= Len(s) /\ Alike(s, R, n)
                                                  /\ n = Len(s) \/ s[n + 1] < R[n + 1]
  <2>1. R \in Seq(Nat) /\ Len(R) = L + 1 /\ L \in Nat
    BY <1>1
  <2> QED BY <2>1, BelowMeans
<1>3. ASSUME L + 1 <= Len(s), Alike(P, s, L + 1)
      PROVE  ~ PG!Below(s, P) /\ PG!Below(s, Q)
  <2>1. ASSUME NEW n \in 0 .. L, n = Len(s) \/ s[n + 1] < P[n + 1] PROVE FALSE
    <3>1. P[n + 1] = s[n + 1] /\ n # Len(s) /\ s[n + 1] \in Nat
      BY <1>1, <1>3 DEF Alike
    <3> QED BY <2>1, <3>1
  <2>2. Alike(s, Q, L) /\ s[L + 1] = 47
    BY <1>1, <1>3 DEF Alike
  <2>3. PG!Below(s, Q)
    <3>1. L \in 0 .. Len(Q) - 1 /\ L <= Len(s) /\ s[L + 1] < Q[L + 1]
      BY <1>1, <1>3, <2>2
    <3> QED BY <1>1, <1>2a, <2>2, <3>1
  <2> QED BY <1>1, <2>1, <2>3, <1>2a
<1>4. ASSUME ~ PG!Below(s, P), PG!Below(s, Q)
      PROVE  L + 1 <= Len(s) /\ Alike(P, s, L + 1)
  <2>1. PICK n \in 0 .. L : n <= Len(s) /\ Alike(s, Q, n) /\ (n = Len(s) \/ s[n + 1] < Q[n + 1])
    BY <1>4, <1>2a
  <2>2. Alike(s, P, n)
    BY <1>1, <2>1 DEF Alike
  <2>3. n # Len(s) /\ ~ s[n + 1] < P[n + 1]
    BY <1>4, <2>1, <2>2, <1>2a
  <2>4. n = L
    BY <1>1, <2>1, <2>3
  <2>5. s[L + 1] = 47
    BY <1>1, <2>1, <2>3, <2>4
  <2>6. L + 1 <= Len(s) /\ Alike(P, s, L)
    BY <1>1, <2>1, <2>2, <2>3, <2>4 DEF Alike
  <2>7. ASSUME NEW i \in 1 .. L + 1 PROVE P[i] = s[i]
    <3>1. CASE i = L + 1
      BY <1>1, <2>5, <3>1
    <3>2. CASE i \in 1 .. L
      BY <2>6, <3>2 DEF Alike
    <3> QED BY <1>1, <3>1, <3>2
  <2> QED BY <2>6, <2>7 DEF Alike
<1>5. Append(p, Slash) = P /\ Append(p, PG!Slash) = P /\ Append(p, PG!Slash + 1) = Q
  BY <1>0 DEF P, Q
<1> QED BY <1>2, <1>3, <1>4, <1>5

----------------------------------------------------------------------------
(* Workspaces *)

IsWorkspace(w) == DOMAIN w = WorkspaceColumns \cup {"grant"}

\* A workspace is shown with its columns, and its grant in its forge's.
LEMMA ShownColumns ==
    ASSUME NEW w, IsWorkspace(w)
    PROVE  /\ DOMAIN ShownWorkspace(w) = WorkspaceColumns \cup GrantForges
           /\ \A k \in WorkspaceColumns : ShownWorkspace(w)[k] = w[k]
           /\ \A f \in GrantForges : ShownWorkspace(w)[f] = SealedGrant(GrantOf(w, f))
BY DEF ShownWorkspace, IsWorkspace, Over, Restrict, WorkspaceColumns, GrantForges

\* A call that only writes workspaces.
LEMMA ShowsWorkspaces ==
    ASSUME IdsInv, NEW ws, NEW tb, tb = ShownWorkspaces(ws)
    PROVE  Shows([Tables EXCEPT !.workspaces = tb], [mem EXCEPT !.workspaces = ws])
<1> DEFINE d == [Tables EXCEPT !.workspaces = tb]
           m == [mem EXCEPT !.workspaces = ws]
<1>1. IsTables(d)
  BY TablesShow, TablesExcept DEF Shows
<1>2. m.workspaces = ws /\ \A x \in Maps \ {"workspaces"} : m[x] = mem[x]
  BY DEF IdsInv, Maps
<1>3. d.workspaces = tb /\ \A x \in TableNames \ {"workspaces"} : d[x] = Tables[x]
  BY TablesShow DEF Shows, IsTables, TableNames
<1> HIDE DEF d, m
<1>4. Shows(d, m)
  BY <1>1, <1>2, <1>3, TablesShow DEF Shows, Maps, TableNames
<1> QED BY <1>4 DEF d, m

\* A name or token is taken in one store exactly when it is in the other.
LEMMA SameTaken ==
    ASSUME WorkspaceInv, NEW row
    PROVE  PG!WorkspaceTaken(row) <=> prefixTaken(row)
<1> DEFINE Clash(w) == (w.forge = row.forge /\ w.prefix = row.prefix) \/ w.token = row.token
<1>1. prefixTaken(row) <=> \E i \in DOMAIN mem.workspaces : Clash(mem.workspaces[i])
  <2>1. prefixTaken(row) <=> \E w \in Rows(mem.workspaces) : Clash(w)
    BY FindNone DEF prefixTaken
  <2>2. \A i \in DOMAIN mem.workspaces :
          Clash(Over([id |-> i], mem.workspaces[i])) <=> Clash(mem.workspaces[i])
    BY DEF Over, WorkspaceInv, WorkspaceColumns
  <2> QED BY <2>1, <2>2 DEF Rows
<1>2. PG!WorkspaceTaken(row) <=> \E i \in DOMAIN mem.workspaces : Clash(mem.workspaces[i])
  <2>1. PG!WorkspaceTaken(row) <=> \E w \in Rows(Tables.workspaces) : Clash(w)
    BY SameRows DEF PG!WorkspaceTaken
  <2>2. ASSUME NEW i \in DOMAIN mem.workspaces
        PROVE  Clash(Over([id |-> i], Tables.workspaces[i])) <=> Clash(mem.workspaces[i])
    <3>1. Tables.workspaces[i] = ShownWorkspace(mem.workspaces[i])
      BY TablesShow DEF Shows, ShownWorkspaces
    <3>2. IsWorkspace(mem.workspaces[i])
      BY DEF WorkspaceInv, IsWorkspace
    <3> QED BY <3>1, <3>2, ShownColumns DEF Over, WorkspaceColumns
  <2>3. DOMAIN Tables.workspaces = DOMAIN mem.workspaces
    BY TablesShow DEF Shows, ShownWorkspaces
  <2> QED BY <2>1, <2>2, <2>3 DEF Rows
<1> QED BY <1>1, <1>2

\* createWorkspace stores what the one field is shown as.
LEMMA SameNewWorkspace ==
    ASSUME NEW row, NEW given, DOMAIN row = WorkspaceColumns
    PROVE  PG!createWorkspace(row, given) = ShownWorkspace(Over(row, [grant |-> given]))
<1> DEFINE w == Over(row, [grant |-> given])
           p == PG!createWorkspace(row, given)
<1>1. IsWorkspace(w) /\ w.grant = given /\ \A k \in WorkspaceColumns : w[k] = row[k]
  BY DEF IsWorkspace, Over, WorkspaceColumns
<1>2. DOMAIN p = WorkspaceColumns \cup GrantForges /\ \A k \in WorkspaceColumns : p[k] = row[k]
  BY DEF PG!createWorkspace, PG!Over, GrantForges, WorkspaceColumns
<1>3. /\ p["bitbucket"] = SealedGrant(GrantOf(w, "bitbucket"))
      /\ p["gitlab"] = SealedGrant(GrantOf(w, "gitlab"))
  BY <1>1 DEF PG!createWorkspace, PG!Over, WorkspaceColumns, PG!Sealed, PG!sealToken, SealedGrant,
              GrantOf, PG!EmptyGrant, EmptyGrant
<1>4. p = Over(row, [bitbucket |-> p["bitbucket"], gitlab |-> p["gitlab"]])
  BY DEF PG!createWorkspace, PG!Over, Over, WorkspaceColumns
<1>5. \A k \in DOMAIN p : p[k] = ShownWorkspace(w)[k]
  BY <1>1, <1>2, <1>3, ShownColumns DEF GrantForges
<1> QED BY <1>1, <1>2, <1>4, <1>5, ShownColumns DEF ShownWorkspace, Over

\* The tables after a workspace was stored, as both stores leave them.
LEMMA ShowsNewWorkspace ==
    ASSUME IdsInv, NEW row, NEW given, DOMAIN row = WorkspaceColumns
    PROVE  Shows(PG!Insert("workspaces", PG!createWorkspace(row, given)),
                 Stored(mem, "workspaces", Over(row, [grant |-> given])))
<1> DEFINE w == Over(row, [grant |-> given])
           d == PG!Insert("workspaces", PG!createWorkspace(row, given))
           m == Stored(mem, "workspaces", w)
           id == mem.seq["workspaces"] + 1
<1>1. IsTables(d)
  BY TablesShow, TablesExcept DEF Shows, PG!Insert
<1>2. /\ m.workspaces = With(mem.workspaces, id, w)
      /\ m.seq = [mem.seq EXCEPT !["workspaces"] = @ + 1]
      /\ \A x \in Maps \ {"workspaces", "seq"} : m[x] = mem[x]
  BY DEF Stored, IdsInv, Maps
<1>3. /\ d.workspaces = With(Tables.workspaces, id, ShownWorkspace(w)) /\ d.seq = m.seq
      /\ \A x \in TableNames \ {"workspaces", "seq"} : d[x] = Tables[x]
  BY <1>2, TablesShow, SameWith, SameNewWorkspace DEF Shows, IsTables, TableNames, PG!Insert
<1>4. d.workspaces = ShownWorkspaces(m.workspaces)
  <2>1. Tables.workspaces = ShownWorkspaces(mem.workspaces)
    BY TablesShow DEF Shows
  <2> HIDE DEF d, m, w, id
  <2> QED BY <1>2, <1>3, <2>1 DEF With, ShownWorkspaces
<1> HIDE DEF d, m
<1>5. Shows(d, m)
  BY <1>1, <1>2, <1>3, <1>4, TablesShow DEF Shows, Maps, TableNames
<1> QED BY <1>5 DEF d, m

\* CreateWorkspace: the grant lands in its forge's columns.
LEMMA CreateWorkspaceImplements ==
    ASSUME IdsInv, WorkspaceInv, NEW c, DOMAIN c.row = WorkspaceColumns, CreateWorkspace(c)
    PROVE  PG!CreateWorkspace(c)
<1>0. c.op = "CreateWorkspace" /\ (PG!WorkspaceTaken(c.row) <=> prefixTaken(c.row))
  BY SameTaken DEF CreateWorkspace
<1>1. CASE prefixTaken(c.row)
  <2>1. Answers(c, Failed, mem)
    BY <1>1 DEF CreateWorkspace
  <2>2. PG!Refuses(c, "workspaces")
    BY <2>1, TablesShow, Answered, SameConstants DEF PG!Refuses, PG!Gap
  <2> QED BY <1>0, <1>1, <2>2 DEF PG!CreateWorkspace
<1>2. CASE ~ prefixTaken(c.row)
  <2> DEFINE id == mem.seq["workspaces"] + 1
             row == PG!createWorkspace(c.row, c.grant)
  <2>1. Answers(c, Created(id), Stored(mem, "workspaces", Over(c.row, [grant |-> c.grant])))
    BY <1>2 DEF CreateWorkspace, Stores
  <2>2. PG!Answers(c, Created(id), PG!Insert("workspaces", row))
    BY <2>1, ShowsNewWorkspace, Answered
  <2>3. PG!Inserts(c, "workspaces", row)
    BY <2>2, SameConstants, TablesShow DEF PG!Inserts, Shows
  <2> QED BY <1>0, <1>2, <2>3 DEF PG!CreateWorkspace
<1> QED BY <1>1, <1>2

\* A seat in the map of a user's seats is a row of the members.
LEMMA ShownSeats ==
    ASSUME NEW ms, NEW s
    PROVE  s \in ShownMembers(ms) <=>
             \E u \in DOMAIN ms : \E w \in DOMAIN ms[u] :
               s = [workspace |-> w, user |-> u, role |-> ms[u][w]]
BY DEF ShownMembers

\* RegisterWorkspace: the workspace and its owner's seat, or neither.
LEMMA RegisterWorkspaceImplements ==
    ASSUME IdsInv, WorkspaceInv, AccountInv, NEW c, DOMAIN c.row = WorkspaceColumns,
           RegisterWorkspace(c)
    PROVE  PG!RegisterWorkspace(c)
<1>0. /\ c.op = "RegisterWorkspace" /\ (PG!WorkspaceTaken(c.row) <=> prefixTaken(c.row))
      /\ Tables.users = mem.users
  BY SameTaken, TablesShow DEF RegisterWorkspace, Shows
<1>1. CASE c.user \notin DOMAIN mem.users \/ prefixTaken(c.row)
  <2>1. Answers(c, Failed, mem)
    BY <1>1 DEF RegisterWorkspace
  <2>2. PG!Refuses(c, "workspaces")
    BY <2>1, TablesShow, Answered, SameConstants DEF PG!Refuses, PG!Gap
  <2> QED BY <1>0, <1>1, <2>2 DEF PG!RegisterWorkspace
<1>2. CASE ~ (c.user \notin DOMAIN mem.users \/ prefixTaken(c.row))
  <2> DEFINE id == mem.seq["workspaces"] + 1
             stored == Stored(mem, "workspaces", Over(c.row, [grant |-> c.grant]))
             inserted == PG!Insert("workspaces", PG!createWorkspace(c.row, c.grant))
             seats == With(SeatsOf(c.user), id, "owner")
             members == With(mem.members, c.user, seats)
             m == [stored EXCEPT !.members = With(@, c.user, seats)]
             d == [inserted EXCEPT !.members =
                     @ \cup {[workspace |-> id, user |-> c.user, role |-> "owner"]}]
  <2>1. Shows(inserted, stored) /\ stored.members = mem.members
        /\ DOMAIN stored = Maps
    BY ShowsNewWorkspace DEF Stored, IdsInv, Maps
  <2> HIDE DEF stored, inserted
  <2>2. IsTables(d)
    BY <2>1, TablesExcept DEF Shows
  <2>3. m.members = members /\ \A x \in Maps \ {"members"} : m[x] = stored[x]
    BY <2>1 DEF Maps
  <2>4. /\ d.members = ShownMembers(mem.members)
                         \cup {[workspace |-> id, user |-> c.user, role |-> "owner"]}
        /\ \A x \in TableNames \ {"members"} : d[x] = inserted[x]
    BY <2>1 DEF Shows, IsTables, TableNames
  <2>5. d.members = ShownMembers(members)
    <3>1. id \notin DOMAIN SeatsOf(c.user)
      <4>1. DOMAIN mem.workspaces \subseteq 1 .. mem.seq["workspaces"] /\ mem.seq["workspaces"] \in Nat
        BY DEF IdsInv, Counted
      <4>2. DOMAIN SeatsOf(c.user) \subseteq DOMAIN mem.workspaces
        BY DEF SeatsOf, AccountInv, Nothing
      <4> QED BY <4>1, <4>2
    <3>2. /\ DOMAIN members = DOMAIN mem.members \cup {c.user} /\ members[c.user] = seats
          /\ \A u \in DOMAIN mem.members \ {c.user} : members[u] = mem.members[u]
      BY DEF With
    <3>3. /\ DOMAIN seats = DOMAIN SeatsOf(c.user) \cup {id} /\ seats[id] = "owner"
          /\ \A w \in DOMAIN SeatsOf(c.user) : seats[w] = SeatsOf(c.user)[w]
      BY <3>1 DEF With
    <3>4. IF c.user \in DOMAIN mem.members THEN SeatsOf(c.user) = mem.members[c.user]
          ELSE DOMAIN SeatsOf(c.user) = {}
      BY DEF SeatsOf, Nothing
    <3> HIDE DEF members, seats, id, d
    <3>5. ASSUME NEW s PROVE s \in d.members <=> s \in ShownMembers(members)
      <4>1. ASSUME s \in ShownMembers(mem.members) PROVE s \in ShownMembers(members)
        <5>0. PICK u \in DOMAIN mem.members : \E w \in DOMAIN mem.members[u] :
                s = [workspace |-> w, user |-> u, role |-> mem.members[u][w]]
          BY <4>1, ShownSeats
        <5>1. PICK w \in DOMAIN mem.members[u] :
                s = [workspace |-> w, user |-> u, role |-> mem.members[u][w]]
          BY <5>0
        <5>2. u \in DOMAIN members /\ w \in DOMAIN members[u] /\ members[u][w] = mem.members[u][w]
          BY <3>2, <3>3, <3>4
        <5> QED BY <5>1, <5>2, ShownSeats
      <4>2. [workspace |-> id, user |-> c.user, role |-> "owner"] \in ShownMembers(members)
        BY <3>2, <3>3, ShownSeats
      <4>3. ASSUME s \in ShownMembers(members),
                   s # [workspace |-> id, user |-> c.user, role |-> "owner"]
            PROVE  s \in ShownMembers(mem.members)
        <5>0. PICK u \in DOMAIN members : \E w \in DOMAIN members[u] :
                s = [workspace |-> w, user |-> u, role |-> members[u][w]]
          BY <4>3, ShownSeats
        <5>1. PICK w \in DOMAIN members[u] :
                s = [workspace |-> w, user |-> u, role |-> members[u][w]]
          BY <5>0
        <5>2. u \in DOMAIN mem.members /\ w \in DOMAIN mem.members[u] /\ members[u][w] = mem.members[u][w]
          BY <3>2, <3>3, <3>4, <4>3, <5>1
        <5> QED BY <5>1, <5>2, ShownSeats
      <4> QED BY <2>4, <4>1, <4>2, <4>3
    <3>6. d.members = ShownMembers(mem.members)
                         \cup {[workspace |-> id, user |-> c.user, role |-> "owner"]}
      BY <2>4
    <3>7. \A s : s \in ShownMembers(members) <=> s \in d.members
      BY <3>5
    <3>8. ShownMembers(members) \subseteq d.members /\ d.members \subseteq ShownMembers(members)
      BY <3>7
    <3> QED BY <3>6, <3>8
  <2> HIDE DEF d, m, members
  <2>6. Shows(d, m)
    BY <2>1, <2>2, <2>3, <2>4, <2>5 DEF Shows, Maps, TableNames
  <2>7. Answers(c, Created(id), m)
    BY <1>2 DEF RegisterWorkspace, m, stored
  <2>8. PG!Answers(c, Created(id), d)
    BY <2>6, <2>7, Answered
  <2>9. id = Tables.seq["workspaces"] + 1
    BY TablesShow DEF Shows
  <2> QED BY <1>0, <1>2, <2>8, <2>9, SameConstants DEF PG!RegisterWorkspace, d, inserted
<1> QED BY <1>1, <1>2

\* One workspace changes.
LEMMA ShowsOneWorkspace ==
    ASSUME IdsInv, NEW id \in DOMAIN mem.workspaces, NEW w, NEW row, row = ShownWorkspace(w)
    PROVE  Shows([Tables EXCEPT !.workspaces[id] = row], [mem EXCEPT !.workspaces[id] = w])
<1>1. Tables.workspaces = ShownWorkspaces(mem.workspaces)
  BY TablesShow DEF Shows
<1>2. [Tables.workspaces EXCEPT ![id] = row] = ShownWorkspaces([mem.workspaces EXCEPT ![id] = w])
  BY <1>1 DEF ShownWorkspaces
<1> QED BY <1>2, ShowsWorkspaces

\* The tables' row of a workspace, column by column.
LEMMA TablesWorkspace ==
    ASSUME WorkspaceInv, NEW id \in DOMAIN mem.workspaces
    PROVE  LET w == mem.workspaces[id]
               row == Tables.workspaces[id]
           IN  /\ IsWorkspace(w) /\ IsGrant(w.grant) /\ row = ShownWorkspace(w)
               /\ DOMAIN row = WorkspaceColumns \cup GrantForges
               /\ row.forge = w.forge /\ row.prefix = w.prefix
               /\ row.installation = w.installation
               /\ \A f \in GrantForges : row[f] = SealedGrant(GrantOf(w, f))
<1>1. IsWorkspace(mem.workspaces[id]) /\ IsGrant(mem.workspaces[id].grant)
  BY DEF WorkspaceInv, IsWorkspace
<1>2. Tables.workspaces[id] = ShownWorkspace(mem.workspaces[id])
  BY TablesShow DEF Shows, ShownWorkspaces
<1> QED BY <1>1, <1>2, ShownColumns DEF WorkspaceColumns

\* A workspace has a row for as long as it is in the map.
LEMMA TablesWorkspaces == DOMAIN Tables.workspaces = DOMAIN mem.workspaces
BY TablesShow DEF Shows, ShownWorkspaces

\* UpdateWorkspace: a full-row save leaves the grant alone.
LEMMA UpdateWorkspaceImplements ==
    ASSUME IdsInv, WorkspaceInv, NEW c, DOMAIN c.row = WorkspaceColumns, UpdateWorkspace(c)
    PROVE  PG!UpdateWorkspace(c)
<1>0. c.op = "UpdateWorkspace"
  BY DEF UpdateWorkspace
<1>1. CASE c.id \in DOMAIN mem.workspaces
  <2> DEFINE old == mem.workspaces[c.id]
             w == Over(c.row, [grant |-> old.grant])
             row == Over(c.row, Tables.workspaces[c.id])
  <2>1. Answers(c, Ok, [mem EXCEPT !.workspaces[c.id] = w])
    BY <1>1 DEF UpdateWorkspace, Updates
  <2>2. c.row.forge = old.forge
    <3>1. Over([id |-> c.id], old) \in Rows(mem.workspaces)
      BY <1>1 DEF Rows
    <3>2. /\ Over([id |-> c.id], old).id = c.id
          /\ Over([id |-> c.id], old).forge = old.forge
      BY <1>1, TablesWorkspace DEF IsWorkspace, WorkspaceColumns, Over
    <3> QED BY <3>1, <3>2 DEF UpdateWorkspace
  <2>3. IsWorkspace(w) /\ w.grant = old.grant /\ \A k \in WorkspaceColumns : w[k] = c.row[k]
    BY DEF IsWorkspace, Over, WorkspaceColumns
  <2>4. \A f \in GrantForges : GrantOf(w, f) = GrantOf(old, f)
    BY <2>2, <2>3 DEF GrantOf, WorkspaceColumns
  <2>5. row = ShownWorkspace(w)
    <3>1. DOMAIN row = WorkspaceColumns \cup GrantForges
      BY <1>1, TablesWorkspace DEF Over
    <3>2. DOMAIN ShownWorkspace(w) = WorkspaceColumns \cup GrantForges
      BY <2>3, ShownColumns
    <3>3. \A k \in WorkspaceColumns : row[k] = ShownWorkspace(w)[k]
      BY <2>3, ShownColumns DEF Over
    <3>4. \A k \in GrantForges : row[k] = ShownWorkspace(w)[k]
      BY <1>1, <2>3, <2>4, ShownColumns, TablesWorkspace DEF Over, WorkspaceColumns, GrantForges
    <3> QED BY <3>1, <3>2, <3>3, <3>4 DEF Over, ShownWorkspace
  <2> HIDE DEF w, row
  <2>6. PG!Answers(c, Ok, [Tables EXCEPT !.workspaces[c.id] = row])
    BY <1>1, <2>1, <2>5, ShowsOneWorkspace, Answered
  <2>7. row = PG!Over(c.row, Tables.workspaces[c.id])
    BY SameOver DEF row
  <2> QED BY <1>0, <1>1, <2>6, <2>7, TablesWorkspaces, SameConstants DEF PG!UpdateWorkspace, PG!Affects
<1>2. CASE c.id \notin DOMAIN mem.workspaces
  <2>1. Answers(c, NotFound, mem)
    BY <1>2 DEF UpdateWorkspace, Updates
  <2>2. PG!Answers(c, NotFound, Tables)
    BY <2>1, TablesShow, Answered
  <2> QED BY <1>0, <1>2, <2>2, TablesWorkspaces, SameConstants DEF PG!UpdateWorkspace, PG!Affects
<1> QED BY <1>1, <1>2

\* Both seal a grant alike.
LEMMA SameSealing ==
    ASSUME NEW g
    PROVE  PG!Sealed(g) = SealedGrant(g)
BY DEF PG!Sealed, PG!sealToken, SealedGrant

\* SetWorkspaceGrant: only a workspace of the grant's forge takes it.
LEMMA SetWorkspaceGrantImplements ==
    ASSUME IdsInv, WorkspaceInv, NEW c, SetWorkspaceGrant(c)
    PROVE  PG!SetWorkspaceGrant(c)
<1> DEFINE old == mem.workspaces[c.id]
           hit == /\ c.forge \in GrantForges /\ c.id \in DOMAIN mem.workspaces
                  /\ old.forge = c.forge
<1>0. /\ c.op = "SetWorkspaceGrant"
      /\ hit <=> /\ c.forge \in PG!GrantForges /\ c.id \in DOMAIN Tables.workspaces
                 /\ Tables.workspaces[c.id].forge = c.forge
  BY TablesWorkspaces, TablesWorkspace, SameConstants DEF SetWorkspaceGrant
<1>1. CASE hit
  <2> DEFINE w == [old EXCEPT !.grant = c.grant]
             row == [Tables.workspaces[c.id] EXCEPT ![c.forge] = SealedGrant(c.grant)]
  <2>1. Answers(c, Ok, [mem EXCEPT !.workspaces[c.id] = w])
    BY <1>1 DEF SetWorkspaceGrant
  <2>2. IsWorkspace(w) /\ w.grant = c.grant /\ \A k \in WorkspaceColumns : w[k] = old[k]
    BY <1>1, TablesWorkspace DEF IsWorkspace, WorkspaceColumns
  <2>3. row = ShownWorkspace(w)
    <3>1. /\ DOMAIN row = WorkspaceColumns \cup GrantForges
          /\ DOMAIN ShownWorkspace(w) = WorkspaceColumns \cup GrantForges
      BY <1>1, <2>2, ShownColumns, TablesWorkspace
    <3>2. ASSUME NEW k \in WorkspaceColumns PROVE row[k] = ShownWorkspace(w)[k]
      <4>1. k # c.forge
        BY <1>1 DEF WorkspaceColumns, GrantForges
      <4> QED BY <1>1, <2>2, <4>1, ShownColumns, TablesWorkspace
    <3>3. ASSUME NEW f \in GrantForges PROVE row[f] = ShownWorkspace(w)[f]
      <4>1. ShownWorkspace(w)[f] = SealedGrant(GrantOf(w, f))
        BY <2>2, ShownColumns
      <4>2. w.forge = c.forge
        BY <1>1, <2>2 DEF WorkspaceColumns
      <4>3. CASE f = c.forge
        BY <1>1, <2>2, <4>1, <4>2, <4>3, TablesWorkspace DEF GrantOf
      <4>4. CASE f # c.forge
        BY <1>1, <4>1, <4>2, <4>4, TablesWorkspace DEF GrantOf
      <4> QED BY <4>3, <4>4
    <3> QED BY <3>1, <3>2, <3>3 DEF ShownWorkspace, Over
  <2> HIDE DEF w, row
  <2>4. PG!Answers(c, Ok, [Tables EXCEPT !.workspaces[c.id] = row])
    BY <1>1, <2>1, <2>3, ShowsOneWorkspace, Answered
  <2> QED BY <1>0, <1>1, <2>4, SameSealing, SameConstants DEF PG!SetWorkspaceGrant, PG!Affects, row
<1>2. CASE ~ hit
  <2>1. Answers(c, NotFound, mem)
    BY <1>2 DEF SetWorkspaceGrant
  <2>2. PG!Answers(c, NotFound, Tables)
    BY <2>1, TablesShow, Answered
  <2> QED BY <1>0, <1>2, <2>2, SameConstants DEF PG!SetWorkspaceGrant, PG!Affects
<1> QED BY <1>1, <1>2

\* SetGitHubAppBroken: only while the workspace has that installation.
LEMMA SetGitHubAppBrokenImplements ==
    ASSUME IdsInv, WorkspaceInv, NEW c, SetGitHubAppBroken(c)
    PROVE  PG!SetGitHubAppBroken(c)
<1> DEFINE old == mem.workspaces[c.id]
           hit == /\ c.id \in DOMAIN mem.workspaces /\ old.forge = "github"
                  /\ old.installation = c.installation /\ c.installation # 0
           hits == {i \in {c.id} \cap DOMAIN mem.workspaces :
                      /\ mem.workspaces[i].forge = "github" /\ c.installation # 0
                      /\ mem.workspaces[i].installation = c.installation}
<1>0. /\ c.op = "SetGitHubAppBroken" /\ (hits = {} <=> ~ hit)
      /\ hit <=> /\ c.id \in DOMAIN Tables.workspaces
                 /\ Tables.workspaces[c.id].forge = "github"
                 /\ Tables.workspaces[c.id].installation = c.installation /\ c.installation # 0
  BY TablesWorkspaces, TablesWorkspace DEF SetGitHubAppBroken
<1>1. CASE hit
  <2> DEFINE w == [old EXCEPT !.appBroken = c.broken]
             row == [Tables.workspaces[c.id] EXCEPT !.appBroken = c.broken]
  <2>1. Answers(c, Ok, [mem EXCEPT !.workspaces[c.id] = w])
    BY <1>0, <1>1 DEF SetGitHubAppBroken
  <2>2. /\ IsWorkspace(w) /\ w.grant = old.grant /\ w.appBroken = c.broken
        /\ \A k \in WorkspaceColumns \ {"appBroken"} : w[k] = old[k]
    BY <1>1, TablesWorkspace DEF IsWorkspace, WorkspaceColumns
  <2>3. row = ShownWorkspace(w)
    <3>1. /\ DOMAIN row = WorkspaceColumns \cup GrantForges
          /\ DOMAIN ShownWorkspace(w) = WorkspaceColumns \cup GrantForges
      BY <1>1, <2>2, ShownColumns, TablesWorkspace
    <3>2. ASSUME NEW k \in WorkspaceColumns PROVE row[k] = ShownWorkspace(w)[k]
      <4>1. Tables.workspaces[c.id][k] = old[k] /\ ShownWorkspace(w)[k] = w[k]
        BY <1>1, <2>2, ShownColumns, TablesWorkspace
      <4> QED BY <1>1, <2>2, <3>1, <4>1, TablesWorkspace
    <3>3. ASSUME NEW f \in GrantForges PROVE row[f] = ShownWorkspace(w)[f]
      <4>1. ShownWorkspace(w)[f] = SealedGrant(GrantOf(w, f))
        BY <2>2, ShownColumns
      <4>2. f # "appBroken" /\ GrantOf(w, f) = GrantOf(old, f)
        BY <2>2 DEF GrantForges, GrantOf, WorkspaceColumns
      <4> QED BY <1>1, <4>1, <4>2, TablesWorkspace
    <3> QED BY <3>1, <3>2, <3>3 DEF ShownWorkspace, Over
  <2> HIDE DEF w, row
  <2>4. PG!Answers(c, Ok, [Tables EXCEPT !.workspaces[c.id] = row])
    BY <1>1, <2>1, <2>3, ShowsOneWorkspace, Answered
  <2> QED BY <1>0, <1>1, <2>4, SameConstants DEF PG!SetGitHubAppBroken, row
<1>2. CASE ~ hit
  <2>1. Answers(c, Ok, mem)
    BY <1>0, <1>2 DEF SetGitHubAppBroken
  <2>2. PG!Answers(c, Ok, Tables)
    BY <2>1, TablesShow, Answered
  <2> QED BY <1>0, <1>2, <2>2, SameConstants DEF PG!SetGitHubAppBroken
<1> QED BY <1>1, <1>2

\* Sealing keeps everything of a grant but the secret, of which it keeps whether
\* there is one; opening gives it back.
LEMMA SealedColumns ==
    ASSUME NEW g, IsGrant(g)
    PROVE  /\ DOMAIN SealedGrant(g) = {"account", "refresh", "broken"}
           /\ SealedGrant(g).account = g.account /\ SealedGrant(g).broken = g.broken
           /\ SealedGrant(g).refresh = <<>> <=> g.refresh = <<>>
           /\ PG!openToken(SealedGrant(g).refresh) = g.refresh
<1> DEFINE s == g.refresh
           S == Range(s) \cup {"sealed"}
<1>1. DOMAIN g = {"account", "refresh", "broken"} /\ s \in Seq(S)
  BY DEF IsGrant
<1>2. SealedGrant(g).refresh = IF s = <<>> THEN <<>> ELSE <<"sealed">> \o s
  BY <1>1 DEF SealedGrant
<1> HIDE DEF s, S
<1>3. /\ <<"sealed">> \o s \in Seq(S) /\ Len(<<"sealed">> \o s) = Len(s) + 1
      /\ \A i \in 1 .. Len(s) : (<<"sealed">> \o s)[i + 1] = s[i]
  <2>1. <<"sealed">> \in Seq(S)
    BY DEF S
  <2> QED BY <1>1, <2>1
<1>4. <<"sealed">> \o s # <<>> /\ Tail(<<"sealed">> \o s) = s
  <2>1. <<"sealed">> \o s # <<>>
    BY <1>1, <1>3
  <2>2. Tail(<<"sealed">> \o s) \in Seq(S) /\ Len(Tail(<<"sealed">> \o s)) = Len(s)
        /\ \A i \in 1 .. Len(s) : Tail(<<"sealed">> \o s)[i] = s[i]
    BY <1>1, <1>3, <2>1
  <2> QED BY <1>1, <2>1, <2>2
<1>5. PG!openToken(SealedGrant(g).refresh) = s
  BY <1>2, <1>4 DEF PG!openToken
<1>6. SealedGrant(g).refresh = <<>> <=> s = <<>>
  BY <1>2, <1>4
<1> QED BY <1>1, <1>5, <1>6 DEF SealedGrant, s

\* MarkWorkspaceGrantBroken: only while the workspace holds that account's grant.
LEMMA MarkWorkspaceGrantBrokenImplements ==
    ASSUME IdsInv, WorkspaceInv, NEW c, MarkWorkspaceGrantBroken(c)
    PROVE  PG!MarkWorkspaceGrantBroken(c)
<1> DEFINE old == mem.workspaces[c.id]
           held == Tables.workspaces[c.id][c.forge]
           hit == /\ c.id \in DOMAIN mem.workspaces /\ old.forge = c.forge /\ c.account # ""
                  /\ old.grant.account = c.account /\ old.grant.refresh # <<>>
           hits == {i \in {c.id} \cap DOMAIN mem.workspaces :
                      /\ mem.workspaces[i].forge = c.forge /\ c.account # ""
                      /\ mem.workspaces[i].grant.account = c.account
                      /\ mem.workspaces[i].grant.refresh # <<>>}
<1>0. c.op = "MarkWorkspaceGrantBroken" /\ (hits = {} <=> ~ hit)
  BY DEF MarkWorkspaceGrantBroken
<1>1. CASE c.forge \notin GrantForges
  <2>1. Answers(c, NotFound, mem)
    BY <1>1 DEF MarkWorkspaceGrantBroken
  <2>2. PG!Answers(c, NotFound, Tables)
    BY <2>1, TablesShow, Answered
  <2> QED BY <1>0, <1>1, <2>2, SameConstants DEF PG!MarkWorkspaceGrantBroken
<1>2. CASE c.forge \in GrantForges
  <2>0. hit <=> /\ c.id \in DOMAIN Tables.workspaces /\ Tables.workspaces[c.id].forge = c.forge
                /\ held.account = c.account /\ held.account # "" /\ held.refresh # <<>>
    <3>1. ASSUME c.id \in DOMAIN mem.workspaces, old.forge = c.forge
          PROVE  /\ held.account = old.grant.account
                 /\ held.refresh = <<>> <=> old.grant.refresh = <<>>
      <4>1. held = SealedGrant(old.grant) /\ IsGrant(old.grant)
        BY <1>2, <3>1, TablesWorkspace DEF GrantOf
      <4> QED BY <4>1, SealedColumns
    <3>2. c.id \in DOMAIN mem.workspaces => Tables.workspaces[c.id].forge = old.forge
      BY TablesWorkspace
    <3> QED BY <3>1, <3>2, TablesWorkspaces
  <2>1. CASE hit
    <3> DEFINE given == [old.grant EXCEPT !.broken = TRUE]
               w == [old EXCEPT !.grant = given]
               row == [Tables.workspaces[c.id] EXCEPT ![c.forge] = [held EXCEPT !.broken = TRUE]]
    <3>1. Answers(c, Ok, [mem EXCEPT !.workspaces[c.id] = w])
      BY <1>0, <1>2, <2>1 DEF MarkWorkspaceGrantBroken
    <3>2. IsWorkspace(w) /\ w.grant = given /\ \A k \in WorkspaceColumns : w[k] = old[k]
      BY <2>1, TablesWorkspace DEF IsWorkspace, WorkspaceColumns
    <3>3. SealedGrant(given) = [SealedGrant(old.grant) EXCEPT !.broken = TRUE]
      <4>1. DOMAIN old.grant = {"account", "refresh", "broken"}
        BY <2>1, TablesWorkspace DEF IsGrant
      <4> QED BY <4>1 DEF SealedGrant
    <3>4. row = ShownWorkspace(w)
      <4>1. /\ DOMAIN row = WorkspaceColumns \cup GrantForges
            /\ DOMAIN ShownWorkspace(w) = WorkspaceColumns \cup GrantForges
        BY <2>1, <3>2, ShownColumns, TablesWorkspace
      <4>2. ASSUME NEW k \in WorkspaceColumns PROVE row[k] = ShownWorkspace(w)[k]
        <5>1. k # c.forge
          BY <1>2 DEF WorkspaceColumns, GrantForges
        <5>0. Tables.workspaces[c.id] = ShownWorkspace(old) /\ IsWorkspace(old)
          BY <2>1, TablesWorkspace
        <5>2. Tables.workspaces[c.id][k] = old[k]
          <6> HIDE DEF w, row, given, old
          <6> QED BY <5>0, ShownColumns
        <5>2a. ShownWorkspace(w)[k] = w[k]
          <6> HIDE DEF w, row, given, old
          <6> QED BY <3>2, ShownColumns
        <5>3. row[k] = Tables.workspaces[c.id][k]
          BY <2>1, <5>1, TablesWorkspace
        <5> QED BY <3>2, <5>2, <5>2a, <5>3
      <4>3. ASSUME NEW f \in GrantForges PROVE row[f] = ShownWorkspace(w)[f]
        <5>1. ShownWorkspace(w)[f] = SealedGrant(GrantOf(w, f))
          BY <3>2, ShownColumns
        <5>2. w.forge = c.forge
          BY <2>1, <3>2 DEF WorkspaceColumns
        <5>3. CASE f = c.forge
          <6>1. held = SealedGrant(old.grant)
            BY <1>2, <2>1, TablesWorkspace DEF GrantOf
          <6>2. row[f] = [held EXCEPT !.broken = TRUE]
            BY <1>2, <2>1, <5>3, TablesWorkspace
          <6> QED BY <3>2, <3>3, <5>1, <5>2, <5>3, <6>1, <6>2 DEF GrantOf
        <5>4. CASE f # c.forge
          BY <2>1, <5>1, <5>2, <5>4, TablesWorkspace DEF GrantOf
        <5> QED BY <5>3, <5>4
      <4> QED BY <4>1, <4>2, <4>3 DEF ShownWorkspace, Over
    <3> HIDE DEF w, row, given
    <3>5. PG!Answers(c, Ok, [Tables EXCEPT !.workspaces[c.id] = row])
      BY <2>1, <3>1, <3>4, ShowsOneWorkspace, Answered
    <3> QED BY <1>0, <1>2, <2>0, <2>1, <3>5, SameConstants DEF PG!MarkWorkspaceGrantBroken, row
  <2>2. CASE ~ hit
    <3>1. Answers(c, Ok, mem)
      BY <1>0, <1>2, <2>2 DEF MarkWorkspaceGrantBroken
    <3>2. PG!Answers(c, Ok, Tables)
      BY <3>1, TablesShow, Answered
    <3> QED BY <1>0, <1>2, <2>0, <2>2, <3>2, SameConstants DEF PG!MarkWorkspaceGrantBroken
  <2> QED BY <2>1, <2>2
<1> QED BY <1>1, <1>2

\* The slugs in the byte range of a workspace's prefix are those it owns.
LEMMA SameOwned ==
    ASSUME RepoInv, NEW w, w.prefix \in Seq(Nat)
    PROVE  {r.id : r \in {s \in PG!Rows(Tables.repos) : PG!underPrefix(s, w.forge, w.prefix)}}
           = {i \in DOMAIN mem.repos : Owns(w, mem.repos[i])}
<1>1. ASSUME NEW i \in DOMAIN mem.repos
      PROVE  LET r == Over([id |-> i], mem.repos[i])
             IN  r.id = i /\ (PG!underPrefix(r, w.forge, w.prefix) <=> Owns(w, mem.repos[i]))
  <2> DEFINE r == Over([id |-> i], mem.repos[i])
             o == mem.repos[i]
  <2>1. DOMAIN o = RepoColumns \cup {"checked"} /\ o.slug \in Seq(Nat)
    BY DEF RepoInv
  <2>2. r.id = i /\ r.forge = o.forge /\ r.slug = o.slug
    BY <2>1 DEF Over, RepoColumns
  <2> HIDE DEF r, o
  <2>3. PG!underPrefix(r, w.forge, w.prefix) <=> Owns(w, o)
    BY <2>1, <2>2, OwnedIsUnder DEF PG!underPrefix, Owns
  <2> QED BY <2>2, <2>3 DEF r, o
<1>2. PG!Rows(Tables.repos) = {Over([id |-> i], mem.repos[i]) : i \in DOMAIN mem.repos}
  BY TablesShow, SameRows DEF Shows, Rows
<1> DEFINE under == {s \in PG!Rows(Tables.repos) : PG!underPrefix(s, w.forge, w.prefix)}
<1>3. ASSUME NEW i \in DOMAIN mem.repos, Owns(w, mem.repos[i])
      PROVE  i \in {r.id : r \in under}
  <2>1. Over([id |-> i], mem.repos[i]) \in under /\ Over([id |-> i], mem.repos[i]).id = i
    BY <1>1, <1>2, <1>3
  <2> HIDE DEF under
  <2> QED BY <2>1
<1>4. ASSUME NEW r \in under
      PROVE  r.id \in DOMAIN mem.repos /\ Owns(w, mem.repos[r.id])
  <2>1. PICK i \in DOMAIN mem.repos : r = Over([id |-> i], mem.repos[i])
    BY <1>2
  <2> QED BY <1>1, <2>1
<1> HIDE DEF under
<1>5. {r.id : r \in under} = {i \in DOMAIN mem.repos : Owns(w, mem.repos[i])}
  BY <1>3, <1>4
<1> QED BY <1>5 DEF under

\* DeleteWorkspace: the repos it owns, and its seats, go with it.
LEMMA DeleteWorkspaceImplements ==
    ASSUME IdsInv, RepoInv, WorkspaceInv, ReportInv, NEW c, DeleteWorkspace(c)
    PROVE  PG!DeleteWorkspace(c)
<1>0. c.op = "DeleteWorkspace"
  BY DEF DeleteWorkspace
<1>1. CASE c.id \in DOMAIN mem.workspaces
  <2> DEFINE ws == mem.workspaces[c.id]
             shown == Tables.workspaces[c.id]
             owned == {i \in DOMAIN mem.repos : Owns(ws, mem.repos[i])}
             under == {r.id : r \in {s \in PG!Rows(Tables.repos) :
                                       PG!underPrefix(s, shown.forge, shown.prefix)}}
             m0 == deleteRepoLocked(mem, owned)
             d0 == PG!DropRepos(Tables, owned)
             left == [u \in DOMAIN m0.members |-> Without(m0.members[u], {c.id})]
             m == [m0 EXCEPT !.workspaces = Without(@, {c.id}),
                             !.members = [u \in DOMAIN @ |-> Without(@[u], {c.id})]]
             d == [d0 EXCEPT !.workspaces = Without(@, {c.id}),
                             !.members = {s \in @ : s.workspace # c.id}]
  <2>1. Answers(c, Ok, m)
    BY <1>1 DEF DeleteWorkspace, Updates
  <2>2. under = owned
    <3>1. shown.forge = ws.forge /\ shown.prefix = ws.prefix
      BY <1>1, TablesWorkspace
    <3>2. ws.prefix \in Seq(Nat)
      BY <1>1 DEF WorkspaceInv
    <3> HIDE DEF ws, shown
    <3> QED BY <3>1, <3>2, SameOwned
  <2>3. Shows(d0, m0) /\ DOMAIN m0 = Maps
    BY ShowsDropped DEF deleteRepoLocked, IdsInv, Maps
  <2> HIDE DEF ws, shown, owned, under, m0, d0
  <2>4. IsTables(d)
    <3>1. IsTables(d0)
      BY <2>3 DEF Shows
    <3> QED BY <3>1 DEF IsTables, IsFunction
  <2>5. /\ m.workspaces = Without(m0.workspaces, {c.id}) /\ m.members = left
        /\ \A x \in Maps \ {"workspaces", "members"} : m[x] = m0[x]
    BY <2>3 DEF Maps
  <2>6. /\ d.workspaces = Without(d0.workspaces, {c.id})
        /\ d.members = {s \in d0.members : s.workspace # c.id}
        /\ \A x \in TableNames \ {"workspaces", "members"} : d[x] = d0[x]
    BY <2>3 DEF Shows, IsTables, TableNames
  <2>7. d.workspaces = ShownWorkspaces(m.workspaces)
    <3>1. d0.workspaces = ShownWorkspaces(m0.workspaces)
      BY <2>3 DEF Shows
    <3> HIDE DEF d, m
    <3> QED BY <2>5, <2>6, <3>1 DEF Without, Restrict, ShownWorkspaces
  <2>8. d.members = ShownMembers(m.members)
    <3>1. d0.members = ShownMembers(m0.members)
      BY <2>3 DEF Shows
    <3>2. /\ DOMAIN left = DOMAIN m0.members
          /\ \A u \in DOMAIN left :
               /\ DOMAIN left[u] = DOMAIN m0.members[u] \ {c.id}
               /\ \A w \in DOMAIN left[u] : left[u][w] = m0.members[u][w]
      BY DEF Without, Restrict
    <3> HIDE DEF left
    <3>3. ASSUME NEW s, s \in ShownMembers(m0.members), s.workspace # c.id
          PROVE  s \in ShownMembers(left)
      <4>0. PICK u \in DOMAIN m0.members : \E w \in DOMAIN m0.members[u] :
              s = [workspace |-> w, user |-> u, role |-> m0.members[u][w]]
        BY <3>3, ShownSeats
      <4>1. PICK w \in DOMAIN m0.members[u] :
              s = [workspace |-> w, user |-> u, role |-> m0.members[u][w]]
        BY <4>0
      <4>2. u \in DOMAIN left /\ w \in DOMAIN left[u] /\ left[u][w] = m0.members[u][w]
        BY <3>2, <3>3, <4>1
      <4> QED BY <4>1, <4>2, ShownSeats
    <3>4. ASSUME NEW s \in ShownMembers(left)
          PROVE  s \in ShownMembers(m0.members) /\ s.workspace # c.id
      <4>0. PICK u \in DOMAIN left : \E w \in DOMAIN left[u] :
              s = [workspace |-> w, user |-> u, role |-> left[u][w]]
        BY <3>4, ShownSeats
      <4>1. PICK w \in DOMAIN left[u] : s = [workspace |-> w, user |-> u, role |-> left[u][w]]
        BY <4>0
      <4>2. /\ u \in DOMAIN m0.members /\ w \in DOMAIN m0.members[u] /\ w # c.id
            /\ left[u][w] = m0.members[u][w]
        BY <3>2
      <4> QED BY <4>1, <4>2, ShownSeats
    <3>5. ShownMembers(left) = {s \in ShownMembers(m0.members) : s.workspace # c.id}
      BY <3>3, <3>4
    <3> HIDE DEF d, m
    <3> QED BY <2>5, <2>6, <3>1, <3>5
  <2> HIDE DEF d, m
  <2>9. Shows(d, m)
    BY <2>3, <2>4, <2>5, <2>6, <2>7, <2>8 DEF Shows, Maps, TableNames
  <2>10. PG!Answers(c, Ok, d)
    BY <2>1, <2>9, Answered
  <2>11. d = [PG!DropRepos(Tables, under) EXCEPT
                !.workspaces = PG!Without(@, {c.id}),
                !.members = {s \in @ : s.workspace # c.id}]
    BY <2>2, SameWithout DEF d, d0
  <2> QED BY <1>0, <1>1, <2>10, <2>11, TablesWorkspaces, SameConstants
          DEF PG!DeleteWorkspace, under, shown
<1>2. CASE c.id \notin DOMAIN mem.workspaces
  <2>1. Answers(c, NotFound, mem)
    BY <1>2 DEF DeleteWorkspace, Updates
  <2>2. PG!Answers(c, NotFound, Tables)
    BY <2>1, TablesShow, Answered
  <2> QED BY <1>0, <1>2, <2>2, TablesWorkspaces, SameConstants DEF PG!DeleteWorkspace
<1> QED BY <1>1, <1>2

----------------------------------------------------------------------------
(* Accounts *)

\* One user changes, and the others' rows stay.
LEMMA ShowsUsers ==
    ASSUME IdsInv, NEW d, NEW m, IsTables(d), d.users = m.users,
           \A x \in TableNames \ {"users"} : d[x] = Tables[x],
           \A x \in Maps \ {"users"} : m[x] = mem[x]
    PROVE  Shows(d, m)
BY TablesShow DEF Shows, Maps, TableNames

\* UpsertUser: the account there is takes the profile, another is created.
LEMMA UpsertUserImplements ==
    ASSUME IdsInv, AccountInv, NEW c, UpsertUser(c)
    PROVE  PG!UpsertUser(c)
<1> DEFINE existing == find({x \in Rows(mem.users) : x.forge = c.row.forge /\ x.uuid = c.row.uuid})
           found == {i \in DOMAIN mem.users :
                       mem.users[i].forge = c.row.forge /\ mem.users[i].uuid = c.row.uuid}
           row == Over(c.row, [created |-> now, login |-> now])
<1>0. c.op = "UpsertUser" /\ Tables.users = mem.users /\ Tables.seq = mem.seq
  BY TablesShow DEF UpsertUser, Shows
<1>1. ASSUME NEW i \in DOMAIN mem.users
      PROVE  LET r == Over([id |-> i], mem.users[i])
             IN  r.id = i /\ r.forge = mem.users[i].forge /\ r.uuid = mem.users[i].uuid
  BY DEF Over, AccountInv, UserColumns
<1> DEFINE taken == {x \in Rows(mem.users) : x.forge = c.row.forge /\ x.uuid = c.row.uuid}
<1>2. existing = <<>> <=> found = {}
  <2>1. existing = <<>> <=> taken = {}
    BY FindNone
  <2>2. ASSUME NEW i \in found PROVE taken # {}
    <3>1. Over([id |-> i], mem.users[i]) \in taken
      BY <1>1 DEF Rows
    <3> QED BY <3>1
  <2>3. ASSUME NEW x \in taken PROVE found # {}
    <3>1. PICK i \in DOMAIN mem.users : x = Over([id |-> i], mem.users[i])
      BY DEF Rows
    <3>2. i \in found
      BY <1>1, <3>1
    <3> QED BY <3>2
  <2> HIDE DEF existing, taken, found
  <2> QED BY <2>1, <2>2, <2>3
<1>3. existing # <<>> => existing[1].id \in found
  <2>1. SUFFICES ASSUME existing # <<>> PROVE existing[1].id \in found
    OBVIOUS
  <2>2. taken # {} /\ existing = <<CHOOSE r \in taken : TRUE>>
    BY <2>1 DEF find
  <2>3. existing[1] \in taken
    <3> HIDE DEF taken, existing
    <3> QED BY <2>2
  <2>4. PICK i \in DOMAIN mem.users : existing[1] = Over([id |-> i], mem.users[i])
    BY <2>3 DEF Rows
  <2> HIDE DEF existing
  <2>5. existing[1].id = i /\ i \in found
    BY <1>1, <2>3, <2>4
  <2> QED BY <2>5
<1>4. CASE found = {}
  <2> DEFINE m == Stored(mem, "users", row)
             d == PG!Insert("users", row)
             id == mem.seq["users"] + 1
  <2>1. Answers(c, Created(id), m)
    BY <1>2, <1>4 DEF UpsertUser, Stores
  <2>2. Shows(d, m)
    <3>1. IsTables(d)
      BY TablesShow, TablesExcept DEF Shows, PG!Insert
    <3>2. /\ m.users = With(mem.users, id, row) /\ m.seq = [mem.seq EXCEPT !["users"] = @ + 1]
          /\ \A x \in Maps \ {"users", "seq"} : m[x] = mem[x]
      BY DEF Stored, IdsInv, Maps
    <3>3. /\ d.users = m.users /\ d.seq = m.seq
          /\ \A x \in TableNames \ {"users", "seq"} : d[x] = Tables[x]
      BY <3>2, TablesShow, SameWith DEF Shows, IsTables, TableNames, PG!Insert
    <3> HIDE DEF d, m
    <3> QED BY <3>1, <3>2, <3>3, TablesShow DEF Shows, Maps, TableNames
  <2>3. PG!Answers(c, Created(id), d)
    BY <2>1, <2>2, Answered
  <2>4. row = PG!Over(c.row, [created |-> now, login |-> now])
    BY SameOver
  <2>5. PG!Inserts(c, "users", row)
    BY <1>0, <2>3, SameConstants DEF PG!Inserts
  <2> HIDE DEF row
  <2> QED BY <1>0, <1>4, <2>4, <2>5 DEF PG!UpsertUser
<1>5. CASE found # {}
  <2> DEFINE id == existing[1].id
             m == [mem EXCEPT !.users[id].profile = c.row.profile, !.users[id].login = now]
             d == [Tables EXCEPT !.users[id].profile = c.row.profile, !.users[id].login = now]
  <2>1. Answers(c, Created(id), m)
    BY <1>2, <1>5 DEF UpsertUser
  <2>2. id \in found
    BY <1>2, <1>3, <1>5
  <2> HIDE DEF id
  <2>3. Shows(d, m)
    <3>1. IsTables(d)
      BY TablesShow, TablesExcept DEF Shows
    <3>2. \A x \in Maps \ {"users"} : m[x] = mem[x]
      BY DEF IdsInv, Maps
    <3>3. d.users = m.users /\ \A x \in TableNames \ {"users"} : d[x] = Tables[x]
      BY TablesShow DEF Shows, IsTables, TableNames, IdsInv, Maps
    <3> HIDE DEF d, m
    <3> QED BY <3>1, <3>2, <3>3, ShowsUsers
  <2>4. PG!Answers(c, PG!Created(id), d)
    BY <2>1, <2>3, Answered, SameConstants
  <2>5. Tables \in PG!Gap("users", Tables)
    BY DEF PG!Gap
  <2> QED BY <1>0, <1>5, <2>2, <2>4, <2>5 DEF PG!UpsertUser
<1> QED BY <1>4, <1>5

\* A user's seats set anew, or gone.
LEMMA ShownSeatsWith ==
    ASSUME NEW ms, NEW u, NEW set
    PROVE  ShownMembers(With(ms, u, set))
           = {s \in ShownMembers(ms) : s.user # u}
               \cup {[workspace |-> w, user |-> u, role |-> set[w]] : w \in DOMAIN set}
<1> DEFINE new == With(ms, u, set)
           mine == {[workspace |-> w, user |-> u, role |-> set[w]] : w \in DOMAIN set}
<1>1. /\ DOMAIN new = DOMAIN ms \cup {u} /\ new[u] = set
      /\ \A v \in DOMAIN ms \ {u} : new[v] = ms[v]
  BY DEF With
<1> HIDE DEF new
<1>2. ASSUME NEW s \in ShownMembers(new) PROVE s \in mine \/ (s \in ShownMembers(ms) /\ s.user # u)
  <2>0. PICK v \in DOMAIN new : \E w \in DOMAIN new[v] :
          s = [workspace |-> w, user |-> v, role |-> new[v][w]]
    BY <1>2, ShownSeats
  <2>1. PICK w \in DOMAIN new[v] : s = [workspace |-> w, user |-> v, role |-> new[v][w]]
    BY <2>0
  <2>2. CASE v = u
    BY <1>1, <2>1, <2>2
  <2>3. CASE v # u
    <3>1. v \in DOMAIN ms /\ new[v] = ms[v]
      BY <1>1, <2>3
    <3> QED BY <2>1, <2>3, <3>1, ShownSeats
  <2> QED BY <2>2, <2>3
<1>3. ASSUME NEW s \in ShownMembers(ms), s.user # u PROVE s \in ShownMembers(new)
  <2>0. PICK v \in DOMAIN ms : \E w \in DOMAIN ms[v] :
          s = [workspace |-> w, user |-> v, role |-> ms[v][w]]
    BY <1>3, ShownSeats
  <2>1. PICK w \in DOMAIN ms[v] : s = [workspace |-> w, user |-> v, role |-> ms[v][w]]
    BY <2>0
  <2>2. v \in DOMAIN new /\ new[v] = ms[v]
    BY <1>1, <1>3, <2>1
  <2> QED BY <2>1, <2>2, ShownSeats
<1>4. ASSUME NEW s \in mine PROVE s \in ShownMembers(new)
  <2>1. PICK w \in DOMAIN set : s = [workspace |-> w, user |-> u, role |-> set[w]]
    BY <1>4
  <2>2. u \in DOMAIN new /\ new[u] = set
    BY <1>1
  <2> QED BY <2>1, <2>2, ShownSeats
<1> HIDE DEF mine
<1>5. ShownMembers(new) = {s \in ShownMembers(ms) : s.user # u} \cup mine
  BY <1>2, <1>3, <1>4
<1> QED BY <1>5 DEF new, mine

\* Without a user's entry, the user's seats are gone.
LEMMA ShownSeatsWithout ==
    ASSUME NEW ms, NEW u
    PROVE  ShownMembers(Without(ms, {u})) = {s \in ShownMembers(ms) : s.user # u}
<1> DEFINE new == Without(ms, {u})
<1>1. DOMAIN new = DOMAIN ms \ {u} /\ \A v \in DOMAIN new : new[v] = ms[v]
  BY DEF Without, Restrict
<1> HIDE DEF new
<1>2. ASSUME NEW s \in ShownMembers(new) PROVE s \in ShownMembers(ms) /\ s.user # u
  <2>0. PICK v \in DOMAIN new : \E w \in DOMAIN new[v] :
          s = [workspace |-> w, user |-> v, role |-> new[v][w]]
    BY <1>2, ShownSeats
  <2>1. PICK w \in DOMAIN new[v] : s = [workspace |-> w, user |-> v, role |-> new[v][w]]
    BY <2>0
  <2>2. v \in DOMAIN ms /\ v # u /\ new[v] = ms[v]
    BY <1>1
  <2> QED BY <2>1, <2>2, ShownSeats
<1>3. ASSUME NEW s \in ShownMembers(ms), s.user # u PROVE s \in ShownMembers(new)
  <2>0. PICK v \in DOMAIN ms : \E w \in DOMAIN ms[v] :
          s = [workspace |-> w, user |-> v, role |-> ms[v][w]]
    BY <1>3, ShownSeats
  <2>1. PICK w \in DOMAIN ms[v] : s = [workspace |-> w, user |-> v, role |-> ms[v][w]]
    BY <2>0
  <2>2. v \in DOMAIN new /\ new[v] = ms[v]
    BY <1>1, <1>3, <2>1
  <2> QED BY <2>1, <2>2, ShownSeats
<1>4. ShownMembers(new) = {s \in ShownMembers(ms) : s.user # u}
  BY <1>2, <1>3
<1> QED BY <1>4 DEF new

\* DeleteUser: seats, sessions, codes and tokens go with the account.
LEMMA DeleteUserImplements ==
    ASSUME IdsInv, NEW c, DeleteUser(c)
    PROVE  PG!DeleteUser(c)
<1>0. c.op = "DeleteUser" /\ Tables.users = mem.users
  BY TablesShow DEF DeleteUser, Shows
<1>1. CASE c.id \in DOMAIN mem.users
  <2> DEFINE m == [mem EXCEPT !.users = Without(@, {c.id}), !.members = Without(@, {c.id}),
                              !.sessions = Without(@, OfUser(@, c.id)),
                              !.oauthCodes = Without(@, OfUser(@, c.id)),
                              !.mcpTokens = Without(@, OfUser(@, c.id))]
             d == PG!DropUser(Tables, c.id)
  <2>1. Answers(c, Ok, m)
    BY <1>1 DEF DeleteUser, Updates
  <2>2. Shows(d, m)
    <3>1. IsTables(d)
      BY TablesShow, TablesExcept DEF Shows, PG!DropUser
    <3>2. /\ m.users = Without(mem.users, {c.id}) /\ m.members = Without(mem.members, {c.id})
          /\ m.sessions = Without(mem.sessions, OfUser(mem.sessions, c.id))
          /\ m.oauthCodes = Without(mem.oauthCodes, OfUser(mem.oauthCodes, c.id))
          /\ m.mcpTokens = Without(mem.mcpTokens, OfUser(mem.mcpTokens, c.id))
          /\ \A x \in Maps \ {"users", "members", "sessions", "oauthCodes", "mcpTokens"} :
               m[x] = mem[x]
      BY DEF IdsInv, Maps
    <3>3. /\ d.users = Without(Tables.users, {c.id})
          /\ d.members = {s \in Tables.members : s.user # c.id}
          /\ d.sessions = Without(Tables.sessions, OfUser(Tables.sessions, c.id))
          /\ d.codes = Without(Tables.codes, OfUser(Tables.codes, c.id))
          /\ d.tokens = Without(Tables.tokens, OfUser(Tables.tokens, c.id))
          /\ \A x \in TableNames \ {"users", "members", "sessions", "codes", "tokens"} :
               d[x] = Tables[x]
      BY TablesShow, SameWithout DEF Shows, IsTables, TableNames, PG!DropUser, OfUser
    <3> HIDE DEF d, m
    <3>4. d.members = ShownMembers(m.members)
      <4>1. Tables.members = ShownMembers(mem.members)
        BY TablesShow DEF Shows
      <4>2. m.members = Without(mem.members, {c.id})
        BY <3>2
      <4>3. d.members = {s \in ShownMembers(mem.members) : s.user # c.id}
        BY <3>3, <4>1
      <4>4. ShownMembers(Without(mem.members, {c.id})) = {s \in ShownMembers(mem.members) : s.user # c.id}
        BY ShownSeatsWithout
      <4> QED BY <4>2, <4>3, <4>4
    <3> QED BY <3>1, <3>2, <3>3, <3>4, TablesShow DEF Shows, Maps, TableNames
  <2>3. PG!Answers(c, Ok, d)
    BY <2>1, <2>2, Answered
  <2> QED BY <1>0, <1>1, <2>3, SameConstants DEF PG!DeleteUser, PG!Affects
<1>2. CASE c.id \notin DOMAIN mem.users
  <2>1. Answers(c, NotFound, mem)
    BY <1>2 DEF DeleteUser, Updates
  <2>2. PG!Answers(c, NotFound, Tables)
    BY <2>1, TablesShow, Answered
  <2> QED BY <1>0, <1>2, <2>2, SameConstants DEF PG!DeleteUser, PG!Affects
<1> QED BY <1>1, <1>2

\* The map of a user's seats is what the table's rows of the user say.
LEMMA SetUserMembershipsImplements ==
    ASSUME IdsInv, AccountInv, NEW c, \A s, t \in c.seats : s.workspace = t.workspace => s = t,
           SetUserMemberships(c)
    PROVE  PG!SetUserMemberships(c)
<1> DEFINE seats == {[workspace |-> s.workspace, user |-> c.user, role |-> s.role] : s \in c.seats}
           bad == \E s \in c.seats : s.workspace \notin DOMAIN mem.workspaces \/ s.role \notin Roles
           roleIn(w) == (CHOOSE s \in c.seats : s.workspace = w).role
           set == [w \in {s.workspace : s \in c.seats} |-> roleIn(w)]
           kept == {s \in Tables.members : s.user # c.user}
           d == [Tables EXCEPT !.members = kept \cup seats]
<1>0. c.op = "SetUserMemberships" /\ Tables.members = ShownMembers(mem.members)
  BY TablesShow DEF SetUserMemberships, Shows
<1>1. bad <=> \E s \in seats : s.workspace \notin DOMAIN Tables.workspaces \/ s.role \notin PG!Roles
  <2>1. ASSUME NEW s \in c.seats
        PROVE  LET t == [workspace |-> s.workspace, user |-> c.user, role |-> s.role]
               IN  t \in seats /\ t.workspace = s.workspace /\ t.role = s.role
    OBVIOUS
  <2>2. ASSUME NEW t \in seats
        PROVE  \E s \in c.seats : t.workspace = s.workspace /\ t.role = s.role
    OBVIOUS
  <2>3. DOMAIN Tables.workspaces = DOMAIN mem.workspaces /\ PG!Roles = Roles
    BY TablesWorkspaces, SameConstants
  <2> HIDE DEF seats
  <2>4. ASSUME bad
        PROVE  \E s \in seats : s.workspace \notin DOMAIN mem.workspaces \/ s.role \notin Roles
    BY <2>1, <2>4
  <2>5. ASSUME \E s \in seats : s.workspace \notin DOMAIN mem.workspaces \/ s.role \notin Roles
        PROVE  bad
    BY <2>2, <2>5
  <2> HIDE DEF bad
  <2> QED BY <2>3, <2>4, <2>5
<1>2. ASSUME NEW ms, ShownMembers(ms) = kept \cup seats
      PROVE  Shows(d, [mem EXCEPT !.members = ms])
  <2> DEFINE m == [mem EXCEPT !.members = ms]
  <2>1. IsTables(d)
    BY TablesShow, TablesExcept DEF Shows
  <2>2. m.members = ms /\ \A x \in Maps \ {"members"} : m[x] = mem[x]
    BY DEF IdsInv, Maps
  <2>3. d.members = kept \cup seats /\ \A x \in TableNames \ {"members"} : d[x] = Tables[x]
    BY TablesShow DEF Shows, IsTables, TableNames
  <2> HIDE DEF d, m, kept, seats
  <2>4. Shows(d, m)
    BY <1>2, <2>1, <2>2, <2>3, TablesShow DEF Shows, Maps, TableNames
  <2> QED BY <2>4 DEF m
<1>3. ASSUME PG!Answers(c, Ok, d), ~ bad PROVE PG!SetUserMemberships(c)
  <2>1. d = [Tables EXCEPT !.members = {m \in @ : m.user # c.user} \cup seats]
    OBVIOUS
  <2> HIDE DEF d, bad
  <2> QED BY <1>0, <1>1, <1>3, <2>1, SameConstants DEF PG!SetUserMemberships
<1>4. CASE c.seats = {}
  <2>1. Answers(c, Ok, [mem EXCEPT !.members = Without(@, {c.user})])
    BY <1>4 DEF SetUserMemberships
  <2>2. ShownMembers(Without(mem.members, {c.user})) = kept \cup seats
    BY <1>0, <1>4, ShownSeatsWithout
  <2> HIDE DEF d, kept, seats
  <2>3. PG!Answers(c, Ok, d)
    BY <1>2, <2>1, <2>2, Answered
  <2> QED BY <1>3, <1>4, <2>3
<1>5. CASE c.seats # {} /\ bad
  <2>1. Answers(c, Failed, mem)
    BY <1>5 DEF SetUserMemberships
  <2>2. PG!Answers(c, Failed, Tables)
    BY <2>1, TablesShow, Answered
  <2> HIDE DEF bad
  <2> QED BY <1>0, <1>1, <1>5, <2>2, SameConstants DEF PG!SetUserMemberships
<1>6. CASE c.seats # {} /\ ~ bad
  <2>1. Answers(c, Ok, [mem EXCEPT !.members = With(@, c.user, set)])
    BY <1>6 DEF SetUserMemberships
  <2>2. \A s \in c.seats : roleIn(s.workspace) = s.role
    OBVIOUS
  <2>3. seats = {[workspace |-> w, user |-> c.user, role |-> set[w]] : w \in DOMAIN set}
    <3>1. \A s \in c.seats : s.workspace \in DOMAIN set /\ set[s.workspace] = s.role
      BY <2>2
    <3>2. \A w \in DOMAIN set : \E s \in c.seats : s.workspace = w
      OBVIOUS
    <3> HIDE DEF set
    <3>3. ASSUME NEW s \in c.seats
          PROVE  [workspace |-> s.workspace, user |-> c.user, role |-> s.role]
                   \in {[workspace |-> w, user |-> c.user, role |-> set[w]] : w \in DOMAIN set}
      BY <3>1
    <3>4. ASSUME NEW w \in DOMAIN set
          PROVE  [workspace |-> w, user |-> c.user, role |-> set[w]] \in seats
      <4>1. PICK s \in c.seats : s.workspace = w
        BY <3>2
      <4>2. set[w] = s.role
        BY <3>1, <4>1
      <4> QED BY <4>1, <4>2
    <3> QED BY <3>3, <3>4
  <2>4. ShownMembers(With(mem.members, c.user, set)) = kept \cup seats
    BY <1>0, <2>3, ShownSeatsWith
  <2> HIDE DEF d, kept, seats, set
  <2>5. PG!Answers(c, Ok, d)
    BY <1>2, <2>1, <2>4, Answered
  <2> QED BY <1>3, <1>6, <2>5
<1> QED BY <1>4, <1>5, <1>6

\* The maps by hash, and their tables.
HashTables == {<<"sessions", "sessions">>, <<"oauthCodes", "codes">>, <<"mcpTokens", "tokens">>}

\* A call that only writes one table of hashes.
LEMMA ShowsHashes ==
    ASSUME IdsInv, NEW p \in HashTables, NEW f, NEW m,
           m[p[1]] = f, \A x \in Maps \ {p[1]} : m[x] = mem[x]
    PROVE  Shows([Tables EXCEPT ![p[2]] = f], m)
<1> DEFINE d == [Tables EXCEPT ![p[2]] = f]
<1>1. IsTables(d)
  BY TablesShow, TablesExcept DEF Shows
<1>2. d[p[2]] = f /\ \A x \in TableNames \ {p[2]} : d[x] = Tables[x]
  BY TablesShow DEF Shows, IsTables, TableNames, HashTables
<1> HIDE DEF d
<1>3. ASSUME p = <<"sessions", "sessions">> PROVE Shows(d, m)
  <2>1. /\ d.sessions = m.sessions /\ \A x \in TableNames \ {"sessions"} : d[x] = Tables[x]
        /\ \A x \in Maps \ {"sessions"} : m[x] = mem[x]
    BY <1>2, <1>3
  <2> QED BY <1>1, <2>1, TablesShow DEF Shows, Maps, TableNames
<1>4. ASSUME p = <<"oauthCodes", "codes">> PROVE Shows(d, m)
  <2>1. /\ d.codes = m.oauthCodes /\ \A x \in TableNames \ {"codes"} : d[x] = Tables[x]
        /\ \A x \in Maps \ {"oauthCodes"} : m[x] = mem[x]
    BY <1>2, <1>4
  <2> QED BY <1>1, <2>1, TablesShow DEF Shows, Maps, TableNames
<1>5. ASSUME p = <<"mcpTokens", "tokens">> PROVE Shows(d, m)
  <2>1. /\ d.tokens = m.mcpTokens /\ \A x \in TableNames \ {"tokens"} : d[x] = Tables[x]
        /\ \A x \in Maps \ {"mcpTokens"} : m[x] = mem[x]
    BY <1>2, <1>5
  <2> QED BY <1>1, <2>1, TablesShow DEF Shows, Maps, TableNames
<1>6. Shows(d, m)
  <2>1. p = <<"sessions", "sessions">> \/ p = <<"oauthCodes", "codes">> \/ p = <<"mcpTokens", "tokens">>
    BY DEF HashTables
  <2> QED BY <1>3, <1>4, <1>5, <2>1
<1> QED BY <1>6 DEF d

\* The three tables of hashes are shown as they are.
LEMMA TablesHashes ==
    ASSUME NEW p \in HashTables
    PROVE  Tables[p[2]] = mem[p[1]] /\ Tables.users = mem.users
BY TablesShow DEF Shows, HashTables

\* The map that takes the place of one of them.
LEMMA MapsHashes ==
    ASSUME IdsInv, NEW p \in HashTables, NEW f
    PROVE  LET m == [mem EXCEPT ![p[1]] = f]
           IN  m[p[1]] = f /\ \A x \in Maps \ {p[1]} : m[x] = mem[x]
BY DEF IdsInv, Maps, HashTables

\* A new hash is stored for a user there is, and for no other.
LEMMA KeepsImplements ==
    ASSUME IdsInv, NEW p \in HashTables, NEW c, Keeps(c, p[1])
    PROVE  PG!Keeps(c, p[2])
<1>1. c.hash \notin DOMAIN Tables[p[2]]
  BY TablesHashes DEF Keeps
<1>2. CASE c.row.user \notin DOMAIN mem.users
  <2>1. Answers(c, Failed, mem)
    BY <1>2 DEF Keeps
  <2>2. PG!Answers(c, Failed, Tables)
    BY <2>1, TablesShow, Answered
  <2> QED BY <1>2, <2>2, TablesHashes, SameConstants DEF PG!Keeps
<1>3. CASE c.row.user \in DOMAIN mem.users
  <2> DEFINE f == With(mem[p[1]], c.hash, c.row)
             m == [mem EXCEPT ![p[1]] = f]
             d == [Tables EXCEPT ![p[2]] = f]
  <2>1. Answers(c, Ok, m)
    BY <1>3 DEF Keeps
  <2>2. m[p[1]] = f /\ \A x \in Maps \ {p[1]} : m[x] = mem[x]
    BY MapsHashes
  <2> HIDE DEF f, m
  <2>3. PG!Answers(c, Ok, d)
    BY <2>1, <2>2, ShowsHashes, Answered
  <2>4. d = [Tables EXCEPT ![p[2]] = PG!With(@, c.hash, c.row)]
    BY TablesHashes, SameWith DEF f
  <2> HIDE DEF d
  <2> QED BY <1>1, <1>3, <2>3, <2>4, TablesHashes, SameConstants DEF PG!Keeps
<1> QED BY <1>2, <1>3

\* CreateSession, CreateOAuthCode, CreateMCPToken.
LEMMA CreatedImplement ==
    ASSUME IdsInv, NEW c
    PROVE  /\ CreateSession(c) => PG!CreateSession(c)
           /\ CreateOAuthCode(c) => PG!CreateOAuthCode(c)
           /\ CreateMCPToken(c) => PG!CreateMCPToken(c)
<1>1. /\ Keeps(c, "sessions") => PG!Keeps(c, "sessions")
      /\ Keeps(c, "oauthCodes") => PG!Keeps(c, "codes")
      /\ Keeps(c, "mcpTokens") => PG!Keeps(c, "tokens")
  <2>1. \A p \in HashTables : Keeps(c, p[1]) => PG!Keeps(c, p[2])
    BY KeepsImplements
  <2>2. /\ <<"sessions", "sessions">> \in HashTables /\ <<"oauthCodes", "codes">> \in HashTables
        /\ <<"mcpTokens", "tokens">> \in HashTables
    BY DEF HashTables
  <2> QED BY <2>1, <2>2
<1> QED BY <1>1 DEF CreateSession, CreateOAuthCode, CreateMCPToken,
                    PG!CreateSession, PG!CreateOAuthCode, PG!CreateMCPToken

\* Dropping no keys leaves a function as it is.
LEMMA WithoutNone ==
    ASSUME NEW f, IsFunction(f)
    PROVE  Without(f, {}) = f
BY DEF Without, Restrict, IsFunction

\* The user of a hash is one there is: DeleteUser takes the hashes along.
LEMMA ResolvesImplements ==
    ASSUME IdsInv, AccountInv, now \in Nat, NEW p \in HashTables \ {<<"oauthCodes", "codes">>}, NEW c,
           Resolves(c, p[1])
    PROVE  PG!Resolves(c, p[2])
<1> DEFINE f == mem[p[1]]
           unexpired == {h \in DOMAIN f : h = c.hash /\ f[h].expires > now}
           dead == {h \in DOMAIN f : h = c.hash /\ f[h].expires <= now}
           d == [Tables EXCEPT ![p[2]] = Without(f, dead)]
<1>1. /\ IsFunction(f)
      /\ \A h \in DOMAIN f : f[h].user \in DOMAIN mem.users /\ f[h].expires \in Nat
  BY DEF AccountInv, HashTables
<1>2. /\ unexpired # {} /\ PG!Answers(c, <<"user", f[c.hash].user>>, Tables) => PG!Resolves(c, p[2])
      /\ unexpired = {} /\ PG!Answers(c, NotFound, d) => PG!Resolves(c, p[2])
  <2>1. Tables[p[2]] = f
    BY TablesHashes
  <2>2. d = [Tables EXCEPT ![p[2]] = PG!Without(@, dead)]
    BY <2>1, SameWithout
  <2> HIDE DEF f, d
  <2> QED BY <2>1, <2>2, SameConstants DEF PG!Resolves
<1> HIDE DEF f
<1>3. CASE c.hash \notin DOMAIN f
  <2>1. unexpired = {} /\ dead = {}
    BY <1>3
  <2>2. Answers(c, NotFound, mem)
    BY <1>3 DEF Resolves, f
  <2>3. Shows(d, mem)
    BY <1>1, <2>1, WithoutNone, ShowsHashes DEF f
  <2> HIDE DEF d, unexpired
  <2> QED BY <1>2, <2>1, <2>2, <2>3, Answered
<1>4. CASE c.hash \in DOMAIN f /\ ~ f[c.hash].expires > now
  <2>1. unexpired = {} /\ dead = {c.hash}
    BY <1>1, <1>4
  <2> DEFINE g == Without(f, {c.hash})
             m == [mem EXCEPT ![p[1]] = g]
  <2>2. Answers(c, NotFound, m)
    BY <1>4 DEF Resolves, f
  <2>3. Shows([Tables EXCEPT ![p[2]] = g], m)
    <3>1. m[p[1]] = g /\ \A x \in Maps \ {p[1]} : m[x] = mem[x]
      BY MapsHashes
    <3> HIDE DEF g, m
    <3> QED BY <3>1, ShowsHashes
  <2>4. d = [Tables EXCEPT ![p[2]] = g]
    BY <2>1
  <2> HIDE DEF d, unexpired, dead, g, m
  <2> QED BY <1>2, <2>1, <2>2, <2>3, <2>4, Answered
<1>5. CASE c.hash \in DOMAIN f /\ f[c.hash].expires > now
  <2>1. c.hash \in unexpired
    BY <1>5
  <2>2. Answers(c, <<"user", f[c.hash].user>>, mem)
    BY <1>1, <1>5 DEF Resolves, f
  <2> HIDE DEF d, unexpired
  <2> QED BY <1>2, <2>1, <2>2, TablesShow, Answered
<1> QED BY <1>3, <1>4, <1>5

\* UserBySession and UserByMCPToken.
LEMMA UserByImplements ==
    ASSUME IdsInv, AccountInv, now \in Nat, NEW c
    PROVE  /\ UserBySession(c) => PG!UserBySession(c)
           /\ UserByMCPToken(c) => PG!UserByMCPToken(c)
<1>1. /\ Resolves(c, "sessions") => PG!Resolves(c, "sessions")
      /\ Resolves(c, "mcpTokens") => PG!Resolves(c, "tokens")
  <2>1. \A p \in HashTables \ {<<"oauthCodes", "codes">>} : Resolves(c, p[1]) => PG!Resolves(c, p[2])
    BY ResolvesImplements
  <2>2. /\ <<"sessions", "sessions">> \in HashTables \ {<<"oauthCodes", "codes">>}
        /\ <<"mcpTokens", "tokens">> \in HashTables \ {<<"oauthCodes", "codes">>}
    BY DEF HashTables
  <2> QED BY <2>1, <2>2
<1> QED BY <1>1 DEF UserBySession, UserByMCPToken, PG!UserBySession, PG!UserByMCPToken

\* DeleteSession: a session that is gone is not found.
LEMMA DeleteSessionImplements ==
    ASSUME IdsInv, NEW c, DeleteSession(c)
    PROVE  PG!DeleteSession(c)
<1> DEFINE p == <<"sessions", "sessions">>
<1>0. c.op = "DeleteSession" /\ Tables.sessions = mem.sessions /\ p \in HashTables
  BY TablesShow DEF DeleteSession, Shows, HashTables
<1>1. CASE c.hash \in DOMAIN mem.sessions
  <2> DEFINE f == Without(mem.sessions, {c.hash})
             m == [mem EXCEPT ![p[1]] = f]
             d == [Tables EXCEPT ![p[2]] = f]
  <2>1. Answers(c, Ok, m)
    BY <1>1 DEF DeleteSession
  <2>2. m[p[1]] = f /\ \A x \in Maps \ {p[1]} : m[x] = mem[x]
    BY <1>0, MapsHashes
  <2> HIDE DEF f, m, p
  <2>3. PG!Answers(c, Ok, d)
    BY <1>0, <2>1, <2>2, ShowsHashes, Answered
  <2>4. d = [Tables EXCEPT !.sessions = PG!Without(@, {c.hash})]
    BY <1>0, SameWithout DEF f, p
  <2> HIDE DEF d
  <2> QED BY <1>0, <1>1, <2>3, <2>4, SameConstants DEF PG!DeleteSession, PG!Affects
<1>2. CASE c.hash \notin DOMAIN mem.sessions
  <2>1. Answers(c, NotFound, mem)
    BY <1>2 DEF DeleteSession
  <2>2. PG!Answers(c, NotFound, Tables)
    BY <2>1, TablesShow, Answered
  <2> QED BY <1>0, <1>2, <2>2, SameConstants DEF PG!DeleteSession, PG!Affects
<1> QED BY <1>1, <1>2

\* ConsumeOAuthCode: a code is gone once it was presented.
LEMMA ConsumeOAuthCodeImplements ==
    ASSUME IdsInv, AccountInv, NEW c, ConsumeOAuthCode(c)
    PROVE  PG!ConsumeOAuthCode(c)
<1> DEFINE p == <<"oauthCodes", "codes">>
           codes == mem.oauthCodes
           got == {codes[h] : h \in {c.hash} \cap DOMAIN codes}
           f == Without(codes, {c.hash})
           m == [mem EXCEPT ![p[1]] = f]
           d == [Tables EXCEPT ![p[2]] = f]
           answer == IF \E k \in got : k.expires > now THEN <<"code", got>> ELSE NotFound
<1>0. c.op = "ConsumeOAuthCode" /\ Tables.codes = codes /\ p \in HashTables
  BY TablesShow DEF ConsumeOAuthCode, Shows, HashTables
<1>1. PG!Answers(c, answer, d) => PG!ConsumeOAuthCode(c)
  <2>1. d = [Tables EXCEPT !.codes = PG!Without(@, {c.hash})]
    BY <1>0, SameWithout
  <2> HIDE DEF d, codes
  <2> QED BY <1>0, <2>1, SameConstants DEF PG!ConsumeOAuthCode
<1>2. CASE c.hash \notin DOMAIN codes
  <2>1. f = codes /\ got = {}
    BY <1>2 DEF Without, Restrict, AccountInv, IsFunction
  <2>2. Answers(c, NotFound, mem)
    BY <1>2 DEF ConsumeOAuthCode
  <2>3. Shows(d, mem)
    BY <1>0, <2>1, ShowsHashes
  <2>4. answer = NotFound
    BY <2>1
  <2> HIDE DEF d, answer
  <2> QED BY <1>1, <2>2, <2>3, <2>4, Answered
<1>3. CASE c.hash \in DOMAIN codes
  <2>1. got = {codes[c.hash]}
    BY <1>3
  <2>2. Answers(c, IF codes[c.hash].expires > now THEN <<"code", {codes[c.hash]}>> ELSE NotFound, m)
    BY <1>3 DEF ConsumeOAuthCode
  <2>3. answer = IF codes[c.hash].expires > now THEN <<"code", {codes[c.hash]}>> ELSE NotFound
    BY <2>1
  <2>4. m[p[1]] = f /\ \A x \in Maps \ {p[1]} : m[x] = mem[x]
    BY <1>0, MapsHashes
  <2> HIDE DEF answer, f, m, p
  <2>5. Shows(d, m)
    BY <1>0, <2>4, ShowsHashes
  <2> HIDE DEF d
  <2> QED BY <1>1, <2>2, <2>3, <2>5, Answered
<1> QED BY <1>2, <1>3

----------------------------------------------------------------------------
(* Uploads and reports *)

\* A row of a file is that of a file of some upload.
LEMMA ShownFile ==
    ASSUME NEW fs, NEW x
    PROVE  x \in ShownFiles(fs) <=> \E u \in DOMAIN fs : \E f \in fs[u] : x = Over([upload |-> u], f)
BY DEF ShownFiles

\* The files of one more upload.
LEMMA ShownFilesWith ==
    ASSUME NEW fs, NEW id, id \notin DOMAIN fs, NEW files
    PROVE  ShownFiles(With(fs, id, files))
           = ShownFiles(fs) \cup {Over([upload |-> id], f) : f \in files}
<1> DEFINE new == With(fs, id, files)
<1>1. /\ DOMAIN new = DOMAIN fs \cup {id} /\ new[id] = files
      /\ \A u \in DOMAIN fs : new[u] = fs[u]
  BY DEF With
<1> HIDE DEF new
<1>2. ASSUME NEW x \in ShownFiles(new)
      PROVE  x \in ShownFiles(fs) \/ \E f \in files : x = Over([upload |-> id], f)
  <2>1. PICK u \in DOMAIN new : \E f \in new[u] : x = Over([upload |-> u], f)
    BY <1>2, ShownFile
  <2>2. CASE u = id
    BY <1>1, <2>1, <2>2
  <2>3. CASE u # id
    <3>1. u \in DOMAIN fs /\ new[u] = fs[u]
      BY <1>1, <2>3
    <3> QED BY <2>1, <3>1, ShownFile
  <2> QED BY <2>2, <2>3
<1>3. ASSUME NEW x \in ShownFiles(fs) PROVE x \in ShownFiles(new)
  <2>1. PICK u \in DOMAIN fs : \E f \in fs[u] : x = Over([upload |-> u], f)
    BY <1>3, ShownFile
  <2>2. u \in DOMAIN new /\ new[u] = fs[u]
    BY <1>1
  <2> QED BY <2>1, <2>2, ShownFile
<1>4. ASSUME NEW f \in files PROVE Over([upload |-> id], f) \in ShownFiles(new)
  BY <1>1, ShownFile
<1>5. ShownFiles(new) = ShownFiles(fs) \cup {Over([upload |-> id], f) : f \in files}
  BY <1>2, <1>3, <1>4
<1> QED BY <1>5 DEF new

\* CreateUpload: the upload and its files.
LEMMA CreateUploadImplements ==
    ASSUME IdsInv, NEW c, CreateUpload(c)
    PROVE  PG!CreateUpload(c)
<1> DEFINE id == mem.seq["uploads"] + 1
           new == {Over([upload |-> id], f) : f \in c.files}
           m == [Stored(mem, "uploads", c.row) EXCEPT !.files = With(@, id, c.files)]
           d == [PG!Insert("uploads", c.row) EXCEPT !.files = @ \cup new]
<1>0. /\ c.op = "CreateUpload" /\ c.row.repo \in DOMAIN Tables.repos /\ Tables.seq = mem.seq
      /\ Tables.files = ShownFiles(mem.files)
  BY TablesShow DEF CreateUpload, Shows
<1>1. Answers(c, Created(id), m)
  BY DEF CreateUpload
<1>2. id \notin DOMAIN mem.files
  BY DEF IdsInv, Counted
<1>3. IsTables(d)
  BY TablesShow, TablesExcept DEF Shows, PG!Insert
<1>4. /\ m.uploads = With(mem.uploads, id, c.row) /\ m.seq = [mem.seq EXCEPT !["uploads"] = @ + 1]
      /\ m.files = With(mem.files, id, c.files)
      /\ \A x \in Maps \ {"uploads", "seq", "files"} : m[x] = mem[x]
  BY DEF Stored, IdsInv, Maps
<1>5. /\ d.uploads = m.uploads /\ d.seq = m.seq /\ d.files = ShownFiles(mem.files) \cup new
      /\ \A x \in TableNames \ {"uploads", "seq", "files"} : d[x] = Tables[x]
  BY <1>0, <1>4, TablesShow, SameWith DEF Shows, IsTables, TableNames, PG!Insert
<1>6. ShownFiles(m.files) = ShownFiles(mem.files) \cup new
  <2> HIDE DEF d, id
  <2> QED BY <1>2, <1>4, ShownFilesWith
<1> HIDE DEF d, m, new
<1>7. Shows(d, m)
  BY <1>3, <1>4, <1>5, <1>6, TablesShow DEF Shows, Maps, TableNames
<1>8. PG!Answers(c, Created(id), d)
  BY <1>1, <1>7, Answered
<1>9. d = [PG!Insert("uploads", c.row) EXCEPT
             !.files = @ \cup {PG!Over([upload |-> id], f) : f \in c.files}]
  BY SameOver DEF d, new
<1> HIDE DEF d
<1> QED BY <1>0, <1>8, <1>9, SameConstants DEF PG!CreateUpload

ReportsAt(repo, commit) ==
    {i \in DOMAIN mem.reports : mem.reports[i].repo = repo /\ mem.reports[i].commit = commit}

\* The table's row of a report: its columns, its lease, and the version it pushed.
LEMMA TablesReport ==
    ASSUME ReportInv, NEW i \in DOMAIN mem.reports
    PROVE  LET r == mem.reports[i]
               row == Tables.reports[i]
               key == commitKey(r.repo, r.commit)
           IN  /\ row = ShownReport(r, mem.crLease, mem.crStatus)
               /\ DOMAIN row = ReportColumns \cup {"created", "updated", "lease", "pushed"}
               /\ \A k \in ReportColumns \cup {"created", "updated"} : row[k] = r[k]
               /\ row.lease = LeaseOf(key) /\ row.pushed = StatusOf(key)
<1> DEFINE r == mem.reports[i]
           row == Tables.reports[i]
<1>1. row = ShownReport(r, mem.crLease, mem.crStatus)
  BY TablesShow DEF Shows, ShownReports
<1>2. DOMAIN r = ReportColumns \cup {"created", "updated"}
  BY DEF ReportInv
<1> HIDE DEF r, row
<1>3. /\ DOMAIN row = ReportColumns \cup {"created", "updated", "lease", "pushed"}
      /\ \A k \in ReportColumns \cup {"created", "updated"} : row[k] = r[k]
  BY <1>1, <1>2 DEF ShownReport, Over, ReportColumns
<1>4. /\ row.lease = LeaseOf(commitKey(r.repo, r.commit))
      /\ row.pushed = StatusOf(commitKey(r.repo, r.commit))
  BY <1>1, <1>2 DEF ShownReport, Over, ReportColumns, LeaseOf, StatusOf
<1> QED BY <1>1, <1>3, <1>4 DEF r, row

\* Both find the same reports of a commit.
LEMMA SameReportsOf ==
    ASSUME ReportInv, NEW repo, NEW commit
    PROVE  /\ PG!ReportsOf(repo, commit) = ReportsAt(repo, commit)
           /\ DOMAIN Tables.reports = DOMAIN mem.reports
<1>1. DOMAIN Tables.reports = DOMAIN mem.reports
  BY TablesShow DEF Shows, ShownReports
<1>2. \A i \in DOMAIN mem.reports : /\ Tables.reports[i].repo = mem.reports[i].repo
                                    /\ Tables.reports[i].commit = mem.reports[i].commit
  BY TablesReport DEF ReportColumns
<1> QED BY <1>1, <1>2 DEF PG!ReportsOf, ReportsAt

\* commitReportLocked finds a report of the commit exactly when there is one.
LEMMA ReportFound ==
    ASSUME ReportInv, NEW repo, NEW commit
    PROVE  LET existing == commitReportLocked(repo, commit)
           IN  /\ existing = <<>> <=> ReportsAt(repo, commit) = {}
               /\ existing # <<>> => /\ existing[1].id \in ReportsAt(repo, commit)
                                     /\ existing[1].created = mem.reports[existing[1].id].created
<1> DEFINE existing == commitReportLocked(repo, commit)
           found == {r \in Rows(mem.reports) : r.repo = repo /\ r.commit = commit}
           at == ReportsAt(repo, commit)
<1>1. ASSUME NEW i \in DOMAIN mem.reports
      PROVE  LET r == Over([id |-> i], mem.reports[i])
             IN  /\ r.id = i /\ r.repo = mem.reports[i].repo /\ r.commit = mem.reports[i].commit
                 /\ r.created = mem.reports[i].created
  BY DEF Over, ReportInv, ReportColumns
<1>2. existing = <<>> <=> found = {}
  BY FindNone DEF commitReportLocked
<1>3. ASSUME NEW i \in at PROVE found # {}
  <2>1. Over([id |-> i], mem.reports[i]) \in found
    BY <1>1 DEF Rows, ReportsAt
  <2> QED BY <2>1
<1>4. ASSUME NEW r \in found
      PROVE  r.id \in at /\ r.created = mem.reports[r.id].created
  <2>1. PICK i \in DOMAIN mem.reports : r = Over([id |-> i], mem.reports[i])
    BY DEF Rows
  <2> QED BY <1>1, <2>1 DEF ReportsAt
<1>5. ASSUME existing # <<>> PROVE existing[1] \in found
  <2>1. existing = <<CHOOSE r \in found : TRUE>>
    BY <1>2, <1>5 DEF commitReportLocked, find
  <2>2. found # {}
    BY <1>2, <1>5
  <2> HIDE DEF existing, found
  <2> QED BY <2>1, <2>2
<1> HIDE DEF existing, found, at
<1>6. /\ existing = <<>> <=> at = {}
      /\ existing # <<>> => /\ existing[1].id \in at
                            /\ existing[1].created = mem.reports[existing[1].id].created
  BY <1>2, <1>3, <1>4, <1>5
<1> QED BY <1>6 DEF existing, at

\* A report's row, given its lease and version.
LEMMA ReportRow ==
    ASSUME NEW r, NEW row, DOMAIN r = ReportColumns \cup {"created", "updated"},
           NEW leases, NEW status,
           DOMAIN row = ReportColumns \cup {"created", "updated", "lease", "pushed"},
           IsFunction(row),
           \A k \in ReportColumns \cup {"created", "updated"} : row[k] = r[k],
           row.lease = ValueAt(leases, commitKey(r.repo, r.commit), Never),
           row.pushed = ValueAt(status, commitKey(r.repo, r.commit), 0)
    PROVE  row = ShownReport(r, leases, status)
<1> DEFINE shown == ShownReport(r, leases, status)
<1>1. /\ DOMAIN shown = DOMAIN row /\ IsFunction(shown)
      /\ \A k \in ReportColumns \cup {"created", "updated"} : shown[k] = r[k]
      /\ shown.lease = row.lease /\ shown.pushed = row.pushed
  BY DEF ShownReport, Over, ReportColumns, IsFunction
<1> HIDE DEF shown
<1>2. \A k \in DOMAIN row : shown[k] = row[k]
  BY <1>1
<1>3. shown = row
  BY <1>1, <1>2 DEF IsFunction
<1> QED BY <1>3 DEF shown

\* The tables with other reports, leases or versions.
LEMMA ShowsReports ==
    ASSUME IdsInv, NEW d, NEW m, IsTables(d),
           d.reports = ShownReports(m.reports, m.crLease, m.crStatus),
           \A x \in TableNames \ {"reports"} : d[x] = Tables[x],
           \A x \in Maps \ {"reports", "crLease", "crStatus"} : m[x] = mem[x]
    PROVE  Shows(d, m)
BY TablesShow DEF Shows, Maps, TableNames

\* UpsertCommitReport: a recompute keeps the report's id, its first stamp and its lease.
LEMMA UpsertCommitReportImplements ==
    ASSUME IdsInv, ReportInv, PushInv, NEW c, DOMAIN c.row = ReportColumns, UpsertCommitReport(c)
    PROVE  PG!UpsertCommitReport(c)
<1> DEFINE repo == c.row.repo
           commit == c.row.commit
           key == commitKey(repo, commit)
           existing == commitReportLocked(repo, commit)
           at == ReportsAt(repo, commit)
<1>0. /\ c.op = "UpsertCommitReport" /\ repo \in DOMAIN mem.repos
      /\ Tables.repos = mem.repos /\ Tables.seq = mem.seq
  BY TablesShow DEF UpsertCommitReport, Shows
<1>1. PG!ReportsOf(repo, commit) = at /\ DOMAIN Tables.reports = DOMAIN mem.reports
  BY SameReportsOf
<1>2. existing = <<>> <=> at = {}
  BY ReportFound
<1>3. CASE at = {}
  <2> DEFINE r == Over(c.row, [created |-> now, updated |-> now])
             row == Over(c.row, [created |-> now, updated |-> now, lease |-> Never, pushed |-> 0])
             id == mem.seq["reports"] + 1
             m == Stored(mem, "reports", r)
             d == PG!Insert("reports", row)
  <2>1. Answers(c, Created(id), m)
    BY <1>2, <1>3 DEF UpsertCommitReport, Stores
  <2>2. row = ShownReport(r, mem.crLease, mem.crStatus)
    <3>1. /\ DOMAIN r = ReportColumns \cup {"created", "updated"}
          /\ \A k \in ReportColumns : r[k] = c.row[k]
          /\ r.created = now /\ r.updated = now
      BY DEF Over, ReportColumns
    <3>2. r.repo = repo /\ r.commit = commit
      BY <3>1 DEF ReportColumns
    <3>3. /\ DOMAIN row = ReportColumns \cup {"created", "updated", "lease", "pushed"}
          /\ IsFunction(row) /\ \A k \in ReportColumns : row[k] = c.row[k]
          /\ row.created = now /\ row.updated = now /\ row.lease = Never /\ row.pushed = 0
      BY DEF Over, ReportColumns, IsFunction
    <3>4. key \notin DOMAIN mem.crLease /\ key \notin DOMAIN mem.crStatus
      BY <1>0, <1>3 DEF PushInv, ReportsAt, commitKey
    <3> HIDE DEF r, row
    <3>5. \A k \in ReportColumns \cup {"created", "updated"} : row[k] = r[k]
      BY <3>1, <3>3
    <3>6. /\ row.lease = ValueAt(mem.crLease, commitKey(r.repo, r.commit), Never)
          /\ row.pushed = ValueAt(mem.crStatus, commitKey(r.repo, r.commit), 0)
      BY <3>2, <3>3, <3>4 DEF ValueAt
    <3> QED BY <3>1, <3>3, <3>5, <3>6, ReportRow
  <2>3. IsTables(d)
    BY TablesShow, TablesExcept DEF Shows, PG!Insert
  <2>4. /\ m.reports = With(mem.reports, id, r) /\ m.seq = [mem.seq EXCEPT !["reports"] = @ + 1]
        /\ \A x \in Maps \ {"reports", "seq"} : m[x] = mem[x]
    BY DEF Stored, IdsInv, Maps
  <2>5. /\ d.reports = With(Tables.reports, id, row) /\ d.seq = m.seq
        /\ \A x \in TableNames \ {"reports", "seq"} : d[x] = Tables[x]
    BY <1>0, <2>4, TablesShow, SameWith DEF Shows, IsTables, TableNames, PG!Insert
  <2>6. Tables.reports = ShownReports(mem.reports, mem.crLease, mem.crStatus)
    BY TablesShow DEF Shows
  <2> HIDE DEF d, m, r, row, id
  <2>7. d.reports = ShownReports(m.reports, mem.crLease, mem.crStatus)
    BY <2>2, <2>4, <2>5, <2>6 DEF With, ShownReports
  <2>8. Shows(d, m)
    BY <2>3, <2>4, <2>5, <2>7, TablesShow DEF Shows, Maps, TableNames
  <2>9. PG!Answers(c, Created(id), d)
    BY <2>1, <2>8, Answered
  <2>10. row = PG!Over(c.row, [created |-> now, updated |-> now, lease |-> PG!Never, pushed |-> 0])
    BY SameOver, SameConstants DEF row
  <2>11. PG!Inserts(c, "reports", row)
    BY <1>0, <2>9, SameConstants DEF PG!Inserts, d, id
  <2> QED BY <1>0, <1>1, <1>3, <2>10, <2>11 DEF PG!UpsertCommitReport
<1>4. CASE at # {}
  <2> DEFINE id == existing[1].id
             old == mem.reports[id]
             r == Over(c.row, [created |-> existing[1].created, updated |-> now])
             row == Over(c.row, [Tables.reports[id] EXCEPT !.updated = now])
             m == [mem EXCEPT !.reports[id] = r]
             d == [Tables EXCEPT !.reports[id] = row]
  <2>1. Answers(c, Created(id), m)
    BY <1>2, <1>4 DEF UpsertCommitReport
  <2>2. id \in at /\ existing[1].created = old.created
    BY <1>2, <1>4, ReportFound
  <2>3. id \in DOMAIN mem.reports /\ old.repo = repo /\ old.commit = commit
    BY <2>2 DEF ReportsAt
  <2> HIDE DEF id, old, existing
  <2>4. row = ShownReport(r, mem.crLease, mem.crStatus)
    <3> DEFINE was == Tables.reports[id]
    <3>1. /\ DOMAIN r = ReportColumns \cup {"created", "updated"}
          /\ \A k \in ReportColumns : r[k] = c.row[k]
          /\ r.created = old.created /\ r.updated = now
      BY <2>2 DEF Over, ReportColumns
    <3>2. r.repo = repo /\ r.commit = commit
      BY <3>1 DEF ReportColumns
    <3>3. /\ DOMAIN was = ReportColumns \cup {"created", "updated", "lease", "pushed"}
          /\ was.created = old.created
          /\ was.lease = LeaseOf(key) /\ was.pushed = StatusOf(key)
      BY <2>3, TablesReport DEF old
    <3> HIDE DEF was, r, key
    <3>4. /\ DOMAIN row = ReportColumns \cup {"created", "updated", "lease", "pushed"}
          /\ IsFunction(row) /\ \A k \in ReportColumns : row[k] = c.row[k]
          /\ row.created = old.created /\ row.updated = now
          /\ row.lease = LeaseOf(key) /\ row.pushed = StatusOf(key)
      BY <3>3 DEF Over, ReportColumns, IsFunction, was
    <3> HIDE DEF row
    <3>5. \A k \in ReportColumns \cup {"created", "updated"} : row[k] = r[k]
      BY <3>1, <3>4
    <3>6. /\ row.lease = ValueAt(mem.crLease, commitKey(r.repo, r.commit), Never)
          /\ row.pushed = ValueAt(mem.crStatus, commitKey(r.repo, r.commit), 0)
      BY <3>2, <3>4 DEF LeaseOf, StatusOf, key
    <3> QED BY <3>1, <3>4, <3>5, <3>6, ReportRow
  <2>5. IsTables(d)
    BY TablesShow, TablesExcept DEF Shows
  <2>6. m.reports = [mem.reports EXCEPT ![id] = r] /\ \A x \in Maps \ {"reports"} : m[x] = mem[x]
    BY DEF IdsInv, Maps
  <2>7. /\ d.reports = [Tables.reports EXCEPT ![id] = row]
        /\ \A x \in TableNames \ {"reports"} : d[x] = Tables[x]
    BY TablesShow DEF Shows, IsTables, TableNames
  <2>8. Tables.reports = ShownReports(mem.reports, mem.crLease, mem.crStatus)
    BY TablesShow DEF Shows
  <2> HIDE DEF d, m, r, row
  <2>9. d.reports = ShownReports(m.reports, mem.crLease, mem.crStatus)
    BY <2>4, <2>6, <2>7, <2>8 DEF ShownReports
  <2>10. Shows(d, m)
    BY <2>5, <2>6, <2>7, <2>9, ShowsReports DEF Maps
  <2>11. PG!Answers(c, PG!Created(id), d)
    BY <2>1, <2>10, Answered, SameConstants
  <2>12. d = [Tables EXCEPT !.reports[id] = PG!Over(c.row, [@ EXCEPT !.updated = now])]
    BY SameOver DEF d, row
  <2>13. Tables \in PG!Gap("reports", Tables)
    BY DEF PG!Gap
  <2> HIDE DEF at
  <2> QED BY <1>0, <1>1, <1>4, <2>2, <2>11, <2>12, <2>13 DEF PG!UpsertCommitReport
<1> QED BY <1>3, <1>4

\* The lease or version of one commit changes, and so does one row.
LEMMA ShowsOneReport ==
    ASSUME ReportInv, NEW i \in DOMAIN mem.reports, NEW leases, NEW status, NEW row,
           row = ShownReport(mem.reports[i], leases, status),
           \A key : key # commitKey(mem.reports[i].repo, mem.reports[i].commit) =>
             /\ ValueAt(leases, key, Never) = LeaseOf(key)
             /\ ValueAt(status, key, 0) = StatusOf(key)
    PROVE  [Tables.reports EXCEPT ![i] = row] = ShownReports(mem.reports, leases, status)
<1>1. Tables.reports = ShownReports(mem.reports, mem.crLease, mem.crStatus)
  BY TablesShow DEF Shows
<1>2. ASSUME NEW j \in DOMAIN mem.reports, j # i
      PROVE  ShownReport(mem.reports[j], leases, status)
             = ShownReport(mem.reports[j], mem.crLease, mem.crStatus)
  <2> DEFINE key == commitKey(mem.reports[j].repo, mem.reports[j].commit)
  <2>1. key # commitKey(mem.reports[i].repo, mem.reports[i].commit)
    BY <1>2 DEF ReportInv, commitKey
  <2>2. ValueAt(leases, key, Never) = LeaseOf(key) /\ ValueAt(status, key, 0) = StatusOf(key)
    BY <2>1
  <2> QED BY <2>2 DEF ShownReport, LeaseOf, StatusOf
<1> QED BY <1>1, <1>2 DEF ShownReports

\* The one report of a commit, if there is one.
LEMMA OneReport ==
    ASSUME ReportInv, NEW repo, NEW commit, NEW i \in ReportsAt(repo, commit)
    PROVE  /\ i \in DOMAIN mem.reports /\ ReportsAt(repo, commit) = {i}
           /\ commitKey(mem.reports[i].repo, mem.reports[i].commit) = commitKey(repo, commit)
           /\ Tables.reports[i].lease = LeaseOf(commitKey(repo, commit))
           /\ Tables.reports[i].pushed = StatusOf(commitKey(repo, commit))
<1>1. i \in DOMAIN mem.reports /\ mem.reports[i].repo = repo /\ mem.reports[i].commit = commit
  BY DEF ReportsAt
<1>2. ReportsAt(repo, commit) = {i}
  BY <1>1 DEF ReportsAt, ReportInv
<1> QED BY <1>1, <1>2, TablesReport

\* A lease and a pushed version are numbers, whether or not one was ever written.
LEMMA PushTypes ==
    ASSUME PushInv
    PROVE  \A key : LeaseOf(key) \in Nat /\ StatusOf(key) \in Nat
BY DEF PushInv, LeaseOf, StatusOf, ValueAt, Never

\* ClaimPush: superseded, queued or claimed, in both for the same reasons.
LEMMA ClaimPushImplements ==
    ASSUME IdsInv, ReportInv, PushInv, now \in Nat,
           NEW c, c.version \in Nat, c.lease \in Nat, ClaimPush(c)
    PROVE  PG!ClaimPush(c)
<1> DEFINE key == commitKey(c.repo, c.commit)
           at == ReportsAt(c.repo, c.commit)
           cur == {i \in at : Tables.reports[i].pushed <= c.version}
           free == {i \in cur : Tables.reports[i].lease <= now}
<1>0. c.op = "ClaimPush" /\ PG!ReportsOf(c.repo, c.commit) = at
  BY SameReportsOf DEF ClaimPush
<1>1. commitReportLocked(c.repo, c.commit) = <<>> <=> at = {}
  BY ReportFound
<1>2. LeaseOf(key) \in Nat /\ StatusOf(key) \in Nat
  BY PushTypes
<1>3. \A i \in at : /\ Tables.reports[i].pushed = StatusOf(key)
                    /\ Tables.reports[i].lease = LeaseOf(key)
  BY OneReport
<1>4. /\ cur = {} /\ PG!Answers(c, <<"superseded">>, Tables) => PG!ClaimPush(c)
      /\ cur # {} /\ free = {} /\ PG!Answers(c, <<"queued">>, Tables) => PG!ClaimPush(c)
      /\ \A i \in free :
           PG!Answers(c, <<"claimed", now + c.lease>>, [Tables EXCEPT !.reports[i].lease = now + c.lease])
             => PG!ClaimPush(c)
  <2> HIDE DEF at
  <2> QED BY <1>0 DEF PG!ClaimPush
<1> HIDE DEF key
<1>5. CASE at = {} \/ c.version < StatusOf(key)
  <2>1. cur = {}
    BY <1>2, <1>3, <1>5
  <2>2. Answers(c, <<"superseded">>, mem)
    BY <1>1, <1>5 DEF ClaimPush, key
  <2> HIDE DEF cur, free
  <2> QED BY <1>4, <2>1, <2>2, TablesShow, Answered
<1>6. CASE ~ (at = {} \/ c.version < StatusOf(key)) /\ LeaseOf(key) > now
  <2>1. cur # {} /\ free = {}
    BY <1>2, <1>3, <1>6
  <2>2. Answers(c, <<"queued">>, mem)
    BY <1>1, <1>6 DEF ClaimPush, key
  <2> HIDE DEF cur, free
  <2> QED BY <1>4, <2>1, <2>2, TablesShow, Answered
<1>7. CASE ~ (at = {} \/ c.version < StatusOf(key)) /\ ~ LeaseOf(key) > now
  <2>1. PICK i \in at : TRUE
    BY <1>7
  <2>2. i \in free
    BY <1>2, <1>3, <1>7
  <2> DEFINE leases == With(mem.crLease, key, now + c.lease)
             m == [mem EXCEPT !.crLease = leases]
             row == [Tables.reports[i] EXCEPT !.lease = now + c.lease]
             d == [Tables EXCEPT !.reports[i] = row]
  <2>3. Answers(c, <<"claimed", now + c.lease>>, m)
    BY <1>1, <1>7 DEF ClaimPush, key
  <2>4. /\ i \in DOMAIN mem.reports
        /\ commitKey(mem.reports[i].repo, mem.reports[i].commit) = key
    BY OneReport DEF key
  <2>5. row = ShownReport(mem.reports[i], leases, mem.crStatus)
    <3>1. /\ DOMAIN row = ReportColumns \cup {"created", "updated", "lease", "pushed"}
          /\ \A k \in ReportColumns \cup {"created", "updated"} : row[k] = mem.reports[i][k]
          /\ row.lease = now + c.lease /\ row.pushed = StatusOf(key)
      BY <2>4, TablesReport DEF ReportColumns
    <3>2. /\ ValueAt(leases, key, Never) = now + c.lease
          /\ ValueAt(mem.crStatus, key, 0) = StatusOf(key)
      BY DEF ValueAt, With, StatusOf
    <3>3. DOMAIN mem.reports[i] = ReportColumns \cup {"created", "updated"} /\ IsFunction(row)
      BY <2>4 DEF ReportInv, IsFunction
    <3> HIDE DEF row, leases, d, m, at, cur, free
    <3>4. LET k == commitKey(mem.reports[i].repo, mem.reports[i].commit)
          IN  row.lease = ValueAt(leases, k, Never) /\ row.pushed = ValueAt(mem.crStatus, k, 0)
      BY <2>4, <3>1, <3>2
    <3> DEFINE r == mem.reports[i]
    <3>5. /\ DOMAIN r = ReportColumns \cup {"created", "updated"} /\ IsFunction(row)
          /\ DOMAIN row = ReportColumns \cup {"created", "updated", "lease", "pushed"}
          /\ \A k \in ReportColumns \cup {"created", "updated"} : row[k] = r[k]
          /\ row.lease = ValueAt(leases, commitKey(r.repo, r.commit), Never)
          /\ row.pushed = ValueAt(mem.crStatus, commitKey(r.repo, r.commit), 0)
      BY <3>1, <3>3, <3>4
    <3> HIDE DEF r
    <3>6. row = ShownReport(r, leases, mem.crStatus)
      BY <3>5, ReportRow
    <3> QED BY <3>6 DEF r
  <2>6. \A k : k # key => ValueAt(leases, k, Never) = LeaseOf(k)
                          /\ ValueAt(mem.crStatus, k, 0) = StatusOf(k)
    BY DEF ValueAt, With, LeaseOf, StatusOf
  <2>7. m.crLease = leases /\ \A x \in Maps \ {"crLease"} : m[x] = mem[x]
    BY DEF IdsInv, Maps
  <2>8. IsTables(d)
    BY TablesShow, TablesExcept DEF Shows
  <2>9. /\ d.reports = [Tables.reports EXCEPT ![i] = row]
        /\ \A x \in TableNames \ {"reports"} : d[x] = Tables[x]
    BY TablesShow DEF Shows, IsTables, TableNames
  <2> HIDE DEF d, m, row, leases, at, cur, free
  <2>10. d.reports = ShownReports(mem.reports, leases, mem.crStatus)
    BY <2>4, <2>5, <2>6, <2>9, ShowsOneReport
  <2>11. Shows(d, m)
    BY <2>7, <2>8, <2>9, <2>10, ShowsReports DEF Maps
  <2>12. PG!Answers(c, <<"claimed", now + c.lease>>, d)
    BY <2>3, <2>11, Answered
  <2>13. d = [Tables EXCEPT !.reports[i].lease = now + c.lease]
    BY DEF d, row
  <2> QED BY <1>4, <2>2, <2>12, <2>13
<1> QED BY <1>5, <1>6, <1>7

\* GREATEST of two versions.
LEMMA PGMaxOfTwo ==
    ASSUME NEW a \in Nat, NEW b \in Nat
    PROVE  PG!Max({a, b}) = IF b > a THEN b ELSE a
<1>1. \E x \in {a, b} : \A y \in {a, b} : x >= y
  <2>1. CASE b > a
    <3>1. b \in {a, b} /\ \A y \in {a, b} : b >= y
      BY <2>1
    <3> QED BY <3>1
  <2>2. CASE ~ b > a
    <3>1. a \in {a, b} /\ \A y \in {a, b} : a >= y
      BY <2>2
    <3> QED BY <3>1
  <2> QED BY <2>1, <2>2
<1> DEFINE x == CHOOSE x \in {a, b} : \A y \in {a, b} : x >= y
<1>2. x \in {a, b} /\ x >= a /\ x >= b
  BY <1>1
<1> HIDE DEF x
<1>3. x = IF b > a THEN b ELSE a
  BY <1>2
<1> QED BY <1>3 DEF PG!Max, x

\* FinishPush: the version only rises, and the lease goes if it is the caller's.
LEMMA FinishPushImplements ==
    ASSUME IdsInv, ReportInv, PushInv, NEW c, c.version \in Nat, FinishPush(c)
    PROVE  PG!FinishPush(c)
<1> DEFINE key == commitKey(c.repo, c.commit)
           at == ReportsAt(c.repo, c.commit)
           newer == \E u \in DOMAIN mem.uploads :
                      /\ mem.uploads[u].repo = c.repo /\ mem.uploads[u].commit = c.commit
                      /\ u > c.version
           mine == LeaseOf(key) = c.lease
<1>0. c.op = "FinishPush" /\ PG!ReportsOf(c.repo, c.commit) = at
  BY SameReportsOf DEF FinishPush
<1>1. commitReportLocked(c.repo, c.commit) = <<>> <=> at = {}
  BY ReportFound
<1>2. LeaseOf(key) \in Nat /\ StatusOf(key) \in Nat
  BY PushTypes
<1>3. newer <=> \E u \in PG!Rows(Tables.uploads) :
                  u.repo = c.repo /\ u.commit = c.commit /\ u.id > c.version
  <2>1. PG!Rows(Tables.uploads) = {Over([id |-> u], mem.uploads[u]) : u \in DOMAIN mem.uploads}
    BY TablesShow, SameRows DEF Shows, Rows
  <2>2. ASSUME NEW u \in DOMAIN mem.uploads
        PROVE  LET r == Over([id |-> u], mem.uploads[u])
               IN  r.id = u /\ r.repo = mem.uploads[u].repo /\ r.commit = mem.uploads[u].commit
    BY DEF Over, ReportInv, UploadColumns
  <2> DEFINE late == {u \in PG!Rows(Tables.uploads) :
                        u.repo = c.repo /\ u.commit = c.commit /\ u.id > c.version}
  <2>3. ASSUME NEW u \in DOMAIN mem.uploads,
               mem.uploads[u].repo = c.repo, mem.uploads[u].commit = c.commit, u > c.version
        PROVE  Over([id |-> u], mem.uploads[u]) \in late
    BY <2>1, <2>2, <2>3
  <2>4. ASSUME NEW r \in late PROVE newer
    <3>1. PICK u \in DOMAIN mem.uploads : r = Over([id |-> u], mem.uploads[u])
      BY <2>1
    <3> QED BY <2>2, <3>1
  <2>5. newer <=> late # {}
    <3> HIDE DEF late
    <3> QED BY <2>3, <2>4
  <2> HIDE DEF newer
  <2> QED BY <2>5
<1>4. CASE at = {}
  <2>1. Answers(c, <<"again", FALSE>>, mem)
    BY <1>1, <1>4 DEF FinishPush
  <2>2. PG!Answers(c, <<"again", FALSE>>, Tables)
    BY <2>1, TablesShow, Answered
  <2> HIDE DEF at
  <2> QED BY <1>0, <1>4, <2>2 DEF PG!FinishPush
<1>5. CASE at # {}
  <2>1. PICK i \in at : TRUE
    BY <1>5
  <2> DEFINE was == Tables.reports[i]
             pushed == IF c.pushed THEN PG!Max({was.pushed, c.version}) ELSE was.pushed
             lease == IF mine THEN Never ELSE was.lease
             row == [was EXCEPT !.pushed = pushed, !.lease = lease]
             d == [Tables EXCEPT !.reports[i] = row]
             status == RaisedStatus(key, c.version, c.pushed)
             leases == IF mine THEN Without(mem.crLease, {key}) ELSE mem.crLease
             raised == [mem EXCEPT !.crStatus = status]
             m == IF mine THEN [raised EXCEPT !.crLease = Without(@, {key})] ELSE raised
  <2>2. /\ i \in DOMAIN mem.reports /\ at = {i}
        /\ commitKey(mem.reports[i].repo, mem.reports[i].commit) = key
        /\ was.lease = LeaseOf(key) /\ was.pushed = StatusOf(key)
    BY OneReport
  <2>3. Answers(c, <<"again", mine /\ newer>>, m)
    <3>1. CASE mine
      <4>1. Answers(c, <<"again", newer>>, m)
        BY <1>1, <1>5, <3>1 DEF FinishPush
      <4>2. (mine /\ newer) = newer
        BY <3>1
      <4> QED BY <4>1, <4>2
    <3>2. CASE ~ mine
      <4>1. Answers(c, <<"again", FALSE>>, m)
        BY <1>1, <1>5, <3>2 DEF FinishPush
      <4>2. (mine /\ newer) = FALSE
        BY <3>2
      <4> QED BY <4>1, <4>2
    <3> QED BY <3>1, <3>2
  <2>4. /\ m.crLease = leases /\ m.crStatus = status
        /\ \A x \in Maps \ {"crLease", "crStatus"} : m[x] = mem[x]
    BY DEF IdsInv, Maps
  <2> HIDE DEF key, m, raised
  <2>5. ValueAt(leases, key, Never) = lease
    BY <2>2 DEF ValueAt, Without, Restrict, LeaseOf
  <2>6. ValueAt(status, key, 0) = pushed
    <3>1. PG!Max({StatusOf(key), c.version}) = IF c.version > StatusOf(key) THEN c.version ELSE StatusOf(key)
      BY <1>2, PGMaxOfTwo
    <3> QED BY <2>2, <3>1 DEF ValueAt, With, RaisedStatus, StatusOf
  <2>7. \A k : k # key => ValueAt(leases, k, Never) = LeaseOf(k) /\ ValueAt(status, k, 0) = StatusOf(k)
    BY DEF ValueAt, Without, Restrict, With, RaisedStatus, LeaseOf, StatusOf
  <2>8. /\ DOMAIN row = ReportColumns \cup {"created", "updated", "lease", "pushed"}
        /\ \A k \in ReportColumns \cup {"created", "updated"} : row[k] = mem.reports[i][k]
        /\ row.lease = lease /\ row.pushed = pushed /\ IsFunction(row)
    <3> HIDE DEF pushed, lease
    <3> QED BY <2>2, TablesReport DEF ReportColumns, IsFunction
  <2>9. IsTables(d)
    BY TablesShow, TablesExcept DEF Shows
  <2>10. /\ d.reports = [Tables.reports EXCEPT ![i] = row]
         /\ \A x \in TableNames \ {"reports"} : d[x] = Tables[x]
    BY TablesShow DEF Shows, IsTables, TableNames
  <2>11. DOMAIN mem.reports[i] = ReportColumns \cup {"created", "updated"}
    BY <2>2 DEF ReportInv
  <2>12. d = [Tables EXCEPT !.reports[i].pushed = pushed, !.reports[i].lease = lease]
    <3> HIDE DEF pushed, lease
    <3> QED OBVIOUS
  <2> HIDE DEF d, row, pushed, lease, leases, status, was
  <2>13. row = ShownReport(mem.reports[i], leases, status)
    BY <2>2, <2>5, <2>6, <2>8, <2>11, ReportRow
  <2>14. d.reports = ShownReports(mem.reports, leases, status)
    BY <2>2, <2>7, <2>10, <2>13, ShowsOneReport
  <2>15. Shows(d, m)
    BY <2>4, <2>9, <2>10, <2>14, ShowsReports DEF Maps
  <2>16. PG!Answers(c, <<"again", mine /\ newer>>, d)
    BY <2>3, <2>15, Answered
  <2>17. mine <=> \E j \in at : Tables.reports[j].lease = c.lease
    BY <2>2 DEF was
  <2> DEFINE theirs == \E j \in at : Tables.reports[j].lease = c.lease
             later == \E u \in PG!Rows(Tables.uploads) :
                        u.repo = c.repo /\ u.commit = c.commit /\ u.id > c.version
  <2>18. /\ d = [Tables EXCEPT
                  !.reports[i].pushed = IF c.pushed THEN PG!Max({@, c.version}) ELSE @,
                  !.reports[i].lease = IF theirs THEN PG!Never ELSE @]
         /\ (mine /\ newer) = (theirs /\ later)
    <3>1. (mine /\ newer) = (theirs /\ later)
      BY <1>3, <2>17
    <3>2. lease = IF theirs THEN PG!Never ELSE was.lease
      BY <2>17, SameConstants DEF lease
    <3>3. IsTables(Tables) /\ i \in DOMAIN Tables.reports
      BY <2>2, TablesShow, SameReportsOf DEF Shows
    <3> HIDE DEF theirs, later, mine, newer
    <3> QED BY <2>12, <3>1, <3>2, <3>3 DEF pushed, was, IsTables, TableNames
  <2> HIDE DEF at, newer, mine
  <2> QED BY <1>0, <1>5, <2>16, <2>18 DEF PG!FinishPush
<1> QED BY <1>4, <1>5

\* A call that only writes claims.
LEMMA ShowsClaims ==
    ASSUME IdsInv, NEW d, NEW m, IsTables(d), d.claims = ShownClaims(m.tokenless, m.repos),
           \A x \in TableNames \ {"claims"} : d[x] = Tables[x],
           \A x \in Maps \ {"tokenless"} : m[x] = mem[x]
    PROVE  Shows(d, m)
BY TablesShow DEF Shows, Maps, TableNames

\* ClaimTokenlessUpload: the first claim of a run wins.
LEMMA ClaimTokenlessUploadImplements ==
    ASSUME IdsInv, NEW c, ClaimTokenlessUpload(c)
    PROVE  PG!ClaimTokenlessUpload(c)
<1> DEFINE d == [Tables EXCEPT !.claims = @ \cup {c.key}]
<1>0. /\ c.op = "ClaimTokenlessUpload" /\ c.key.repo \in DOMAIN mem.repos
      /\ Tables.repos = mem.repos /\ Tables.claims = ShownClaims(mem.tokenless, mem.repos)
  BY TablesShow DEF ClaimTokenlessUpload, Shows
<1>1. c.key \in Tables.claims <=> c.key \in mem.tokenless
  BY <1>0 DEF ShownClaims
<1>2. IsTables(d)
  BY TablesShow, TablesExcept DEF Shows
<1>3. /\ d.claims = ShownClaims(mem.tokenless, mem.repos) \cup {c.key}
      /\ \A x \in TableNames \ {"claims"} : d[x] = Tables[x]
  BY <1>0, TablesShow DEF Shows, IsTables, TableNames
<1>4. CASE c.key \in mem.tokenless
  <2>1. Answers(c, <<"won", FALSE>>, mem)
    BY <1>4 DEF ClaimTokenlessUpload
  <2>2. d.claims = ShownClaims(mem.tokenless, mem.repos)
    BY <1>0, <1>3, <1>4 DEF ShownClaims
  <2> HIDE DEF d
  <2>3. Shows(d, mem)
    BY <1>2, <1>3, <2>2, ShowsClaims
  <2>4. PG!Answers(c, <<"won", c.key \notin Tables.claims>>, d)
    BY <1>1, <1>4, <2>1, <2>3, Answered
  <2> QED BY <1>0, <2>4 DEF PG!ClaimTokenlessUpload, d
<1>5. CASE c.key \notin mem.tokenless
  <2> DEFINE m == [mem EXCEPT !.tokenless = @ \cup {c.key}]
  <2>1. Answers(c, <<"won", TRUE>>, m)
    BY <1>5 DEF ClaimTokenlessUpload
  <2>2. m.tokenless = mem.tokenless \cup {c.key} /\ \A x \in Maps \ {"tokenless"} : m[x] = mem[x]
    BY DEF IdsInv, Maps
  <2> HIDE DEF d, m
  <2>3. d.claims = ShownClaims(m.tokenless, m.repos)
    BY <1>0, <1>3, <2>2 DEF ShownClaims, Maps
  <2>4. Shows(d, m)
    BY <1>2, <1>3, <2>2, <2>3, ShowsClaims
  <2>5. PG!Answers(c, <<"won", c.key \notin Tables.claims>>, d)
    BY <1>1, <1>5, <2>1, <2>4, Answered
  <2> QED BY <1>0, <2>5 DEF PG!ClaimTokenlessUpload, d
<1> QED BY <1>4, <1>5

\* ReleaseTokenlessUpload: the claim can be won again.
LEMMA ReleaseTokenlessUploadImplements ==
    ASSUME IdsInv, NEW c, ReleaseTokenlessUpload(c)
    PROVE  PG!ReleaseTokenlessUpload(c)
<1> DEFINE d == [Tables EXCEPT !.claims = @ \ {c.key}]
           m == [mem EXCEPT !.tokenless = @ \ {c.key}]
<1>0. c.op = "ReleaseTokenlessUpload" /\ Answers(c, Ok, m)
  BY DEF ReleaseTokenlessUpload
<1>1. IsTables(d)
  BY TablesShow, TablesExcept DEF Shows
<1>2. /\ d.claims = ShownClaims(mem.tokenless, mem.repos) \ {c.key}
      /\ \A x \in TableNames \ {"claims"} : d[x] = Tables[x]
  BY TablesShow DEF Shows, IsTables, TableNames
<1>3. m.tokenless = mem.tokenless \ {c.key} /\ \A x \in Maps \ {"tokenless"} : m[x] = mem[x]
  BY DEF IdsInv, Maps
<1> HIDE DEF d, m
<1>4. d.claims = ShownClaims(m.tokenless, m.repos)
  BY <1>2, <1>3 DEF ShownClaims, Maps
<1>5. Shows(d, m)
  BY <1>1, <1>2, <1>3, <1>4, ShowsClaims
<1>6. PG!Answers(c, PG!Ok, d)
  BY <1>0, <1>5, Answered, SameConstants
<1> QED BY <1>0, <1>6 DEF PG!ReleaseTokenlessUpload, d

----------------------------------------------------------------------------
(* The invariant is kept: what a call leaves alone stays as it was. *)

\* A call that leaves the maps keeps the invariant.
LEMMA Kept ==
    ASSUME StoreInv, UNCHANGED <<mem, family>>, now' \in Nat
    PROVE  StoreInv'
BY DEF StoreInv, IdsInv, RepoInv, WorkspaceInv, AccountInv, ReportInv, PushInv

\* A call answers and leaves its maps; the clock and the family stay.
LEMMA AnsweredWith ==
    ASSUME StoreInv, NEW c, NEW answer, NEW after, Answers(c, answer, after)
    PROVE  /\ mem' = after /\ now' \in Nat /\ family' \in Families
           /\ after = mem => StoreInv'
<1>1. mem' = after /\ now' = now /\ family' = family
  BY DEF Answers
<1> QED BY <1>1, Kept DEF StoreInv

\* Repos are untouched by a call about something else,
LEMMA RepoKept == ASSUME RepoInv, mem'.repos = mem.repos PROVE RepoInv'
BY DEF RepoInv

\* and so are workspaces,
LEMMA WorkspaceKept == ASSUME WorkspaceInv, mem'.workspaces = mem.workspaces PROVE WorkspaceInv'
BY DEF WorkspaceInv

\* accounts, for as long as no workspace goes,
LEMMA AccountKept ==
    ASSUME AccountInv, DOMAIN mem.workspaces \subseteq DOMAIN mem'.workspaces,
           mem'.users = mem.users, mem'.members = mem.members, mem'.sessions = mem.sessions,
           mem'.oauthCodes = mem.oauthCodes, mem'.mcpTokens = mem.mcpTokens
    PROVE  AccountInv'
BY DEF AccountInv

\* reports, for as long as no repo goes,
LEMMA ReportKept ==
    ASSUME ReportInv, DOMAIN mem.repos \subseteq DOMAIN mem'.repos,
           mem'.uploads = mem.uploads, mem'.reports = mem.reports
    PROVE  ReportInv'
BY DEF ReportInv

\* and leases, for as long as no id is used twice.
LEMMA PushKept ==
    ASSUME PushInv, mem.seq["repos"] \in Nat, mem'.seq["repos"] \in Nat,
           mem.seq["repos"] <= mem'.seq["repos"],
           \A i \in DOMAIN mem'.repos : i \in DOMAIN mem.repos \/ i > mem.seq["repos"],
           mem'.reports = mem.reports, mem'.crLease = mem.crLease,
           mem'.crStatus = mem.crStatus, mem'.tokenless = mem.tokenless
    PROVE  PushInv'
BY DEF PushInv

\* Of the tables, only one changes, and of that only rows there are.
LEMMA IdsKept ==
    ASSUME IdsInv, DOMAIN mem' = Maps, mem'.seq = mem.seq,
           \A t \in Counted \cup {"files"} : DOMAIN mem'[t] \subseteq DOMAIN mem[t]
    PROVE  IdsInv'
BY DEF IdsInv, Counted

\* A row stored under the next id.
LEMMA IdsStored ==
    ASSUME IdsInv, NEW t \in Counted, DOMAIN mem' = Maps,
           mem'.seq = [mem.seq EXCEPT ![t] = @ + 1],
           DOMAIN mem'[t] = DOMAIN mem[t] \cup {mem.seq[t] + 1},
           \A x \in Counted \ {t} : DOMAIN mem'[x] = DOMAIN mem[x],
           DOMAIN mem'.files \subseteq DOMAIN mem.files \cup DOMAIN mem'.uploads
    PROVE  /\ IdsInv' /\ mem.seq["repos"] \in Nat /\ mem'.seq["repos"] \in Nat
           /\ mem.seq["repos"] <= mem'.seq["repos"]
<1>1. mem'.seq[t] = mem.seq[t] + 1 /\ mem.seq[t] \in Nat
      /\ \A x \in Counted \ {t} : mem'.seq[x] = mem.seq[x] /\ mem.seq[x] \in Nat
      /\ DOMAIN mem'.seq = Counted
  BY DEF IdsInv
<1>2. ASSUME NEW x \in Counted
      PROVE  /\ mem.seq[x] \in Nat /\ mem'.seq[x] \in Nat /\ mem.seq[x] <= mem'.seq[x]
             /\ DOMAIN mem[x] \subseteq 1 .. mem.seq[x]
             /\ DOMAIN mem'[x] \subseteq 1 .. mem'.seq[x]
  <2>1. DOMAIN mem[x] \subseteq 1 .. mem.seq[x]
    BY DEF IdsInv, Counted
  <2>2. CASE x = t
    BY <1>1, <2>1, <2>2
  <2>3. CASE x # t
    BY <1>1, <2>1, <2>3
  <2> QED BY <2>2, <2>3
<1>3. /\ "repos" \in Counted /\ "workspaces" \in Counted /\ "users" \in Counted
      /\ "uploads" \in Counted /\ "reports" \in Counted
  BY DEF Counted
<1>4. DOMAIN mem'.files \subseteq 1 .. mem'.seq["uploads"]
  <2>1. DOMAIN mem.files \subseteq 1 .. mem.seq["uploads"]
    BY DEF IdsInv
  <2>2. /\ mem.seq["uploads"] \in Nat /\ mem'.seq["uploads"] \in Nat
        /\ mem.seq["uploads"] <= mem'.seq["uploads"]
    BY <1>2, <1>3
  <2>3. DOMAIN mem'.uploads \subseteq 1 .. mem'.seq["uploads"]
    BY <1>2, <1>3
  <2> QED BY <2>1, <2>2, <2>3
<1> QED BY <1>1, <1>2, <1>3, <1>4 DEF IdsInv

\* Storing a repo.
LEMMA CreateRepoKeeps ==
    ASSUME StoreInv, NEW c, DOMAIN c.row = RepoColumns, c.row.slug \in Seq(Nat), CreateRepo(c)
    PROVE  StoreInv'
<1> DEFINE taken == {x \in Rows(mem.repos) : \/ x.forge = c.row.forge /\ x.slug = c.row.slug
                                             \/ x.token = c.row.token}
           row == Over(c.row, [checked |-> Never])
           id == mem.seq["repos"] + 1
<1>1. CASE find(taken) # <<>>
  <2>1. Answers(c, Failed, mem)
    BY <1>1 DEF CreateRepo
  <2> QED BY <2>1, AnsweredWith
<1>2. CASE find(taken) = <<>>
  <2>1. Answers(c, Created(id), Stored(mem, "repos", row))
    BY <1>2 DEF CreateRepo, Stores
  <2>2. mem' = Stored(mem, "repos", row) /\ now' \in Nat /\ family' \in Families
    BY <2>1, AnsweredWith
  <2>3. /\ mem'.repos = With(mem.repos, id, row) /\ mem'.seq = [mem.seq EXCEPT !["repos"] = @ + 1]
        /\ \A x \in Maps \ {"repos", "seq"} : mem'[x] = mem[x]
        /\ DOMAIN mem' = Maps
    BY <2>2 DEF Stored, StoreInv, IdsInv, Maps
  <2>4. /\ DOMAIN mem'.repos = DOMAIN mem.repos \cup {id} /\ mem'.repos[id] = row
        /\ \A i \in DOMAIN mem.repos \ {id} : mem'.repos[i] = mem.repos[i]
    BY <2>3 DEF With
  <2>5. id \notin DOMAIN mem.repos /\ mem.seq["repos"] \in Nat /\ id > mem.seq["repos"]
    BY DEF StoreInv, IdsInv, Counted
  <2>6. IdsInv' /\ mem'.seq["repos"] \in Nat /\ mem.seq["repos"] <= mem'.seq["repos"]
    BY <2>3, <2>4, IdsStored DEF StoreInv, Maps, Counted
  <2>7. /\ DOMAIN row = RepoColumns \cup {"checked"} /\ row.slug \in Seq(Nat) /\ row.checked \in Nat
        /\ \A k \in RepoColumns : row[k] = c.row[k]
    BY DEF Over, RepoColumns, Never
  <2>8. ASSUME NEW i \in DOMAIN mem.repos
        PROVE  LET r == mem.repos[i]
               IN  ~ ((r.forge = row.forge /\ r.slug = row.slug) \/ r.token = row.token)
    <3> DEFINE r == Over([id |-> i], mem.repos[i])
    <3>1. taken = {}
      BY <1>2, FindNone
    <3>2. r \in Rows(mem.repos)
      BY DEF Rows
    <3>3. r.forge = mem.repos[i].forge /\ r.slug = mem.repos[i].slug /\ r.token = mem.repos[i].token
      BY DEF Over, StoreInv, RepoInv, RepoColumns
    <3> HIDE DEF r
    <3> QED BY <2>7, <3>1, <3>2, <3>3 DEF RepoColumns
  <2> HIDE DEF row, id, taken
  <2>9. RepoInv'
    <3>1. \A i \in DOMAIN mem'.repos :
            LET r == mem'.repos[i]
            IN  DOMAIN r = RepoColumns \cup {"checked"} /\ r.slug \in Seq(Nat) /\ r.checked \in Nat
      BY <2>4, <2>7 DEF StoreInv, RepoInv
    <3>2. ASSUME NEW i \in DOMAIN mem'.repos, NEW j \in DOMAIN mem'.repos,
                 LET r == mem'.repos[i]
                     s == mem'.repos[j]
                 IN  (r.forge = s.forge /\ r.slug = s.slug) \/ r.token = s.token
          PROVE  i = j
      BY <2>4, <2>8, <3>2 DEF StoreInv, RepoInv
    <3> QED BY <3>1, <3>2 DEF RepoInv
  <2>10. WorkspaceInv' /\ AccountInv' /\ ReportInv'
    BY <2>3, <2>4, WorkspaceKept, AccountKept, ReportKept DEF StoreInv, Maps
  <2>11. PushInv'
    BY <2>3, <2>4, <2>5, <2>6, PushKept DEF StoreInv, Maps
  <2> QED BY <2>2, <2>6, <2>9, <2>10, <2>11 DEF StoreInv
<1> QED BY <1>1, <1>2

\* The rows of the repos change, the ids do not.
LEMMA ReposKeep ==
    ASSUME StoreInv, now' \in Nat, family' \in Families,
           DOMAIN mem' = Maps, DOMAIN mem'.repos = DOMAIN mem.repos,
           \A x \in Maps \ {"repos"} : mem'[x] = mem[x]
    PROVE  RepoInv' => StoreInv'
<1>1. IdsInv'
  BY IdsKept DEF StoreInv, Maps, Counted
<1>2. WorkspaceInv' /\ AccountInv' /\ ReportInv'
  BY WorkspaceKept, AccountKept, ReportKept DEF StoreInv, Maps
<1>3. PushInv'
  BY PushKept DEF StoreInv, Maps, IdsInv, Counted
<1> QED BY <1>1, <1>2, <1>3 DEF StoreInv

\* UpdateRepo gives no repo another's name or token.
LEMMA UpdateRepoKeeps ==
    ASSUME StoreInv, NEW c, DOMAIN c.row = RepoColumns, c.row.slug \in Seq(Nat), UpdateRepo(c)
    PROVE  StoreInv'
<1> DEFINE old == mem.repos[c.id]
           row == Over([visibility |-> old.visibility, checked |-> old.checked], c.row)
<1>1. CASE c.id \notin DOMAIN mem.repos
  <2>1. Answers(c, NotFound, mem)
    BY <1>1 DEF UpdateRepo, Updates
  <2> QED BY <2>1, AnsweredWith
<1>2. CASE c.id \in DOMAIN mem.repos
  <2>1. Answers(c, Ok, [mem EXCEPT !.repos[c.id] = row])
    BY <1>2 DEF UpdateRepo, Updates
  <2>2. mem' = [mem EXCEPT !.repos[c.id] = row] /\ now' \in Nat /\ family' \in Families
    BY <2>1, AnsweredWith
  <2>3. /\ mem'.repos = [mem.repos EXCEPT ![c.id] = row] /\ DOMAIN mem' = Maps
        /\ \A x \in Maps \ {"repos"} : mem'[x] = mem[x]
    BY <2>2 DEF StoreInv, IdsInv, Maps
  <2>4. /\ DOMAIN row = RepoColumns \cup {"checked"} /\ row.slug \in Seq(Nat) /\ row.checked \in Nat
        /\ \A k \in RepoColumns \ {"visibility"} : row[k] = c.row[k]
    BY <1>2 DEF Over, RepoColumns, StoreInv, RepoInv
  <2>5. ASSUME NEW i \in DOMAIN mem.repos
        PROVE  IF i = c.id THEN old.forge = row.forge /\ old.slug = row.slug
               ELSE mem.repos[i].token # row.token
    <3> DEFINE r == Over([id |-> i], mem.repos[i])
    <3>1. r \in Rows(mem.repos)
      BY DEF Rows
    <3>2. /\ r.id = i /\ r.forge = mem.repos[i].forge /\ r.slug = mem.repos[i].slug
          /\ r.token = mem.repos[i].token
      BY DEF Over, StoreInv, RepoInv, RepoColumns
    <3>3. IF r.id = c.id THEN r.forge = c.row.forge /\ r.slug = c.row.slug
          ELSE r.token # c.row.token
      BY <3>1 DEF UpdateRepo
    <3> HIDE DEF r, row
    <3> QED BY <2>4, <3>2, <3>3 DEF RepoColumns
  <2> HIDE DEF row
  <2>6. RepoInv'
    <3>1. \A i \in DOMAIN mem'.repos :
            LET r == mem'.repos[i]
            IN  DOMAIN r = RepoColumns \cup {"checked"} /\ r.slug \in Seq(Nat) /\ r.checked \in Nat
      BY <2>3, <2>4 DEF StoreInv, RepoInv
    <3>2. ASSUME NEW i \in DOMAIN mem'.repos, NEW j \in DOMAIN mem'.repos,
                 LET r == mem'.repos[i]
                     s == mem'.repos[j]
                 IN  (r.forge = s.forge /\ r.slug = s.slug) \/ r.token = s.token
          PROVE  i = j
      <4>1. i \in DOMAIN mem.repos /\ j \in DOMAIN mem.repos
        BY <2>3
      <4>2. CASE i # c.id /\ j # c.id
        BY <2>3, <3>2, <4>1, <4>2 DEF StoreInv, RepoInv
      <4>3. CASE i = c.id /\ j # c.id
        <5>1. mem'.repos[i] = row /\ mem'.repos[j] = mem.repos[j]
          BY <2>3, <4>1, <4>3
        <5>2. old.forge = mem.repos[j].forge /\ old.slug = mem.repos[j].slug
          BY <2>5, <3>2, <4>1, <4>3, <5>1
        <5> QED BY <1>2, <4>1, <4>3, <5>2 DEF StoreInv, RepoInv
      <4>4. CASE i # c.id /\ j = c.id
        <5>1. mem'.repos[i] = mem.repos[i] /\ mem'.repos[j] = row
          BY <2>3, <4>1, <4>4
        <5>2. old.forge = mem.repos[i].forge /\ old.slug = mem.repos[i].slug
          BY <2>5, <3>2, <4>1, <4>4, <5>1
        <5> QED BY <1>2, <4>1, <4>4, <5>2 DEF StoreInv, RepoInv
      <4> QED BY <4>2, <4>3, <4>4
    <3> QED BY <3>1, <3>2 DEF RepoInv
  <2> QED BY <2>2, <2>3, <2>6, ReposKeep
<1> QED BY <1>1, <1>2

\* SetRepoVisibility writes a verdict and its stamp.
LEMMA SetRepoVisibilityKeeps ==
    ASSUME StoreInv, NEW c, c.at \in Nat, SetRepoVisibility(c)
    PROVE  StoreInv'
<1> DEFINE m == [mem EXCEPT !.repos[c.id].visibility = c.visibility, !.repos[c.id].checked = c.at]
<1>1. CASE \E answer : Answers(c, answer, mem)
  BY <1>1, AnsweredWith
<1>2. CASE c.id \in DOMAIN mem.repos /\ Answers(c, Ok, m)
  <2>1. mem' = m /\ now' \in Nat /\ family' \in Families
    BY <1>2, AnsweredWith
  <2>2. /\ DOMAIN mem' = Maps /\ \A x \in Maps \ {"repos"} : mem'[x] = mem[x]
        /\ DOMAIN mem'.repos = DOMAIN mem.repos
        /\ \A i \in DOMAIN mem.repos \ {c.id} : mem'.repos[i] = mem.repos[i]
        /\ mem'.repos[c.id] = [mem.repos[c.id] EXCEPT !.visibility = c.visibility, !.checked = c.at]
    BY <1>2, <2>1 DEF StoreInv, IdsInv, Maps
  <2>3. \A i \in DOMAIN mem.repos :
          LET r == mem'.repos[i]
          IN  /\ DOMAIN r = RepoColumns \cup {"checked"} /\ r.slug \in Seq(Nat) /\ r.checked \in Nat
              /\ r.forge = mem.repos[i].forge /\ r.slug = mem.repos[i].slug
              /\ r.token = mem.repos[i].token
    <3>1. \A i \in DOMAIN mem.repos :
            LET r == mem.repos[i]
            IN  DOMAIN r = RepoColumns \cup {"checked"} /\ r.slug \in Seq(Nat) /\ r.checked \in Nat
      BY DEF StoreInv, RepoInv
    <3>2. LET r == [mem.repos[c.id] EXCEPT !.visibility = c.visibility, !.checked = c.at]
          IN  /\ DOMAIN r = RepoColumns \cup {"checked"} /\ r.slug \in Seq(Nat) /\ r.checked \in Nat
              /\ r.forge = mem.repos[c.id].forge /\ r.slug = mem.repos[c.id].slug
              /\ r.token = mem.repos[c.id].token
      BY <1>2, <3>1 DEF RepoColumns
    <3> HIDE DEF m
    <3> QED BY <2>2, <3>1, <3>2
  <2>4. RepoInv'
    BY <2>2, <2>3 DEF StoreInv, RepoInv
  <2> QED BY <2>1, <2>2, <2>4, ReposKeep
<1> QED BY <1>1, <1>2 DEF SetRepoVisibility, Updates

\* What deleteRepoLocked drops leaves nothing that points to it.
LEMMA DroppedKeeps ==
    ASSUME StoreInv, NEW ids,
           mem'.repos = Without(mem.repos, ids),
           mem'.uploads = Without(mem.uploads, {u \in DOMAIN mem.uploads : mem.uploads[u].repo \in ids}),
           mem'.reports = Without(mem.reports, {i \in DOMAIN mem.reports : mem.reports[i].repo \in ids}),
           mem'.seq = mem.seq, mem'.crLease = mem.crLease, mem'.crStatus = mem.crStatus,
           mem'.tokenless = mem.tokenless
    PROVE  RepoInv' /\ ReportInv' /\ PushInv'
<1>1. /\ DOMAIN mem'.repos = DOMAIN mem.repos \ ids
      /\ \A i \in DOMAIN mem'.repos : mem'.repos[i] = mem.repos[i]
  BY DEF Without, Restrict
<1>2. /\ DOMAIN mem'.uploads \subseteq DOMAIN mem.uploads
      /\ \A u \in DOMAIN mem'.uploads : mem'.uploads[u] = mem.uploads[u]
  BY DEF Without, Restrict
<1>3. /\ DOMAIN mem'.reports = {i \in DOMAIN mem.reports : mem.reports[i].repo \notin ids}
      /\ \A i \in DOMAIN mem'.reports : mem'.reports[i] = mem.reports[i]
  BY DEF Without, Restrict
<1>4. RepoInv'
  BY <1>1 DEF StoreInv, RepoInv
<1>5. ReportInv'
  BY <1>1, <1>2, <1>3 DEF StoreInv, ReportInv
<1>6. PushInv'
  <2>1. ASSUME NEW k \in DOMAIN mem.crLease \cup DOMAIN mem.crStatus, k.repo \in DOMAIN mem'.repos
        PROVE  \E i \in DOMAIN mem'.reports : k = commitKey(mem'.reports[i].repo, mem'.reports[i].commit)
    <3>1. PICK i \in DOMAIN mem.reports : k = commitKey(mem.reports[i].repo, mem.reports[i].commit)
      BY <1>1, <2>1 DEF StoreInv, PushInv
    <3>2. mem.reports[i].repo = k.repo
      BY <3>1 DEF commitKey
    <3>3. i \in DOMAIN mem'.reports
      BY <1>1, <1>3, <2>1, <3>2
    <3> QED BY <1>3, <3>1, <3>3
  <2> QED BY <2>1 DEF StoreInv, PushInv
<1> QED BY <1>4, <1>5, <1>6

\* DeleteRepo leaves no report behind.
LEMMA DeleteRepoKeeps ==
    ASSUME StoreInv, NEW c, DeleteRepo(c)
    PROVE  StoreInv'
<1>1. CASE c.id \notin DOMAIN mem.repos
  <2>1. Answers(c, NotFound, mem)
    BY <1>1 DEF DeleteRepo, Updates
  <2> QED BY <2>1, AnsweredWith
<1>2. CASE c.id \in DOMAIN mem.repos
  <2>1. Answers(c, Ok, deleteRepoLocked(mem, {c.id}))
    BY <1>2 DEF DeleteRepo, Updates
  <2>2. mem' = deleteRepoLocked(mem, {c.id}) /\ now' \in Nat /\ family' \in Families
    BY <2>1, AnsweredWith
  <2> DEFINE gone == {u \in DOMAIN mem.uploads : mem.uploads[u].repo \in {c.id}}
  <2>3. /\ mem'.repos = Without(mem.repos, {c.id}) /\ mem'.uploads = Without(mem.uploads, gone)
        /\ mem'.files = Without(mem.files, gone)
        /\ mem'.reports = Without(mem.reports,
                                  {i \in DOMAIN mem.reports : mem.reports[i].repo \in {c.id}})
        /\ DOMAIN mem' = Maps
        /\ \A x \in Maps \ {"repos", "uploads", "files", "reports"} : mem'[x] = mem[x]
    BY <2>2 DEF deleteRepoLocked, StoreInv, IdsInv, Maps
  <2>4. RepoInv' /\ ReportInv' /\ PushInv'
    BY <2>3, DroppedKeeps DEF Maps
  <2>5. WorkspaceInv' /\ AccountInv'
    BY <2>3, WorkspaceKept, AccountKept DEF StoreInv, Maps
  <2>6. IdsInv'
    BY <2>3, IdsKept DEF StoreInv, Maps, Counted, Without, Restrict
  <2> QED BY <2>2, <2>4, <2>5, <2>6 DEF StoreInv
<1> QED BY <1>1, <1>2

\* DeleteWorkspace leaves no seat and no report behind.
LEMMA DeleteWorkspaceKeeps ==
    ASSUME StoreInv, NEW c, DeleteWorkspace(c)
    PROVE  StoreInv'
<1>1. CASE c.id \notin DOMAIN mem.workspaces
  <2>1. Answers(c, NotFound, mem)
    BY <1>1 DEF DeleteWorkspace, Updates
  <2> QED BY <2>1, AnsweredWith
<1>2. CASE c.id \in DOMAIN mem.workspaces
  <2> DEFINE owned == {i \in DOMAIN mem.repos : Owns(mem.workspaces[c.id], mem.repos[i])}
             m0 == deleteRepoLocked(mem, owned)
             gone == {u \in DOMAIN mem.uploads : mem.uploads[u].repo \in owned}
             m == [m0 EXCEPT !.workspaces = Without(@, {c.id}),
                             !.members = [u \in DOMAIN @ |-> Without(@[u], {c.id})]]
  <2>1. Answers(c, Ok, m)
    BY <1>2 DEF DeleteWorkspace, Updates
  <2>2. mem' = m /\ now' \in Nat /\ family' \in Families
    BY <2>1, AnsweredWith
  <2> HIDE DEF owned
  <2>3. /\ mem'.repos = Without(mem.repos, owned) /\ mem'.uploads = Without(mem.uploads, gone)
        /\ mem'.files = Without(mem.files, gone)
        /\ mem'.reports = Without(mem.reports,
                                  {i \in DOMAIN mem.reports : mem.reports[i].repo \in owned})
        /\ mem'.workspaces = Without(mem.workspaces, {c.id})
        /\ mem'.members = [u \in DOMAIN mem.members |-> Without(mem.members[u], {c.id})]
        /\ DOMAIN mem' = Maps
        /\ \A x \in Maps \ {"repos", "uploads", "files", "reports", "workspaces", "members"} :
             mem'[x] = mem[x]
    BY <2>2 DEF deleteRepoLocked, StoreInv, IdsInv, Maps
  <2> HIDE DEF m
  <2>4. RepoInv' /\ ReportInv' /\ PushInv'
    BY <2>3, DroppedKeeps DEF Maps
  <2>5. WorkspaceInv'
    BY <2>3 DEF StoreInv, WorkspaceInv, Without, Restrict
  <2>6. AccountInv'
    <3>1. \A u \in DOMAIN mem'.members : DOMAIN mem'.members[u] \subseteq DOMAIN mem'.workspaces
      BY <2>3 DEF StoreInv, AccountInv, Without, Restrict
    <3> QED BY <2>3, <3>1 DEF StoreInv, AccountInv, Maps
  <2>7. IdsInv'
    BY <2>3, IdsKept DEF StoreInv, Maps, Counted, Without, Restrict
  <2> QED BY <2>2, <2>4, <2>5, <2>6, <2>7 DEF StoreInv
<1> QED BY <1>1, <1>2

\* A row of the workspaces.
WorkspaceRow(w) ==
    /\ DOMAIN w = WorkspaceColumns \cup {"grant"} /\ w.prefix \in Seq(Nat)
    /\ IsGrant(w.grant) /\ (w.forge \notin GrantForges => w.grant = EmptyGrant)
ClashingWorkspaces(w, v) == (w.forge = v.forge /\ w.prefix = v.prefix) \/ w.token = v.token

\* The invariant of workspaces, row by row,
LEMMA WorkspaceRows ==
    ASSUME WorkspaceInv
    PROVE  /\ \A i \in DOMAIN mem.workspaces : WorkspaceRow(mem.workspaces[i])
           /\ \A i, j \in DOMAIN mem.workspaces :
                ClashingWorkspaces(mem.workspaces[i], mem.workspaces[j]) => i = j
BY DEF WorkspaceInv, WorkspaceRow, ClashingWorkspaces

\* and after a step.
LEMMA WorkspaceRowsNext ==
    ASSUME \A i \in DOMAIN mem'.workspaces : WorkspaceRow(mem'.workspaces[i]),
           \A i, j \in DOMAIN mem'.workspaces :
             ClashingWorkspaces(mem'.workspaces[i], mem'.workspaces[j]) => i = j
    PROVE  WorkspaceInv'
BY DEF WorkspaceInv, WorkspaceRow, ClashingWorkspaces

\* One more workspace, of a name and token that are not taken.
LEMMA NewWorkspaceKeeps ==
    ASSUME StoreInv, NEW row, NEW given, DOMAIN row = WorkspaceColumns, row.prefix \in Seq(Nat),
           IsGrant(given), row.forge \notin GrantForges => given = EmptyGrant, ~ prefixTaken(row),
           mem'.workspaces = With(mem.workspaces, mem.seq["workspaces"] + 1, Over(row, [grant |-> given]))
    PROVE  WorkspaceInv'
<1> DEFINE id == mem.seq["workspaces"] + 1
           w == Over(row, [grant |-> given])
<1>1. /\ DOMAIN mem'.workspaces = DOMAIN mem.workspaces \cup {id} /\ mem'.workspaces[id] = w
      /\ \A i \in DOMAIN mem.workspaces \ {id} : mem'.workspaces[i] = mem.workspaces[i]
  BY DEF With
<1>2. /\ DOMAIN w = WorkspaceColumns \cup {"grant"} /\ w.grant = given
      /\ w.forge = row.forge /\ w.prefix = row.prefix /\ w.token = row.token
  BY DEF Over, WorkspaceColumns
<1>3. WorkspaceRow(w)
  BY <1>2 DEF WorkspaceRow
<1>4. ASSUME NEW i \in DOMAIN mem.workspaces
      PROVE  ~ ClashingWorkspaces(mem.workspaces[i], w) /\ ~ ClashingWorkspaces(w, mem.workspaces[i])
  <2> DEFINE r == Over([id |-> i], mem.workspaces[i])
  <2>1. r \in Rows(mem.workspaces)
    BY DEF Rows
  <2>2. ~ ((r.forge = row.forge /\ r.prefix = row.prefix) \/ r.token = row.token)
    BY <2>1, FindNone DEF prefixTaken
  <2>3. /\ r.forge = mem.workspaces[i].forge /\ r.prefix = mem.workspaces[i].prefix
        /\ r.token = mem.workspaces[i].token
    BY DEF Over, StoreInv, WorkspaceInv, WorkspaceColumns
  <2> HIDE DEF r, w
  <2> QED BY <1>2, <2>2, <2>3 DEF ClashingWorkspaces
<1> HIDE DEF w, id
<1>5. \A i \in DOMAIN mem'.workspaces : WorkspaceRow(mem'.workspaces[i])
  BY <1>1, <1>3, WorkspaceRows DEF StoreInv
<1>6. \A i, j \in DOMAIN mem'.workspaces :
        ClashingWorkspaces(mem'.workspaces[i], mem'.workspaces[j]) => i = j
  BY <1>1, <1>4, WorkspaceRows DEF StoreInv
<1> QED BY <1>5, <1>6, WorkspaceRowsNext

\* CreateWorkspace adds one under a name and a token of its own.
LEMMA CreateWorkspaceKeeps ==
    ASSUME StoreInv, NEW c, DOMAIN c.row = WorkspaceColumns, c.row.prefix \in Seq(Nat),
           IsGrant(c.grant), c.row.forge \notin GrantForges => c.grant = EmptyGrant, CreateWorkspace(c)
    PROVE  StoreInv'
<1>1. CASE prefixTaken(c.row)
  <2>1. Answers(c, Failed, mem)
    BY <1>1 DEF CreateWorkspace
  <2> QED BY <2>1, AnsweredWith
<1>2. CASE ~ prefixTaken(c.row)
  <2> DEFINE id == mem.seq["workspaces"] + 1
             w == Over(c.row, [grant |-> c.grant])
  <2>1. Answers(c, Created(id), Stored(mem, "workspaces", w))
    BY <1>2 DEF CreateWorkspace, Stores
  <2>2. mem' = Stored(mem, "workspaces", w) /\ now' \in Nat /\ family' \in Families
    BY <2>1, AnsweredWith
  <2>3. /\ mem'.workspaces = With(mem.workspaces, id, w) /\ DOMAIN mem' = Maps
        /\ mem'.seq = [mem.seq EXCEPT !["workspaces"] = @ + 1]
        /\ \A x \in Maps \ {"workspaces", "seq"} : mem'[x] = mem[x]
    BY <2>2 DEF Stored, StoreInv, IdsInv, Maps
  <2>4. WorkspaceInv'
    BY <1>2, <2>3, NewWorkspaceKeeps
  <2>5. DOMAIN mem'.workspaces = DOMAIN mem.workspaces \cup {id}
    BY <2>3 DEF With
  <2> HIDE DEF w
  <2>6. IdsInv' /\ mem.seq["repos"] \in Nat /\ mem'.seq["repos"] \in Nat /\ mem.seq["repos"] <= mem'.seq["repos"]
    BY <2>3, <2>5, IdsStored DEF StoreInv, Maps, Counted
  <2>7. RepoInv' /\ AccountInv' /\ ReportInv'
    BY <2>3, <2>5, RepoKept, AccountKept, ReportKept DEF StoreInv, Maps
  <2>8. PushInv'
    BY <2>3, <2>6, PushKept DEF StoreInv, Maps
  <2> QED BY <2>2, <2>4, <2>6, <2>7, <2>8 DEF StoreInv
<1> QED BY <1>1, <1>2

\* RegisterWorkspace adds one, and a seat in it.
LEMMA RegisterWorkspaceKeeps ==
    ASSUME StoreInv, NEW c, DOMAIN c.row = WorkspaceColumns, c.row.prefix \in Seq(Nat),
           IsGrant(c.grant), c.row.forge \notin GrantForges => c.grant = EmptyGrant, RegisterWorkspace(c)
    PROVE  StoreInv'
<1>1. CASE c.user \notin DOMAIN mem.users \/ prefixTaken(c.row)
  <2>1. Answers(c, Failed, mem)
    BY <1>1 DEF RegisterWorkspace
  <2> QED BY <2>1, AnsweredWith
<1>2. CASE ~ (c.user \notin DOMAIN mem.users \/ prefixTaken(c.row))
  <2> DEFINE id == mem.seq["workspaces"] + 1
             w == Over(c.row, [grant |-> c.grant])
             seats == With(SeatsOf(c.user), id, "owner")
             m == [Stored(mem, "workspaces", w) EXCEPT !.members = With(@, c.user, seats)]
  <2>1. Answers(c, Created(id), m)
    BY <1>2 DEF RegisterWorkspace
  <2>2. mem' = m /\ now' \in Nat /\ family' \in Families
    BY <2>1, AnsweredWith
  <2>3. /\ mem'.workspaces = With(mem.workspaces, id, w) /\ DOMAIN mem' = Maps
        /\ mem'.seq = [mem.seq EXCEPT !["workspaces"] = @ + 1]
        /\ mem'.members = With(mem.members, c.user, seats)
        /\ \A x \in Maps \ {"workspaces", "seq", "members"} : mem'[x] = mem[x]
    BY <2>2 DEF Stored, StoreInv, IdsInv, Maps
  <2>4. WorkspaceInv'
    BY <1>2, <2>3, NewWorkspaceKeeps
  <2>5. DOMAIN mem'.workspaces = DOMAIN mem.workspaces \cup {id}
    BY <2>3 DEF With
  <2>6. IdsInv' /\ mem.seq["repos"] \in Nat /\ mem'.seq["repos"] \in Nat /\ mem.seq["repos"] <= mem'.seq["repos"]
    <3> HIDE DEF w, m, seats
    <3> QED BY <2>3, <2>5, IdsStored DEF StoreInv, Maps, Counted
  <2>7. AccountInv'
    <3>1. DOMAIN SeatsOf(c.user) \subseteq DOMAIN mem.workspaces
      BY DEF SeatsOf, StoreInv, AccountInv, Nothing
    <3>2. DOMAIN seats \subseteq DOMAIN mem'.workspaces
      BY <2>5, <3>1 DEF With
    <3> HIDE DEF seats, w, m, id
    <3>3. \A u \in DOMAIN mem'.members : DOMAIN mem'.members[u] \subseteq DOMAIN mem'.workspaces
      BY <2>3, <2>5, <3>2 DEF With, StoreInv, AccountInv
    <3> QED BY <2>3, <3>3 DEF StoreInv, AccountInv, Maps
  <2> HIDE DEF w, m, seats
  <2>8. RepoInv' /\ ReportInv'
    BY <2>3, RepoKept, ReportKept DEF StoreInv, Maps
  <2>9. PushInv'
    BY <2>3, <2>6, PushKept DEF StoreInv, Maps
  <2> QED BY <2>2, <2>4, <2>6, <2>7, <2>8, <2>9 DEF StoreInv
<1> QED BY <1>1, <1>2

\* One workspace's row changes, and still clashes with no other.
LEMMA WorkspacesKeep ==
    ASSUME StoreInv, NEW id \in DOMAIN mem.workspaces, NEW w, WorkspaceRow(w),
           \A i \in DOMAIN mem.workspaces \ {id} : ~ ClashingWorkspaces(mem.workspaces[i], w),
           NEW c, NEW answer, Answers(c, answer, [mem EXCEPT !.workspaces[id] = w])
    PROVE  StoreInv'
<1>1. mem' = [mem EXCEPT !.workspaces[id] = w] /\ now' \in Nat /\ family' \in Families
  BY AnsweredWith
<1>2. /\ DOMAIN mem' = Maps /\ \A x \in Maps \ {"workspaces"} : mem'[x] = mem[x]
      /\ DOMAIN mem'.workspaces = DOMAIN mem.workspaces /\ mem'.workspaces[id] = w
      /\ \A i \in DOMAIN mem.workspaces \ {id} : mem'.workspaces[i] = mem.workspaces[i]
  BY <1>1 DEF StoreInv, IdsInv, Maps
<1>3. IdsInv'
  BY <1>2, IdsKept DEF StoreInv, Maps, Counted
<1>4. RepoInv' /\ AccountInv' /\ ReportInv'
  BY <1>2, RepoKept, AccountKept, ReportKept DEF StoreInv, Maps
<1>5. PushInv'
  BY <1>2, PushKept DEF StoreInv, Maps, IdsInv, Counted
<1>6. WorkspaceInv'
  <2>1. \A i \in DOMAIN mem'.workspaces : WorkspaceRow(mem'.workspaces[i])
    BY <1>2, WorkspaceRows DEF StoreInv
  <2>2. \A v, u : ClashingWorkspaces(v, u) => ClashingWorkspaces(u, v)
    BY DEF ClashingWorkspaces
  <2>3. \A i, j \in DOMAIN mem'.workspaces :
          ClashingWorkspaces(mem'.workspaces[i], mem'.workspaces[j]) => i = j
    BY <1>2, <2>2, WorkspaceRows DEF StoreInv
  <2> QED BY <2>1, <2>3, WorkspaceRowsNext
<1> QED BY <1>1, <1>3, <1>4, <1>5, <1>6 DEF StoreInv

\* UpdateWorkspace gives no workspace another's name or token.
LEMMA UpdateWorkspaceKeeps ==
    ASSUME StoreInv, NEW c, DOMAIN c.row = WorkspaceColumns, c.row.prefix \in Seq(Nat),
           UpdateWorkspace(c)
    PROVE  StoreInv'
<1>1. CASE c.id \notin DOMAIN mem.workspaces
  <2>1. Answers(c, NotFound, mem)
    BY <1>1 DEF UpdateWorkspace, Updates
  <2> QED BY <2>1, AnsweredWith
<1>2. CASE c.id \in DOMAIN mem.workspaces
  <2> DEFINE old == mem.workspaces[c.id]
             w == Over(c.row, [grant |-> old.grant])
  <2>1. Answers(c, Ok, [mem EXCEPT !.workspaces[c.id] = w])
    BY <1>2 DEF UpdateWorkspace, Updates
  <2>2. ASSUME NEW i \in DOMAIN mem.workspaces
        PROVE  IF i = c.id THEN old.forge = c.row.forge /\ old.prefix = c.row.prefix
               ELSE mem.workspaces[i].token # c.row.token
    <3> DEFINE r == Over([id |-> i], mem.workspaces[i])
    <3>1. r \in Rows(mem.workspaces)
      BY DEF Rows
    <3>2. /\ r.id = i /\ r.forge = mem.workspaces[i].forge /\ r.prefix = mem.workspaces[i].prefix
          /\ r.token = mem.workspaces[i].token
      BY DEF Over, StoreInv, WorkspaceInv, WorkspaceColumns
    <3>3. IF r.id = c.id THEN r.forge = c.row.forge /\ r.prefix = c.row.prefix
          ELSE r.token # c.row.token
      BY <3>1 DEF UpdateWorkspace
    <3> HIDE DEF r
    <3> QED BY <3>2, <3>3
  <2>3. WorkspaceRow(old)
    BY <1>2, WorkspaceRows DEF StoreInv
  <2>4. /\ DOMAIN w = WorkspaceColumns \cup {"grant"} /\ w.grant = old.grant
        /\ w.forge = c.row.forge /\ w.prefix = c.row.prefix /\ w.token = c.row.token
    BY DEF Over, WorkspaceColumns
  <2>5. old.forge = c.row.forge /\ old.prefix = c.row.prefix
    BY <1>2, <2>2
  <2> HIDE DEF w
  <2>6. WorkspaceRow(w)
    BY <2>3, <2>4, <2>5 DEF WorkspaceRow
  <2>7. ASSUME NEW i \in DOMAIN mem.workspaces \ {c.id}
        PROVE  ~ ClashingWorkspaces(mem.workspaces[i], w)
    <3>1. mem.workspaces[i].token # c.row.token
      BY <2>2
    <3>2. ~ ClashingWorkspaces(mem.workspaces[i], old)
      BY <1>2, WorkspaceRows DEF StoreInv
    <3> QED BY <2>4, <2>5, <3>1, <3>2 DEF ClashingWorkspaces
  <2> QED BY <1>2, <2>1, <2>6, <2>7, WorkspacesKeep
<1> QED BY <1>1, <1>2

\* A column no other store rule is about, of one workspace.
LEMMA WorkspaceColumnKeeps ==
    ASSUME StoreInv, NEW id \in DOMAIN mem.workspaces, NEW w, WorkspaceRow(w),
           w.forge = mem.workspaces[id].forge, w.prefix = mem.workspaces[id].prefix,
           w.token = mem.workspaces[id].token,
           NEW c, NEW answer, Answers(c, answer, [mem EXCEPT !.workspaces[id] = w])
    PROVE  StoreInv'
<1>1. ASSUME NEW i \in DOMAIN mem.workspaces \ {id}
      PROVE  ~ ClashingWorkspaces(mem.workspaces[i], w)
  <2>1. ~ ClashingWorkspaces(mem.workspaces[i], mem.workspaces[id])
    BY WorkspaceRows DEF StoreInv
  <2> QED BY <2>1 DEF ClashingWorkspaces
<1> QED BY <1>1, WorkspacesKeep

\* SetWorkspaceGrant gives a grant to a workspace whose forge has grants.
LEMMA SetWorkspaceGrantKeeps ==
    ASSUME StoreInv, NEW c, IsGrant(c.grant), SetWorkspaceGrant(c)
    PROVE  StoreInv'
<1> DEFINE old == mem.workspaces[c.id]
           w == [old EXCEPT !.grant = c.grant]
<1>1. CASE Answers(c, NotFound, mem)
  BY <1>1, AnsweredWith
<1>2. CASE /\ c.id \in DOMAIN mem.workspaces /\ c.forge \in GrantForges /\ old.forge = c.forge
           /\ Answers(c, Ok, [mem EXCEPT !.workspaces[c.id].grant = c.grant])
  <2>1. WorkspaceRow(old)
    BY <1>2, WorkspaceRows DEF StoreInv
  <2>2. Answers(c, Ok, [mem EXCEPT !.workspaces[c.id] = w])
    BY <1>2
  <2>3. /\ WorkspaceRow(w) /\ w.forge = old.forge /\ w.prefix = old.prefix /\ w.token = old.token
    BY <1>2, <2>1 DEF WorkspaceRow, WorkspaceColumns
  <2> HIDE DEF w
  <2> QED BY <1>2, <2>2, <2>3, WorkspaceColumnKeeps
<1> QED BY <1>1, <1>2 DEF SetWorkspaceGrant

\* SetGitHubAppBroken writes a flag.
LEMMA SetGitHubAppBrokenKeeps ==
    ASSUME StoreInv, NEW c, SetGitHubAppBroken(c)
    PROVE  StoreInv'
<1> DEFINE old == mem.workspaces[c.id]
           w == [old EXCEPT !.appBroken = c.broken]
<1>1. CASE Answers(c, Ok, mem)
  BY <1>1, AnsweredWith
<1>2. CASE /\ c.id \in DOMAIN mem.workspaces
           /\ Answers(c, Ok, [mem EXCEPT !.workspaces[c.id].appBroken = c.broken])
  <2>1. WorkspaceRow(old)
    BY <1>2, WorkspaceRows DEF StoreInv
  <2>2. Answers(c, Ok, [mem EXCEPT !.workspaces[c.id] = w])
    BY <1>2
  <2>3. /\ WorkspaceRow(w) /\ w.forge = old.forge /\ w.prefix = old.prefix /\ w.token = old.token
    BY <1>2, <2>1 DEF WorkspaceRow, WorkspaceColumns
  <2> HIDE DEF w
  <2> QED BY <1>2, <2>2, <2>3, WorkspaceColumnKeeps
<1> QED BY <1>1, <1>2 DEF SetGitHubAppBroken

\* MarkWorkspaceGrantBroken writes the grant's flag.
LEMMA MarkWorkspaceGrantBrokenKeeps ==
    ASSUME StoreInv, NEW c, MarkWorkspaceGrantBroken(c)
    PROVE  StoreInv'
<1> DEFINE old == mem.workspaces[c.id]
           given == [old.grant EXCEPT !.broken = TRUE]
           w == [old EXCEPT !.grant = given]
<1>1. CASE \E answer : Answers(c, answer, mem)
  BY <1>1, AnsweredWith
<1>2. CASE /\ c.id \in DOMAIN mem.workspaces /\ c.forge \in GrantForges /\ old.forge = c.forge
           /\ Answers(c, Ok, [mem EXCEPT !.workspaces[c.id].grant.broken = TRUE])
  <2>1. WorkspaceRow(old)
    BY <1>2, WorkspaceRows DEF StoreInv
  <2>2. Answers(c, Ok, [mem EXCEPT !.workspaces[c.id] = w])
    BY <1>2
  <2>3. IsGrant(given)
    <3>1. IsGrant(old.grant)
      BY <2>1 DEF WorkspaceRow
    <3> HIDE DEF old
    <3> QED BY <3>1 DEF IsGrant
  <2> HIDE DEF given
  <2>4. /\ WorkspaceRow(w) /\ w.forge = old.forge /\ w.prefix = old.prefix /\ w.token = old.token
    BY <1>2, <2>1, <2>3 DEF WorkspaceRow, WorkspaceColumns
  <2> HIDE DEF w
  <2> QED BY <1>2, <2>2, <2>4, WorkspaceColumnKeeps
<1> QED BY <1>1, <1>2 DEF MarkWorkspaceGrantBroken

\* Accounts change; the tables of repos, uploads and pushes do not.
LEMMA AccountsKeep ==
    ASSUME StoreInv, now' \in Nat, family' \in Families, DOMAIN mem' = Maps, AccountInv',
           DOMAIN mem'.users \subseteq DOMAIN mem.users, mem'.seq = mem.seq,
           \A x \in Maps \ {"users", "members", "sessions", "oauthCodes", "mcpTokens", "seq"} :
             mem'[x] = mem[x]
    PROVE  StoreInv'
<1>1. IdsInv'
  BY IdsKept DEF StoreInv, Maps, Counted
<1>2. RepoInv' /\ WorkspaceInv' /\ ReportInv'
  BY RepoKept, WorkspaceKept, ReportKept DEF StoreInv, Maps
<1>3. PushInv'
  BY PushKept DEF StoreInv, Maps, IdsInv, Counted
<1> QED BY <1>1, <1>2, <1>3 DEF StoreInv

\* UpsertUser never removes an account.
LEMMA UpsertUserKeeps ==
    ASSUME StoreInv, NEW c, DOMAIN c.row = UserColumns, UpsertUser(c)
    PROVE  StoreInv'
<1> DEFINE found == {x \in Rows(mem.users) : x.forge = c.row.forge /\ x.uuid = c.row.uuid}
           existing == find(found)
           row == Over(c.row, [created |-> now, login |-> now])
<1>1. CASE existing = <<>>
  <2> DEFINE id == mem.seq["users"] + 1
  <2>1. Answers(c, Created(id), Stored(mem, "users", row))
    BY <1>1 DEF UpsertUser, Stores
  <2>2. mem' = Stored(mem, "users", row) /\ now' \in Nat /\ family' \in Families
    BY <2>1, AnsweredWith
  <2>3. DOMAIN row = UserColumns \cup {"created", "login"}
    BY DEF Over
  <2> HIDE DEF row
  <2>4. /\ mem'.users = With(mem.users, id, row) /\ DOMAIN mem' = Maps
        /\ mem'.seq = [mem.seq EXCEPT !["users"] = @ + 1]
        /\ \A x \in Maps \ {"users", "seq"} : mem'[x] = mem[x]
    BY <2>2 DEF Stored, StoreInv, IdsInv, Maps
  <2>5. /\ DOMAIN mem'.users = DOMAIN mem.users \cup {id}
        /\ \A i \in DOMAIN mem'.users : DOMAIN mem'.users[i] = UserColumns \cup {"created", "login"}
    BY <2>3, <2>4 DEF With, StoreInv, AccountInv
  <2>6. IdsInv' /\ mem.seq["repos"] \in Nat /\ mem'.seq["repos"] \in Nat /\ mem.seq["repos"] <= mem'.seq["repos"]
    BY <2>4, <2>5, IdsStored DEF StoreInv, Maps, Counted
  <2>7. AccountInv'
    BY <2>4, <2>5 DEF StoreInv, AccountInv, Maps
  <2>8. RepoInv' /\ WorkspaceInv' /\ ReportInv'
    BY <2>4, RepoKept, WorkspaceKept, ReportKept DEF StoreInv, Maps
  <2>9. PushInv'
    BY <2>4, <2>6, PushKept DEF StoreInv, Maps
  <2> QED BY <2>2, <2>6, <2>7, <2>8, <2>9 DEF StoreInv
<1>2. CASE existing # <<>>
  <2> DEFINE id == existing[1].id
             m == [mem EXCEPT !.users[id].profile = c.row.profile, !.users[id].login = now]
  <2>1. Answers(c, Created(id), m)
    BY <1>2 DEF UpsertUser
  <2>2. mem' = m /\ now' \in Nat /\ family' \in Families
    BY <2>1, AnsweredWith
  <2> HIDE DEF id
  <2>3. /\ DOMAIN mem' = Maps /\ \A x \in Maps \ {"users"} : mem'[x] = mem[x]
        /\ DOMAIN mem'.users = DOMAIN mem.users
        /\ \A i \in DOMAIN mem.users : DOMAIN mem'.users[i] = DOMAIN mem.users[i]
    BY <2>2 DEF StoreInv, IdsInv, Maps
  <2>4. AccountInv'
    BY <2>3 DEF StoreInv, AccountInv, Maps
  <2> QED BY <2>2, <2>3, <2>4, AccountsKeep DEF Maps
<1> QED BY <1>1, <1>2

\* DeleteUser leaves no session and no token of the account behind.
LEMMA DeleteUserKeeps ==
    ASSUME StoreInv, NEW c, DeleteUser(c)
    PROVE  StoreInv'
<1>1. CASE c.id \notin DOMAIN mem.users
  <2>1. Answers(c, NotFound, mem)
    BY <1>1 DEF DeleteUser, Updates
  <2> QED BY <2>1, AnsweredWith
<1>2. CASE c.id \in DOMAIN mem.users
  <2> DEFINE m == [mem EXCEPT !.users = Without(@, {c.id}), !.members = Without(@, {c.id}),
                              !.sessions = Without(@, OfUser(@, c.id)),
                              !.oauthCodes = Without(@, OfUser(@, c.id)),
                              !.mcpTokens = Without(@, OfUser(@, c.id))]
  <2>1. Answers(c, Ok, m)
    BY <1>2 DEF DeleteUser, Updates
  <2>2. mem' = m /\ now' \in Nat /\ family' \in Families
    BY <2>1, AnsweredWith
  <2>3. /\ mem'.users = Without(mem.users, {c.id}) /\ mem'.members = Without(mem.members, {c.id})
        /\ mem'.sessions = Without(mem.sessions, OfUser(mem.sessions, c.id))
        /\ mem'.oauthCodes = Without(mem.oauthCodes, OfUser(mem.oauthCodes, c.id))
        /\ mem'.mcpTokens = Without(mem.mcpTokens, OfUser(mem.mcpTokens, c.id))
        /\ DOMAIN mem' = Maps
        /\ \A x \in Maps \ {"users", "members", "sessions", "oauthCodes", "mcpTokens"} :
             mem'[x] = mem[x]
    BY <2>2 DEF StoreInv, IdsInv, Maps
  <2> HIDE DEF m
  <2>4. /\ \A i \in DOMAIN mem'.users : DOMAIN mem'.users[i] = UserColumns \cup {"created", "login"}
        /\ \A u \in DOMAIN mem'.members : DOMAIN mem'.members[u] \subseteq DOMAIN mem'.workspaces
    BY <2>3 DEF StoreInv, AccountInv, Without, Restrict, Maps
  <2>5. /\ IsFunction(mem'.sessions) /\ IsFunction(mem'.oauthCodes) /\ IsFunction(mem'.mcpTokens)
    BY <2>3 DEF IsFunction, Without, Restrict
  <2>6. /\ \A h \in DOMAIN mem'.sessions : /\ mem'.sessions[h].user \in DOMAIN mem'.users
                                           /\ mem'.sessions[h].expires \in Nat
        /\ \A h \in DOMAIN mem'.mcpTokens : /\ mem'.mcpTokens[h].user \in DOMAIN mem'.users
                                            /\ mem'.mcpTokens[h].expires \in Nat
        /\ \A h \in DOMAIN mem'.oauthCodes : mem'.oauthCodes[h].expires \in Nat
    BY <2>3 DEF StoreInv, AccountInv, OfUser, Without, Restrict
  <2>7. AccountInv'
    BY <2>4, <2>5, <2>6 DEF AccountInv
  <2>8. DOMAIN mem'.users \subseteq DOMAIN mem.users
    BY <2>3 DEF Without, Restrict
  <2> QED BY <2>2, <2>3, <2>7, <2>8, AccountsKeep DEF Maps
<1> QED BY <1>1, <1>2

\* SetUserMemberships only seats users in workspaces there are.
LEMMA SetUserMembershipsKeeps ==
    ASSUME StoreInv, NEW c, SetUserMemberships(c)
    PROVE  StoreInv'
<1> DEFINE roleIn(w) == (CHOOSE s \in c.seats : s.workspace = w).role
           set == [w \in {s.workspace : s \in c.seats} |-> roleIn(w)]
<1>1. ASSUME NEW ms, Answers(c, Ok, [mem EXCEPT !.members = ms]),
             \A u \in DOMAIN ms : DOMAIN ms[u] \subseteq DOMAIN mem.workspaces
      PROVE  StoreInv'
  <2>1. mem' = [mem EXCEPT !.members = ms] /\ now' \in Nat /\ family' \in Families
    BY <1>1, AnsweredWith
  <2>2. mem'.members = ms /\ DOMAIN mem' = Maps /\ \A x \in Maps \ {"members"} : mem'[x] = mem[x]
    BY <2>1 DEF StoreInv, IdsInv, Maps
  <2>3. AccountInv'
    BY <1>1, <2>2 DEF StoreInv, AccountInv, Maps
  <2> QED BY <2>1, <2>2, <2>3, AccountsKeep DEF Maps
<1>2. CASE \E answer : Answers(c, answer, mem)
  BY <1>2, AnsweredWith
<1>3. CASE Answers(c, Ok, [mem EXCEPT !.members = Without(@, {c.user})])
  <2> DEFINE ms == Without(mem.members, {c.user})
  <2>1. \A u \in DOMAIN ms : DOMAIN ms[u] \subseteq DOMAIN mem.workspaces
    BY DEF StoreInv, AccountInv, Without, Restrict
  <2>2. Answers(c, Ok, [mem EXCEPT !.members = ms])
    BY <1>3
  <2> HIDE DEF ms
  <2> QED BY <1>1, <2>1, <2>2
<1>4. CASE /\ \A s \in c.seats : s.workspace \in DOMAIN mem.workspaces
           /\ Answers(c, Ok, [mem EXCEPT !.members = With(@, c.user, set)])
  <2> DEFINE ms == With(mem.members, c.user, set)
  <2>1. DOMAIN set \subseteq DOMAIN mem.workspaces
    BY <1>4
  <2>2. Answers(c, Ok, [mem EXCEPT !.members = ms])
    BY <1>4
  <2> HIDE DEF set
  <2>3. \A u \in DOMAIN ms : DOMAIN ms[u] \subseteq DOMAIN mem.workspaces
    BY <2>1 DEF With, StoreInv, AccountInv
  <2> HIDE DEF ms
  <2> QED BY <1>1, <2>2, <2>3
<1>5. \/ \E answer : Answers(c, answer, mem)
      \/ Answers(c, Ok, [mem EXCEPT !.members = Without(@, {c.user})])
      \/ /\ \A s \in c.seats : s.workspace \in DOMAIN mem.workspaces
         /\ Answers(c, Ok, [mem EXCEPT !.members = With(@, c.user, set)])
  BY DEF SetUserMemberships
<1> QED BY <1>2, <1>3, <1>4, <1>5

\* A hash comes, of a user there is, or goes.
HashesFor(t, f) ==
    /\ IsFunction(f) /\ \A h \in DOMAIN f : f[h].expires \in Nat
    /\ t # "oauthCodes" => \A h \in DOMAIN f : f[h].user \in DOMAIN mem.users

\* The tables of hashes are of users there are,
LEMMA HashesNow ==
    ASSUME StoreInv, NEW p \in HashTables
    PROVE  HashesFor(p[1], mem[p[1]])
BY DEF StoreInv, AccountInv, HashTables, HashesFor

\* and a table of such hashes can take the place of one,
LEMMA HashesKeep ==
    ASSUME StoreInv, NEW p \in HashTables, NEW f, HashesFor(p[1], f), NEW c, NEW answer,
           Answers(c, answer, [mem EXCEPT ![p[1]] = f])
    PROVE  StoreInv'
<1>1. mem' = [mem EXCEPT ![p[1]] = f] /\ now' \in Nat /\ family' \in Families
  BY AnsweredWith
<1>2. mem'[p[1]] = f /\ DOMAIN mem' = Maps /\ \A x \in Maps \ {p[1]} : mem'[x] = mem[x]
  BY <1>1, MapsHashes DEF StoreInv, IdsInv
<1>3. \A x \in Maps \ {"sessions", "oauthCodes", "mcpTokens"} : mem'[x] = mem[x]
  BY <1>2 DEF HashTables
<1>4. \A q \in HashTables : q[1] = p[1] \/ mem'[q[1]] = mem[q[1]]
  BY <1>2 DEF HashTables, Maps
<1>5. \A q \in HashTables : HashesFor(q[1], mem'[q[1]])
  BY <1>2, <1>4, HashesNow
<1>6. /\ HashesFor("sessions", mem'.sessions) /\ HashesFor("oauthCodes", mem'.oauthCodes)
      /\ HashesFor("mcpTokens", mem'.mcpTokens)
  <2>1. /\ <<"sessions", "sessions">> \in HashTables /\ <<"oauthCodes", "codes">> \in HashTables
        /\ <<"mcpTokens", "tokens">> \in HashTables
    BY DEF HashTables
  <2> QED BY <1>5, <2>1
<1>7. AccountInv'
  BY <1>3, <1>6 DEF StoreInv, AccountInv, Maps, HashesFor
<1> QED BY <1>1, <1>2, <1>3, <1>7, AccountsKeep DEF Maps

\* as one with fewer hashes is.
LEMMA HashesFewer ==
    ASSUME StoreInv, NEW p \in HashTables, NEW h
    PROVE  HashesFor(p[1], Without(mem[p[1]], {h}))
<1>1. HashesFor(p[1], mem[p[1]])
  BY HashesNow
<1> QED BY <1>1 DEF HashesFor, Without, Restrict, IsFunction

\* A new hash is of a user there is.
LEMMA KeepsKeeps ==
    ASSUME StoreInv, NEW p \in HashTables, NEW c, c.row.expires \in Nat, Keeps(c, p[1])
    PROVE  StoreInv'
<1>1. CASE Answers(c, Failed, mem)
  BY <1>1, AnsweredWith
<1>2. CASE /\ c.row.user \in DOMAIN mem.users
           /\ Answers(c, Ok, [mem EXCEPT ![p[1]] = With(@, c.hash, c.row)])
  <2> DEFINE f == With(mem[p[1]], c.hash, c.row)
  <2>1. HashesFor(p[1], mem[p[1]])
    BY HashesNow
  <2>2. HashesFor(p[1], f)
    BY <1>2, <2>1 DEF HashesFor, With, IsFunction
  <2>3. Answers(c, Ok, [mem EXCEPT ![p[1]] = f])
    BY <1>2
  <2> HIDE DEF f
  <2> QED BY <2>2, <2>3, HashesKeep
<1> QED BY <1>1, <1>2 DEF Keeps

\* Presenting a hash adds none.
LEMMA ResolvesKeeps ==
    ASSUME StoreInv, NEW p \in HashTables, NEW c, Resolves(c, p[1])
    PROVE  StoreInv'
<1>1. CASE \E answer : Answers(c, answer, mem)
  BY <1>1, AnsweredWith
<1>2. CASE Answers(c, NotFound, [mem EXCEPT ![p[1]] = Without(@, {c.hash})])
  BY <1>2, HashesFewer, HashesKeep
<1> QED BY <1>1, <1>2 DEF Resolves

\* The calls about sessions, codes and tokens.
LEMMA HashCallsKeep ==
    ASSUME StoreInv, NEW c,
           c.op \in {"CreateSession", "CreateOAuthCode", "CreateMCPToken"} => c.row.expires \in Nat,
           \/ CreateSession(c) \/ CreateOAuthCode(c) \/ CreateMCPToken(c)
           \/ UserBySession(c) \/ UserByMCPToken(c) \/ DeleteSession(c) \/ ConsumeOAuthCode(c)
    PROVE  StoreInv'
<1> DEFINE s == <<"sessions", "sessions">>
           o == <<"oauthCodes", "codes">>
           t == <<"mcpTokens", "tokens">>
<1>0. s \in HashTables /\ o \in HashTables /\ t \in HashTables
  BY DEF HashTables
<1>1. CASE CreateSession(c)
  <2>1. Keeps(c, s[1]) /\ c.row.expires \in Nat
    BY <1>1 DEF CreateSession
  <2> QED BY <1>0, <2>1, KeepsKeeps
<1>2. CASE CreateOAuthCode(c)
  <2>1. Keeps(c, o[1]) /\ c.row.expires \in Nat
    BY <1>2 DEF CreateOAuthCode
  <2> QED BY <1>0, <2>1, KeepsKeeps
<1>3. CASE CreateMCPToken(c)
  <2>1. Keeps(c, t[1]) /\ c.row.expires \in Nat
    BY <1>3 DEF CreateMCPToken
  <2> QED BY <1>0, <2>1, KeepsKeeps
<1>4. CASE UserBySession(c)
  <2>1. Resolves(c, s[1])
    BY <1>4 DEF UserBySession
  <2> QED BY <1>0, <2>1, ResolvesKeeps
<1>5. CASE UserByMCPToken(c)
  <2>1. Resolves(c, t[1])
    BY <1>5 DEF UserByMCPToken
  <2> QED BY <1>0, <2>1, ResolvesKeeps
<1>6. CASE DeleteSession(c)
  <2>1. CASE Answers(c, NotFound, mem)
    BY <2>1, AnsweredWith
  <2>2. CASE Answers(c, Ok, [mem EXCEPT ![s[1]] = Without(@, {c.hash})])
    BY <1>0, <2>2, HashesFewer, HashesKeep
  <2> QED BY <1>6, <2>1, <2>2 DEF DeleteSession
<1>7. CASE ConsumeOAuthCode(c)
  <2>1. CASE Answers(c, NotFound, mem)
    BY <2>1, AnsweredWith
  <2>2. CASE \E answer : Answers(c, answer, [mem EXCEPT ![o[1]] = Without(@, {c.hash})])
    BY <1>0, <2>2, HashesFewer, HashesKeep
  <2> QED BY <1>7, <2>1, <2>2 DEF ConsumeOAuthCode
<1> QED BY <1>1, <1>2, <1>3, <1>4, <1>5, <1>6, <1>7

\* CreateUpload stores under an id no upload had.
LEMMA CreateUploadKeeps ==
    ASSUME StoreInv, NEW c, DOMAIN c.row = UploadColumns, CreateUpload(c)
    PROVE  StoreInv'
<1> DEFINE id == mem.seq["uploads"] + 1
           m == [Stored(mem, "uploads", c.row) EXCEPT !.files = With(@, id, c.files)]
<1>1. Answers(c, Created(id), m)
  BY DEF CreateUpload
<1>2. mem' = m /\ now' \in Nat /\ family' \in Families
  BY <1>1, AnsweredWith
<1>3. /\ mem'.uploads = With(mem.uploads, id, c.row) /\ mem'.files = With(mem.files, id, c.files)
      /\ mem'.seq = [mem.seq EXCEPT !["uploads"] = @ + 1] /\ DOMAIN mem' = Maps
      /\ \A x \in Maps \ {"uploads", "files", "seq"} : mem'[x] = mem[x]
  BY <1>2 DEF Stored, StoreInv, IdsInv, Maps
<1> HIDE DEF m
<1>4. /\ DOMAIN mem'.uploads = DOMAIN mem.uploads \cup {id}
      /\ DOMAIN mem'.files = DOMAIN mem.files \cup {id}
  BY <1>3 DEF With
<1>5. IdsInv' /\ mem.seq["repos"] \in Nat /\ mem'.seq["repos"] \in Nat /\ mem.seq["repos"] <= mem'.seq["repos"]
  BY <1>3, <1>4, IdsStored DEF StoreInv, Maps, Counted
<1>6. ReportInv'
  <2>1. \A u \in DOMAIN mem'.uploads : DOMAIN mem'.uploads[u] = UploadColumns
    BY <1>3 DEF With, StoreInv, ReportInv
  <2> QED BY <1>3, <2>1 DEF StoreInv, ReportInv, Maps
<1>7. RepoInv' /\ WorkspaceInv' /\ AccountInv'
  BY <1>3, RepoKept, WorkspaceKept, AccountKept DEF StoreInv, Maps
<1>8. PushInv'
  BY <1>3, <1>5, PushKept DEF StoreInv, Maps
<1> QED BY <1>2, <1>5, <1>6, <1>7, <1>8 DEF StoreInv

\* UpsertCommitReport never makes a second report of a commit.
LEMMA UpsertCommitReportKeeps ==
    ASSUME StoreInv, NEW c, DOMAIN c.row = ReportColumns, c.row.commit # Unnamed,
           UpsertCommitReport(c)
    PROVE  StoreInv'
<1> DEFINE existing == commitReportLocked(c.row.repo, c.row.commit)
           at == ReportsAt(c.row.repo, c.row.commit)
<1>0. existing = <<>> <=> at = {}
  BY ReportFound DEF StoreInv
<1>00. c.row.repo \in DOMAIN mem.repos
  BY DEF UpsertCommitReport
<1>1. CASE existing = <<>>
  <2> DEFINE row == Over(c.row, [created |-> now, updated |-> now])
             id == mem.seq["reports"] + 1
  <2>1. Answers(c, Created(id), Stored(mem, "reports", row))
    BY <1>1 DEF UpsertCommitReport, Stores
  <2>2. mem' = Stored(mem, "reports", row) /\ now' \in Nat /\ family' \in Families
    BY <2>1, AnsweredWith
  <2>3. /\ mem'.reports = With(mem.reports, id, row) /\ DOMAIN mem' = Maps
        /\ mem'.seq = [mem.seq EXCEPT !["reports"] = @ + 1]
        /\ \A x \in Maps \ {"reports", "seq"} : mem'[x] = mem[x]
    BY <2>2 DEF Stored, StoreInv, IdsInv, Maps
  <2>4. /\ DOMAIN row = ReportColumns \cup {"created", "updated"}
        /\ row.repo = c.row.repo /\ row.commit = c.row.commit
    BY DEF Over, ReportColumns
  <2> HIDE DEF row
  <2>5. /\ DOMAIN mem'.reports = DOMAIN mem.reports \cup {id} /\ mem'.reports[id] = row
        /\ \A i \in DOMAIN mem.reports \ {id} : mem'.reports[i] = mem.reports[i]
        /\ id \notin DOMAIN mem.reports
    BY <2>3 DEF With, StoreInv, IdsInv, Counted
  <2>6. IdsInv' /\ mem.seq["repos"] \in Nat /\ mem'.seq["repos"] \in Nat /\ mem.seq["repos"] <= mem'.seq["repos"]
    BY <2>3, <2>5, IdsStored DEF StoreInv, Maps, Counted
  <2>7. \A i \in DOMAIN mem.reports : ~ (mem.reports[i].repo = row.repo /\ mem.reports[i].commit = row.commit)
    BY <1>0, <1>1, <2>4 DEF ReportsAt
  <2> HIDE DEF id
  <2>8. ReportInv'
    <3>1. \A i \in DOMAIN mem'.reports :
            LET r == mem'.reports[i]
            IN  /\ DOMAIN r = ReportColumns \cup {"created", "updated"}
                /\ r.repo \in DOMAIN mem'.repos /\ r.commit # Unnamed
      BY <1>00, <2>3, <2>4, <2>5 DEF StoreInv, ReportInv, Maps
    <3>2. \A i, j \in DOMAIN mem'.reports :
            mem'.reports[i].repo = mem'.reports[j].repo /\ mem'.reports[i].commit = mem'.reports[j].commit
              => i = j
      BY <2>5, <2>7 DEF StoreInv, ReportInv
    <3>3. \A u \in DOMAIN mem'.uploads : DOMAIN mem'.uploads[u] = UploadColumns
      BY <2>3 DEF StoreInv, ReportInv, Maps
    <3> QED BY <3>1, <3>2, <3>3 DEF ReportInv
  <2>9. PushInv'
    BY <2>3, <2>5 DEF StoreInv, PushInv, Maps
  <2>10. RepoInv' /\ WorkspaceInv' /\ AccountInv'
    BY <2>3, RepoKept, WorkspaceKept, AccountKept DEF StoreInv, Maps
  <2> QED BY <2>2, <2>6, <2>8, <2>9, <2>10 DEF StoreInv
<1>2. CASE existing # <<>>
  <2> DEFINE id == existing[1].id
             row == Over(c.row, [created |-> existing[1].created, updated |-> now])
  <2>1. Answers(c, Created(id), [mem EXCEPT !.reports[id] = row])
    BY <1>2 DEF UpsertCommitReport
  <2>2. mem' = [mem EXCEPT !.reports[id] = row] /\ now' \in Nat /\ family' \in Families
    BY <2>1, AnsweredWith
  <2>3. id \in at
    BY <1>2, ReportFound DEF StoreInv
  <2>4. /\ DOMAIN row = ReportColumns \cup {"created", "updated"}
        /\ row.repo = c.row.repo /\ row.commit = c.row.commit
    BY DEF Over, ReportColumns
  <2> HIDE DEF id, row
  <2>5. /\ id \in DOMAIN mem.reports /\ mem.reports[id].repo = row.repo
        /\ mem.reports[id].commit = row.commit
    BY <2>3, <2>4 DEF ReportsAt
  <2>6. /\ mem'.reports = [mem.reports EXCEPT ![id] = row] /\ DOMAIN mem' = Maps
        /\ \A x \in Maps \ {"reports"} : mem'[x] = mem[x]
    BY <2>2 DEF StoreInv, IdsInv, Maps
  <2>7. /\ DOMAIN mem'.reports = DOMAIN mem.reports
        /\ \A i \in DOMAIN mem.reports :
             LET r == mem'.reports[i]
             IN  /\ DOMAIN r = ReportColumns \cup {"created", "updated"}
                 /\ r.repo = mem.reports[i].repo /\ r.commit = mem.reports[i].commit
    BY <2>4, <2>5, <2>6 DEF StoreInv, ReportInv
  <2>8. IdsInv'
    BY <2>6, <2>7, IdsKept DEF StoreInv, Maps, Counted
  <2>9. ReportInv' /\ PushInv'
    BY <2>6, <2>7 DEF StoreInv, ReportInv, PushInv, Maps
  <2>10. RepoInv' /\ WorkspaceInv' /\ AccountInv'
    BY <2>6, RepoKept, WorkspaceKept, AccountKept DEF StoreInv, Maps
  <2> QED BY <2>2, <2>8, <2>9, <2>10 DEF StoreInv
<1> QED BY <1>1, <1>2

\* A lease, a version or a claim changes.
LEMMA PushesKeep ==
    ASSUME StoreInv, now' \in Nat, family' \in Families, DOMAIN mem' = Maps, PushInv',
           \A x \in Maps \ {"crLease", "crStatus", "tokenless"} : mem'[x] = mem[x]
    PROVE  StoreInv'
<1>1. IdsInv'
  BY IdsKept DEF StoreInv, Maps, Counted
<1>2. RepoInv' /\ WorkspaceInv' /\ AccountInv' /\ ReportInv'
  BY RepoKept, WorkspaceKept, AccountKept, ReportKept DEF StoreInv, Maps
<1> QED BY <1>1, <1>2 DEF StoreInv

\* The commit of a report that is found has its row.
LEMMA KeyOfReport ==
    ASSUME StoreInv, NEW repo, NEW commit, commitReportLocked(repo, commit) # <<>>
    PROVE  LET key == commitKey(repo, commit)
           IN  /\ key.repo = repo /\ repo \in 1 .. mem.seq["repos"]
               /\ \E i \in DOMAIN mem.reports : key = commitKey(mem.reports[i].repo, mem.reports[i].commit)
<1>1. PICK i \in ReportsAt(repo, commit) : TRUE
  <2>1. ReportsAt(repo, commit) # {}
    BY ReportFound DEF StoreInv
  <2> QED BY <2>1
<1>2. i \in DOMAIN mem.reports /\ mem.reports[i].repo = repo /\ mem.reports[i].commit = commit
  BY <1>1 DEF ReportsAt
<1>3. repo \in DOMAIN mem.repos
  BY <1>2 DEF StoreInv, ReportInv
<1>4. repo \in 1 .. mem.seq["repos"]
  BY <1>3 DEF StoreInv, IdsInv
<1> QED BY <1>2, <1>4 DEF commitKey

\* ClaimPush leases a report there is.
LEMMA ClaimPushKeeps ==
    ASSUME StoreInv, NEW c, c.lease \in Nat, ClaimPush(c)
    PROVE  StoreInv'
<1> DEFINE key == commitKey(c.repo, c.commit)
<1>1. CASE \E answer : Answers(c, answer, mem)
  BY <1>1, AnsweredWith
<1>2. CASE /\ commitReportLocked(c.repo, c.commit) # <<>>
           /\ Answers(c, <<"claimed", now + c.lease>>,
                      [mem EXCEPT !.crLease = With(@, key, now + c.lease)])
  <2>1. /\ key.repo \in 1 .. mem.seq["repos"]
        /\ \E i \in DOMAIN mem.reports : key = commitKey(mem.reports[i].repo, mem.reports[i].commit)
    BY <1>2, KeyOfReport
  <2> HIDE DEF key
  <2>2. /\ mem' = [mem EXCEPT !.crLease = With(@, key, now + c.lease)]
        /\ now' \in Nat /\ family' \in Families
    BY <1>2, AnsweredWith
  <2>3. /\ mem'.crLease = With(mem.crLease, key, now + c.lease) /\ DOMAIN mem' = Maps
        /\ \A x \in Maps \ {"crLease"} : mem'[x] = mem[x]
    BY <2>2 DEF StoreInv, IdsInv, Maps
  <2>4. now + c.lease \in Nat
    BY DEF StoreInv
  <2>5. PushInv'
    BY <2>1, <2>3, <2>4 DEF StoreInv, PushInv, With, Maps
  <2> QED BY <2>2, <2>3, <2>5, PushesKeep DEF Maps
<1> QED BY <1>1, <1>2 DEF ClaimPush

\* FinishPush records for a report there is.
LEMMA FinishPushKeeps ==
    ASSUME StoreInv, NEW c, c.version \in Nat, FinishPush(c)
    PROVE  StoreInv'
<1> DEFINE key == commitKey(c.repo, c.commit)
           status == RaisedStatus(key, c.version, c.pushed)
           raised == [mem EXCEPT !.crStatus = status]
<1>1. CASE \E answer : Answers(c, answer, mem)
  BY <1>1, AnsweredWith
<1>2. ASSUME commitReportLocked(c.repo, c.commit) # <<>>,
             NEW answer, NEW leases, DOMAIN leases \subseteq DOMAIN mem.crLease,
             \A k \in DOMAIN leases : leases[k] \in Nat,
             NEW m, m = [raised EXCEPT !.crLease = leases], Answers(c, answer, m)
      PROVE  StoreInv'
  <2>1. /\ key.repo \in 1 .. mem.seq["repos"]
        /\ \E i \in DOMAIN mem.reports : key = commitKey(mem.reports[i].repo, mem.reports[i].commit)
    BY <1>2, KeyOfReport
  <2> HIDE DEF key
  <2>2. mem' = m /\ now' \in Nat /\ family' \in Families
    BY <1>2, AnsweredWith
  <2>3. /\ mem'.crLease = leases /\ mem'.crStatus = status /\ DOMAIN mem' = Maps
        /\ \A x \in Maps \ {"crLease", "crStatus"} : mem'[x] = mem[x]
    BY <1>2, <2>2 DEF StoreInv, IdsInv, Maps
  <2>4. /\ DOMAIN status \subseteq DOMAIN mem.crStatus \cup {key}
        /\ \A k \in DOMAIN status : status[k] \in Nat
    BY DEF RaisedStatus, With, StoreInv, PushInv
  <2> HIDE DEF status, raised
  <2>5. PushInv'
    BY <1>2, <2>1, <2>3, <2>4 DEF StoreInv, PushInv, Maps
  <2> QED BY <2>2, <2>3, <2>5, PushesKeep DEF Maps
<1>3. CASE /\ commitReportLocked(c.repo, c.commit) # <<>>
           /\ \E answer : Answers(c, answer, raised)
  <2>1. raised = [raised EXCEPT !.crLease = mem.crLease]
    BY DEF StoreInv, IdsInv, Maps
  <2>2. \A k \in DOMAIN mem.crLease : mem.crLease[k] \in Nat
    BY DEF StoreInv, PushInv
  <2> HIDE DEF raised
  <2> QED BY <1>2, <1>3, <2>1, <2>2
<1>4. CASE /\ commitReportLocked(c.repo, c.commit) # <<>>
           /\ \E answer : Answers(c, answer, [raised EXCEPT !.crLease = Without(@, {key})])
  <2> DEFINE leases == Without(mem.crLease, {key})
  <2>1. raised.crLease = mem.crLease
    BY DEF StoreInv, IdsInv, Maps
  <2>2. /\ DOMAIN leases \subseteq DOMAIN mem.crLease /\ \A k \in DOMAIN leases : leases[k] \in Nat
    BY DEF Without, Restrict, StoreInv, PushInv
  <2>3. [raised EXCEPT !.crLease = Without(@, {key})] = [raised EXCEPT !.crLease = leases]
    BY <2>1
  <2> HIDE DEF raised, leases
  <2> QED BY <1>2, <1>4, <2>2, <2>3
<1>5. \/ \E answer : Answers(c, answer, mem)
      \/ /\ commitReportLocked(c.repo, c.commit) # <<>>
         /\ \/ \E answer : Answers(c, answer, raised)
            \/ \E answer : Answers(c, answer, [raised EXCEPT !.crLease = Without(@, {key})])
  BY DEF FinishPush
<1> QED BY <1>1, <1>3, <1>4, <1>5

\* Tokenless claims are of repos there are or were.
LEMMA TokenlessKeep ==
    ASSUME StoreInv, NEW c, ClaimTokenlessUpload(c) \/ ReleaseTokenlessUpload(c)
    PROVE  StoreInv'
<1>1. CASE \E answer : Answers(c, answer, mem)
  BY <1>1, AnsweredWith
<1>2. ASSUME NEW answer, NEW keys, Answers(c, answer, [mem EXCEPT !.tokenless = keys]),
             \A k \in keys : k \in mem.tokenless \/ k.repo \in DOMAIN mem.repos
      PROVE  StoreInv'
  <2>1. mem' = [mem EXCEPT !.tokenless = keys] /\ now' \in Nat /\ family' \in Families
    BY <1>2, AnsweredWith
  <2>2. mem'.tokenless = keys /\ DOMAIN mem' = Maps /\ \A x \in Maps \ {"tokenless"} : mem'[x] = mem[x]
    BY <2>1 DEF StoreInv, IdsInv, Maps
  <2>3. \A k \in keys : k.repo \in 1 .. mem.seq["repos"]
    BY <1>2 DEF StoreInv, IdsInv, PushInv
  <2>4. PushInv'
    BY <2>2, <2>3 DEF StoreInv, PushInv, Maps
  <2> QED BY <2>1, <2>2, <2>4, PushesKeep DEF Maps
<1>3. CASE ClaimTokenlessUpload(c)
  <2>1. CASE Answers(c, <<"won", TRUE>>, [mem EXCEPT !.tokenless = @ \cup {c.key}])
    <3>1. c.key.repo \in DOMAIN mem.repos
      BY <1>3 DEF ClaimTokenlessUpload
    <3> QED BY <1>2, <2>1, <3>1
  <2> QED BY <1>1, <1>3, <2>1 DEF ClaimTokenlessUpload
<1>4. CASE ReleaseTokenlessUpload(c)
  BY <1>2, <1>4 DEF ReleaseTokenlessUpload
<1> QED BY <1>3, <1>4
----------------------------------------------------------------------------
(* Both stores read the same rows. *)

\* At most one row answers a look-up, whichever store looks.
LEMMA OneRow ==
    ASSUME NEW rows, \A r, s \in rows : r = s
    PROVE  find(rows) = PG!Only(rows)
<1>1. CASE rows = {}
  <2>1. find(rows) = <<>>
    BY <1>1 DEF find
  <2>2. PG!Cardinality(rows) = 0
    BY <1>1, FS_EmptySet DEF PG!Cardinality, Cardinality
  <2>3. \A f : f \in [1 .. PG!Cardinality(rows) -> rows] /\ PG!IsInjective(f) <=> f = <<>>
    <3>1. 1 .. PG!Cardinality(rows) = 1 .. 0
      BY <2>2
    <3>2. \A f : f \in [1 .. 0 -> rows] <=> f = <<>>
      <4>1. ASSUME NEW f \in [1 .. 0 -> rows] PROVE f = <<>>
        <5>1. f \in Seq(rows) /\ Len(f) = 0
          OBVIOUS
        <5> QED BY <5>1, EmptySeq
      <4>2. <<>> \in [1 .. 0 -> rows]
        OBVIOUS
      <4> QED BY <4>1, <4>2
    <3>3. PG!IsInjective(<<>>)
      BY DEF PG!IsInjective
    <3> QED BY <3>1, <3>2, <3>3
  <2> QED BY <2>1, <2>3 DEF PG!Only, PG!SetToSeq
<1>2. CASE rows # {}
  <2>1. PICK x : rows = {x}
    BY <1>2
  <2>2. find(rows) = <<x>>
    BY <2>1 DEF find
  <2>3. PG!Cardinality(rows) = 1
    BY <2>1, FS_Singleton DEF PG!Cardinality, Cardinality
  <2>4. \A f : f \in [1 .. PG!Cardinality(rows) -> rows] /\ PG!IsInjective(f) <=> f = <<x>>
    <3>1. 1 .. PG!Cardinality(rows) = {1}
      BY <2>3
    <3>2. \A f : f \in [{1} -> {x}] <=> f = <<x>>
      OBVIOUS
    <3>3. PG!IsInjective(<<x>>)
      BY DEF PG!IsInjective
    <3> QED BY <2>1, <3>1, <3>2, <3>3
  <2> QED BY <2>2, <2>4 DEF PG!Only, PG!SetToSeq
<1> QED BY <1>1, <1>2

\* Cutting a listing: both leave it whole without a limit.
LEMMA SameCut ==
    ASSUME NEW s, NEW n \in Nat
    PROVE  atMost(s, n) = PG!Limit(s, n)
<1>1. {Len(s), n} = {n, Len(s)}
  OBVIOUS
<1>2. Min({Len(s), n}) = PG!Min({n, Len(s)})
  BY <1>1 DEF Min, PG!Min
<1> QED BY <1>2 DEF atMost, PG!Limit

\* An offset past the end leaves nothing in either store.
LEMMA SamePage ==
    ASSUME NEW S, NEW s \in Seq(S), NEW k \in Nat, NEW n \in Nat
    PROVE  page(s, k, n) = PG!Limit(PG!Offset(s, k), n)
<1>1. Len(s) \in Nat
  OBVIOUS
<1>2. SubSeq(s, Min({k, Len(s)}) + 1, Len(s)) = PG!Offset(s, k)
  <2>1. CASE k <= Len(s)
    <3>1. Min({k, Len(s)}) = k
      BY <1>1, <2>1 DEF Min
    <3> QED BY <3>1 DEF PG!Offset
  <2>2. CASE k > Len(s)
    <3>1. Min({k, Len(s)}) = Len(s)
      BY <1>1, <2>2 DEF Min
    <3>2. SubSeq(s, Len(s) + 1, Len(s)) = <<>> /\ SubSeq(s, k + 1, Len(s)) = <<>>
      BY <1>1, <2>2, SubSeqEmpty
    <3> QED BY <3>1, <3>2 DEF PG!Offset
  <2>3. k <= Len(s) \/ k > Len(s)
    BY <1>1
  <2> QED BY <2>1, <2>2, <2>3
<1> QED BY <1>2, SameCut DEF page

\* A table has finitely many rows, so they can be ordered.
LEMMA FiniteRows ==
    ASSUME NEW t, NEW n \in Nat, DOMAIN t \subseteq 1 .. n
    PROVE  IsFiniteSet(Rows(t))
<1> DEFINE f == [i \in DOMAIN t |-> Over([id |-> i], t[i])]
<1>1. IsFiniteSet(DOMAIN t)
  <2>1. IsFiniteSet(1 .. n)
    BY FS_Interval
  <2> QED BY <2>1, FS_Subset
<1>2. f \in Surjection(DOMAIN t, Rows(t))
  BY DEF Surjection, Rows
<1> QED BY <1>1, <1>2, FS_Surjection

\* Both sort finitely many rows alike.
LEMMA SortedIsASequence ==
    ASSUME NEW rows, IsFiniteSet(rows)
    PROVE  /\ Sorted(rows, Newest) \in Seq({Sorted(rows, Newest)[i] : i \in 1 .. Cardinality(rows)})
           /\ PG!Sorted(rows, PG!Newest) = Sorted(rows, Newest)
           /\ PG!Sorted(rows, PG!Oldest) = Sorted(rows, Oldest)
           /\ PG!Sorted(rows, PG!ByForgeSlug) = Sorted(rows, ByForgeSlug)
           /\ PG!Sorted(rows, PG!ByForgePrefix) = Sorted(rows, ByForgePrefix)
<1>1. Cardinality(rows) \in Nat
  BY FS_CardinalityType
<1>2. Sorted(rows, Newest) \in Seq({Sorted(rows, Newest)[i] : i \in 1 .. Cardinality(rows)})
  <2> DEFINE at(i) == CHOOSE r \in rows : Cardinality({s \in rows : Newest(s, r)}) = i - 1
  <2>1. Sorted(rows, Newest) = [i \in 1 .. Cardinality(rows) |-> at(i)]
    BY DEF Sorted
  <2> HIDE DEF at
  <2> QED BY <1>1, <2>1
<1>4. PG!Sorted(rows, PG!Newest) = Sorted(rows, Newest)
  BY DEF Sorted, PG!Sorted, Cardinality, PG!Cardinality, Newest, PG!Newest
<1>5. PG!Sorted(rows, PG!Oldest) = Sorted(rows, Oldest)
  BY DEF Sorted, PG!Sorted, Cardinality, PG!Cardinality, Oldest, PG!Oldest
<1>6. PG!Sorted(rows, PG!ByForgeSlug) = Sorted(rows, ByForgeSlug)
  BY DEF Sorted, PG!Sorted, Cardinality, PG!Cardinality, ByForgeSlug, PG!ByForgeSlug, Below, PG!Below, ForgeRank, PG!ForgeRank
<1>7. PG!Sorted(rows, PG!ByForgePrefix) = Sorted(rows, ByForgePrefix)
  BY DEF Sorted, PG!Sorted, Cardinality, PG!Cardinality, ByForgePrefix, PG!ByForgePrefix, Below, PG!Below, ForgeRank, PG!ForgeRank
<1> QED BY <1>2, <1>4, <1>5, <1>6, <1>7

\* Rows of one table are told apart by their ids.
LEMMA RowsById ==
    ASSUME NEW t, NEW r \in Rows(t), NEW s \in Rows(t), r.id = s.id
    PROVE  r = s
<1>1. PICK i \in DOMAIN t : r = Over([id |-> i], t[i])
  BY RowsOfATable
<1>2. PICK j \in DOMAIN t : s = Over([id |-> j], t[j])
  BY RowsOfATable
<1>3. r.id = i /\ s.id = j
  BY <1>1, <1>2, RowColumns
<1> QED BY <1>1, <1>2, <1>3
\* A sealed grant opens to what was sealed.
LEMMA OpenedGrant ==
    ASSUME NEW g, IsGrant(g)
    PROVE  LET s == SealedGrant(g) IN [s EXCEPT !.refresh = PG!openToken(@)] = g
<1> DEFINE T == Range(g.refresh)
           s == SealedGrant(g)
<1>1. /\ g.refresh \in Seq(T) /\ DOMAIN g = {"account", "refresh", "broken"} /\ IsFunction(g)
  BY DEF IsGrant, IsFunction
<1>2. /\ DOMAIN s = DOMAIN g /\ IsFunction(s) /\ s.account = g.account /\ s.broken = g.broken
      /\ s.refresh = IF g.refresh = <<>> THEN <<>> ELSE <<"sealed">> \o g.refresh
  BY <1>1 DEF SealedGrant, IsFunction
<1>3. PG!openToken(s.refresh) = g.refresh
  <2>1. CASE g.refresh = <<>>
    BY <1>2, <2>1 DEF PG!openToken
  <2>2. CASE g.refresh # <<>>
    <3> DEFINE t == g.refresh
               q == <<"sealed">> \o t
               U == T \cup {"sealed"}
    <3>1. t \in Seq(U) /\ <<"sealed">> \in Seq(U)
      BY <1>1, SeqMonotonic
    <3> HIDE DEF t, T, U
    <3>2. /\ q \in Seq(U) /\ Len(q) = Len(t) + 1 /\ q # <<>>
          /\ \A i \in 1 .. Len(t) : q[i + 1] = t[i]
      BY <3>1
    <3>3. Tail(q) \in Seq(U) /\ Len(Tail(q)) = Len(t) /\ \A i \in 1 .. Len(t) : Tail(q)[i] = q[i + 1]
      BY <3>1 DEF PG!openToken
    <3>4. Tail(q) = t
      BY <3>1, <3>2, <3>3, SeqEqual
    <3> QED BY <1>2, <2>2, <3>2, <3>4 DEF PG!openToken, t
  <2> QED BY <2>1, <2>2
<1> HIDE DEF s
<1> DEFINE o == [s EXCEPT !.refresh = PG!openToken(@)]
<1>4. /\ DOMAIN o = DOMAIN g /\ IsFunction(o)
      /\ o.account = g.account /\ o.broken = g.broken /\ o.refresh = g.refresh
  BY <1>1, <1>2, <1>3 DEF IsFunction
<1> HIDE DEF o
<1>5. o = g
  BY <1>1, <1>4 DEF IsFunction
<1> QED BY <1>5 DEF o, s

\* A workspace is scanned from its row as it was stored.
LEMMA ScannedWorkspace ==
    ASSUME NEW i, NEW w, IsWorkspace(w), IsGrant(w.grant), w.forge \notin GrantForges => w.grant = EmptyGrant
    PROVE  PG!scanWorkspace(Over([id |-> i], ShownWorkspace(w))) = Over([id |-> i], w)
<1> DEFINE x == Over([id |-> i], ShownWorkspace(w))
           columns == IF x.forge \in PG!GrantForges THEN x[x.forge] ELSE PG!EmptyGrant
           opened == [columns EXCEPT !.refresh = PG!openToken(@)]
           scanned == PG!scanWorkspace(x)
           row == Over([id |-> i], w)
<1>1. /\ DOMAIN x = {"id"} \cup WorkspaceColumns \cup GrantForges
      /\ x.id = i /\ \A k \in WorkspaceColumns : x[k] = w[k]
      /\ \A f \in GrantForges : x[f] = SealedGrant(GrantOf(w, f))
  BY ShownColumns DEF Over, WorkspaceColumns, GrantForges
<1>2. x.forge = w.forge
  BY <1>1 DEF WorkspaceColumns
<1>3. opened = w.grant
  <2>1. CASE w.forge \in GrantForges
    <3>1. columns = SealedGrant(w.grant)
      BY <1>1, <1>2, <2>1, SameConstants DEF GrantOf
    <3> QED BY <3>1, OpenedGrant
  <2>2. CASE w.forge \notin GrantForges
    <3>1. columns = [account |-> "", refresh |-> <<>>, broken |-> FALSE] /\ w.grant = columns
      BY <1>2, <2>2, SameConstants DEF EmptyGrant
    <3> DEFINE g == w.grant
    <3>2. /\ IsFunction(g) /\ DOMAIN g = {"account", "refresh", "broken"}
          /\ g.refresh = <<>> /\ columns = g
      <4> DEFINE none == [account |-> "", refresh |-> <<>>, broken |-> FALSE]
      <4>1. IsFunction(none)
        BY DEF IsFunction
      <4>2. DOMAIN none = {"account", "refresh", "broken"} /\ none.refresh = <<>>
        OBVIOUS
      <4> HIDE DEF none
      <4> QED BY <3>1, <4>1, <4>2 DEF none
    <3>3. PG!openToken(<<>>) = <<>>
      BY DEF PG!openToken
    <3> HIDE DEF g, columns
    <3>4. IsFunction(opened) /\ DOMAIN opened = DOMAIN g /\ \A k \in DOMAIN g : opened[k] = g[k]
      BY <3>2, <3>3 DEF IsFunction
    <3> HIDE DEF opened
    <3>5. opened = g
      BY <3>2, <3>4 DEF IsFunction
    <3> QED BY <3>5 DEF g
  <2> QED BY <2>1, <2>2
<1>4. scanned = PG!Over(PG!Restrict(x, DOMAIN x \ PG!GrantForges), [grant |-> opened])
  BY DEF PG!scanWorkspace
<1>5. PG!GrantForges = GrantForges
  BY SameConstants
<1> HIDE DEF x, opened, scanned
<1>6. /\ DOMAIN scanned = {"id", "grant"} \cup WorkspaceColumns /\ IsFunction(scanned)
      /\ scanned.id = i /\ scanned.grant = w.grant /\ \A k \in WorkspaceColumns : scanned[k] = w[k]
  BY <1>1, <1>3, <1>4, <1>5 DEF PG!Over, PG!Restrict, WorkspaceColumns, GrantForges, IsFunction
<1>7. /\ DOMAIN row = {"id", "grant"} \cup WorkspaceColumns /\ IsFunction(row)
      /\ row.id = i /\ row.grant = w.grant /\ \A k \in WorkspaceColumns : row[k] = w[k]
  BY DEF Over, IsWorkspace, WorkspaceColumns, IsFunction
<1> HIDE DEF row
<1>8. scanned = row
  BY <1>6, <1>7 DEF IsFunction
<1> QED BY <1>8 DEF scanned, x, row

\* Both read the same workspaces, grants opened.
LEMMA SameWorkspaces ==
    ASSUME IdsInv, WorkspaceInv
    PROVE  PG!Workspaces = Rows(mem.workspaces)
<1> DEFINE Shown(i) == Over([id |-> i], ShownWorkspace(mem.workspaces[i]))
           Row(i) == Over([id |-> i], mem.workspaces[i])
<1>1. PG!Rows(Tables.workspaces) = {Shown(i) : i \in DOMAIN mem.workspaces}
  <2>1. PG!Rows(Tables.workspaces) = Rows(ShownWorkspaces(mem.workspaces))
    BY SameRows, TablesShow DEF Shows
  <2> QED BY <2>1 DEF Rows, ShownWorkspaces
<1>2. \A i \in DOMAIN mem.workspaces : PG!scanWorkspace(Shown(i)) = Row(i)
  BY ScannedWorkspace DEF WorkspaceInv, IsWorkspace
<1>3. PG!Workspaces = {PG!scanWorkspace(w) : w \in PG!Rows(Tables.workspaces)}
  BY DEF PG!Workspaces
<1>4. Rows(mem.workspaces) = {Row(i) : i \in DOMAIN mem.workspaces}
  BY DEF Rows
<1> HIDE DEF Shown, Row
<1> QED BY <1>1, <1>2, <1>3, <1>4

\* A report is scanned without its lease and pushed version.
LEMMA SameReports ==
    ASSUME ReportInv
    PROVE  PG!Reports = Rows(mem.reports)
<1> DEFINE Shown(i) == Over([id |-> i], Tables.reports[i])
           Row(i) == Over([id |-> i], mem.reports[i])
<1>1. PG!Rows(Tables.reports) = {Shown(i) : i \in DOMAIN mem.reports}
  <2>1. PG!Rows(Tables.reports) = Rows(Tables.reports) /\ DOMAIN Tables.reports = DOMAIN mem.reports
    BY SameRows, TablesShow DEF Shows, ShownReports
  <2> QED BY <2>1 DEF Rows
<1>2. ASSUME NEW i \in DOMAIN mem.reports
      PROVE  PG!scanCommitReport(Shown(i)) = Row(i)
  <2> DEFINE r == mem.reports[i]
             t == Tables.reports[i]
             scanned == PG!scanCommitReport(Shown(i))
             columns == ReportColumns \cup {"created", "updated"}
  <2>1. DOMAIN r = columns
    BY DEF ReportInv
  <2>2. DOMAIN t = columns \cup {"lease", "pushed"} /\ \A k \in columns : t[k] = r[k]
    BY TablesReport
  <2> HIDE DEF r, t
  <2>3. /\ DOMAIN scanned = columns \cup {"id"} /\ IsFunction(scanned)
        /\ scanned.id = i /\ \A k \in columns : scanned[k] = r[k]
    BY <2>2 DEF PG!scanCommitReport, PG!Restrict, Over, ReportColumns, IsFunction, t
  <2>4. /\ DOMAIN Row(i) = columns \cup {"id"} /\ IsFunction(Row(i))
        /\ Row(i).id = i /\ \A k \in columns : Row(i)[k] = r[k]
    BY <2>1 DEF Over, ReportColumns, IsFunction, r
  <2> HIDE DEF scanned, Row
  <2>5. scanned = Row(i)
    BY <2>3, <2>4 DEF IsFunction
  <2> QED BY <2>5 DEF scanned
<1>3. PG!Reports = {PG!scanCommitReport(r) : r \in PG!Rows(Tables.reports)}
  BY DEF PG!Reports
<1>4. Rows(mem.reports) = {Row(i) : i \in DOMAIN mem.reports}
  BY DEF Rows
<1> HIDE DEF Shown, Row
<1> QED BY <1>1, <1>2, <1>3, <1>4

\* Both read the same rows of every table.
LEMMA SameTables ==
    ASSUME StoreInv
    PROVE  /\ PG!Repos = Rows(mem.repos) /\ PG!Rows(Tables.repos) = Rows(mem.repos)
           /\ PG!Rows(Tables.users) = Rows(mem.users)
           /\ PG!Uploads = Rows(mem.uploads)
           /\ PG!Workspaces = Rows(mem.workspaces) /\ PG!Reports = Rows(mem.reports)
           /\ \A t \in Counted : IsFiniteSet(Rows(mem[t]))
<1>1. IdsInv /\ WorkspaceInv /\ ReportInv
  BY DEF StoreInv
<1>2. \A t \in Counted : IsFiniteSet(Rows(mem[t]))
  BY <1>1, FiniteRows DEF IdsInv, Counted
<1> QED BY <1>1, <1>2, SameRows, SameWorkspaces, SameReports, TablesShow DEF Shows, PG!Repos, PG!Uploads
----------------------------------------------------------------------------
(* Every query answers alike. *)

\* Slugs are bytes; a name or a token finds one repo.
LEMMA RepoRows ==
    ASSUME StoreInv
    PROVE  /\ \A r \in Rows(mem.repos) : r.slug \in Seq(Nat)
           /\ \A r, s \in Rows(mem.repos) :
                (r.forge = s.forge /\ r.slug = s.slug) \/ r.token = s.token => r = s
<1> DEFINE Row(i) == Over([id |-> i], mem.repos[i])
<1>1. ASSUME NEW i \in DOMAIN mem.repos
      PROVE  /\ Row(i).slug = mem.repos[i].slug /\ Row(i).forge = mem.repos[i].forge
             /\ Row(i).token = mem.repos[i].token /\ mem.repos[i].slug \in Seq(Nat)
  <2>1. DOMAIN mem.repos[i] = RepoColumns \cup {"checked"} /\ mem.repos[i].slug \in Seq(Nat)
    BY DEF StoreInv, RepoInv
  <2>2. {"slug", "forge", "token"} \subseteq DOMAIN mem.repos[i] \ {"id"}
    BY <2>1 DEF RepoColumns
  <2>3. \A k \in DOMAIN mem.repos[i] \ {"id"} : Row(i)[k] = mem.repos[i][k]
    BY DEF Over
  <2> QED BY <2>1, <2>2, <2>3
<1>2. \A i, j \in DOMAIN mem.repos :
        LET r == mem.repos[i]
            s == mem.repos[j]
        IN  (r.forge = s.forge /\ r.slug = s.slug) \/ r.token = s.token => i = j
  BY DEF StoreInv, RepoInv
<1>3. Rows(mem.repos) = {Row(i) : i \in DOMAIN mem.repos}
  BY DEF Rows
<1> HIDE DEF Row
<1> QED BY <1>1, <1>2, <1>3

\* The queries about repos answer alike.
LEMMA SameRepoReads ==
    ASSUME StoreInv
    PROVE  /\ ListRepos = PG!ListRepos
           /\ \A n \in Nat : PublicRepoRefs(n) = PG!PublicRepoRefs(n)
           /\ \A t : RepoByToken(t) = PG!RepoByToken(t)
           /\ \A f, n : RepoBySlug(f, n) = PG!RepoBySlug(f, n)
           /\ \A f : \A n \in Seq(Nat) : ListWorkspaceRepos(f, n) = PG!ListWorkspaceRepos(f, n)
           /\ \A i : RepoByID(i) = PG!RepoByID(i)
<1> DEFINE rows == Rows(mem.repos)
<1>1. PG!Repos = rows /\ PG!Rows(Tables.repos) = rows /\ IsFiniteSet(rows)
  BY SameTables DEF Counted
<1>2. \A r, s \in rows : (r.forge = s.forge /\ r.slug = s.slug) \/ r.token = s.token => r = s
  BY RepoRows
<1>3. \A r, s \in rows : r.id = s.id => r = s
  BY RowsById
<1>4. \A r \in rows : r.slug \in Seq(Nat)
  BY RepoRows
<1> HIDE DEF rows
<1>5. ListRepos = PG!ListRepos
  BY <1>1, SortedIsASequence DEF ListRepos, PG!ListRepos, rows
<1>6. ASSUME NEW n \in Nat PROVE PublicRepoRefs(n) = PG!PublicRepoRefs(n)
  <2> DEFINE public == {r \in rows : r.visibility = "public" /\ ~ r.disabled}
             list == Sorted(public, ByForgeSlug)
             refs == [i \in DOMAIN list |-> <<list[i].forge, list[i].slug>>]
  <2>1. IsFiniteSet(public)
    BY <1>1, FS_Subset
  <2>2. {r \in rows : ReportsPublic(r)} = public
    BY DEF ReportsPublic
  <2>3. PublicRepoRefs(n) = atMost(refs, n)
    BY <2>2 DEF PublicRepoRefs, rows
  <2>4. PG!Sorted(public, PG!ByForgeSlug) = list
    BY <2>1, SortedIsASequence
  <2>5. PG!PublicRepoRefs(n) = PG!Limit(refs, n)
    BY <1>1, <2>4 DEF PG!PublicRepoRefs
  <2> HIDE DEF refs
  <2> QED BY <2>3, <2>5, SameCut
<1>7. ASSUME NEW t PROVE RepoByToken(t) = PG!RepoByToken(t)
  <2> DEFINE found == {r \in rows : r.token = t}
  <2>1. \A r, s \in found : r = s
    BY <1>2
  <2>2. RepoByToken(t) = find(found) /\ PG!RepoByToken(t) = PG!Only(found)
    BY <1>1 DEF RepoByToken, PG!RepoByToken, rows
  <2> HIDE DEF found
  <2> QED BY <2>1, <2>2, OneRow
<1>8. ASSUME NEW f, NEW n PROVE RepoBySlug(f, n) = PG!RepoBySlug(f, n)
  <2> DEFINE found == {r \in rows : r.forge = f /\ r.slug = n}
  <2>1. \A r, s \in found : r = s
    BY <1>2
  <2>2. RepoBySlug(f, n) = find(found) /\ PG!RepoBySlug(f, n) = PG!Only(found)
    BY <1>1 DEF RepoBySlug, PG!RepoBySlug, rows
  <2> HIDE DEF found
  <2> QED BY <2>1, <2>2, OneRow
<1>9. ASSUME NEW f, NEW n \in Seq(Nat) PROVE ListWorkspaceRepos(f, n) = PG!ListWorkspaceRepos(f, n)
  <2> DEFINE owned == {r \in rows : Owns([forge |-> f, prefix |-> n], r)}
             under == {r \in rows : PG!underPrefix(r, f, n)}
  <2>1. \A r \in rows : Owns([forge |-> f, prefix |-> n], r) <=> PG!underPrefix(r, f, n)
    BY <1>4, OwnedIsUnder DEF Owns, PG!underPrefix
  <2>2. owned = under /\ IsFiniteSet(owned)
    BY <1>1, <2>1, FS_Subset
  <2>3. ListWorkspaceRepos(f, n) = Sorted(owned, ByForgeSlug)
    BY DEF ListWorkspaceRepos, rows
  <2>4. PG!ListWorkspaceRepos(f, n) = PG!Sorted(under, PG!ByForgeSlug)
    BY <1>1 DEF PG!ListWorkspaceRepos
  <2>5. PG!Sorted(owned, PG!ByForgeSlug) = Sorted(owned, ByForgeSlug)
    BY <2>2, SortedIsASequence
  <2> HIDE DEF owned, under
  <2> QED BY <2>2, <2>3, <2>4, <2>5
<1>10. ASSUME NEW i PROVE RepoByID(i) = PG!RepoByID(i)
  <2> DEFINE found == {r \in rows : r.id = i}
  <2>1. \A r, s \in found : r = s
    BY <1>3
  <2>2. RepoByID(i) = find(found) /\ PG!RepoByID(i) = PG!Only(found)
    BY <1>1 DEF RepoByID, PG!RepoByID, rows
  <2> HIDE DEF found
  <2> QED BY <2>1, <2>2, OneRow
<1> QED BY <1>5, <1>6, <1>7, <1>8, <1>9, <1>10

\* A name or a token finds one workspace.
LEMMA WorkspaceRowsUnique ==
    ASSUME StoreInv
    PROVE  \A r, s \in Rows(mem.workspaces) :
             (r.forge = s.forge /\ r.prefix = s.prefix) \/ r.token = s.token => r = s
<1> DEFINE Row(i) == Over([id |-> i], mem.workspaces[i])
<1>1. ASSUME NEW i \in DOMAIN mem.workspaces
      PROVE  /\ Row(i).prefix = mem.workspaces[i].prefix /\ Row(i).forge = mem.workspaces[i].forge
             /\ Row(i).token = mem.workspaces[i].token
  <2>1. DOMAIN mem.workspaces[i] = WorkspaceColumns \cup {"grant"}
    BY DEF StoreInv, WorkspaceInv
  <2>2. {"prefix", "forge", "token"} \subseteq DOMAIN mem.workspaces[i] \ {"id"}
    BY <2>1 DEF WorkspaceColumns
  <2>3. \A k \in DOMAIN mem.workspaces[i] \ {"id"} : Row(i)[k] = mem.workspaces[i][k]
    BY DEF Over
  <2> QED BY <2>2, <2>3
<1>2. \A i, j \in DOMAIN mem.workspaces :
        LET r == mem.workspaces[i]
            s == mem.workspaces[j]
        IN  (r.forge = s.forge /\ r.prefix = s.prefix) \/ r.token = s.token => i = j
  BY DEF StoreInv, WorkspaceInv
<1>3. Rows(mem.workspaces) = {Row(i) : i \in DOMAIN mem.workspaces}
  BY DEF Rows
<1> HIDE DEF Row
<1> QED BY <1>1, <1>2, <1>3

\* The seats of a user are the rows of the user.
LEMMA SeatRows ==
    ASSUME NEW user
    PROVE  \A w, role :
             (\E n \in Tables.members : n.user = user /\ n.workspace = w /\ n.role = role)
             <=> w \in DOMAIN SeatsOf(user) /\ role = SeatsOf(user)[w]
<1>1. Tables.members = ShownMembers(mem.members)
  BY TablesShow DEF Shows
<1>2. \A n : n \in Tables.members <=>
        \E u \in DOMAIN mem.members : \E w \in DOMAIN mem.members[u] :
          n = [workspace |-> w, user |-> u, role |-> mem.members[u][w]]
  BY <1>1 DEF ShownMembers
<1>3. CASE user \in DOMAIN mem.members
  <2>1. SeatsOf(user) = mem.members[user]
    BY <1>3 DEF SeatsOf
  <2>2. ASSUME NEW w \in DOMAIN mem.members[user]
        PROVE  \E n \in Tables.members :
                 n.user = user /\ n.workspace = w /\ n.role = mem.members[user][w]
    <3>1. [workspace |-> w, user |-> user, role |-> mem.members[user][w]] \in Tables.members
      BY <1>2, <1>3
    <3> QED BY <3>1
  <2>3. \A n \in Tables.members : n.user = user =>
          n.workspace \in DOMAIN mem.members[user] /\ n.role = mem.members[user][n.workspace]
    BY <1>2
  <2> QED BY <2>1, <2>2, <2>3
<1>4. CASE user \notin DOMAIN mem.members
  <2>1. DOMAIN SeatsOf(user) = {}
    BY <1>4 DEF SeatsOf, Nothing
  <2> QED BY <1>2, <1>4, <2>1
<1> QED BY <1>3, <1>4

\* A user has seats in finitely many workspaces, all there.
LEMMA SeatsAreFinite ==
    ASSUME StoreInv, NEW user
    PROVE  /\ DOMAIN SeatsOf(user) \subseteq DOMAIN mem.workspaces
           /\ IsFiniteSet(DOMAIN SeatsOf(user))
<1>1. DOMAIN SeatsOf(user) \subseteq DOMAIN mem.workspaces
  BY DEF StoreInv, AccountInv, SeatsOf, Nothing
<1>2. IsFiniteSet(1 .. mem.seq["workspaces"]) /\ DOMAIN mem.workspaces \subseteq 1 .. mem.seq["workspaces"]
  <2>1. /\ mem.seq["workspaces"] \in Nat
        /\ DOMAIN mem.workspaces \subseteq 1 .. mem.seq["workspaces"]
    BY DEF StoreInv, IdsInv, Counted
  <2>2. ASSUME NEW n \in Nat PROVE IsFiniteSet(1 .. n)
    BY FS_Interval
  <2> QED BY <2>1, <2>2
<1> QED BY <1>1, <1>2, FS_Subset

\* The queries about workspaces, accounts and seats answer alike.
LEMMA SameAccountReads ==
    ASSUME StoreInv
    PROVE  /\ ListWorkspaces = PG!ListWorkspaces /\ ListUsers = PG!ListUsers
           /\ \A t : WorkspaceByToken(t) = PG!WorkspaceByToken(t)
           /\ \A f, n : WorkspaceByPrefix(f, n) = PG!WorkspaceByPrefix(f, n)
           /\ \A i : UserByID(i) = PG!UserByID(i)
           /\ \A i : ListMembershipsForUser(i) = PG!ListMembershipsForUser(i)
           /\ \A i : ListWorkspacesForUser(i) = PG!ListWorkspacesForUser(i)
<1> DEFINE rows == Rows(mem.workspaces)
           users == Rows(mem.users)
<1>1. /\ PG!Workspaces = rows /\ PG!Rows(Tables.users) = users
      /\ IsFiniteSet(rows) /\ IsFiniteSet(users)
  BY SameTables DEF Counted
<1>2. \A r, s \in rows : (r.forge = s.forge /\ r.prefix = s.prefix) \/ r.token = s.token => r = s
  BY WorkspaceRowsUnique
<1>3. \A r, s \in users : r.id = s.id => r = s
  BY RowsById
<1> HIDE DEF rows, users
<1>4. ListWorkspaces = PG!ListWorkspaces /\ ListUsers = PG!ListUsers
  BY <1>1, SortedIsASequence
     DEF ListWorkspaces, PG!ListWorkspaces, ListUsers, PG!ListUsers, rows, users
<1>5. ASSUME NEW t PROVE WorkspaceByToken(t) = PG!WorkspaceByToken(t)
  <2> DEFINE found == {w \in rows : w.token = t}
  <2>1. \A r, s \in found : r = s
    BY <1>2
  <2>2. WorkspaceByToken(t) = find(found) /\ PG!WorkspaceByToken(t) = PG!Only(found)
    BY <1>1 DEF WorkspaceByToken, PG!WorkspaceByToken, rows
  <2> HIDE DEF found
  <2> QED BY <2>1, <2>2, OneRow
<1>6. ASSUME NEW f, NEW n PROVE WorkspaceByPrefix(f, n) = PG!WorkspaceByPrefix(f, n)
  <2> DEFINE found == {w \in rows : w.forge = f /\ w.prefix = n}
  <2>1. \A r, s \in found : r = s
    BY <1>2
  <2>2. WorkspaceByPrefix(f, n) = find(found) /\ PG!WorkspaceByPrefix(f, n) = PG!Only(found)
    BY <1>1 DEF WorkspaceByPrefix, PG!WorkspaceByPrefix, rows
  <2> HIDE DEF found
  <2> QED BY <2>1, <2>2, OneRow
<1>7. ASSUME NEW i PROVE UserByID(i) = PG!UserByID(i)
  <2> DEFINE found == {u \in users : u.id = i}
  <2>1. \A r, s \in found : r = s
    BY <1>3
  <2>2. UserByID(i) = find(found) /\ PG!UserByID(i) = PG!Only(found)
    BY <1>1 DEF UserByID, PG!UserByID, users
  <2> HIDE DEF found
  <2> QED BY <2>1, <2>2, OneRow
<1>8. ASSUME NEW i PROVE ListMembershipsForUser(i) = PG!ListMembershipsForUser(i)
  <2> DEFINE seats == SeatsOf(i)
             theirs == {n \in Tables.members : n.user = i}
             listed == {[workspace |-> w, role |-> seats[w]] : w \in DOMAIN seats \cap DOMAIN mem.workspaces}
             mine == {[workspace |-> m.workspace, role |-> m.role] : m \in theirs}
  <2>1. \A w, role : (\E n \in Tables.members : n.user = i /\ n.workspace = w /\ n.role = role)
                     <=> w \in DOMAIN seats /\ role = seats[w]
    BY SeatRows
  <2>2. DOMAIN seats \cap DOMAIN mem.workspaces = DOMAIN seats
    BY SeatsAreFinite
  <2> HIDE DEF seats
  <2>3. listed = mine
    <3>1. ASSUME NEW w \in DOMAIN seats PROVE [workspace |-> w, role |-> seats[w]] \in mine
      BY <2>1
    <3>2. ASSUME NEW n \in theirs
          PROVE  n.workspace \in DOMAIN seats /\ n.role = seats[n.workspace]
      BY <2>1
    <3> QED BY <2>2, <3>1, <3>2
  <2>4. ListMembershipsForUser(i) = Sorted(listed, LAMBDA a, b : a.workspace < b.workspace)
    BY DEF ListMembershipsForUser, seats
  <2>5. PG!ListMembershipsForUser(i) = PG!Sorted(mine, LAMBDA a, b : a.workspace < b.workspace)
    BY DEF PG!ListMembershipsForUser
  <2>6. PG!Sorted(mine, LAMBDA a, b : a.workspace < b.workspace)
        = Sorted(mine, LAMBDA a, b : a.workspace < b.workspace)
    BY DEF Sorted, PG!Sorted, Cardinality, PG!Cardinality
  <2> HIDE DEF listed, mine
  <2> QED BY <2>3, <2>4, <2>5, <2>6
<1>9. ASSUME NEW i PROVE ListWorkspacesForUser(i) = PG!ListWorkspacesForUser(i)
  <2> DEFINE ids == {m.workspace : m \in {n \in Tables.members : n.user = i}}
             theirs == {w \in rows : w.id \in ids}
  <2>1. ids = DOMAIN SeatsOf(i)
    <3>1. \A w, role : (\E n \in Tables.members : n.user = i /\ n.workspace = w /\ n.role = role)
                       <=> w \in DOMAIN SeatsOf(i) /\ role = SeatsOf(i)[w]
      BY SeatRows
    <3>2. ASSUME NEW w \in DOMAIN SeatsOf(i) PROVE w \in ids
      BY <3>1
    <3>3. ASSUME NEW n \in Tables.members, n.user = i PROVE n.workspace \in DOMAIN SeatsOf(i)
      BY <3>1, <3>3
    <3> QED BY <3>2, <3>3
  <2>2. IsFiniteSet(theirs)
    BY <1>1, FS_Subset
  <2>3. ListWorkspacesForUser(i) = Sorted(theirs, ByForgePrefix)
    BY <2>1 DEF ListWorkspacesForUser, rows
  <2>4. PG!ListWorkspacesForUser(i) = PG!Sorted(theirs, PG!ByForgePrefix)
    BY <1>1 DEF PG!ListWorkspacesForUser
  <2> HIDE DEF theirs
  <2> QED BY <2>2, <2>3, <2>4, SortedIsASequence
<1> QED BY <1>4, <1>5, <1>6, <1>7, <1>8, <1>9

\* Among rows whose ids come from a counter, one is the newest.
LEMMA NewestRow ==
    ASSUME NEW S, NEW n \in Nat, \A u \in S : u.id \in 1 .. n, S # {}
    PROVE  \E u \in S : \A v \in S : v.id <= u.id
<1> DEFINE Age(v) == n - v.id
           T == {Age(v) : v \in S}
<1>1. \A v \in S : Age(v) \in Nat /\ v.id \in Nat
  OBVIOUS
<1>2. T \subseteq Nat /\ T # {}
  BY <1>1
<1>3. PICK x \in T : \A y \in T : ~(<<y, x>> \in OpToRel(<, Nat))
  <2> HIDE DEF T
  <2> QED BY <1>2, WFMin, NatLessThanWellFounded
<1>4. PICK u \in S : x = Age(u)
  BY <1>3
<1>5. ASSUME NEW v \in S PROVE ~(Age(v) < Age(u))
  <2>1. ~(<<Age(v), Age(u)>> \in OpToRel(<, Nat))
    BY <1>3, <1>4
  <2>2. Age(v) \in Nat /\ Age(u) \in Nat
    BY <1>1
  <2> HIDE DEF Age
  <2> QED BY <2>1, <2>2 DEF OpToRel
<1> QED BY <1>1, <1>5

\* The files of an upload are the rows that name it.
LEMMA FilesShown ==
    ASSUME NEW u
    PROVE  {f \in Tables.files : f.upload = u} = FilesOf(u)
<1>1. Tables.files = ShownFiles(mem.files)
  BY TablesShow DEF Shows
<1>2. \A x : x \in Tables.files <=>
        \E v \in DOMAIN mem.files : \E f \in mem.files[v] : x = Over([upload |-> v], f)
  BY <1>1, ShownFile
<1>3. \A v, f : Over([upload |-> v], f).upload = v
  BY DEF Over
<1>4. \A x : x \in FilesOf(u) <=>
        u \in DOMAIN mem.files /\ \E f \in mem.files[u] : x = Over([upload |-> u], f)
  BY DEF FilesOf, ValueAt
<1>5. ASSUME NEW x \in Tables.files, x.upload = u PROVE x \in FilesOf(u)
  <2>1. PICK v \in DOMAIN mem.files : \E f \in mem.files[v] : x = Over([upload |-> v], f)
    BY <1>2
  <2>2. PICK f \in mem.files[v] : x = Over([upload |-> v], f)
    BY <2>1
  <2>3. v = u
    BY <1>3, <1>5, <2>2
  <2> QED BY <1>4, <2>2, <2>3
<1>6. ASSUME NEW x \in FilesOf(u) PROVE x \in Tables.files /\ x.upload = u
  BY <1>2, <1>3, <1>4
<1> QED BY <1>5, <1>6

\* The queries about files answer alike.
LEMMA SameFileReads ==
    /\ \A u : UploadFiles(u) = PG!UploadFiles(u)
    /\ \A us : PartFiles(us) = PG!PartFiles(us)
    /\ \A u, path : UploadFile(u, path) = PG!UploadFile(u, path)
<1>1. ASSUME NEW u PROVE UploadFiles(u) = PG!UploadFiles(u)
  BY FilesShown DEF UploadFiles, PG!UploadFiles
<1>2. ASSUME NEW us PROVE PartFiles(us) = PG!PartFiles(us)
  <2>1. \A f, u : f \in FilesOf(u) <=> f \in Tables.files /\ f.upload = u
    BY FilesShown
  <2>2. PartFiles(us) = UNION {FilesOf(u) : u \in us}
    BY DEF PartFiles
  <2>3. PG!PartFiles(us) = {f \in Tables.files : f.upload \in us}
    BY DEF PG!PartFiles
  <2> QED BY <2>1, <2>2, <2>3
<1>3. ASSUME NEW u, NEW path PROVE UploadFile(u, path) = PG!UploadFile(u, path)
  <2> DEFINE at == {f \in FilesOf(u) : f.path = path}
  <2>1. {f \in Tables.files : f.upload = u /\ f.path = path} = at
    BY FilesShown
  <2>2. PG!UploadFile(u, path) = PG!SetToSeq(at)
    BY <2>1 DEF PG!UploadFile, PG!Only
  <2>3. UploadFile(u, path) = SetToSeq(at)
    BY DEF UploadFile
  <2> HIDE DEF at
  <2>4. SetToSeq(at) = PG!SetToSeq(at)
    BY DEF SetToSeq, PG!SetToSeq, IsInjective, PG!IsInjective, Cardinality, PG!Cardinality
  <2> QED BY <2>2, <2>3, <2>4
<1> QED BY <1>1, <1>2, <1>3

\* A page of the newest rows of a finite set.
LEMMA SameNewest ==
    ASSUME NEW rows, IsFiniteSet(rows), NEW k \in Nat, NEW n \in Nat
    PROVE  /\ newestUploads(k, n, rows) = PG!Limit(PG!Offset(PG!Sorted(rows, PG!Newest), k), n)
           /\ newestUploads(0, n, rows) = PG!Limit(PG!Sorted(rows, PG!Newest), n)
           /\ atMost(Sorted(rows, Newest), n) = PG!Limit(PG!Sorted(rows, PG!Newest), n)
<1> DEFINE s == Sorted(rows, Newest)
           S == {s[i] : i \in 1 .. Cardinality(rows)}
<1>1. s \in Seq(S) /\ PG!Sorted(rows, PG!Newest) = s
  BY SortedIsASequence
<1>2. newestUploads(k, n, rows) = page(s, k, n) /\ newestUploads(0, n, rows) = page(s, 0, n)
  BY DEF newestUploads
<1> HIDE DEF s, S
<1>3. page(s, k, n) = PG!Limit(PG!Offset(s, k), n) /\ page(s, 0, n) = PG!Limit(PG!Offset(s, 0), n)
  BY <1>1, SamePage
<1>4. PG!Offset(s, 0) = s
  <2>1. PG!Offset(s, 0) = SubSeq(s, 1, Len(s))
    BY DEF PG!Offset
  <2> QED BY <1>1, <2>1, SubSeqFull
<1>5. atMost(s, n) = PG!Limit(s, n)
  BY SameCut
<1> QED BY <1>1, <1>2, <1>3, <1>4, <1>5 DEF s

\* The queries about uploads answer alike.
LEMMA SameUploadReads ==
    ASSUME StoreInv
    PROVE  /\ \A i : Upload(i) = PG!Upload(i)
           /\ \A repo : \A k, n \in Nat : ListUploads(repo, k, n) = PG!ListUploads(repo, k, n)
           /\ \A repo, branch : \A k, n \in Nat :
                ListBranchUploads(repo, branch, k, n) = PG!ListBranchUploads(repo, branch, k, n)
           /\ \A repo : \A n \in Nat : RecentBranches(repo, n) = PG!RecentBranches(repo, n)
           /\ \A repo, branch, before, exclude :
                LatestPassedUpload(repo, branch, before, exclude)
                = PG!LatestPassedUpload(repo, branch, before, exclude)
           /\ \A repo, commit : /\ LatestUploadsPerPart(repo, commit) = PG!LatestUploadsPerPart(repo, commit)
                                /\ CommitParts(repo, commit) = PG!CommitParts(repo, commit)
<1> DEFINE rows == Rows(mem.uploads)
<1>1. PG!Uploads = rows /\ IsFiniteSet(rows)
  BY SameTables DEF Counted
<1>2. \A r, s \in rows : r.id = s.id => r = s
  BY RowsById
<1>3. mem.seq["uploads"] \in Nat /\ \A r \in rows : r.id \in 1 .. mem.seq["uploads"]
  <2>1. mem.seq["uploads"] \in Nat /\ DOMAIN mem.uploads \subseteq 1 .. mem.seq["uploads"]
    BY DEF StoreInv, IdsInv, Counted
  <2>2. \A r \in rows : r.id \in DOMAIN mem.uploads
    <3>1. ASSUME NEW i \in DOMAIN mem.uploads PROVE Over([id |-> i], mem.uploads[i]).id = i
      BY RowColumns
    <3> QED BY <3>1 DEF rows, Rows
  <2> QED BY <2>1, <2>2
<1> HIDE DEF rows
<1>4. \A S \in SUBSET rows : IsFiniteSet(S)
  BY <1>1, FS_Subset
<1>5. ASSUME NEW i PROVE Upload(i) = PG!Upload(i)
  <2> DEFINE found == {u \in rows : u.id = i}
  <2>1. \A r, s \in found : r = s
    BY <1>2
  <2>2. Upload(i) = find(found) /\ PG!Upload(i) = PG!Only(found)
    BY <1>1 DEF Upload, PG!Upload, rows
  <2> HIDE DEF found
  <2> QED BY <2>1, <2>2, OneRow
<1>6. ASSUME NEW repo, NEW k \in Nat, NEW n \in Nat
      PROVE  ListUploads(repo, k, n) = PG!ListUploads(repo, k, n)
  <2> DEFINE of == {u \in rows : u.repo = repo}
  <2>1. IsFiniteSet(of)
    BY <1>4
  <2>2. /\ ListUploads(repo, k, n) = newestUploads(k, n, of)
        /\ PG!ListUploads(repo, k, n) = PG!Limit(PG!Offset(PG!Sorted(of, PG!Newest), k), n)
    BY <1>1 DEF ListUploads, PG!ListUploads, rows
  <2> HIDE DEF of
  <2> QED BY <2>1, <2>2, SameNewest
<1>7. ASSUME NEW repo, NEW branch, NEW k \in Nat, NEW n \in Nat
      PROVE  ListBranchUploads(repo, branch, k, n) = PG!ListBranchUploads(repo, branch, k, n)
  <2> DEFINE of == {u \in rows : u.repo = repo /\ u.branch = branch}
  <2>1. IsFiniteSet(of)
    BY <1>4
  <2>2. /\ ListBranchUploads(repo, branch, k, n) = newestUploads(k, n, of)
        /\ PG!ListBranchUploads(repo, branch, k, n)
           = PG!Limit(PG!Offset(PG!Sorted(of, PG!Newest), k), n)
    BY <1>1 DEF ListBranchUploads, PG!ListBranchUploads, rows
  <2> HIDE DEF of
  <2> QED BY <2>1, <2>2, SameNewest
<1>8. ASSUME NEW repo, NEW n \in Nat PROVE RecentBranches(repo, n) = PG!RecentBranches(repo, n)
  <2> DEFINE recent == ListUploads(repo, 0, n)
  <2>1. PG!ListUploads(repo, 0, n) = recent
    BY <1>6
  <2>2. newestUploads(0, n, {x \in Rows(mem.uploads) : x.repo = repo}) = recent
    BY DEF ListUploads
  <2> HIDE DEF recent
  <2>3. /\ RecentBranches(repo, n) = {u.branch : u \in Range(recent)}
        /\ PG!RecentBranches(repo, n) = {recent[i].branch : i \in DOMAIN recent}
    BY <2>1, <2>2 DEF RecentBranches, PG!RecentBranches
  <2> QED BY <2>3 DEF Range
<1>9. ASSUME NEW repo, NEW branch, NEW before, NEW exclude
      PROVE  LatestPassedUpload(repo, branch, before, exclude)
             = PG!LatestPassedUpload(repo, branch, before, exclude)
  <2> DEFINE of == {u \in rows : /\ u.repo = repo /\ u.branch = branch
                                 /\ u.pr = "" /\ ~ u.failed
                                 /\ before = 0 \/ u.id < before
                                 /\ u.commit # exclude}
  <2>1. IsFiniteSet(of)
    BY <1>4
  <2>2. /\ LatestPassedUpload(repo, branch, before, exclude) = newestUploads(0, 1, of)
        /\ PG!LatestPassedUpload(repo, branch, before, exclude)
           = PG!Limit(PG!Sorted(of, PG!Newest), 1)
    BY <1>1 DEF LatestPassedUpload, PG!LatestPassedUpload, Unnamed, PG!Unnamed, rows
  <2> HIDE DEF of
  <2> QED BY <2>1, <2>2, SameNewest
<1>10. ASSUME NEW repo, NEW commit
       PROVE  /\ LatestUploadsPerPart(repo, commit) = PG!LatestUploadsPerPart(repo, commit)
              /\ CommitParts(repo, commit) = PG!CommitParts(repo, commit)
  <2> DEFINE of == {u \in rows : u.repo = repo /\ u.commit = commit}
             Newer(u) == \A v \in of : v.part = u.part => v.id <= u.id
             latest(part) == CHOOSE u \in of : u.part = part /\ \A v \in of : v.part = part => v.id <= u.id
  <2>1. OfCommit(repo, commit) = of /\ PG!CommitUploads(repo, commit) = of
    BY <1>1 DEF OfCommit, PG!CommitUploads, rows
  <2>2. CommitParts(repo, commit) = PG!CommitParts(repo, commit)
    BY <2>1 DEF CommitParts, PG!CommitParts
  <2>3. /\ LatestUploadsPerPart(repo, commit) = {latest(u.part) : u \in of}
        /\ PG!LatestUploadsPerPart(repo, commit) = {u \in of : Newer(u)}
    BY <2>1 DEF LatestUploadsPerPart, PG!LatestUploadsPerPart
  <2>4. of \subseteq rows
    OBVIOUS
  <2> HIDE DEF of
  <2>5. ASSUME NEW u \in of PROVE latest(u.part) \in of /\ Newer(latest(u.part))
    <3> DEFINE P == {v \in of : v.part = u.part}
    <3>1. u \in P /\ \A v \in P : v.id \in 1 .. mem.seq["uploads"]
      BY <1>3, <2>4
    <3>2. \E x \in P : \A v \in P : v.id <= x.id
      <4> HIDE DEF P
      <4> QED BY <1>3, <3>1, NewestRow
    <3>3. \E x \in of : x.part = u.part /\ \A v \in of : v.part = u.part => v.id <= x.id
      BY <3>2
    <3> QED BY <3>3
  <2>6. ASSUME NEW u \in of, Newer(u) PROVE u = latest(u.part)
    <3> DEFINE l == latest(u.part)
    <3>1. \E x \in of : x.part = u.part /\ \A v \in of : v.part = u.part => v.id <= x.id
      BY <2>6
    <3>2. l \in of /\ l.part = u.part /\ \A v \in of : v.part = u.part => v.id <= l.id
      BY <3>1
    <3> HIDE DEF l
    <3>3. u.id <= l.id /\ l.id <= u.id
      BY <2>6, <3>2
    <3>4. u.id \in Nat /\ l.id \in Nat
      BY <1>3, <2>4, <3>2
    <3>5. u = l
      BY <1>2, <2>4, <3>2, <3>3, <3>4
    <3> QED BY <3>5 DEF l
  <2> HIDE DEF Newer, latest
  <2> QED BY <2>2, <2>3, <2>5, <2>6
<1> QED BY <1>5, <1>6, <1>7, <1>8, <1>9, <1>10

\* A commit has at most one report.
LEMMA ReportRows ==
    ASSUME StoreInv
    PROVE  \A r, s \in Rows(mem.reports) : r.repo = s.repo /\ r.commit = s.commit => r = s
<1> DEFINE Row(i) == Over([id |-> i], mem.reports[i])
<1>1. ASSUME NEW i \in DOMAIN mem.reports
      PROVE  Row(i).repo = mem.reports[i].repo /\ Row(i).commit = mem.reports[i].commit
  <2>1. {"repo", "commit"} \subseteq DOMAIN mem.reports[i] \ {"id"}
    BY DEF StoreInv, ReportInv, ReportColumns
  <2>2. \A k \in DOMAIN mem.reports[i] \ {"id"} : Row(i)[k] = mem.reports[i][k]
    BY DEF Over
  <2> QED BY <2>1, <2>2
<1>2. \A i, j \in DOMAIN mem.reports :
        mem.reports[i].repo = mem.reports[j].repo /\ mem.reports[i].commit = mem.reports[j].commit => i = j
  BY DEF StoreInv, ReportInv
<1>3. Rows(mem.reports) = {Row(i) : i \in DOMAIN mem.reports}
  BY DEF Rows
<1> HIDE DEF Row
<1> QED BY <1>1, <1>2, <1>3

\* A repo lists the reports of its default branch without those of pull requests.
LEMMA DefaultBranch ==
    ASSUME StoreInv, NEW id \in DOMAIN mem.repos
    PROVE  \A r \in Rows(mem.repos) : r.id = id => r.branch = mem.repos[id].branch
<1> DEFINE Row(i) == Over([id |-> i], mem.repos[i])
<1>1. ASSUME NEW i \in DOMAIN mem.repos PROVE Row(i).branch = mem.repos[i].branch /\ Row(i).id = i
  <2>1. "branch" \in DOMAIN mem.repos[i] \ {"id"}
    BY DEF StoreInv, RepoInv, RepoColumns
  <2>2. \A k \in DOMAIN mem.repos[i] \ {"id"} : Row(i)[k] = mem.repos[i][k]
    BY DEF Over
  <2> QED BY <2>1, <2>2, RowColumns
<1>2. Rows(mem.repos) = {Row(i) : i \in DOMAIN mem.repos}
  BY DEF Rows
<1> HIDE DEF Row
<1> QED BY <1>1, <1>2

\* A repo has a row exactly when it is in the map.
LEMMA RepoHasRow ==
    ASSUME NEW id
    PROVE  id \in DOMAIN mem.repos <=> \E r \in Rows(mem.repos) : r.id = id
<1>1. \A i \in DOMAIN mem.repos : Over([id |-> i], mem.repos[i]).id = i
  BY RowColumns
<1> QED BY <1>1 DEF Rows

\* The queries about reports answer alike.
LEMMA SameReportReads ==
    ASSUME StoreInv
    PROVE  /\ \A repo, commit : CommitReport(repo, commit) = PG!CommitReport(repo, commit)
           /\ \A repo, branch, exclude : \A before \in Nat :
                LatestPassedCommitReport(repo, branch, before, exclude)
                = PG!LatestPassedCommitReport(repo, branch, before, exclude)
           /\ \A repo, branch : \A n \in Nat :
                ListBranchCommitReports(repo, branch, n) = PG!ListBranchCommitReports(repo, branch, n)
           /\ \A repos : \A n \in Nat : DefaultBranchReports(repos, n) = PG!DefaultBranchReports(repos, n)
<1> DEFINE rows == Rows(mem.reports)
<1>1. PG!Reports = rows /\ IsFiniteSet(rows) /\ PG!Repos = Rows(mem.repos)
  BY SameTables DEF Counted
<1>2. \A r, s \in rows : r.repo = s.repo /\ r.commit = s.commit => r = s
  BY ReportRows
<1>3. \A r \in rows : r.id \in Nat /\ r.commit # Unnamed
  <2>1. mem.seq["reports"] \in Nat /\ DOMAIN mem.reports \subseteq 1 .. mem.seq["reports"]
    BY DEF StoreInv, IdsInv, Counted
  <2>2. ASSUME NEW i \in DOMAIN mem.reports
        PROVE  LET r == Over([id |-> i], mem.reports[i]) IN r.id = i /\ r.commit # Unnamed
    <3>1. mem.reports[i].commit # Unnamed /\ "commit" \in DOMAIN mem.reports[i] \ {"id"}
      BY DEF StoreInv, ReportInv, ReportColumns
    <3>2. Over([id |-> i], mem.reports[i]).commit = mem.reports[i].commit
      BY <3>1 DEF Over
    <3> QED BY <3>1, <3>2, RowColumns
  <2>3. ASSUME NEW r \in rows PROVE r.id \in Nat /\ r.commit # Unnamed
    <3>1. PICK i \in DOMAIN mem.reports : r = Over([id |-> i], mem.reports[i])
      BY RowsOfATable
    <3> QED BY <2>1, <2>2, <3>1
  <2> QED BY <2>3
<1> HIDE DEF rows
<1>4. \A S \in SUBSET rows : IsFiniteSet(S)
  BY <1>1, FS_Subset
<1>5. ASSUME NEW repo, NEW commit PROVE CommitReport(repo, commit) = PG!CommitReport(repo, commit)
  <2> DEFINE found == {r \in rows : r.repo = repo /\ r.commit = commit}
  <2>1. \A r, s \in found : r = s
    BY <1>2
  <2>2. CommitReport(repo, commit) = find(found) /\ PG!CommitReport(repo, commit) = PG!Only(found)
    BY <1>1 DEF CommitReport, commitReportLocked, PG!CommitReport, rows
  <2> HIDE DEF found
  <2> QED BY <2>1, <2>2, OneRow
<1>6. ASSUME NEW repo, NEW branch, NEW exclude, NEW before \in Nat
      PROVE  LatestPassedCommitReport(repo, branch, before, exclude)
             = PG!LatestPassedCommitReport(repo, branch, before, exclude)
  <2> DEFINE here == {r \in rows : /\ r.repo = repo /\ r.branch = branch /\ ~ r.failed /\ r.pr = Unnamed
                                   /\ ~ (exclude # Unnamed /\ r.commit = exclude)
                                   /\ ~ (before > 0 /\ r.id >= before)}
             there == {r \in rows : /\ r.repo = repo /\ r.branch = branch
                                    /\ r.commit # exclude /\ ~ r.failed /\ r.pr = PG!Unnamed
                                    /\ before = 0 \/ r.id < before}
  <2>1. PG!Unnamed = Unnamed
    BY SameConstants
  <2>2. here = there
    BY <1>3, <2>1
  <2>3. IsFiniteSet(here)
    BY <1>4
  <2>4. LatestPassedCommitReport(repo, branch, before, exclude) = atMost(Sorted(here, Newest), 1)
    BY DEF LatestPassedCommitReport, rows
  <2>5. PG!LatestPassedCommitReport(repo, branch, before, exclude)
        = PG!Limit(PG!Sorted(there, PG!Newest), 1)
    BY <1>1 DEF PG!LatestPassedCommitReport
  <2> HIDE DEF here, there
  <2> QED BY <2>2, <2>3, <2>4, <2>5, SameNewest
<1>7. ASSUME NEW repo, NEW branch, NEW n \in Nat
      PROVE  ListBranchCommitReports(repo, branch, n) = PG!ListBranchCommitReports(repo, branch, n)
  <2> DEFINE isDefault == repo \in DOMAIN mem.repos /\ branch = mem.repos[repo].branch
             defaults == {r.branch : r \in {x \in Rows(mem.repos) : x.id = repo}}
             here == {r \in rows : r.repo = repo /\ r.branch = branch /\ ~ (isDefault /\ r.pr # Unnamed)}
             there == {r \in rows : /\ r.repo = repo /\ r.branch = branch
                                    /\ r.pr = PG!Unnamed \/ branch \notin defaults}
  <2>1. PG!Unnamed = Unnamed
    BY SameConstants
  <2>2. isDefault <=> branch \in defaults
    BY RepoHasRow, DefaultBranch
  <2>3. ListBranchCommitReports(repo, branch, n) = atMost(Sorted(here, Newest), n)
    BY DEF ListBranchCommitReports, rows
  <2>4. PG!ListBranchCommitReports(repo, branch, n) = PG!Limit(PG!Sorted(there, PG!Newest), n)
    BY <1>1 DEF PG!ListBranchCommitReports
  <2> HIDE DEF isDefault, defaults
  <2>5. here = there
    BY <2>1, <2>2
  <2>6. IsFiniteSet(here)
    BY <1>4
  <2> HIDE DEF here, there
  <2> QED BY <2>3, <2>4, <2>5, <2>6, SameNewest
<1>8. ASSUME NEW repos, NEW n \in Nat
      PROVE  DefaultBranchReports(repos, n) = PG!DefaultBranchReports(repos, n)
  <2> DEFINE of(id) == ListBranchCommitReports(id, mem.repos[id].branch, n)
             there(r) == PG!Limit(PG!Sorted({s \in rows : /\ s.repo = r.id /\ s.branch = r.branch
                                                          /\ s.pr = PG!Unnamed}, PG!Newest), n)
             found == {r \in Rows(mem.repos) : r.id \in repos /\ there(r) # <<>>}
  <2>1. ASSUME NEW r \in Rows(mem.repos)
        PROVE  r.id \in DOMAIN mem.repos /\ there(r) = of(r.id)
    <3> DEFINE mine == {s \in rows : s.repo = r.id /\ s.branch = r.branch /\ s.pr = PG!Unnamed}
               here == {s \in rows : /\ s.repo = r.id /\ s.branch = mem.repos[r.id].branch
                                     /\ ~ ((r.id \in DOMAIN mem.repos
                                            /\ mem.repos[r.id].branch = mem.repos[r.id].branch)
                                           /\ s.pr # Unnamed)}
    <3>1. r.id \in DOMAIN mem.repos
      BY RepoHasRow
    <3>2. r.branch = mem.repos[r.id].branch
      BY <3>1, DefaultBranch
    <3>3. PG!Unnamed = Unnamed
      BY SameConstants
    <3>4. mine = here
      BY <3>1, <3>2, <3>3
    <3>5. of(r.id) = atMost(Sorted(here, Newest), n)
      BY DEF ListBranchCommitReports, rows
    <3>6. IsFiniteSet(mine)
      BY <1>4
    <3>7. there(r) = PG!Limit(PG!Sorted(mine, PG!Newest), n)
      OBVIOUS
    <3> HIDE DEF mine, here, there, of
    <3> QED BY <3>1, <3>4, <3>5, <3>6, <3>7, SameNewest
  <2>2. PG!DefaultBranchReports(repos, n) = {<<r.id, there(r)>> : r \in found}
    BY <1>1 DEF PG!DefaultBranchReports
  <2>3. DefaultBranchReports(repos, n)
        = {<<id, of(id)>> : id \in {i \in repos \cap DOMAIN mem.repos : of(i) # <<>>}}
    BY DEF DefaultBranchReports
  <2>4. \A i \in DOMAIN mem.repos : \E r \in Rows(mem.repos) : r.id = i
    BY RepoHasRow
  <2> HIDE DEF of, there
  <2> QED BY <2>1, <2>2, <2>3, <2>4
<1> QED BY <1>5, <1>6, <1>7, <1>8

\* So every query does.
LEMMA ReadsAlike == StoreInv => SameReads
<1> SUFFICES ASSUME StoreInv PROVE SameReads
  OBVIOUS
<1> DEFINE names == {w.prefix : w \in Rows(mem.workspaces)} \cup {r.slug : r \in Rows(mem.repos)}
<1>1. \A n \in names : n \in Seq(Nat)
  <2>1. \A r \in Rows(mem.repos) : r.slug \in Seq(Nat)
    BY RepoRows
  <2>2. ASSUME NEW i \in DOMAIN mem.workspaces PROVE Over([id |-> i], mem.workspaces[i]).prefix \in Seq(Nat)
    <3>1. mem.workspaces[i].prefix \in Seq(Nat) /\ "prefix" \in DOMAIN mem.workspaces[i] \ {"id"}
      BY DEF StoreInv, WorkspaceInv, WorkspaceColumns
    <3>2. Over([id |-> i], mem.workspaces[i]).prefix = mem.workspaces[i].prefix
      BY <3>1 DEF Over
    <3> QED BY <3>1, <3>2
  <2> QED BY <2>1, <2>2 DEF Rows
<1>2. 0 .. 2 \subseteq Nat /\ 0 .. MaxId \subseteq Nat
  OBVIOUS
<1> QED BY <1>1, <1>2, SameRepoReads, SameAccountReads, SameFileReads, SameUploadReads, SameReportReads
      DEF SameReads
----------------------------------------------------------------------------
(* The store as a whole. *)

\* What the calls of a family carry.
LEMMA CallTypes ==
    ASSUME StoreInv, NEW c \in family
    PROVE  /\ c \in UNION Families
           /\ c.op \in {"CreateRepo", "UpdateRepo"} => DOMAIN c.row = RepoColumns /\ c.row.slug \in Seq(Nat)
           /\ c.op = "SetRepoVisibility" => c.at \in Nat
           /\ Creates(c) \/ c.op = "UpdateWorkspace" =>
                DOMAIN c.row = WorkspaceColumns /\ c.row.prefix \in Seq(Nat)
           /\ Creates(c) \/ c.op = "SetWorkspaceGrant" => IsGrant(c.grant)
           /\ Creates(c) /\ c.row.forge \notin GrantForges => c.grant = EmptyGrant
           /\ c.op = "UpsertUser" => DOMAIN c.row = UserColumns
           /\ c.op = "SetUserMemberships" => \A s, t \in c.seats : s.workspace = t.workspace => s = t
           /\ c.op \in {"CreateSession", "CreateOAuthCode", "CreateMCPToken"} => c.row.expires \in Nat
           /\ c.op = "CreateUpload" => DOMAIN c.row = UploadColumns
           /\ c.op = "UpsertCommitReport" => DOMAIN c.row = ReportColumns /\ c.row.commit # Unnamed
           /\ c.op \in {"ClaimPush", "FinishPush"} => c.version \in Nat /\ c.lease \in Nat
<1>1. c \in UNION Families
  BY DEF StoreInv
<1> QED BY <1>1, CallsAssumption

\* The calls about repos keep the invariant and are served as the tables serve them,
LEMMA RepoCalls ==
    ASSUME StoreInv, NEW c \in family,
           CreateRepo(c) \/ UpdateRepo(c) \/ SetRepoVisibility(c) \/ DeleteRepo(c)
    PROVE  StoreInv' /\ PG!Serve(c)
<1> USE DEF PG!Serve
<1>0. IdsInv /\ RepoInv /\ PushInv /\ ReportInv
  BY DEF StoreInv
<1>1. CASE CreateRepo(c)
  <2>1. DOMAIN c.row = RepoColumns /\ c.row.slug \in Seq(Nat)
    BY <1>1, CallTypes DEF CreateRepo
  <2> QED BY <1>0, <1>1, <2>1, CreateRepoKeeps, CreateRepoImplements
<1>2. CASE UpdateRepo(c)
  <2>1. DOMAIN c.row = RepoColumns /\ c.row.slug \in Seq(Nat)
    BY <1>2, CallTypes DEF UpdateRepo
  <2> QED BY <1>0, <1>2, <2>1, UpdateRepoKeeps, UpdateRepoImplements
<1>3. CASE SetRepoVisibility(c)
  <2>1. c.at \in Nat
    BY <1>3, CallTypes DEF SetRepoVisibility
  <2> QED BY <1>0, <1>3, <2>1, SetRepoVisibilityKeeps, SetRepoVisibilityImplements
<1>4. CASE DeleteRepo(c)
  BY <1>0, <1>4, DeleteRepoKeeps, DeleteRepoImplements
<1> QED BY <1>1, <1>2, <1>3, <1>4

\* those about workspaces,
LEMMA WorkspaceCalls ==
    ASSUME StoreInv, NEW c \in family,
           \/ CreateWorkspace(c) \/ RegisterWorkspace(c) \/ UpdateWorkspace(c) \/ DeleteWorkspace(c)
           \/ SetWorkspaceGrant(c) \/ SetGitHubAppBroken(c) \/ MarkWorkspaceGrantBroken(c)
    PROVE  StoreInv' /\ PG!Serve(c)
<1> USE DEF PG!Serve
<1>0. IdsInv /\ RepoInv /\ WorkspaceInv /\ AccountInv /\ ReportInv
  BY DEF StoreInv
<1>1. CASE CreateWorkspace(c)
  <2>1. /\ DOMAIN c.row = WorkspaceColumns /\ c.row.prefix \in Seq(Nat) /\ IsGrant(c.grant)
        /\ c.row.forge \notin GrantForges => c.grant = EmptyGrant
    BY <1>1, CallTypes DEF CreateWorkspace, Creates
  <2> QED BY <1>0, <1>1, <2>1, CreateWorkspaceKeeps, CreateWorkspaceImplements
<1>2. CASE RegisterWorkspace(c)
  <2>1. /\ DOMAIN c.row = WorkspaceColumns /\ c.row.prefix \in Seq(Nat) /\ IsGrant(c.grant)
        /\ c.row.forge \notin GrantForges => c.grant = EmptyGrant
    BY <1>2, CallTypes DEF RegisterWorkspace, Creates
  <2> QED BY <1>0, <1>2, <2>1, RegisterWorkspaceKeeps, RegisterWorkspaceImplements
<1>3. CASE UpdateWorkspace(c)
  <2>1. DOMAIN c.row = WorkspaceColumns /\ c.row.prefix \in Seq(Nat)
    BY <1>3, CallTypes DEF UpdateWorkspace
  <2> QED BY <1>0, <1>3, <2>1, UpdateWorkspaceKeeps, UpdateWorkspaceImplements
<1>4. CASE DeleteWorkspace(c)
  BY <1>0, <1>4, DeleteWorkspaceKeeps, DeleteWorkspaceImplements
<1>5. CASE SetWorkspaceGrant(c)
  <2>1. IsGrant(c.grant)
    BY <1>5, CallTypes DEF SetWorkspaceGrant
  <2> QED BY <1>0, <1>5, <2>1, SetWorkspaceGrantKeeps, SetWorkspaceGrantImplements
<1>6. CASE SetGitHubAppBroken(c)
  BY <1>0, <1>6, SetGitHubAppBrokenKeeps, SetGitHubAppBrokenImplements
<1>7. CASE MarkWorkspaceGrantBroken(c)
  BY <1>0, <1>7, MarkWorkspaceGrantBrokenKeeps, MarkWorkspaceGrantBrokenImplements
<1> QED BY <1>1, <1>2, <1>3, <1>4, <1>5, <1>6, <1>7

\* those about accounts and hashes,
LEMMA AccountCalls ==
    ASSUME StoreInv, NEW c \in family,
           \/ UpsertUser(c) \/ DeleteUser(c) \/ SetUserMemberships(c)
           \/ CreateSession(c) \/ CreateOAuthCode(c) \/ CreateMCPToken(c)
           \/ UserBySession(c) \/ UserByMCPToken(c) \/ DeleteSession(c) \/ ConsumeOAuthCode(c)
    PROVE  StoreInv' /\ PG!Serve(c)
<1> USE DEF PG!Serve
<1>0. IdsInv /\ AccountInv /\ now \in Nat
  BY DEF StoreInv
<1>1. CASE UpsertUser(c)
  <2>1. DOMAIN c.row = UserColumns
    BY <1>1, CallTypes DEF UpsertUser
  <2> QED BY <1>0, <1>1, <2>1, UpsertUserKeeps, UpsertUserImplements
<1>2. CASE DeleteUser(c)
  BY <1>0, <1>2, DeleteUserKeeps, DeleteUserImplements
<1>3. CASE SetUserMemberships(c)
  <2>1. \A s, t \in c.seats : s.workspace = t.workspace => s = t
    BY <1>3, CallTypes DEF SetUserMemberships
  <2> QED BY <1>0, <1>3, <2>1, SetUserMembershipsKeeps, SetUserMembershipsImplements
<1>4. ASSUME \/ CreateSession(c) \/ CreateOAuthCode(c) \/ CreateMCPToken(c)
             \/ UserBySession(c) \/ UserByMCPToken(c) \/ DeleteSession(c) \/ ConsumeOAuthCode(c)
      PROVE  StoreInv' /\ PG!Serve(c)
  <2>1. c.op \in {"CreateSession", "CreateOAuthCode", "CreateMCPToken"} => c.row.expires \in Nat
    BY CallTypes
  <2>2. StoreInv'
    BY <1>4, <2>1, HashCallsKeep
  <2> QED BY <1>0, <1>4, <2>2, CreatedImplement, UserByImplements, DeleteSessionImplements,
             ConsumeOAuthCodeImplements
<1> QED BY <1>1, <1>2, <1>3, <1>4

\* and those about uploads, reports and pushes.
LEMMA ReportCalls ==
    ASSUME StoreInv, NEW c \in family,
           \/ CreateUpload(c) \/ UpsertCommitReport(c) \/ ClaimPush(c) \/ FinishPush(c)
           \/ ClaimTokenlessUpload(c) \/ ReleaseTokenlessUpload(c)
    PROVE  StoreInv' /\ PG!Serve(c)
<1> USE DEF PG!Serve
<1>0. IdsInv /\ ReportInv /\ PushInv /\ now \in Nat
  BY DEF StoreInv
<1>1. CASE CreateUpload(c)
  <2>1. DOMAIN c.row = UploadColumns
    BY <1>1, CallTypes DEF CreateUpload
  <2> QED BY <1>0, <1>1, <2>1, CreateUploadKeeps, CreateUploadImplements
<1>2. CASE UpsertCommitReport(c)
  <2>1. DOMAIN c.row = ReportColumns /\ c.row.commit # Unnamed
    BY <1>2, CallTypes DEF UpsertCommitReport
  <2> QED BY <1>0, <1>2, <2>1, UpsertCommitReportKeeps, UpsertCommitReportImplements
<1>3. CASE ClaimPush(c)
  <2>1. c.version \in Nat /\ c.lease \in Nat
    BY <1>3, CallTypes DEF ClaimPush
  <2> QED BY <1>0, <1>3, <2>1, ClaimPushKeeps, ClaimPushImplements
<1>4. CASE FinishPush(c)
  <2>1. c.version \in Nat /\ c.lease \in Nat
    BY <1>4, CallTypes DEF FinishPush
  <2> QED BY <1>0, <1>4, <2>1, FinishPushKeeps, FinishPushImplements
<1>5. CASE ClaimTokenlessUpload(c)
  BY <1>0, <1>5, TokenlessKeep, ClaimTokenlessUploadImplements
<1>6. CASE ReleaseTokenlessUpload(c)
  BY <1>0, <1>6, TokenlessKeep, ReleaseTokenlessUploadImplements
<1> QED BY <1>1, <1>2, <1>3, <1>4, <1>5, <1>6

\* Both stores start with no rows and every counter at zero.
LEMMA StartsEmpty == StoreInit => StoreInv /\ PG!Init
<1> SUFFICES ASSUME StoreInit PROVE StoreInv /\ PG!Init
  OBVIOUS
<1> DEFINE d == [seq |-> [repos |-> 0, workspaces |-> 0, users |-> 0, uploads |-> 0, reports |-> 0],
                 repos |-> Nothing, workspaces |-> Nothing, users |-> Nothing, members |-> {},
                 sessions |-> Nothing, codes |-> Nothing, tokens |-> Nothing,
                 uploads |-> Nothing, files |-> {}, reports |-> Nothing, claims |-> {}]
<1>0. DOMAIN Nothing = {} /\ IsFunction(Nothing)
  BY DEF Nothing, IsFunction
<1>1. /\ DOMAIN mem = Maps /\ DOMAIN mem.seq = Counted /\ \A t \in Counted : mem.seq[t] = 0
      /\ \A t \in Maps \ {"seq", "tokenless"} : mem[t] = Nothing
      /\ mem.seq = d.seq /\ mem.tokenless = {} /\ now = 1 /\ family \in Families
  BY DEF StoreInit, Maps, Counted
<1> HIDE DEF d
<1>2. \A t \in Maps \ {"seq", "tokenless"} : DOMAIN mem[t] = {}
  BY <1>0, <1>1
<1>3. IdsInv
  BY <1>1, <1>2 DEF IdsInv, Maps
<1>4. RepoInv /\ WorkspaceInv /\ ReportInv /\ PushInv
  BY <1>1, <1>2 DEF RepoInv, WorkspaceInv, ReportInv, PushInv, Maps
<1>5. AccountInv
  BY <1>0, <1>1, <1>2 DEF AccountInv, Maps
<1>6. /\ IsTables(d) /\ d.repos = Nothing /\ d.users = Nothing /\ d.sessions = Nothing
      /\ d.codes = Nothing /\ d.tokens = Nothing /\ d.uploads = Nothing /\ d.workspaces = Nothing
      /\ d.reports = Nothing /\ d.members = {} /\ d.files = {} /\ d.claims = {}
  BY DEF IsTables, IsFunction, TableNames, d
<1>7. /\ mem.repos = Nothing /\ mem.users = Nothing /\ mem.members = Nothing
      /\ mem.sessions = Nothing /\ mem.oauthCodes = Nothing /\ mem.mcpTokens = Nothing
      /\ mem.uploads = Nothing /\ mem.files = Nothing /\ mem.workspaces = Nothing
      /\ mem.reports = Nothing
  BY <1>1 DEF Maps
<1>8. /\ ShownWorkspaces(Nothing) = Nothing
      /\ ShownReports(Nothing, mem.crLease, mem.crStatus) = Nothing
  BY DEF ShownWorkspaces, ShownReports, Nothing
<1>9. ShownMembers(Nothing) = {} /\ ShownFiles(Nothing) = {}
  BY <1>0 DEF ShownMembers, ShownFiles
<1>10. ShownClaims(mem.tokenless, mem.repos) = {}
  BY <1>1 DEF ShownClaims
<1>11. Shows(d, mem)
  BY <1>1, <1>6, <1>7, <1>8, <1>9, <1>10 DEF Shows
<1>12. Tables = d
  BY <1>11, TablesShow, ShowsOne
<1>13. PG!Init
  BY <1>12, SameConstants DEF StoreInit, PG!Init, d
<1> QED BY <1>1, <1>3, <1>4, <1>5, <1>13 DEF StoreInv

\* An answer is to the call that was made.
LEMMA ServedIsCalled == \A c : PG!Serve(c) => call' = c
<1> SUFFICES ASSUME NEW c, PG!Serve(c) PROVE call' = c
  OBVIOUS
<1> USE DEF PG!Answers, PG!Affects, PG!Inserts, PG!Refuses
<1>1. CASE \/ PG!CreateRepo(c) \/ PG!UpdateRepo(c) \/ PG!SetRepoVisibility(c) \/ PG!DeleteRepo(c)
  BY <1>1 DEF PG!CreateRepo, PG!UpdateRepo, PG!SetRepoVisibility, PG!DeleteRepo
<1>2. CASE \/ PG!CreateWorkspace(c) \/ PG!RegisterWorkspace(c) \/ PG!UpdateWorkspace(c)
           \/ PG!DeleteWorkspace(c)
  BY <1>2 DEF PG!CreateWorkspace, PG!RegisterWorkspace, PG!UpdateWorkspace, PG!DeleteWorkspace
<1>3. CASE \/ PG!SetWorkspaceGrant(c) \/ PG!SetGitHubAppBroken(c) \/ PG!MarkWorkspaceGrantBroken(c)
  BY <1>3 DEF PG!SetWorkspaceGrant, PG!SetGitHubAppBroken, PG!MarkWorkspaceGrantBroken
<1>4. CASE PG!UpsertUser(c) \/ PG!DeleteUser(c) \/ PG!SetUserMemberships(c)
  BY <1>4 DEF PG!UpsertUser, PG!DeleteUser, PG!SetUserMemberships
<1>5. CASE PG!CreateSession(c) \/ PG!CreateOAuthCode(c) \/ PG!CreateMCPToken(c)
  BY <1>5 DEF PG!CreateSession, PG!CreateOAuthCode, PG!CreateMCPToken, PG!Keeps
<1>6. CASE \/ PG!UserBySession(c) \/ PG!UserByMCPToken(c) \/ PG!DeleteSession(c)
           \/ PG!ConsumeOAuthCode(c)
  BY <1>6 DEF PG!UserBySession, PG!UserByMCPToken, PG!Resolves, PG!DeleteSession, PG!ConsumeOAuthCode
<1>7. CASE PG!CreateUpload(c) \/ PG!UpsertCommitReport(c) \/ PG!ClaimPush(c) \/ PG!FinishPush(c)
  BY <1>7 DEF PG!CreateUpload, PG!UpsertCommitReport, PG!ClaimPush, PG!FinishPush
<1>8. CASE PG!ClaimTokenlessUpload(c) \/ PG!ReleaseTokenlessUpload(c)
  BY <1>8 DEF PG!ClaimTokenlessUpload, PG!ReleaseTokenlessUpload
<1> QED BY <1>1, <1>2, <1>3, <1>4, <1>5, <1>6, <1>7, <1>8 DEF PG!Serve

\* Every step of the store keeps what it keeps, and is one the tables may take.
LEMMA StoreSteps ==
    ASSUME StoreInv, [StoreNext]_storeVars
    PROVE  StoreInv' /\ [PG!Next]_PG!vars
<1>1. CASE UNCHANGED storeVars
  <2>1. UNCHANGED <<mem, now, call, ret, family>>
    BY <1>1 DEF storeVars
  <2>2. Tables' = Tables
    BY <2>1, TablesShow, TablesShowNext, ShowsOne
  <2>3. StoreInv'
    BY <2>1, Kept DEF StoreInv
  <2> QED BY <2>1, <2>2, <2>3 DEF PG!vars
<1>2. CASE Tick
  <2>1. UNCHANGED <<mem, call, ret, family>> /\ now' = now + 1
    BY <1>2 DEF Tick
  <2>2. Tables' = Tables
    BY <2>1, TablesShow, TablesShowNext, ShowsOne
  <2>3. StoreInv'
    BY <2>1, Kept DEF StoreInv
  <2> QED BY <2>1, <2>2, <2>3 DEF PG!Next, PG!Tick
<1>3. ASSUME NEW c \in family,
             \/ CreateRepo(c) \/ UpdateRepo(c) \/ SetRepoVisibility(c) \/ DeleteRepo(c)
             \/ CreateWorkspace(c) \/ RegisterWorkspace(c) \/ UpdateWorkspace(c) \/ DeleteWorkspace(c)
             \/ SetWorkspaceGrant(c) \/ SetGitHubAppBroken(c) \/ MarkWorkspaceGrantBroken(c)
             \/ UpsertUser(c) \/ DeleteUser(c) \/ SetUserMemberships(c)
             \/ CreateSession(c) \/ CreateOAuthCode(c) \/ CreateMCPToken(c)
             \/ UserBySession(c) \/ UserByMCPToken(c) \/ DeleteSession(c) \/ ConsumeOAuthCode(c)
             \/ CreateUpload(c) \/ UpsertCommitReport(c) \/ ClaimPush(c) \/ FinishPush(c)
             \/ ClaimTokenlessUpload(c) \/ ReleaseTokenlessUpload(c)
      PROVE  StoreInv' /\ [PG!Next]_PG!vars
  <2>1. StoreInv' /\ PG!Serve(c)
    BY <1>3, RepoCalls, WorkspaceCalls, AccountCalls, ReportCalls
  <2>2. call' = c
    BY <2>1, ServedIsCalled
  <2>3. c \in UNION Families
    BY CallTypes
  <2> QED BY <2>1, <2>2, <2>3 DEF PG!Next
<1> QED BY <1>1, <1>2, <1>3 DEF StoreNext

\* What the in-memory store keeps from its first call on: ids come from
\* counters, names and tokens are unique, seats, sessions and reports belong to
\* what is there, and a lease or pushed version to a report there is or to a
\* repo that is gone.
THEOREM StoreIsSound == StoreSpec => []StoreInv
<1>1. StoreInv /\ [StoreNext]_storeVars => StoreInv'
  BY StoreSteps
<1> QED BY <1>1, StartsEmpty, PTL DEF StoreSpec

\* Every call on the in-memory store answers as the Postgres store may answer
\* it and leaves what Postgres would, for any calls, ids and clock.
THEOREM MemoryImplementsPostgres == StoreSpec => ImplementsPostgres
<1>1. StoreInv /\ [StoreNext]_storeVars => StoreInv' /\ [PG!Next]_PG!vars
  BY StoreSteps
<1> QED BY <1>1, StartsEmpty, PTL DEF StoreSpec, ImplementsPostgres, PG!Spec

\* Every query reads the same rows, in the same order, from both stores.
THEOREM QueriesAnswerAlike == StoreSpec => []SameReads
<1>1. StoreInv => SameReads
  BY ReadsAlike
<1> QED BY <1>1, StoreIsSound, PTL

----------------------------------------------------------------------------
(* The grants of a workspace (GrantRefresh).                                  *)

\* What TypeOK says of the variables the argument uses.
Types ==
    /\ grant \in GrantRow
    /\ live \in [Consent -> Nat]
    /\ pc \in [Actor -> RequestState \cup OwnerState]
    /\ token \in [Request -> RefreshToken]
    /\ lost \in BOOLEAN

\* The grant lock is the request's that works under it.
LockInv ==
    \A r \in Request : pc[r] \in {"locked", "asking", "answered"} => lock = r

\* Tokens have a consent and a number; a consent not yet stored has no token
\* but the one its callback carries.
StageInv ==
    /\ \A r \in Request :
        pc[r] \in {"asking", "answered"} =>
            token[r].consent \in Consent /\ token[r].number > 0
    /\ Connected => grant.number > 0
    /\ \A c \in Consent :
        pc[c] \in {"idle", "exchanged"} =>
            /\ grant.consent /= c
            /\ live[c] <= 1
            /\ \A r \in Request : token[r].consent /= c

\* What a request sends or has got is its consent's newest token, and so is
\* what is stored, unless a request has its successor in hand.
TokenInv ==
    ~lost =>
        /\ \A r \in Request :
            pc[r] \in {"asking", "answered"} =>
                live[token[r].consent] \in {0, token[r].number}
        /\ Connected =>
            \/ live[grant.consent] \in {0, grant.number}
            \/ \E r \in Request :
                pc[r] = "answered" /\ token[r].consent = grant.consent

IndInv == Types /\ LockInv /\ StageInv /\ TokenInv

\* The first state satisfies the invariant.
LEMMA InitInv == Init => IndInv
<1> SUFFICES ASSUME Init PROVE IndInv
  OBVIOUS
<1>1. Types
  BY FirstAssumption DEF Init, Types, GrantRow, RefreshToken, RequestState,
     NoToken
<1>2. LockInv /\ StageInv
  BY FirstAssumption, NoConsentAssumption, ActorAssumption DEF Init, LockInv,
     StageInv, NoToken, Actor
<1>3. TokenInv
  BY FirstAssumption, ActorAssumption DEF Init, TokenInv, Actor
<1> QED BY <1>1, <1>2, <1>3 DEF IndInv

\* Every step keeps the types.
LEMMA TypesStep == IndInv /\ [Next]_vars => Types'
<1> SUFFICES ASSUME IndInv, [Next]_vars PROVE Types'
  OBVIOUS
<1> USE DEF IndInv, Actor, Goto
<1>1. ASSUME NEW r \in Request, ReadWorkspace(r) PROVE Types'
  BY <1>1 DEF ReadWorkspace, Types, RequestState
<1>2. ASSUME NEW r \in Request, CacheHit(r) PROVE Types'
  BY <1>2 DEF CacheHit, End, Types, RefreshToken, RequestState, NoToken
<1>3. ASSUME NEW r \in Request, CacheMiss(r) PROVE Types'
  BY <1>3 DEF CacheMiss, Types, RequestState
<1>4. ASSUME NEW r \in Request, GrantLock(r) PROVE Types'
  BY <1>4 DEF GrantLock, Types, RequestState
<1>5. ASSUME NEW r \in Request, Reread(r) PROVE Types'
  BY <1>5 DEF Reread, Types, GrantRow, RefreshToken, RequestState
<1>6. ASSUME NEW r \in Request, RereadDisconnected(r) PROVE Types'
  BY <1>6 DEF RereadDisconnected, End, Types, RefreshToken, RequestState,
     NoToken
<1>7. ASSUME NEW r \in Request, RereadUnreadable(r) PROVE Types'
  BY <1>7 DEF RereadUnreadable, Types, RequestState
<1>8. ASSUME NEW r \in Request, RefreshAnswered(r) PROVE Types'
  <2>1. token[r].consent \in Consent /\ token[r].number \in Nat
    BY <1>8 DEF RefreshAnswered, StageInv, Types, RefreshToken
  <2>2. live' \in [Consent -> Nat]
    BY <1>8, <2>1 DEF RefreshAnswered, Types
  <2>3. [token[r] EXCEPT !.number = @ + 1] \in RefreshToken
    BY <2>1 DEF Types, RefreshToken
  <2>4. token' = [token EXCEPT ![r] = [token[r] EXCEPT !.number = @ + 1]]
    BY <1>8 DEF RefreshAnswered, Types
  <2>5. token' \in [Request -> RefreshToken]
    BY <2>3, <2>4 DEF Types
  <2>6. pc' \in [Actor -> RequestState \cup OwnerState]
    BY <1>8 DEF RefreshAnswered, Types, RequestState
  <2> QED BY <1>8, <2>2, <2>5, <2>6 DEF RefreshAnswered, Types
<1>9. ASSUME NEW r \in Request, RefreshRefused(r) PROVE Types'
  BY <1>9 DEF RefreshRefused, Types, RequestState
<1>10. ASSUME NEW r \in Request, Persist(r) PROVE Types'
  BY <1>10 DEF Persist, End, Types, GrantRow, RefreshToken, RequestState,
     NoToken
<1>11. ASSUME NEW r \in Request, MarkGrantBroken(r) PROVE Types'
  BY <1>11 DEF MarkGrantBroken, End, Types, GrantRow, RefreshToken,
     RequestState, NoToken
<1>12. ASSUME NEW r \in Request, RefreshFails(r) PROVE Types'
  <2>1. live' \in [Consent -> Nat] /\ lost' \in BOOLEAN
    <3>1. CASE UNCHANGED <<live, lost>>
      BY <3>1 DEF Types
    <3>2. CASE /\ pc[r] = "asking"
               /\ live' = [live EXCEPT ![token[r].consent] = @ + 1]
               /\ lost' = TRUE
      <4>1. token[r].consent \in Consent
        BY <3>2 DEF StageInv
      <4> QED BY <3>2, <4>1 DEF Types
    <3> QED BY <1>12, <3>1, <3>2 DEF RefreshFails
  <2>2. token' \in [Request -> RefreshToken]
    BY <1>12 DEF RefreshFails, End, Types, RefreshToken, NoToken
  <2>3. pc' \in [Actor -> RequestState \cup OwnerState]
    BY <1>12 DEF RefreshFails, End, Types, RequestState
  <2> QED BY <1>12, <2>1, <2>2, <2>3 DEF RefreshFails, Types
<1>13. ASSUME NEW r \in Request, PersistFails(r) PROVE Types'
  BY <1>13 DEF PersistFails, End, Types, RefreshToken, RequestState, NoToken
<1>14. ASSUME NEW c \in Consent, Exchange(c) PROVE Types'
  BY <1>14 DEF Exchange, Types, OwnerState
<1>15. ASSUME NEW c \in Consent, ConnectStore(c) PROVE Types'
  BY <1>15 DEF ConnectStore, Types, GrantRow, OwnerState
<1>16. ASSUME NEW c \in Consent, ConnectCache(c) PROVE Types'
  BY <1>16 DEF ConnectCache, Types, RequestState
<1>17. ASSUME NEW c \in Consent, Revoke(c) PROVE Types'
  BY <1>17 DEF Revoke, Types, GrantRow
<1>18. ASSUME NEW d \in Disconnect, DisconnectStore(d) PROVE Types'
  BY <1>18 DEF DisconnectStore, NoGrant, Types, GrantRow, OwnerState
<1>19. ASSUME NEW d \in Disconnect, DropGrantToken(d) PROVE Types'
  BY <1>19 DEF DropGrantToken, Types, RequestState
<1>20. ASSUME NEW p \in Process, Expire(p) PROVE Types'
  BY <1>20 DEF Expire, Types, GrantRow
<1>21. ASSUME NEW p \in Process, Crash(p) PROVE Types'
  BY <1>21 DEF Crash, Types, RefreshToken, RequestState, NoToken
<1>22. CASE LoseKey
  BY <1>22 DEF LoseKey, Types, GrantRow
<1>23. CASE UNCHANGED vars
  BY <1>23 DEF vars, Types, GrantRow
<1> QED
  BY <1>1, <1>2, <1>3, <1>4, <1>5, <1>6, <1>7, <1>8, <1>9, <1>10, <1>11,
     <1>12, <1>13, <1>14, <1>15, <1>16, <1>17, <1>18, <1>19, <1>20, <1>21,
     <1>22, <1>23 DEF Next, RequestStep

\* Nobody works under a lock that is another's.
LEMMA LockStep == IndInv /\ [Next]_vars => LockInv'
<1> SUFFICES ASSUME IndInv, [Next]_vars PROVE LockInv'
  OBVIOUS
<1> USE DEF IndInv, Actor, Goto
<1>1. ASSUME NEW r \in Request, ReadWorkspace(r) PROVE LockInv'
  BY <1>1, ActorAssumption DEF ReadWorkspace, Types, LockInv
<1>2. ASSUME NEW r \in Request, CacheHit(r) PROVE LockInv'
  BY <1>2, ActorAssumption DEF CacheHit, End, Unlock, LockInv
<1>3. ASSUME NEW r \in Request, CacheMiss(r) PROVE LockInv'
  BY <1>3, ActorAssumption DEF CacheMiss, LockInv
<1>4. ASSUME NEW r \in Request, GrantLock(r) PROVE LockInv'
  <2>1. \A q \in Request : pc[q] \notin {"locked", "asking", "answered"}
    BY <1>4, NoOneAssumption DEF GrantLock, LockInv
  <2> QED BY <1>4, <2>1, ActorAssumption DEF GrantLock, LockInv
<1>5. ASSUME NEW r \in Request, Reread(r) PROVE LockInv'
  BY <1>5, ActorAssumption DEF Reread, LockInv
<1>6. ASSUME NEW r \in Request, RereadDisconnected(r) PROVE LockInv'
  BY <1>6, ActorAssumption DEF RereadDisconnected, End, Types, LockInv
<1>7. ASSUME NEW r \in Request, RereadUnreadable(r) PROVE LockInv'
  BY <1>7, ActorAssumption DEF RereadUnreadable, Types, LockInv
<1>8. ASSUME NEW r \in Request, RefreshAnswered(r) PROVE LockInv'
  BY <1>8, ActorAssumption DEF RefreshAnswered, LockInv
<1>9. ASSUME NEW r \in Request, RefreshRefused(r) PROVE LockInv'
  BY <1>9, ActorAssumption DEF RefreshRefused, Types, LockInv
<1>10. ASSUME NEW r \in Request, Persist(r) PROVE LockInv'
  BY <1>10, ActorAssumption DEF Persist, End, Types, LockInv
<1>11. ASSUME NEW r \in Request, MarkGrantBroken(r) PROVE LockInv'
  BY <1>11, ActorAssumption DEF MarkGrantBroken, End, Unlock, LockInv
<1>12. ASSUME NEW r \in Request, RefreshFails(r) PROVE LockInv'
  BY <1>12, ActorAssumption DEF RefreshFails, End, Unlock, Types, LockInv
<1>13. ASSUME NEW r \in Request, PersistFails(r) PROVE LockInv'
  BY <1>13, ActorAssumption DEF PersistFails, End, Types, LockInv
<1>14. ASSUME NEW c \in Consent, Exchange(c) PROVE LockInv'
  BY <1>14, ActorAssumption DEF Exchange, LockInv
<1>15. ASSUME NEW c \in Consent, ConnectStore(c) PROVE LockInv'
  BY <1>15, ActorAssumption DEF ConnectStore, LockInv
<1>16. ASSUME NEW c \in Consent, ConnectCache(c) PROVE LockInv'
  BY <1>16, ActorAssumption DEF ConnectCache, LockInv
<1>17. ASSUME NEW c \in Consent, Revoke(c) PROVE LockInv'
  BY <1>17, ActorAssumption DEF Revoke, LockInv
<1>18. ASSUME NEW d \in Disconnect, DisconnectStore(d) PROVE LockInv'
  BY <1>18, ActorAssumption DEF DisconnectStore, LockInv
<1>19. ASSUME NEW d \in Disconnect, DropGrantToken(d) PROVE LockInv'
  BY <1>19, ActorAssumption DEF DropGrantToken, LockInv
<1>20. ASSUME NEW p \in Process, Expire(p) PROVE LockInv'
  BY <1>20, ActorAssumption DEF Expire, LockInv
<1>21. ASSUME NEW p \in Process, Crash(p) PROVE LockInv'
  BY <1>21, ActorAssumption DEF Crash, LockInv
<1>22. CASE LoseKey
  BY <1>22, ActorAssumption DEF LoseKey, LockInv
<1>23. CASE UNCHANGED vars
  BY <1>23 DEF vars, LockInv
<1> QED
  BY <1>1, <1>2, <1>3, <1>4, <1>5, <1>6, <1>7, <1>8, <1>9, <1>10, <1>11,
     <1>12, <1>13, <1>14, <1>15, <1>16, <1>17, <1>18, <1>19, <1>20, <1>21,
     <1>22, <1>23 DEF Next, RequestStep

\* Tokens come from consents that were stored.
LEMMA StageStep == IndInv /\ [Next]_vars => StageInv'
<1> SUFFICES ASSUME IndInv, [Next]_vars PROVE StageInv'
  OBVIOUS
<1> USE DEF IndInv, Actor, Goto
<1>1. ASSUME NEW r \in Request, ReadWorkspace(r) PROVE StageInv'
  BY <1>1, ActorAssumption, NoConsentAssumption DEF ReadWorkspace, Types,
     StageInv, Connected
<1>2. ASSUME NEW r \in Request, CacheHit(r) PROVE StageInv'
  BY <1>2, ActorAssumption, NoConsentAssumption DEF CacheHit, End, StageInv,
     Connected, NoToken
<1>3. ASSUME NEW r \in Request, CacheMiss(r) PROVE StageInv'
  BY <1>3, ActorAssumption, NoConsentAssumption DEF CacheMiss, StageInv,
     Connected
<1>4. ASSUME NEW r \in Request, GrantLock(r) PROVE StageInv'
  BY <1>4, ActorAssumption, NoConsentAssumption DEF GrantLock, StageInv,
     Connected
<1>5. ASSUME NEW r \in Request, Reread(r) PROVE StageInv'
  BY <1>5, ActorAssumption, NoConsentAssumption DEF Reread, Types, GrantRow,
     StageInv, Connected
<1>6. ASSUME NEW r \in Request, RereadDisconnected(r) PROVE StageInv'
  BY <1>6, ActorAssumption, NoConsentAssumption DEF RereadDisconnected, End,
     StageInv, Connected, NoToken
<1>7. ASSUME NEW r \in Request, RereadUnreadable(r) PROVE StageInv'
  BY <1>7, ActorAssumption, NoConsentAssumption DEF RereadUnreadable, StageInv
<1>8. ASSUME NEW r \in Request, RefreshAnswered(r) PROVE StageInv'
  BY <1>8, ActorAssumption, NoConsentAssumption DEF RefreshAnswered, IsLive,
     Types, StageInv, Connected
<1>9. ASSUME NEW r \in Request, RefreshRefused(r) PROVE StageInv'
  BY <1>9, ActorAssumption, NoConsentAssumption DEF RefreshRefused, StageInv,
     Connected
<1>10. ASSUME NEW r \in Request, Persist(r) PROVE StageInv'
  BY <1>10, ActorAssumption, NoConsentAssumption DEF Persist, End, Types,
     StageInv, NoToken
<1>11. ASSUME NEW r \in Request, MarkGrantBroken(r) PROVE StageInv'
  BY <1>11, ActorAssumption, NoConsentAssumption DEF MarkGrantBroken, End,
     StageInv, Connected, NoToken
<1>12. ASSUME NEW r \in Request, RefreshFails(r) PROVE StageInv'
  BY <1>12, ActorAssumption, NoConsentAssumption DEF RefreshFails, End, Types,
     StageInv, Connected, NoToken
<1>13. ASSUME NEW r \in Request, PersistFails(r) PROVE StageInv'
  BY <1>13, ActorAssumption, NoConsentAssumption DEF PersistFails, End, Types,
     StageInv, Connected, NoToken
<1>14. ASSUME NEW c \in Consent, Exchange(c) PROVE StageInv'
  BY <1>14, ActorAssumption, NoConsentAssumption DEF Exchange, StageInv,
     Connected
<1>15. ASSUME NEW c \in Consent, ConnectStore(c) PROVE StageInv'
  BY <1>15, ActorAssumption, NoConsentAssumption DEF ConnectStore, Types,
     StageInv
<1>16. ASSUME NEW c \in Consent, ConnectCache(c) PROVE StageInv'
  BY <1>16, ActorAssumption, NoConsentAssumption DEF ConnectCache, StageInv,
     Connected
<1>17. ASSUME NEW c \in Consent, Revoke(c) PROVE StageInv'
  BY <1>17, ActorAssumption, NoConsentAssumption DEF Revoke, StageInv,
     Connected
<1>18. ASSUME NEW d \in Disconnect, DisconnectStore(d) PROVE StageInv'
  BY <1>18, ActorAssumption, NoConsentAssumption DEF DisconnectStore, NoGrant,
     StageInv, Connected
<1>19. ASSUME NEW d \in Disconnect, DropGrantToken(d) PROVE StageInv'
  BY <1>19, ActorAssumption, NoConsentAssumption DEF DropGrantToken, StageInv,
     Connected
<1>20. ASSUME NEW p \in Process, Expire(p) PROVE StageInv'
  BY <1>20, ActorAssumption, NoConsentAssumption DEF Expire, StageInv,
     Connected
<1>21. ASSUME NEW p \in Process, Crash(p) PROVE StageInv'
  BY <1>21, ActorAssumption, NoConsentAssumption DEF Crash, StageInv,
     Connected, NoToken
<1>22. CASE LoseKey
  BY <1>22, ActorAssumption, NoConsentAssumption DEF LoseKey, StageInv
<1>23. CASE UNCHANGED vars
  BY <1>23 DEF vars, StageInv, Connected
<1> QED
  BY <1>1, <1>2, <1>3, <1>4, <1>5, <1>6, <1>7, <1>8, <1>9, <1>10, <1>11,
     <1>12, <1>13, <1>14, <1>15, <1>16, <1>17, <1>18, <1>19, <1>20, <1>21,
     <1>22, <1>23 DEF Next, RequestStep

\* No step leaves an older token where the newest belongs.
LEMMA TokenStep == IndInv /\ [Next]_vars => TokenInv'
<1> SUFFICES ASSUME IndInv, [Next]_vars PROVE TokenInv'
  OBVIOUS
<1> USE DEF IndInv, Actor, Goto
<1>1. ASSUME NEW r \in Request, ReadWorkspace(r) PROVE TokenInv'
  BY <1>1, ActorAssumption, NoConsentAssumption DEF ReadWorkspace, Types,
     TokenInv, Connected
<1>2. ASSUME NEW r \in Request, CacheHit(r) PROVE TokenInv'
  BY <1>2, ActorAssumption, NoConsentAssumption DEF CacheHit, End, TokenInv,
     Connected
<1>3. ASSUME NEW r \in Request, CacheMiss(r) PROVE TokenInv'
  BY <1>3, ActorAssumption, NoConsentAssumption DEF CacheMiss, TokenInv,
     Connected
<1>4. ASSUME NEW r \in Request, GrantLock(r) PROVE TokenInv'
  BY <1>4, ActorAssumption, NoConsentAssumption DEF GrantLock, TokenInv,
     Connected
<1>5. ASSUME NEW r \in Request, Reread(r) PROVE TokenInv'
  BY <1>5, ActorAssumption, NoConsentAssumption DEF Reread, Types, LockInv,
     TokenInv
<1>6. ASSUME NEW r \in Request, RereadDisconnected(r) PROVE TokenInv'
  BY <1>6, ActorAssumption, NoConsentAssumption DEF RereadDisconnected, End,
     TokenInv, Connected
<1>7. ASSUME NEW r \in Request, RereadUnreadable(r) PROVE TokenInv'
  BY <1>7, ActorAssumption, NoConsentAssumption DEF RereadUnreadable, TokenInv
<1>8. ASSUME NEW r \in Request, RefreshAnswered(r) PROVE TokenInv'
  BY <1>8, ActorAssumption, NoConsentAssumption DEF RefreshAnswered, IsLive,
     Types, LockInv, StageInv, TokenInv, Connected
<1>9. ASSUME NEW r \in Request, RefreshRefused(r) PROVE TokenInv'
  BY <1>9, ActorAssumption, NoConsentAssumption DEF RefreshRefused, TokenInv,
     Connected
<1>10. ASSUME NEW r \in Request, Persist(r) PROVE TokenInv'
  BY <1>10, ActorAssumption, NoConsentAssumption DEF Persist, End, Types,
     TokenInv
<1>11. ASSUME NEW r \in Request, MarkGrantBroken(r) PROVE TokenInv'
  BY <1>11, ActorAssumption, NoConsentAssumption DEF MarkGrantBroken, End,
     TokenInv, Connected
<1>12. ASSUME NEW r \in Request, RefreshFails(r) PROVE TokenInv'
  BY <1>12, ActorAssumption, NoConsentAssumption DEF RefreshFails, End, Types,
     TokenInv, Connected
<1>13. ASSUME NEW r \in Request, PersistFails(r) PROVE TokenInv'
  BY <1>13, ActorAssumption, NoConsentAssumption DEF PersistFails, TokenInv
<1>14. ASSUME NEW c \in Consent, Exchange(c) PROVE TokenInv'
  BY <1>14, ActorAssumption, NoConsentAssumption DEF Exchange, StageInv,
     TokenInv, Connected
<1>15. ASSUME NEW c \in Consent, ConnectStore(c) PROVE TokenInv'
  BY <1>15, ActorAssumption, NoConsentAssumption DEF ConnectStore, Types,
     StageInv, TokenInv
<1>16. ASSUME NEW c \in Consent, ConnectCache(c) PROVE TokenInv'
  BY <1>16, ActorAssumption, NoConsentAssumption DEF ConnectCache, TokenInv,
     Connected
<1>17. ASSUME NEW c \in Consent, Revoke(c) PROVE TokenInv'
  BY <1>17, ActorAssumption, NoConsentAssumption DEF Revoke, TokenInv,
     Connected
<1>18. ASSUME NEW d \in Disconnect, DisconnectStore(d) PROVE TokenInv'
  BY <1>18, ActorAssumption, NoConsentAssumption DEF DisconnectStore, NoGrant,
     TokenInv, Connected
<1>19. ASSUME NEW d \in Disconnect, DropGrantToken(d) PROVE TokenInv'
  BY <1>19, ActorAssumption, NoConsentAssumption DEF DropGrantToken, TokenInv,
     Connected
<1>20. ASSUME NEW p \in Process, Expire(p) PROVE TokenInv'
  BY <1>20, ActorAssumption, NoConsentAssumption DEF Expire, TokenInv,
     Connected
<1>21. ASSUME NEW p \in Process, Crash(p) PROVE TokenInv'
  BY <1>21, ActorAssumption, NoConsentAssumption DEF Crash, TokenInv,
     Connected
<1>22. CASE LoseKey
  BY <1>22, ActorAssumption, NoConsentAssumption DEF LoseKey, TokenInv
<1>23. CASE UNCHANGED vars
  BY <1>23 DEF vars, TokenInv, Connected
<1> QED
  BY <1>1, <1>2, <1>3, <1>4, <1>5, <1>6, <1>7, <1>8, <1>9, <1>10, <1>11,
     <1>12, <1>13, <1>14, <1>15, <1>16, <1>17, <1>18, <1>19, <1>20, <1>21,
     <1>22, <1>23 DEF Next, RequestStep

\* The invariant holds in every state.
THEOREM Invariance == Spec => []IndInv
<1>1. IndInv /\ [Next]_vars => IndInv'
  BY TypesStep, LockStep, StageStep, TokenStep DEF IndInv
<1> QED BY InitInv, <1>1, PTL DEF Spec

----------------------------------------------------------------------------
\* Under the grant lock no process sends the forge a refresh token another has
\* spent, unless a rotation was lost or the consent revoked (WithGrantLock).
THEOREM TokensAreSpentOnce == Spec => []NoTokenSpentTwice
<1>1. IndInv => NoTokenSpentTwice
  BY DEF IndInv, TokenInv, StageInv, NoTokenSpentTwice, IsLive
<1> QED BY Invariance, <1>1, PTL

\* Whenever nobody holds the grant lock the stored refresh token is the live
\* one, unless a rotation was lost or the consent revoked (accessToken).
THEOREM StoredStaysLive == Spec => []StoredTokenIsLive
<1>1. IndInv => StoredTokenIsLive
  BY NoOneAssumption DEF IndInv, LockInv, TokenInv, StoredTokenIsLive
<1> QED BY Invariance, <1>1, PTL

----------------------------------------------------------------------------
(* Who is told that the grant is broken. *)

\* What Types leaves out: the lock, the caches and what a request has read.
CopyInv ==
    /\ readable \in BOOLEAN
    /\ lock \in Request \cup {NoOne}
    /\ cache \in [Process -> Consent \cup {NoConsent}]
    /\ copy \in [Request -> GrantRow]

\* A request that got past its read of the row has read a consent.
ReadInv ==
    \A r \in Request :
        pc[r] \notin {"idle", "done"} => copy[r].consent \in Consent

\* The flag, and a request that is about to set it, is of an account that was
\* refused.
FlagInv ==
    /\ refused \subseteq {AccountOf[c] : c \in Consent}
    /\ grant.broken => AccountOf[grant.consent] \in refused
    /\ \A r \in Request :
          pc[r] = "revoked" => AccountOf[copy[r].consent] \in refused

GrantInv == IndInv /\ CopyInv /\ ReadInv /\ FlagInv

\* A cache entry is a consent or nothing.
LEMMA CachePutType ==
  ASSUME CopyInv, NEW a, NEW c \in Consent \cup {NoConsent}, CachePut(a, c)
  PROVE cache' \in [Process -> Consent \cup {NoConsent}]
BY DEF CopyInv, CachePut

\* Every step keeps the types of what Types leaves out.
LEMMA CopyStep == GrantInv /\ [Next]_vars => CopyInv'
<1> SUFFICES ASSUME GrantInv, [Next]_vars PROVE CopyInv'
  OBVIOUS
<1> USE DEF GrantInv, IndInv
<1>1. ASSUME NEW r \in Request, ReadWorkspace(r) PROVE CopyInv'
  <2> DEFINE row == [grant EXCEPT !.broken = grant.broken \/ ~readable]
  <2>1. row \in GrantRow
    BY DEF Types, GrantRow
  <2>2. UNCHANGED copy \/ copy' = [copy EXCEPT ![r] = row]
    BY <1>1 DEF ReadWorkspace
  <2> HIDE DEF row
  <2>3. copy' \in [Request -> GrantRow]
    BY <2>1, <2>2 DEF CopyInv
  <2> QED BY <1>1, <2>3 DEF ReadWorkspace, CopyInv
<1>2. ASSUME NEW r \in Request, CacheHit(r) PROVE CopyInv'
  BY <1>2, NoConsentAssumption DEF CacheHit, End, Unlock, CopyInv, GrantRow,
     NoGrant
<1>3. ASSUME NEW r \in Request, CacheMiss(r) PROVE CopyInv'
  BY <1>3, NoConsentAssumption DEF CacheMiss, CopyInv
<1>4. ASSUME NEW r \in Request, GrantLock(r) PROVE CopyInv'
  BY <1>4, NoConsentAssumption DEF GrantLock, CopyInv
<1>5. ASSUME NEW r \in Request, Reread(r) PROVE CopyInv'
  BY <1>5, NoConsentAssumption DEF Reread, CopyInv
<1>6. ASSUME NEW r \in Request, RereadDisconnected(r) PROVE CopyInv'
  BY <1>6, NoConsentAssumption DEF RereadDisconnected, End, Unlock, CopyInv,
     GrantRow, NoGrant
<1>7. ASSUME NEW r \in Request, RereadUnreadable(r) PROVE CopyInv'
  BY <1>7, NoConsentAssumption DEF RereadUnreadable, Unlock, CopyInv
<1>8. ASSUME NEW r \in Request, RefreshAnswered(r) PROVE CopyInv'
  BY <1>8, NoConsentAssumption DEF RefreshAnswered, CopyInv
<1>9. ASSUME NEW r \in Request, RefreshRefused(r) PROVE CopyInv'
  BY <1>9, NoConsentAssumption DEF RefreshRefused, Unlock, CopyInv
<1>10. ASSUME NEW r \in Request, Persist(r) PROVE CopyInv'
  <2>1. token[r].consent \in Consent \cup {NoConsent}
    BY DEF Types, RefreshToken
  <2>2. cache' \in [Process -> Consent \cup {NoConsent}]
    BY <1>10, <2>1, CachePutType DEF Persist
  <2> QED BY <1>10, <2>2 DEF Persist, End, Unlock, CopyInv, GrantRow, NoGrant
<1>11. ASSUME NEW r \in Request, MarkGrantBroken(r) PROVE CopyInv'
  BY <1>11, NoConsentAssumption DEF MarkGrantBroken, End, Unlock, CopyInv,
     GrantRow, NoGrant
<1>12. ASSUME NEW r \in Request, RefreshFails(r) PROVE CopyInv'
  BY <1>12, NoConsentAssumption DEF RefreshFails, End, Unlock, CopyInv,
     GrantRow, NoGrant
<1>13. ASSUME NEW r \in Request, PersistFails(r) PROVE CopyInv'
  <2>1. token[r].consent \in Consent \cup {NoConsent}
    BY DEF Types, RefreshToken
  <2>2. cache' \in [Process -> Consent \cup {NoConsent}]
    BY <1>13, <2>1, CachePutType DEF PersistFails
  <2> QED BY <1>13, <2>2 DEF PersistFails, End, Unlock, CopyInv, GrantRow,
         NoGrant
<1>14. ASSUME NEW c \in Consent, Exchange(c) PROVE CopyInv'
  BY <1>14, NoConsentAssumption DEF Exchange, CopyInv
<1>15. ASSUME NEW c \in Consent, ConnectStore(c) PROVE CopyInv'
  BY <1>15, NoConsentAssumption DEF ConnectStore, CopyInv
<1>16. ASSUME NEW c \in Consent, ConnectCache(c) PROVE CopyInv'
  BY <1>16, NoConsentAssumption DEF ConnectCache, CachePut, CopyInv
<1>17. ASSUME NEW c \in Consent, Revoke(c) PROVE CopyInv'
  BY <1>17, NoConsentAssumption DEF Revoke, CopyInv
<1>18. ASSUME NEW d \in Disconnect, DisconnectStore(d) PROVE CopyInv'
  BY <1>18, NoConsentAssumption DEF DisconnectStore, CopyInv
<1>19. ASSUME NEW d \in Disconnect, DropGrantToken(d) PROVE CopyInv'
  BY <1>19, NoConsentAssumption DEF DropGrantToken, CachePut, CopyInv
<1>20. ASSUME NEW p \in Process, Expire(p) PROVE CopyInv'
  BY <1>20, NoConsentAssumption DEF Expire, CopyInv
<1>21. ASSUME NEW p \in Process, Crash(p) PROVE CopyInv'
  BY <1>21, NoConsentAssumption DEF Crash, CopyInv, GrantRow, NoGrant
<1>22. CASE LoseKey
  BY <1>22, NoConsentAssumption DEF LoseKey, CopyInv
<1>23. CASE UNCHANGED vars
  BY <1>23, NoConsentAssumption DEF vars, CopyInv
<1> QED
  BY <1>1, <1>2, <1>3, <1>4, <1>5, <1>6, <1>7, <1>8, <1>9, <1>10, <1>11,
     <1>12, <1>13, <1>14, <1>15, <1>16, <1>17, <1>18, <1>19, <1>20, <1>21,
     <1>22, <1>23 DEF Next, RequestStep

\* A request keeps what it read until it ends.
LEMMA ReadStep == GrantInv /\ [Next]_vars => ReadInv'
<1> SUFFICES ASSUME GrantInv, [Next]_vars PROVE ReadInv'
  OBVIOUS
<1> USE DEF GrantInv, IndInv
<1>1. ASSUME NEW r \in Request, ReadWorkspace(r) PROVE ReadInv'
  <2> DEFINE row == [grant EXCEPT !.broken = grant.broken \/ ~readable]
  <2>1. row.consent = grant.consent
    BY DEF Types, GrantRow
  <2>2. \/ UNCHANGED copy /\ Goto(r, "done")
        \/ Connected /\ copy' = [copy EXCEPT ![r] = row] /\ Goto(r, "read")
    BY <1>1 DEF ReadWorkspace
  <2> HIDE DEF row
  <2>3. CASE UNCHANGED copy /\ Goto(r, "done")
    BY <2>3 DEF Goto, ReadInv
  <2>4. CASE /\ Connected
             /\ copy' = [copy EXCEPT ![r] = row]
             /\ Goto(r, "read")
    <3>1. row.consent \in Consent
      BY <2>1, <2>4 DEF Connected, Types, GrantRow
    <3> QED BY <2>4, <3>1 DEF Goto, CopyInv, ReadInv
  <2> QED BY <2>2, <2>3, <2>4
<1>2. ASSUME NEW r \in Request, CacheHit(r) PROVE ReadInv'
  BY <1>2, ActorAssumption DEF CacheHit, End, Goto, Actor, ReadInv, Types
<1>3. ASSUME NEW r \in Request, CacheMiss(r) PROVE ReadInv'
  BY <1>3, ActorAssumption DEF CacheMiss, Goto, ReadInv
<1>4. ASSUME NEW r \in Request, GrantLock(r) PROVE ReadInv'
  BY <1>4, ActorAssumption DEF GrantLock, Goto, ReadInv
<1>5. ASSUME NEW r \in Request, Reread(r) PROVE ReadInv'
  BY <1>5, ActorAssumption DEF Reread, Goto, ReadInv
<1>6. ASSUME NEW r \in Request, RereadDisconnected(r) PROVE ReadInv'
  BY <1>6, ActorAssumption DEF RereadDisconnected, End, Goto, Actor, ReadInv,
     Types
<1>7. ASSUME NEW r \in Request, RereadUnreadable(r) PROVE ReadInv'
  BY <1>7, ActorAssumption DEF RereadUnreadable, Goto, ReadInv
<1>8. ASSUME NEW r \in Request, RefreshAnswered(r) PROVE ReadInv'
  BY <1>8, ActorAssumption DEF RefreshAnswered, Goto, ReadInv
<1>9. ASSUME NEW r \in Request, RefreshRefused(r) PROVE ReadInv'
  BY <1>9, ActorAssumption DEF RefreshRefused, Goto, ReadInv
<1>10. ASSUME NEW r \in Request, Persist(r) PROVE ReadInv'
  BY <1>10, ActorAssumption DEF Persist, End, Goto, Actor, ReadInv, Types
<1>11. ASSUME NEW r \in Request, MarkGrantBroken(r) PROVE ReadInv'
  BY <1>11, ActorAssumption DEF MarkGrantBroken, End, Goto, Actor, ReadInv,
     Types
<1>12. ASSUME NEW r \in Request, RefreshFails(r) PROVE ReadInv'
  BY <1>12, ActorAssumption DEF RefreshFails, End, Goto, Actor, ReadInv, Types
<1>13. ASSUME NEW r \in Request, PersistFails(r) PROVE ReadInv'
  BY <1>13, ActorAssumption DEF PersistFails, End, Goto, Actor, ReadInv, Types
<1>14. ASSUME NEW c \in Consent, Exchange(c) PROVE ReadInv'
  BY <1>14, ActorAssumption DEF Exchange, Goto, ReadInv
<1>15. ASSUME NEW c \in Consent, ConnectStore(c) PROVE ReadInv'
  BY <1>15, ActorAssumption DEF ConnectStore, Goto, ReadInv
<1>16. ASSUME NEW c \in Consent, ConnectCache(c) PROVE ReadInv'
  BY <1>16, ActorAssumption DEF ConnectCache, Goto, ReadInv
<1>17. ASSUME NEW c \in Consent, Revoke(c) PROVE ReadInv'
  BY <1>17, ActorAssumption DEF Revoke, ReadInv
<1>18. ASSUME NEW d \in Disconnect, DisconnectStore(d) PROVE ReadInv'
  BY <1>18, ActorAssumption DEF DisconnectStore, Goto, ReadInv
<1>19. ASSUME NEW d \in Disconnect, DropGrantToken(d) PROVE ReadInv'
  BY <1>19, ActorAssumption DEF DropGrantToken, Goto, ReadInv
<1>20. ASSUME NEW p \in Process, Expire(p) PROVE ReadInv'
  BY <1>20, ActorAssumption DEF Expire, ReadInv
<1>21. ASSUME NEW p \in Process, Crash(p) PROVE ReadInv'
  BY <1>21, ActorAssumption DEF Crash, Actor, ReadInv
<1>22. CASE LoseKey
  BY <1>22, ActorAssumption DEF LoseKey, ReadInv
<1>23. CASE UNCHANGED vars
  BY <1>23, ActorAssumption DEF vars, ReadInv
<1> QED
  BY <1>1, <1>2, <1>3, <1>4, <1>5, <1>6, <1>7, <1>8, <1>9, <1>10, <1>11,
     <1>12, <1>13, <1>14, <1>15, <1>16, <1>17, <1>18, <1>19, <1>20, <1>21,
     <1>22, <1>23 DEF Next, RequestStep

\* No step flags a grant, or sets out to, before its account was refused.
LEMMA FlagStep == GrantInv /\ [Next]_vars => FlagInv'
<1> SUFFICES ASSUME GrantInv, [Next]_vars PROVE FlagInv'
  OBVIOUS
<1> USE DEF GrantInv, IndInv
<1>1. ASSUME NEW r \in Request, ReadWorkspace(r) PROVE FlagInv'
  BY <1>1, ActorAssumption DEF ReadWorkspace, Goto, Actor, CopyInv, FlagInv,
     Types
<1>2. ASSUME NEW r \in Request, CacheHit(r) PROVE FlagInv'
  BY <1>2, ActorAssumption DEF CacheHit, End, Goto, FlagInv
<1>3. ASSUME NEW r \in Request, CacheMiss(r) PROVE FlagInv'
  BY <1>3, ActorAssumption DEF CacheMiss, Goto, FlagInv
<1>4. ASSUME NEW r \in Request, GrantLock(r) PROVE FlagInv'
  BY <1>4, ActorAssumption DEF GrantLock, Goto, FlagInv
<1>5. ASSUME NEW r \in Request, Reread(r) PROVE FlagInv'
  BY <1>5, ActorAssumption DEF Reread, Goto, FlagInv
<1>6. ASSUME NEW r \in Request, RereadDisconnected(r) PROVE FlagInv'
  BY <1>6, ActorAssumption DEF RereadDisconnected, End, Goto, FlagInv
<1>7. ASSUME NEW r \in Request, RereadUnreadable(r) PROVE FlagInv'
  BY <1>7, ActorAssumption DEF RereadUnreadable, Goto, ReadInv, FlagInv
<1>8. ASSUME NEW r \in Request, RefreshAnswered(r) PROVE FlagInv'
  BY <1>8, ActorAssumption DEF RefreshAnswered, Goto, FlagInv
<1>9. ASSUME NEW r \in Request, RefreshRefused(r) PROVE FlagInv'
  BY <1>9, ActorAssumption DEF RefreshRefused, Goto, ReadInv, FlagInv
<1>10. ASSUME NEW r \in Request, Persist(r) PROVE FlagInv'
  BY <1>10, ActorAssumption DEF Persist, End, Goto, FlagInv
<1>11. ASSUME NEW r \in Request, MarkGrantBroken(r) PROVE FlagInv'
  BY <1>11, ActorAssumption DEF MarkGrantBroken, End, Goto, Actor, FlagInv,
     Types, GrantRow
<1>12. ASSUME NEW r \in Request, RefreshFails(r) PROVE FlagInv'
  BY <1>12, ActorAssumption DEF RefreshFails, End, Goto, FlagInv
<1>13. ASSUME NEW r \in Request, PersistFails(r) PROVE FlagInv'
  BY <1>13, ActorAssumption DEF PersistFails, End, Goto, FlagInv
<1>14. ASSUME NEW c \in Consent, Exchange(c) PROVE FlagInv'
  BY <1>14, ActorAssumption DEF Exchange, Goto, FlagInv
<1>15. ASSUME NEW c \in Consent, ConnectStore(c) PROVE FlagInv'
  BY <1>15, ActorAssumption DEF ConnectStore, Goto, FlagInv
<1>16. ASSUME NEW c \in Consent, ConnectCache(c) PROVE FlagInv'
  BY <1>16, ActorAssumption DEF ConnectCache, Goto, FlagInv
<1>17. ASSUME NEW c \in Consent, Revoke(c) PROVE FlagInv'
  BY <1>17, ActorAssumption DEF Revoke, FlagInv
<1>18. ASSUME NEW d \in Disconnect, DisconnectStore(d) PROVE FlagInv'
  BY <1>18, ActorAssumption DEF DisconnectStore, NoGrant, Goto, FlagInv
<1>19. ASSUME NEW d \in Disconnect, DropGrantToken(d) PROVE FlagInv'
  BY <1>19, ActorAssumption DEF DropGrantToken, Goto, FlagInv
<1>20. ASSUME NEW p \in Process, Expire(p) PROVE FlagInv'
  BY <1>20, ActorAssumption DEF Expire, FlagInv
<1>21. ASSUME NEW p \in Process, Crash(p) PROVE FlagInv'
  BY <1>21, ActorAssumption DEF Crash, Actor, FlagInv
<1>22. CASE LoseKey
  BY <1>22, ActorAssumption DEF LoseKey, FlagInv
<1>23. CASE UNCHANGED vars
  BY <1>23, ActorAssumption DEF vars, FlagInv
<1> QED
  BY <1>1, <1>2, <1>3, <1>4, <1>5, <1>6, <1>7, <1>8, <1>9, <1>10, <1>11,
     <1>12, <1>13, <1>14, <1>15, <1>16, <1>17, <1>18, <1>19, <1>20, <1>21,
     <1>22, <1>23 DEF Next, RequestStep

\* The invariant holds in every state.
LEMMA GrantInvariance == Spec => []GrantInv
<1>1. Init => GrantInv
  <2> SUFFICES ASSUME Init PROVE GrantInv
    OBVIOUS
  <2>1. IndInv
    BY InitInv
  <2>2. CopyInv
    BY FirstAssumption DEF Init, CopyInv, GrantRow, NoGrant
  <2>3. ReadInv /\ FlagInv
    BY ActorAssumption DEF Init, ReadInv, FlagInv, Actor
  <2> QED BY <2>1, <2>2, <2>3 DEF GrantInv
<1>2. GrantInv /\ [Next]_vars => GrantInv'
  <2>1. GrantInv /\ [Next]_vars => IndInv'
    BY TypesStep, LockStep, StageStep, TokenStep DEF GrantInv, IndInv
  <2> QED BY <2>1, CopyStep, ReadStep, FlagStep DEF GrantInv
<1> QED BY <1>1, <1>2, PTL DEF Spec

\* The rows, the tokens, the caches and the requests' copies are what the module
\* says they are, and only accounts of consents are ever refused.
THEOREM TypeCorrect == Spec => []TypeOK
<1>1. GrantInv => TypeOK
  BY DEF GrantInv, IndInv, Types, CopyInv, FlagInv, TypeOK
<1> QED BY GrantInvariance, <1>1, PTL

\* A replacement is not blamed for its predecessor (markGrantBroken): a grant
\* flagged broken belongs to an account whose refresh was refused, whatever
\* connects, disconnects and crashes came between.
THEOREM BlamedWasRefused == Spec => []OnlyRefusedAccountIsBroken
<1>1. GrantInv => OnlyRefusedAccountIsBroken
  BY DEF GrantInv, FlagInv, OnlyRefusedAccountIsBroken
<1> QED BY GrantInvariance, <1>1, PTL

----------------------------------------------------------------------------
(* A refresh is one step. *)

\* A request that has the answer to a refresh of the stored grant has the token
\* the next refresh will spend; without one, the row has it.
LEMMA TokenInHand ==
    ASSUME LockInv, NEW r \in Request, pc[r] = "answered"
    PROVE  NextToken = IF token[r].consent = grant.consent
                       THEN token[r].number ELSE grant.number
BY DEF LockInv, NextToken, InHand

LEMMA NoTokenInHand ==
    ASSUME \A r \in Request : pc[r] /= "answered"
    PROVE  NextToken = grant.number
BY DEF NextToken, InHand

\* Nothing happens to the register while the row, the answers in hand, the forge
\* and the history stay as they are.
Stays ==
    /\ grant'.consent = grant.consent /\ grant'.number = grant.number
    /\ UNCHANGED <<live, lost>>
    /\ \A r \in Request :
        /\ pc'[r] = "answered" <=> pc[r] = "answered"
        /\ pc[r] = "answered" => token'[r] = token[r]

LEMMA RegisterStays ==
    ASSUME LockInv, LockInv', Stays
    PROVE  UNCHANGED Register!vars
<1>1. CASE \E r \in Request : pc[r] = "answered"
  <2>1. PICK r \in Request : pc[r] = "answered"
    BY <1>1
  <2>2. pc'[r] = "answered" /\ token'[r] = token[r]
    BY <2>1 DEF Stays
  <2>3. lock = r /\ lock' = r
    BY <2>1, <2>2 DEF LockInv
  <2>4. NextToken' = NextToken
    BY <2>1, <2>2, <2>3 DEF NextToken, InHand, Stays
  <2> QED BY <2>4 DEF Stays, Register!vars
<1>2. CASE \A r \in Request : pc[r] /= "answered"
  <2>1. \A r \in Request : pc'[r] /= "answered"
    BY <1>2 DEF Stays
  <2>2. NextToken = grant.number /\ NextToken' = grant'.number
    BY <1>2, <2>1 DEF NextToken, InHand
  <2> QED BY <2>2 DEF Stays, Register!vars
<1> QED BY <1>1, <1>2

LEMMA InitRegister == Init => Register!Init
<1> SUFFICES ASSUME Init PROVE Register!Init
  OBVIOUS
<1>1. NextToken = 1
  BY ActorAssumption DEF Init, NextToken, InHand, Actor
<1> QED BY <1>1 DEF Init, Register!Init

\* Every step is one of the register's, or none.
LEMMA RegisterStep == IndInv /\ IndInv' /\ [Next]_vars => [Register!Next]_(Register!vars)
<1> SUFFICES ASSUME IndInv, IndInv', [Next]_vars
             PROVE  Register!Next \/ UNCHANGED Register!vars
  OBVIOUS
<1>a. LockInv /\ LockInv' /\ Types /\ pc \in [Actor -> RequestState \cup OwnerState]
  BY DEF IndInv, Types
<1> USE DEF Goto, Actor
<1>1. ASSUME NEW r \in Request, ReadWorkspace(r)
      PROVE  Register!Next \/ UNCHANGED Register!vars
  <2>1. Stays
    BY <1>1, <1>a DEF ReadWorkspace, Stays
  <2> QED BY <1>a, <2>1, RegisterStays
<1>2. ASSUME NEW r \in Request, CacheHit(r)
      PROVE  Register!Next \/ UNCHANGED Register!vars
  <2>1. Stays
    BY <1>2, <1>a DEF CacheHit, End, Stays
  <2> QED BY <1>a, <2>1, RegisterStays
<1>3. ASSUME NEW r \in Request, CacheMiss(r)
      PROVE  Register!Next \/ UNCHANGED Register!vars
  <2>1. Stays
    BY <1>3, <1>a DEF CacheMiss, Stays
  <2> QED BY <1>a, <2>1, RegisterStays
<1>4. ASSUME NEW r \in Request, GrantLock(r)
      PROVE  Register!Next \/ UNCHANGED Register!vars
  <2>1. Stays
    BY <1>4, <1>a DEF GrantLock, Stays
  <2> QED BY <1>a, <2>1, RegisterStays
<1>5. ASSUME NEW r \in Request, Reread(r)
      PROVE  Register!Next \/ UNCHANGED Register!vars
  <2>1. Stays
    BY <1>5, <1>a DEF Reread, Stays
  <2> QED BY <1>a, <2>1, RegisterStays
<1>6. ASSUME NEW r \in Request, RereadDisconnected(r)
      PROVE  Register!Next \/ UNCHANGED Register!vars
  <2>1. Stays
    BY <1>6, <1>a DEF RereadDisconnected, End, Stays
  <2> QED BY <1>a, <2>1, RegisterStays
<1>7. ASSUME NEW r \in Request, RereadUnreadable(r)
      PROVE  Register!Next \/ UNCHANGED Register!vars
  <2>1. Stays
    BY <1>7, <1>a DEF RereadUnreadable, Stays
  <2> QED BY <1>a, <2>1, RegisterStays
<1>8. ASSUME NEW r \in Request, RefreshAnswered(r)
      PROVE  Register!Next \/ UNCHANGED Register!vars
  <2>1. token[r].consent \in Consent /\ live[token[r].consent] = token[r].number
    BY <1>8, <1>a DEF RefreshAnswered, IsLive, IndInv, StageInv
  <2>2. \A q \in Request : pc[q] /= "answered"
    BY <1>8, <1>a DEF RefreshAnswered, LockInv
  <2>3. pc'[r] = "answered" /\ grant' = grant /\ lost' = lost
    BY <1>8, <1>a DEF RefreshAnswered
  <2>4. token'[r].consent = token[r].consent /\ token'[r].number = token[r].number + 1
    BY <1>8, <1>a DEF RefreshAnswered, Types, RefreshToken
  <2>5. NextToken = grant.number
    BY <2>2, NoTokenInHand
  <2>6. NextToken' = IF token[r].consent = grant.consent
                     THEN live[token[r].consent] + 1 ELSE NextToken
    BY <1>a, <2>1, <2>3, <2>4, <2>5 DEF LockInv, NextToken, InHand
  <2>7. Register!Refresh(token[r].consent)
    BY <1>8, <2>1, <2>3, <2>6 DEF RefreshAnswered, IsLive, Register!Refresh
  <2> QED BY <2>1, <2>7 DEF Register!Next
<1>9. ASSUME NEW r \in Request, RefreshRefused(r)
      PROVE  Register!Next \/ UNCHANGED Register!vars
  <2>1. Stays
    BY <1>9, <1>a DEF RefreshRefused, Stays
  <2> QED BY <1>a, <2>1, RegisterStays
<1>10. ASSUME NEW r \in Request, Persist(r)
      PROVE  Register!Next \/ UNCHANGED Register!vars
  <2>1. token[r].consent \in Consent /\ token[r].number \in Nat \ {0}
    BY <1>10, <1>a DEF Persist, IndInv, StageInv, Types, RefreshToken
  <2>2. \A q \in Request : pc'[q] /= "answered"
    BY <1>10, <1>a DEF Persist, End, LockInv
  <2>3. grant'.consent = token[r].consent /\ grant'.number = token[r].number
    BY <1>10 DEF Persist
  <2>4. NextToken' = token[r].number
    BY <2>2, <2>3 DEF NextToken, InHand
  <2>5. CASE token[r].consent = grant.consent
    <3>1. NextToken = token[r].number
      BY <1>10, <1>a, <2>5, TokenInHand DEF Persist
    <3> QED BY <1>10, <2>3, <2>4, <2>5, <3>1 DEF Persist, Register!vars
  <2>6. CASE token[r].consent /= grant.consent
    <3>1. lost \/ live[token[r].consent] \in {0, token[r].number}
      BY <1>10 DEF Persist, IndInv, TokenInv
    <3>2. Register!Store(token[r].consent)
      BY <1>10, <2>1, <2>3, <2>4, <2>6, <3>1 DEF Persist, Register!Store
    <3> QED BY <2>1, <3>2 DEF Register!Next
  <2> QED BY <2>5, <2>6
<1>11. ASSUME NEW r \in Request, MarkGrantBroken(r)
      PROVE  Register!Next \/ UNCHANGED Register!vars
  <2>1. Stays
    BY <1>11, <1>a DEF MarkGrantBroken, End, Stays
  <2> QED BY <1>a, <2>1, RegisterStays
<1>12. ASSUME NEW r \in Request, RefreshFails(r)
      PROVE  Register!Next \/ UNCHANGED Register!vars
  <2>1. CASE UNCHANGED <<live, lost>>
    <3>1. Stays
      BY <1>12, <1>a, <2>1 DEF RefreshFails, End, Stays
    <3> QED BY <1>a, <3>1, RegisterStays
  <2>2. CASE /\ pc[r] = "asking"
             /\ live' = [live EXCEPT ![token[r].consent] = @ + 1]
             /\ lost' = TRUE
    <3>1. token[r].consent \in Consent
      BY <2>2 DEF IndInv, StageInv
    <3>2. \A q \in Request : pc'[q] /= "answered"
      BY <1>12, <1>a, <2>2 DEF RefreshFails, End, LockInv
    <3>3. NextToken' \in Nat /\ grant' = grant
      BY <1>12, <1>a, <3>2 DEF RefreshFails, NextToken, InHand, Types, GrantRow
    <3> QED BY <2>2, <3>1, <3>3 DEF Register!Lose, Register!Next
  <2> QED BY <1>12, <2>1, <2>2 DEF RefreshFails
<1>13. ASSUME NEW r \in Request, PersistFails(r)
      PROVE  Register!Next \/ UNCHANGED Register!vars
  <2>1. \A q \in Request : pc'[q] /= "answered"
    BY <1>13, <1>a DEF PersistFails, End, LockInv
  <2>2. NextToken' \in Nat /\ grant' = grant
    BY <1>13, <1>a, <2>1 DEF PersistFails, NextToken, InHand, Types, GrantRow
  <2> QED BY <1>13, <2>2 DEF PersistFails, Register!Lose, Register!Next
<1>14. ASSUME NEW c \in Consent, Exchange(c)
      PROVE  Register!Next \/ UNCHANGED Register!vars
  <2>1. grant.consent /= c
    BY <1>14 DEF Exchange, IndInv, StageInv
  <2>2. NextToken' = NextToken
    BY <1>14, <1>a, ActorAssumption DEF Exchange, NextToken, InHand
  <2> QED BY <1>14, <2>1, <2>2 DEF Exchange, Register!Exchange, Register!Next
<1>15. ASSUME NEW c \in Consent, ConnectStore(c)
      PROVE  Register!Next \/ UNCHANGED Register!vars
  <2>1. grant.consent /= c /\ live[c] \in {0, 1}
    BY <1>15, <1>a DEF ConnectStore, IndInv, StageInv, Types
  <2>2. \A q \in Request : token'[q].consent /= c
    BY <1>15 DEF ConnectStore, IndInv, StageInv
  <2>3. grant'.consent = c /\ grant'.number = 1 /\ UNCHANGED <<live, lost>>
    BY <1>15 DEF ConnectStore
  <2>4. NextToken' = 1
    BY <2>2, <2>3 DEF NextToken, InHand
  <2>5. Register!Store(c)
    BY <2>1, <2>3, <2>4 DEF Register!Store
  <2> QED BY <2>5 DEF Register!Next
<1>16. ASSUME NEW c \in Consent, ConnectCache(c)
      PROVE  Register!Next \/ UNCHANGED Register!vars
  <2>1. Stays
    BY <1>16, <1>a, ActorAssumption DEF ConnectCache, Stays
  <2> QED BY <1>a, <2>1, RegisterStays
<1>17. ASSUME NEW c \in Consent, Revoke(c)
      PROVE  Register!Next \/ UNCHANGED Register!vars
  <2>1. NextToken' = NextToken
    BY <1>17 DEF Revoke, NextToken, InHand
  <2> QED BY <1>17, <2>1 DEF Revoke, Register!Revoke, Register!Next
<1>18. ASSUME NEW d \in Disconnect, DisconnectStore(d)
      PROVE  Register!Next \/ UNCHANGED Register!vars
  <2>1. \A q \in Request : pc'[q] = "answered" => token'[q].consent \in Consent
    BY <1>a DEF IndInv, StageInv
  <2>2. grant'.consent = NoConsent /\ grant'.number = 0 /\ UNCHANGED <<live, lost>>
    BY <1>18 DEF DisconnectStore, NoGrant
  <2>3. NextToken' = 0
    BY <2>1, <2>2, NoConsentAssumption DEF NextToken, InHand
  <2> QED BY <2>2, <2>3 DEF Register!Remove, Register!Next
<1>19. ASSUME NEW d \in Disconnect, DropGrantToken(d)
      PROVE  Register!Next \/ UNCHANGED Register!vars
  <2>1. Stays
    BY <1>19, <1>a, ActorAssumption DEF DropGrantToken, Stays
  <2> QED BY <1>a, <2>1, RegisterStays
<1>20. ASSUME NEW p \in Process, Expire(p)
      PROVE  Register!Next \/ UNCHANGED Register!vars
  <2>1. Stays
    BY <1>20, <1>a DEF Expire, Stays
  <2> QED BY <1>a, <2>1, RegisterStays
<1>21. ASSUME NEW p \in Process, Crash(p)
      PROVE  Register!Next \/ UNCHANGED Register!vars
  <2>1. grant' = grant /\ live' = live
    BY <1>21 DEF Crash
  <2>2. CASE lost'
    <3>1. NextToken' \in Nat
      BY DEF IndInv, Types, GrantRow, RefreshToken, NextToken, InHand
    <3> QED BY <2>1, <2>2, <3>1 DEF Register!Lose, Register!Next
  <2>3. CASE ~lost'
    <3>1. \A r \in Request : pc[r] = "answered" => ProcessOf[r] /= p
      BY <1>21, <2>3 DEF Crash
    <3>2. lost' = lost
      BY <1>21, <1>a, <2>3 DEF Crash, IndInv, Types
    <3>3. Stays
      BY <1>21, <1>a, <2>1, <3>1, <3>2 DEF Crash, Stays
    <3> QED BY <1>a, <3>3, RegisterStays
  <2> QED BY <2>2, <2>3
<1>22. CASE LoseKey
  <2>1. Stays
    BY <1>22, <1>a DEF LoseKey, Stays
  <2> QED BY <1>a, <2>1, RegisterStays
<1>23. CASE UNCHANGED vars
  <2>1. Stays
    BY <1>23 DEF vars, Stays
  <2> QED BY <1>a, <2>1, RegisterStays
<1> QED
  BY <1>1, <1>2, <1>3, <1>4, <1>5, <1>6, <1>7, <1>8, <1>9, <1>10, <1>11, <1>12, <1>13, <1>14, <1>15, <1>16, <1>17, <1>18, <1>19, <1>20, <1>21, <1>22, <1>23
     DEF Next, RequestStep

\* What the processes do to a grant together, under the lock and with owners
\* beside it, is what one register does that rotates in one step.
THEOREM RefreshesAreAtomic == Spec => RefreshIsAtomic
<1> QED BY InitRegister, RegisterStep, Invariance, PTL
        DEF Spec, RefreshIsAtomic, Register!Spec

\* What the register promises: the token it holds is the live one, unless the
\* forge took the consent's tokens away or an answer was lost.
THEOREM RegisterKeepsInStep == Register!Spec => []Register!InStep
<1> DEFINE Inv == Register!InStep /\ live \in [Consent -> Nat]
<1>1. Register!Init => Inv
  BY FirstAssumption DEF Register!Init, Register!InStep
<1>2. Inv /\ [Register!Next]_(Register!vars) => Inv'
  <2> SUFFICES ASSUME Inv, [Register!Next]_(Register!vars) PROVE Inv'
    OBVIOUS
  <2> USE DEF Register!InStep
  <2>1. ASSUME NEW c \in Consent, Register!Exchange(c) PROVE Inv'
    BY <2>1 DEF Register!Exchange
  <2>2. ASSUME NEW c \in Consent, Register!Revoke(c) PROVE Inv'
    BY <2>2 DEF Register!Revoke
  <2>3. ASSUME NEW c \in Consent, Register!Refresh(c) PROVE Inv'
    BY <2>3 DEF Register!Refresh
  <2>4. ASSUME NEW c \in Consent, Register!Store(c) PROVE Inv'
    BY <2>4 DEF Register!Store
  <2>5. CASE Register!Remove
    BY <2>5 DEF Register!Remove
  <2>6. CASE Register!Lose
    BY <2>6 DEF Register!Lose
  <2>7. CASE UNCHANGED Register!vars
    BY <2>7 DEF Register!vars
  <2> QED BY <2>1, <2>2, <2>3, <2>4, <2>5, <2>6, <2>7 DEF Register!Next
<1> QED BY <1>1, <1>2, PTL DEF Register!Spec
=============================================================================
