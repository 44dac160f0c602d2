# gocov in TLA+

gocov is a coverage server: CI jobs upload coverage profiles, the server stores
them, merges the parts of a commit into one report, compares it with earlier
reports, decides a gate, and shows the result on the forge (GitHub, GitLab,
Bitbucket) and on its own pages. This directory models the parts of it where
several actors share state, the sequential algorithms those parts rest on, and
the two stores under them, and checks and proves what they promise.

Paths are relative to the repository; `core/x.go` stands for
`internal/core/x.go`, `server/x.go` for `internal/server/x.go`, and `store` for
`internal/store/postgres/postgres.go`.

* [Running](#running)
* [Inventory](#inventory)
* [Modules and the code](#modules-and-the-code)
* [Runs](#runs)
* [Proofs](#proofs)
* [What does not hold](#what-does-not-hold)
* [Not modelled](#not-modelled)
* [Plan](#plan)

## Running

    tlc -workers 2 -config CommitPush_faults.cfg MCCommitPush
    tlapm CommitPush_proofs.tla

Every `.cfg` belongs to the module `MC<prefix>`, where the prefix is the part of
its name before the underscore. No run takes longer than two minutes on two
workers. To see a property that [does not hold](#what-does-not-hold) fail, put
it in the place of the INVARIANT and PROPERTY lines of the `.cfg` named there.

## Inventory

The server keeps everything that matters in PostgreSQL; any number of server
processes share one database. What a process keeps in memory (caches, limiters,
in-flight marks) may vanish at any time and is never shared.

| component | state | operations | what is hard |
|---|---|---|---|
| Upload endpoint (`server/upload.go`, `tokenless.go`, `oidc.go`, `core/accept.go`) | upload rows, raw profiles, `tokenless_claims`; per process: pre-auth slots, attempt limiter, verdict cache | authenticate by bearer token, by OIDC token or by a fork's claim to be a running workflow; check; claim the run; store | an anonymous caller competes with the real run for caches, limits and the claim; every step can fail half way |
| Commit merge and forge push (`core/merge.go`, `publish.go`, `background.go`) | `commit_reports` with the push lease and the pushed version; the commit's advisory lock; what the forge shows | recompute the report under the lock; claim the lease, push status, comment and annotations, release, go round again | parallel CI jobs, several processes, a lease that can lapse, calls that fail half way, processes that die |
| Gate and baselines (`core/gate.go`, `baseline.go`) | the stored verdicts of earlier reports | find the newest comparable report, measure the drop, decide | reports that lack parts, recomputes out of order, pull requests that move a baseline |
| Bitbucket and GitLab grants (`core/forges.go`, `server/grant.go`, `forge/*/grant.go`) | the grant in the workspace row; per process: a cache of access tokens | connect, disconnect, refresh under a database lock | the forge rotates the refresh token on every use, so a refresh spent twice or not stored loses the connection |
| GitHub App connection (`forge/github/app.go`, `server/githubapp.go`, `githubwebhook.go`) | installation id and broken flag in the workspace row; per process: installation tokens | link, disconnect, mint, probe and re-mint tokens, flag on refusal, webhooks | full-row writes from earlier reads; late refusals |
| Repo visibility (`core/repo.go`, `forges.go`, `server/githubwebhook.go`) | the cached visibility and the time it was asked; per process: in-flight and re-check marks | ask the forge on uploads and page views, obey webhooks, close when the connection is lost | answers that land in another order than the questions |
| Accounts and memberships (`server/oauth.go`, `register.go`, `session.go`, `scope.go`) | users, memberships, workspaces, sessions | sign in and sync memberships, claim or join a workspace, leave | read-modify-write of the whole membership set |
| MCP authorization (`server/mcpauth.go`) | authorization codes, access tokens | register, authorize, exchange | a code may be used once, exchanges race, a wrong one burns it |
| Repo registration and settings (`core/repo.go`, `server/uploadrepo.go`, `repo_settings.go`, `workspace.go`) | repo and workspace rows, upload tokens | create on first upload, look up by the forge's id, save, rotate, delete | two first uploads at once; whole rows written from earlier reads |
| Access to reports (`server/scope.go`, `dashboard.go`, `reportapi.go`, `mcp.go`) | none of its own: sessions, seats, rows and tokens | decide whom to serve | the decision is put together from reads at different moments |
| Coverage merge, diff coverage (`profile/merge.go`, `core/merge.go`, `diffcov/`) | none | merge blocks by position, intersect with a diff, merge parts | boundaries of spans, parts that disagree, a shortcut that must not show |
| Profile parsers, ignore patterns (`profile/*.go`, `ignore/`) | none | detect, parse, match | formats that say the same differently; a budget that runs out |
| Storage (`store`, `store/memory/memory.go`) | the tables, or maps in their place | 56 calls | the tests run on the maps, the server on the tables |
| OIDC verification (`oidc/oidc.go`) | per process: a cache of keys | verify, refetch on an unknown key | rotation of keys |
| Forge clients (`forge/`, `rest/`) | none | HTTP calls | an answer may be lost after the call took effect |
| Read API, badge, MCP tools, web UI, CLI, configuration | none that others depend on | read, render, send | |

How they interact: an upload stores its row, then recomputes its commit's report
(which reads the gate's baseline), then pushes, which asks the workspace's
connection for a forge client (and so may refresh a grant) and re-checks the
visibility. Owners and webhooks change the workspace row at any time beside all
of this. No component calls another while it holds a database lock, except
recompute, which evaluates the gate inside the commit's lock, and the grant
refresh, which calls the forge inside the workspace's.

What makes each component correct, in short: one accepted upload per run and
part, and no stored upload without its profile; no recompute drops a part;
pushes of a commit exclude each other and every upload reaches the forge;
a drop is measured over the same parts against the newest passing build of the
default branch; a refresh token is spent once and the stored one is live;
a late answer does not reopen a hidden repo; a report goes only to whom it was
open or whose it was while they asked; a code gets one answer; merge, diff and
patterns mean what their line-by-line definitions say; the two stores answer
alike. `PROJECT.json` lists under
`hazards` the lines where each of these could go wrong.

## Modules and the code

Each module stands for one component, with the database, the forge and the
processes that share it. `PROJECT.json` maps every definition to its lines.
History variables (marked in each module) record what a property needs and
are read by no guard.

### CommitPush

One commit, its uploads, any number of processes. A worker is an upload's
request or the background follow-up it leaves behind; its `pc` names the last
thing it did.

| code | action |
|---|---|
| `CreateUpload`: id from a sequence, visible at commit | `InsertUpload`, `CommitUpload`, `RollbackUpload` |
| `Recompute`: lock, read latest per part, upsert | `RecomputeRead`, `UpsertCommitReport` |
| `Push`: `ClaimPush` or answered queued or superseded | `ClaimPush`, `ClaimRefused` |
| the surfaces of one round, each on its own | `PushSurface`, `PushSurfaceFails` |
| `FinishPush`: record the version, release, look for newer rows | `Release` inside `FinishRequest`, `FinishFollowUp`, `FinishUnanswered` |
| `followUp`: re-read the newest row, go round, at most `maxFollowUpRounds` | `FollowUpReload`, `Again` |
| errors, drained processes, crashes | `GiveUp` |

A merged report is the set of uploads it was built from, since totals and text
are functions of it. Time is a bounded counter; a tick may not pass a timeout
that has to fire first (`statusPushTimeout`, `finishPushTimeout`), which is what
the context deadlines enforce. The claim's reply takes no time in the model; the
code leaves five seconds between the two timeouts and the lease for it. A forge
call that timed out here is applied or not before its answer, never later.

`CommitBoard` is the commit without workers: uploads get a number and become
visible, one merged report only grows, each surface of the forge is given merges
that the report covers, the build status none behind what is recorded, and a
version is recorded when it is shown. CommitPush implements it (`OneBoard`) with
nothing hidden but the workers, the lock, the lease and the clock:

    Board == INSTANCE CommitBoard WITH id <- rowId, recorded <- pushedVersion

### GrantRefresh

One workspace, requests in several processes, owners who connect (`Exchange`,
`ConnectStore`, `ConnectCache`) and disconnect (`DisconnectStore`,
`DropGrantToken`). A request reads the row, hits or misses its process's cache,
takes the lock, re-reads, asks the forge, stores the rotated token and answers
(`ReadWorkspace` ... `Persist`), or is refused and flags the grant
(`RefreshRefused`, `MarkGrantBroken`). The forge rotates on every use; GitLab
does, Bitbucket is treated as if it did. `lost` records a rotation whose answer
never reached the database: the code cannot prevent it, and the properties say
so.

`RotatingGrant` is what the requests may take a grant for: one register with the
refresh token the next refresh spends, rotated in one step together with the
forge. GrantRefresh implements it (`RefreshIsAtomic`). The forge rotates before
the database is written, so the register's token is the one in the hand of the
lock's holder while there is one (`NextToken`), and the stored one otherwise.

### Visibility

One repo. Checks (`UploadCheck`, `ServeCheck`, `PublicizedCheck`) resolve a
client, take the in-flight mark, stamp the clock, ask (`Answered`) and store
under the stamp (`SetRepoVisibility`). Closers store "private" without asking
(`MarkRepoPrivate`, and `LoseConnection` with its sweep
`MarkWorkspaceReposPrivate`). Clock readings are distinct and ordered across
processes: skew between servers is outside the model and listed as a hazard.

### UploadAccept

One GitHub commit, one server process. Uploads arrive with a token, with an OIDC
token or with a claim (`AuthToken`, `AuthOIDC`, `EnterPreAuth`); claims go
through the slots, the verdict cache and the attempt limiter to GitHub
(`AnswerFromVerdict`, `ChargeAttempt`, `ClaimVerified`, `ClaimRejected`); then
the parts cap, the claim of the run and part, blob, row and their clean-up
(`ReadUploadRequest` ... `ReleaseTokenlessUpload`). A client may leave at any
point, which ends the request's context; a database call may fail with or
without having taken effect; the process may restart, which empties its memory
and not its database. What a field's validation or a profile's parser may refuse
is one step (`RefuseUploadRequest`).

### GateBaseline

One repo, its commits, parts and reports. `CreateUpload` stores a part,
`Recompute` merges, looks for the baseline (`ComparableReport`, a recursive
function from a report's id to the answer of the search below it), measures
(`TotalOver`, `DropOver`) and writes the verdict (`Upsert`); `RecomputeFails`
leaves an upload the report has not seen; `LatestMerged` is a follow-up round's
recompute. Percentages are exact fractions: `gateEpsilon` exists so that floats
agree with them. Recomputes of one commit are serialized, as CommitPush shows;
what one reads of other commits is read in one step. Whether a commit's diff
passes is an input wherever an upload has a diff. `origin` is "default" for a
push to the default branch and "other" for every other branch and every pull
request.

### GitHubApp

One workspace row and the installations of the app on its account. A request
(`ReadWorkspace` ... `UseClient`) is a push's `installationForge`, which probes a
cached token (`TokenCached`, `TokenValid`, `Invalidate`) and mints one
(`TokenMissing`, `Mint`, `MintRefused`, `MintFails`, `PutToken`), or the
verification of a tokenless claim, which uses a cached token as it is. What it
learns goes to the row's flag (`Heal`, `MarkAppBroken`), as a webhook does
(`ListWorkspaces`, `SetInstallationBroken`). Owners read the row and write all of
it (`OwnerReads`, `UpdateWorkspace`, `DeleteWorkspace`), or make it
(`RegisterWorkspace`). GitHub withholds, restores and uninstalls; its deliveries
may come late, again or never. A "withheld" installation answers a mint with 401
(a rotated key) or 403 (a suspension), both of which end in a dead cached token.
Row ids and upload tokens are named by the request that made them, so a stale
write shows. The webhook handler is one: two of them write the flag as two
deliveries in a row do.

### Accounts

The users of one forge. A sign-in asks the forge (`Identity`), is admitted, stores
the snapshot (`UpsertUser`), lists the workspaces and replaces the user's seats
(`ListWorkspaces`, `DeleteSeats`, `SyncMemberships`) and makes a session. A claim
registers a workspace or joins it (`Authenticate` ... `JoinWorkspace`); an
owner's deletion takes the seats along (`DeleteWorkspace`). `SetUserMemberships`
is two steps, because its statements are read committed: what another request
inserts after the DELETE has looked stays, and rows a transaction has deleted are
waited for (`Locked`). A user's sessions are one: only the last matters. `mixed`
holds the users whose last requests overlapped, for whom the code promises
nothing until the next sign-in.

### ReportAccess

One repo slug, the workspaces that may own it, and requests that read the store
call by call: each handler is a chain of actions, one per store call
(`Serve(q)`), between which the world moves (`SetRepoVisibility`, `CreateRepo`,
`SlugMoves`, `SignIn`, `SignOut`, `DeleteWorkspace`, `RotateWorkspaceToken`,
`Tick`). These world actions stand for requests and forge changes that are not
followed themselves.

| request | code |
|---|---|
| `page`, `dashboard`, `api`, `tool` | `authorizeReport`, `visibleRepos`, `reportCredentialGrants`, the MCP tool's token |
| `settings`, `workspace` | `ownerRepo`, `ownerWorkspace`; view, save, rotate, reveal, delete, with the full-row `UpdateRepo` and `UpdateWorkspace` |
| `upload` | `lookupUploadToken` or `authOIDC`, `oidcLookup` by slug or by the forge's id, `RegisterRepo` |
| `register`, `approve`, `exchange` | `handleMCPRegister`, `handleAPIMCPApprove`, `handleMCPToken` |

`chance` records, for each request in flight, what was true at some moment of it:
the reads of one request are not one snapshot and the code does not claim they
are, so the property asks that what was served had been allowed at some moment.
`lookupUploadToken`'s two reads, and the reads `visibleRepos` makes per prefix,
are one step each. Invalid settings input is the failing step. `DeleteUser` has
no caller in the server and is only in the stores.

### CoverageProfile, DiffCoverage, IgnoreRules and Pipeline

The sequential code of an upload as operators: the readers of eight formats
(what each refuses, how it names files, how hits become blocks), format
detection, the merge of blocks and of a commit's parts (`CoverageProfile`); the
reader of unified diffs, the span walks, the pairing of diff paths with report
paths, the coverage of changed lines and its merge over parts (`DiffCoverage`);
ignore patterns, how they compile and the loop that matches them on a budget
(`IgnoreRules`).
`Pipeline` composes them: a behaviour draws the input of one call in `CallInit`
and computes its answer in one step, and each property compares the answer with a
definition of what the call means that does not share its way of computing it.
Paths are sequences of segments, a diff is a sequence of classified lines, and a
report is what a decoder hands the parser, so text, XML and JSON are left out.

### StoreData, PostgresStore and MemoryStore

`PostgresStore` is the `Store` interface as its SQL does it: tables, unique
columns, cascades, upserts, guards in WHERE clauses, ids from sequences that may
leave gaps. `MemoryStore` is the same interface as the maps and loops of
`store/memory`, on which the repository's handler tests run. A call is one step
of either. The refinement is

    PG == INSTANCE PostgresStore WITH db <- Tables, Calls <- UNION Families
    ImplementsPostgres == PG!Spec

where `Tables` says which rows the maps stand for; it leaves out the leases,
pushed versions and claims of repos that are gone, which no call can reach,
because ids are never used twice. Every call on the maps answers as the tables
may answer it and leaves what they would, and `SameReads` says that every query
then reads the same rows in the same order from both. Where the code deletes a
workspace's repos one after another, `deleteRepoLocked` takes them together:
each deletion only removes rows of its own repo, so their order does not show.

The two agree under conditions the callers meet, and the instance keeps: uploads,
reports and claims are of repos there are; seats are set for users there are;
hashes of new codes, tokens and sessions are new; a whole-row update takes no
unique column of another row; the sealing key does not change. `CallsAssumption` says
what else the calls' types and callers give. Names are sequences of
bytes and PostgreSQL's collation is "C": under another one the list orders of
`memory.go:149` differ from the database's. The transaction of
`WithCommitReportTx` and the lock of `WithGrantLock` are in CommitPush and
GrantRefresh; the in-memory ones do not roll back.

## Runs

| run | instance | what it shows |
|---|---|---|
| `push_faults` | two uploads of two parts, two surfaces, every fault, clock to 4, lease 3 | pushes stay exclusive, a held lease has a holder, the recorded version never outruns the forge, and the commit is one board: `CommitBoard` is implemented |
| `push_settles` | three uploads, one part sent twice, no faults, with fairness | every upload reaches the build status; a quiet commit shows its newest merge |
| `grant_rotation` | two requests in two processes, a second consent, a disconnect, every fault, with fairness | tokens are spent once, the grant is a register that rotates in one step (`RotatingGrant` is implemented), a replacement is not flagged for its predecessor, every request ends |
| `visibility_races` | upload check, page view, both webhooks, a disconnect, two processes, clock to 6 | late answers never reopen what was hidden or announced private |
| `upload_claims` | two uploads claiming one run, each as it is or not, and one of the repo's own CI; every limit 1 or 2 | one accept per run and part, a claim is judged by a verdict about itself that has not aged, late uploads only replace, no row without profile |
| `app_connection` | pushes and claims of one process, one owner's request of any kind, two installations, late and repeated webhooks, one fault, with fairness | the broken flag is deserved, upkeep undoes no owner's write, without webhooks a lost link is flagged and a restored one healed |
| `account_seats` | two users and two workspaces; two sign-ins, two claims of one prefix, a deletion, one role changed on the forge | roles come from the forge, seats go with their workspace, requests that do not overlap leave the forge's answer |
| `gate_history` | four commits, two parts, four uploads, search depth 2 | the baseline is the newest that suits, over the same parts, and other branches do not move it |
| `pipeline_calls` | 79,000 calls: small reports in eight formats, commits of two parts, edits, pairs of block lists, path pairings, measurements, patterns, pull-request uploads | formats agree, merge is the union of lines, a parsed diff is its edit, spans are sets of lines, `Touches` and `match` agree where they should, merged diffs never overstate, patterns mean what they say, nobody is blamed for files nothing should have measured, except, as the property says, when the budget runs out on the diff |
| `store_twins` | six families of calls about tables that hang together, two or three rows each | the in-memory store implements the SQL one and reads alike |
| `report_access` | families of requests, one at a time beside two or three changes of the world or two at once beside one | what was served was allowed during the request; a code gets one answer |
| `push_inversion` | two uploads of one commit, nothing fails | violated: see [below](#what-does-not-hold) |

Why the bounds are enough:

* CommitPush. Exclusion and loss are about two workers, so two uploads give all
  of it together with their follow-ups (four workers) and a lease that lapses and
  is claimed again; the clock runs to one past a lease. A third upload adds a
  re-upload of a part that overtakes, and an upload that arrives while another
  queues. The proofs lift these bounds.
* GrantRefresh. Two requests compete, one consent is replaced by another, one
  disconnect falls anywhere. Refreshes repeat since caches expire at will.
* Visibility. One actor of each kind, with the clock long enough for every TTL
  (1 and 2) to pass between any two of them.
* UploadAccept. The limits are 1 or 2 instead of 16 to 10,000 so that each is
  reached; the verdict's life and the limiter's window are one tick of three.
  The two claiming uploads are interchangeable (symmetry).
* GitHubApp. The hazards are a request or webhook with an old row beside an owner
  who changes it, so one owner, one webhook and two requests suffice; the second
  installation is what the first is replaced by. One suspension and one fault let
  each end of a mint follow each other one. `OwnersHaveTheLastWord` and
  `BrokenWasRefused` are proved without these bounds.
* Accounts. Two writers of one user's seats are a sign-in and a claim; the second
  user takes the other side of the create race and is first a member, then
  perhaps an owner; the second workspace is the seat that must survive a join.
* GateBaseline. Four commits are a subject, a baseline, one passed by and one
  beyond the search depth; two parts are one present and one missing; four
  uploads give each commit its own or let one be uploaded again. Commits and
  parts are interchangeable: order comes from report ids.
* Pipeline. Spans and hits live on four or five lines, where every way two spans
  can touch, nest, overlap or leave a gap occurs; reports have one or two files,
  parts are two, patterns have up to three segments over paths of up to four; the
  budget is larger than any match, or runs out in the middle of one, of a
  report's files, or of the changed files after them.
* MemoryStore. Two rows of a table make every uniqueness conflict, three ids let
  one be deleted and another come after it; sequences of calls are bounded by ids and by
  the clock, not by length. Calls of different families share no table that
  matters to both. The VIEW leaves out the last call and its answer, which no
  action and no invariant reads; `ImplementsPostgres` looks at steps, every one of
  which TLC generates from some state of each view.
* ReportAccess. One user suffices, since nothing compares two of them; a slug two
  workspaces deep has a nearer and a farther owner; two requests at once are
  enough for each race between a reader and a writer, one request with three
  changes for each race with the world. Requests in two slots are interchangeable
  (symmetry).

Deadlock is not checked: uploads, consents and checks are finite in number, so
the modelled system stops when they are done.

Fairness. `CalmSpec` (CommitPush) gives every running worker weak fairness, in
behaviours where nothing fails and rows become visible in the order of their
ids: Go schedules every goroutine, each call has a timeout, and PostgreSQL hands
a free lock on. Whether an upload arrives is not fair. `LiveSpec` (GrantRefresh)
gives each request weak fairness of its own next step, for the same reasons and
with all faults present; a crash ends the request. `LiveSpec` (GitHubApp)
assumes that pushes keep coming and that each goes on, and nothing of claims,
owners, webhooks or GitHub; its liveness properties speak of links that GitHub
and the owners leave alone from some point on. No run assumes strong fairness.

## Proofs

TLAPS proves the following for every value of the constants that the named
`ASSUME`s of the modules allow: any number of uploads, parts, surfaces,
processes, requests, users, workspaces and consents, any time limits, and any
bound that TLC needs. Each `_proofs` module holds the theorems of the module it
is named for; Storage_proofs holds those of MemoryStore and GrantRefresh,
Coverage_proofs those of GateBaseline and Pipeline. Most of the properties are not inductive; each proof goes through an
invariant `IndInv` that is, one step lemma for each part of it, and one case for
each action that can disturb the part. TLC has checked each `IndInv` on the
instance of the module's run.

**CommitPush_proofs.** Assumptions: the build status is one of the surfaces, no
worker is `NoWorker`, and `PushTimeout + FinishTimeout < PushLease`
(`TimeAssumption`), the relation the code's three constants satisfy.

* `TypeCorrect`, `PushesAreExclusive`, `NothingIsLost`, `MergedIsReported`,
  `ReportGrows`. `IndInv`: ids are handed out once and
  a worker is about a landed row (`IdsInv`, `StageInv`); the worker between its
  read and its upsert has the lock (`LockInv`); a worker that pushes holds the
  lease, under a token that cannot lapse before its deadlines (`LeaseInv`), which
  is where the three timeouts enter; only visible rows are merged and shown, and
  the recorded version is a visible row's (`VisibleInv`); a read under the
  lock covers the stored report (`ReadInv`); a worker carries in its snapshot
  everything up to its version, unless rows were inverted (`CarryInv`), and a
  status that was answered stays shown until the release (`HoldInv`).
  `ReleaseIsShown` joins them: when a version is recorded, the forge shows it.
* `HeldByALivePush` and `SettlesOnNewest`, from `SettleInv`: a lease that is not
  free has a holder with its token (`HeldInv`); a worker past its upsert finds a
  report (`ReportInv`); what a round has been answered for is on the surface
  (`ShownInv`); a worker about the newest row carries the newest merge
  (`NewestSnapInv`); and either somebody is on the way with it, or will look
  before it ends, or the board shows it (`PendingInv`). `LastFinishShowsNewest`
  is the hard case: a holder that finds nothing newer has itself shown the
  newest.
* `UploadsShareOneBoard`: CommitPush implements `CommitBoard`. Beside `IndInv` it
  needs that what a worker carries has one row per part and, once stored, stays
  covered by the report (`MergeInv`). `BoardStaysInOrder` is the board's own
  promise, proved of the board alone.

**Storage_proofs**, the stores. Assumptions: the bounds are positive
(`BoundsAssumption`), and calls carry what their types and callers give
(`CallsAssumption`): rows have the columns of their structs; slugs and prefixes
are bytes; times, versions and leases are not negative; a workspace made on
GitHub has no grant, because only the consent callbacks of the other two forges
store one; a report is of a commit, which `readUploadRequest` demands; and the
seats of one call are of different workspaces, because a sign-in computes them
from the list of workspaces and a join adds only one the user has no seat in.

* `StoreIsSound`: the inductive invariant of the maps. Ids are below their
  counters (`IdsInv`), so a new row shadows none; names and tokens are unique
  (`RepoInv`, `WorkspaceInv`), so the map's scan and the table's unique column
  find the same row; a workspace of a forge without grants has none, since the
  one field `Grant` stands for the columns of two forges; seats, sessions and
  tokens are of users and workspaces there are (`AccountInv`), so cascades and
  the maps' lazy deletions meet; reports are of repos there are, one for each
  commit (`ReportInv`); and a lease or pushed version is of a report there is, or
  of a repo that is gone (`PushInv`): the maps that outlive their repo are never
  read again, because a later repo has a larger id.
* `MemoryImplementsPostgres`: under `Tables`, every call on the maps is a step of
  the SQL store, with the same answer. There is one lemma for each call
  (`CreateRepoImplements` ... `ReleaseTokenlessUploadImplements`) and one that
  the call keeps the invariant (`...Keeps`). The hard ones are
  `DeleteWorkspaceImplements`, where the database asks for the byte range from
  "prefix/" up to "prefix0" and the maps for a prefix (`OwnedIsUnder` shows
  the range to be the prefix, byte by byte), and the upserts and leases,
  where two maps of the commit stand for two columns of its report.
* `QueriesAnswerAlike`: `SameReads` in every reachable state. Both stores see the
  same rows (`SameTables`, `ScannedWorkspace`, `FilesShown`), unique keys find the
  same one (`OneRow`), and a finite set sorted by a strict order and cut at the
  same place is the same sequence (`SortedIsASequence`, `SameCut`, `SamePage`).

**Storage_proofs**, the grants. Assumptions: the first consent is one, the kinds of
actors are disjoint, `NoOne` is no request. `IndInv == Types /\ LockInv /\
StageInv /\ TokenInv`: whoever is past the lock holds it; the token in a
request's hand, the stored one and the live one are related by how far the
holder has come. From it `TokensAreSpentOnce` and `StoredStaysLive`.

* `TypeCorrect` and `BlamedWasRefused` add that a request past its read has read
  a consent (`ReadInv`) and that the flag, and whoever is about to set it, is of
  an account that was refused (`FlagInv`): the code compares accounts, not
  consents, and this is what it gets for that.
* `RefreshesAreAtomic`: GrantRefresh implements `RotatingGrant`
  (`RegisterStep`, with one case for each action). The step from "asking" to "answered" is the register's refresh;
  writing the successor down is a stutter, unless an owner has stored another
  grant meanwhile, when it is the register's `Store`. `RegisterKeepsInStep` is
  the register's own promise.

**Visibility_proofs.** Assumptions: checks and closers are disjoint and have
their kinds. `IndInv` adds that stamps are past readings, distinct while they
are pending (`StampInv`), that a public answer on its way to a repo no longer
public was asked for before it was hidden (`AnswerInv`), and that a check which
asks has its process's in-flight mark (`GuardInv`).
From it `OpenIsOld`, `NewsStands`, `OneQuestion`.

**GitHubApp_proofs.** Assumptions: the founder and `NoRow` are no owner's
request, `NoInstallation` is no installation. `IndInv` is the types with: a
request under way is about an installation (`RequestInv`); one that is not live
has been announced (`AnnouncedInv`), so what a request was refused and what a
webhook handler will write has been (`RefusedInv`, `HookInv`); and the row, with
every copy that an owner may still write back, is flagged only for an announced
reason (`SoundInv`), which is why full-row writes from old reads do no harm.
From it `TypeCorrect`, `FlagIsDeserved` (`BrokenWasRefused`) and `OwnersRule`
(`OwnersHaveTheLastWord`).

**Accounts_proofs.** Assumptions: an actor has a user, a claim or deletion a
workspace, and the kinds of actors are disjoint (`ActorAssumption`,
`StartAssumption`).

* `RolesComeFromTheForge`: whatever a user's row, a seat, or a request in flight
  holds of a role, the forge has reported (`ReportedInv`); who is about to make
  a workspace was reported its owner (`OwnerInv`). A claim works from a stored
  snapshot of any age, so the invariant is about every copy, not about the seats.
* `SeatsGoWithTheirWorkspace` is inductive as it stands: a seat's insert fails
  without its workspace (the foreign key), and a deletion takes the seats along.
* `QuietSeatsMatch`: seats match the stored snapshot but while a sign-in is
  bringing them to it (`MatchInv`), and a request that nothing has overlapped
  works from its own snapshot or the current row (`AloneInv`, `SignInInv`,
  `ClaimInv`); the two statements of `SetUserMemberships` need that what the
  first has deleted the second does not miss.

**UploadAccept_proofs.** Assumptions: requests have parts and claims, claims have
runs, `NoClaim` is none; the cache of verdicts holds one at least and the
limiter's window has a length; the rest of the limits are any naturals.

* `OneUploadPerTriple`: an upload's run and part are claimed from before it is
  accepted on (`TripleInv`), and a request is answered once, at its end
  (`ReplyInv`): releases that fail leave a claim too many, never one too few.
* `NoPartBeyondTheCap`: an upload past the cap has had `MaxParts` parts before
  it, and a row on record of its own part (`LateInv`). The check is one step and
  the insert another; parts never shrink, so what the check saw stays.
* `RowsKeepTheirBlobs`: how far an upload is says whether its profile and its row
  are there; the clean-up of one whose row landed all the same is one whose
  answer was lost (`BlobInv`).
* `VerdictsAreTheClaims`: a stored verdict is GitHub's on that very claim and no
  older than its time (`VerdictInv`).

**ReportAccess_proofs.** Assumptions: a slug's owners are a sequence of
workspaces, of which there are finitely many; `Nobody` is no user; a call is of
one of the handlers' kinds (`CallAssumption`).

* `OnlyTheEntitledAreServed`: a request is at a step of its kind (`StageInv`); a
  seat is a user's and a token is of the user it was issued for (`WorldInv`); who
  asks is known from the first step on (`SignedInv`); and what a step let a
  request past was true when it looked (`LetPastInv`, one line for each step of
  `authorizeReport`, `visibleRepos`, `ownerRepo`, `ownerWorkspace` and the upload
  credentials).
* `CodesAreAnsweredOnce`: a code is at one place at a time (stored, with the
  exchange that took it, answered or refused), and whoever has taken it showed
  its client, redirect URI and verifier in time (`CodeInv`).

**Coverage_proofs**, the gate. Assumption: `GateAssumption`, finitely many commits and
parts, a part that measures something, a search depth of one at least.

* `SearchFindsTheNewest`: the walk down the ids answers the newest passing build
  of the default branch with every part, among the `Depth` newest. The walk is a
  recursive function, so first it is shown to have a value: `FirstOf` gives the
  answer in closed form, satisfies the recursion, and no other function does, by
  the least id at which two would differ. Ids are distinct and have no gaps
  (`IdsInv`).
* `ComparesLikeWithLike`: the baseline's total over the commit's parts is what
  those parts cover, if the baseline's report has seen its uploads (`FreshInv`).
* `BaselinesStayPut`: an action property; a build of another branch changes no
  row the search reads.

**Coverage_proofs**, the calls of Pipeline. Assumptions: a part's report has
finitely many files of blocks, their counts are not negative, and a block has
statements or has none in every part that reports it (`CommitsAssumption`; weaker
than `merge.go:39`, "Identical positions describe the same statements"; every
reader refuses a negative count but JaCoCo's, which takes a report's word for it,
`jacoco.go:78`: for such a report nothing is proved, nor for hits whose sum leaves
64 bits); no block starts below line 1 (`BlockListsAssumption`; every reader refuses
such a line); paths and lists are sequences (`PairingsAssumption`); there is a part, and each ran only
lines it has of which there are finitely many (`MeasurementsAssumption`); patterns
are lists of segments and a comparison costs some number of units, never less
than none (`MatchingsAssumption`); the patterns of a submission compile, as both
lists were validated where they came in, and its files and changed lines are
finitely many (`SubmissionsAssumption`). Which globs match which segments is left open.
`CallIndInv`: an answer is that of its own call.

* `MergedPartsAreTheUnion` (`MergeIsTheUnion`), for any parts, files and blocks:
  the merged blocks of a file are in the strict order of their places, each once
  (`MergedIsOrdered`, by the number of places before one, `OrderedIsSorted`), and
  cover and execute the lines of the parts (`MergedKeepsLines`). Joining the
  parts' lists and adding hits are recursions: each is shown to have a value, and
  to join (`FlattenJoins`) or be positive when a summand is (`HitsAddUp`), by the
  least length or size at which it would not. The shortcut of `MergeParts` gives
  the rows the merge would (`ShortcutChangesNothing`): a list in order is merged to itself
  (`CanonicalStays`).
* `SpanWalksAreLines` (`SpansAreLines`), for any two lists of blocks: a span list
  is one whose spans are not empty, in order and apart (`SpanList`), and `On` says
  whether it holds a line. Each walk keeps a span list whose lines are those of the
  input so far, behind its last span: joining (`JoinSpansMeans`), cutting one span
  (`CutSpanCuts`; one span after another, `SubtractSpansMeans`), the two cursors,
  which leave behind only pairs of spans that are done (`IntersectSpansMeans`). Two
  span lists with the same lines are the same (`SpansAreTheirLines`), so the runs of
  a list's lines are the list (`LineSpansMean`).
* `PagesFlagWhatIsBound` (`BoundIsTouched`), for any files, paths and prefix:
  `match` chooses one file by name, then by suffix either way, `Touches` asks
  whether any path would do; the file that `match` binds a path to is flagged,
  and a path it binds to nothing flags no file (`BoundTouches`, `UnboundTouchesNothing`).
* `MergedDiffsNeverOverstate` (`MergeNeverOverstates`), for any number of parts
  and any lines: parts that counted differently merge to the counts of a part
  with the lowest rate, so never above what ran (`ConflictNeverOverstates`);
  parts that counted alike merge line by line (`SameLinesMerge`).
* `PatternsIgnoreWhatTheyMean` (`IgnoresWhatIsMeant`), for any patterns that
  compile, any path, prefix, budget, costs and matching of globs. The meaning goes
  through a pattern from its last segment and keeps every place of the path from
  which the rest leads to a match; the code goes forward and keeps one "**" to go
  back to. `Undecided` is what its loop keeps: the pattern matches exactly when its
  rest does from here or, after a "**", from a place at or behind the one that
  "**" has absorbed up to; what lies behind the last "**" led up to here, so
  earlier ones need no second try (`RoundKeeps`, the doc's "Revisiting earlier `**`s
  can never help"). Each round makes progress in (`starSi`, `pi`), so the rounds the
  model allows are enough (`LoopMatches`). Compiling keeps the meaning: a star
  doubled inside a segment, runs that follow runs, and the leading "**" of a pattern
  without a slash (`SegmentAdds`, `CompiledCatches`, `CompiledRules`). A budget once
  spent stays so.
* `BlamedAreUncovered` (`BlameIsEarned`), for any parts, changed lines and budget:
  what a list of paths is sifted to is what no pattern means unless the budget is
  spent (`SiftKeeps`), and a part with a spent budget is not taken (`FilterKeeps`);
  what a part blames, it is bound to no file for and expects coverage of
  (`DiffBlames`); the merge takes off what some part counted (`MergeBlames`).

The type invariants that these theorems establish are in no run's list; the
modules without one (CoverageProfile, DiffCoverage, IgnoreRules, Pipeline, the
stores) type their variables in comments.

Only model-checked:

* liveness under fairness: `LandedReachesForge`, `RequestsEnd`, `GoneIsNoticed`,
  `LiveIsHealed`;
* what the readers of reports and of unified diffs compute (`FormatsAgree`,
  `ParsedDiffIsTheEdit`): what they should read is part of the input there, with
  the text that a writer would make of it, so a theorem would need every writer as
  an operator and an induction over its text; the readers use the library's folds
  and filters, whose recursive operators the prover cannot expand.

## What does not hold

A comment or a document of the repository says each of these; TLC finds a
behaviour of the code's model in which it fails. The first has a run of its own.
The others stand in their modules, marked so.

| property | configuration | what happens |
|---|---|---|
| `ForgeEndsOnNewest` | `push_inversion` | ids are taken at INSERT and rows become visible at COMMIT, so an upload that commits after one with a larger id counts as seen and is pushed by nobody |
| `DisconnectSticks` | `GrantRefresh_rotation.cfg` | a refresh in flight writes back the grant its owner has just removed (`core/forges.go:404`, `server/grant.go:208`: the disconnect does not take the grant lock) |
| `PublicNeedsConnection` | `Visibility_races.cfg` | a public answer in flight lands after the sweep that closed the workspace's repos (`core/forges.go:501`) |
| `RetryNotLockedOut` | `UploadAccept_claims.cfg` | the claim of a run and part is released on the context of the client that left, so the release fails and the retry is refused (`server/upload.go:236`) |
| `RotatedTokenStaysDead` | `ReportAccess_requests.cfg` | a settings save that read the row before a rotation writes the whole row, old token included, after it; the same for workspaces (`server/repo_settings.go:158-213`, `workspace.go:312-369`) |
| `StatementsCountedOnce` | `Pipeline_calls.cfg` | a line format's blocks depend on its hits, so two parts of one file may hold blocks 1-2 and 1-1, 2-2; the merge goes by position (`profile/merge.go:36`), keeps all three and counts the lines twice, against `docs/coverage-changed.md:8` |
| `IgnoredIsNeverBlamed` | `Pipeline_calls.cfg` | when the matching budget runs out on the changed files, `Match` answers no for the rest and `diffCoverage` does not ask `Err` (`core/accept.go:227`), so an ignored file is reported as changed without coverage, against `core/accept.go:220` ("flagging them as untested would count them against the PR after all") and `ignore.go:79` ("Matches made after that point are not to be trusted") |

Smaller observations of the same kind, each a line of a module:

* Commits: `commit_reports.upload_id` may name an older upload than the report
  has merged; a baseline with a part stored and not yet merged is compared by its
  stale total, which `SettledLikeWithLike` therefore excepts.
* Connections: the broken flag of a grant is guarded by the account, so a refusal
  can flag the same account's new grant; a disconnect clears the access token of
  the process that served it only; the claim of a tokenless upload neither probes
  nor drops a cached installation token, so after a suspension is lifted claims
  fail until a push replaces it; a publicized webhook is skipped when an older
  question is in flight in the same process.
* Uploads: a raw profile whose delete runs on an ended context stays behind
  without a row; the attempt limiter's windows are fixed, so an hour across two of
  them admits nearly twice the limit; a repo registered by an upload in flight
  while its workspace is deleted is left without a workspace (`core/repo.go:90`).
* Accounts: a join beside a sign-in of the same user writes back seats the
  sign-in has just dropped, and two syncs of one user may leave the union of
  their sets, until the next sign-in.
* MCP: a registration of four long redirect URIs with characters that JSON
  escapes can encode to a client id longer than `parseMCPClient` takes
  (`server/mcpauth.go:184`).
* Patterns: a pattern that begins with a slash and a doublestar segment (`/**/gen`) makes
  `Compile` index an empty slice and panic (`ignore.go:144`; `Crashed`).
* Diffs: the merge of parts lists a file as unmatched though a part measured it
  and found no executable changed line (`diffcov/merge.go:57`); `Touches` may keep
  a file that `Compute` would not pair (`diffcov.go:413`); parts with equal counts
  over different lines of a file are taken for parts about the same lines.

## Not modelled

* The pull-request comment is shared by the commits of a pull request; the
  find-then-post of two of them at once is a hazard CommitPush, with its one
  commit, does not reach.
* Deleting a repo or a workspace while its uploads are being stored and pushed
  (ReportAccess ends when the upload knows its repo).
* Clock skew between servers; a forge call that takes effect after its timeout;
  floats: percentages are exact fractions, which is what `gateEpsilon` restores.
* The cache of signing keys (`oidc.go`, `publicKey`). Read with the models:
  concurrent callers each fetch, a failed fetch leaves no stamp, a slow fetch may
  overwrite a newer one, and cached keys never expire.
* The deltas' baselines of the pages (`deltaBase`, `CommitBaseline`); the
  configuration of a repo during an upload: a request judges by the row it read
  first.
* Tokens of text, XML and JSON; Go's `path.Match` on one segment; rendering,
  routing, the CLI, configuration and start-up; wording of comments, statuses and
  reasons.

## Plan

1. **Refinement proofs**, as those of CommitPush, GrantRefresh and the stores: Visibility as
   a register that only the newest word opens, UploadAccept as a set of accepted
   triples with their rows and profiles.
2. **Composition**: the pull request's comment shared by the pushes of its
   commits; deleting a repo beside its uploads; the board of CommitPush driven by
   the uploads of UploadAccept.
3. **Hazards without a property**: the sweep that closes a workspace's repos
   beside checks that still hold a client; full-row writes of a workspace.
