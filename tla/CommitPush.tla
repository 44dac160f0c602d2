----------------------------- MODULE CommitPush -----------------------------
(***************************************************************************)
(* The uploads of one commit, from the row insert to the forge.            *)
(*                                                                         *)
(* Every upload request (internal/core/accept.go) inserts its row, rebuilds*)
(* the commit's merged report under a per-commit lock (Recompute) and then *)
(* pushes it to the forge (internal/core/publish.go). One push per commit  *)
(* runs at a time, under a lease kept in the report row; an upload that    *)
(* finds the lease held queues, and the holder goes round again for it in  *)
(* a background follow-up.                                                 *)
(*                                                                         *)
(* A worker is a request or the follow-up a request spawned. Workers run   *)
(* in any number of server processes: they share only the database and the *)
(* forge, so nothing here depends on which process a worker lives in, and  *)
(* a process crash is the crash of its workers.                            *)
(*                                                                         *)
(* A merged report is abstracted to the set of uploads it was built from:  *)
(* its totals, diff and verdict are functions of them.                     *)
(***************************************************************************)
EXTENDS Integers, FiniteSets

CONSTANTS
    Upload,           \* the upload requests of the commit
    Part,             \* [Upload -> part name]: equal parts are re-uploads
    Surface,          \* the forge surfaces one round updates
    Status,           \* the build status, the surface that gates merges
    NoWorker,
    PushLease,        \* pushLease
    PushTimeout,      \* statusPushTimeout
    FinishTimeout,    \* finishPushTimeout
    MaxFollowUpRounds,\* maxFollowUpRounds
    MaxTime           \* bound on the clock

Worker == Upload \X {"request", "followUp"}

ASSUME SurfaceAssumption == Status \in Surface
ASSUME TimeAssumption ==
    /\ PushLease \in Nat /\ PushTimeout \in Nat /\ FinishTimeout \in Nat
    /\ 0 < FinishTimeout /\ 0 < PushTimeout
    /\ PushTimeout + FinishTimeout < PushLease
    /\ MaxTime \in Nat
ASSUME RoundsAssumption == MaxFollowUpRounds \in Nat
ASSUME NoWorkerAssumption == NoWorker \notin Worker

VARIABLES
    \* The database.
    rowId,         \* uploads.id, 0 before the INSERT; taken from a sequence
    nextId,        \* the sequence
    landed,        \* the upload rows whose transaction committed
    report,        \* the uploads commit_reports was last merged from, {} = no row
    reportUpload,  \* commit_reports.upload_id
    lock,          \* the holder of the commit's recompute lock
    leaseUntil,    \* commit_reports.push_lease_until, 0 = NULL
    pushedVersion, \* commit_reports.status_pushed_version
    \* The forge: the merged state each surface shows.
    board,
    \* The workers.
    pc,
    about,         \* the upload whose id is the round's version
    snap,          \* the uploads the worker's merged report was built from
    token,         \* the lease the worker claimed
    deadline,      \* when the worker's push, then its release, times out
    owed,          \* the surfaces of this round not yet answered
    failed,        \* the surfaces of this round that answered an error
    rounds,        \* follow-up rounds made
    now,           \* the clock
    \* History, for the properties only.
    faulted,       \* something failed, crashed or was cut short
    inverted       \* a row became visible after a row with a larger id

dbVars == <<rowId, nextId, landed, report, reportUpload, lock>>
leaseVars == <<leaseUntil, pushedVersion>>
roundVars == <<snap, token, deadline, owed, failed>>
vars == <<dbVars, leaseVars, board, pc, about, roundVars, rounds, now,
          faulted, inverted>>

Request(u) == <<u, "request">>
FollowUp(u) == <<u, "followUp">>
State == {"idle", "inserting", "landed", "merging", "merged", "pushing",
          "finishing", "reload", "done"}

----------------------------------------------------------------------------
(* What the store reads. *)

\* The newest row of each part of S: the input of the merge.
LatestUploadsPerPart(S) ==
    {u \in S : \A v \in S : Part[v] = Part[u] => rowId[v] <= rowId[u]}

\* The newest row of S.
Newest(S) == CHOOSE u \in S : \A v \in S : rowId[v] <= rowId[u]

\* S holds u or a newer upload of u's part.
Covers(S, u) == \E v \in S : Part[v] = Part[u] /\ rowId[u] <= rowId[v]

LeaseFree == leaseUntil = 0 \/ leaseUntil <= now
Version(w) == rowId[about[w]]

Goto(w, state) == pc' = [pc EXCEPT ![w] = state]

\* The round is over: its locals are gone.
EndRound(w) ==
    /\ snap' = [snap EXCEPT ![w] = {}]
    /\ token' = [token EXCEPT ![w] = 0]
    /\ deadline' = [deadline EXCEPT ![w] = 0]
    /\ owed' = [owed EXCEPT ![w] = {}]
    /\ failed' = [failed EXCEPT ![w] = {}]

----------------------------------------------------------------------------
Init ==
    /\ rowId = [u \in Upload |-> 0]
    /\ nextId = 1
    /\ landed = {}
    /\ report = {}
    /\ reportUpload = 0
    /\ lock = NoWorker
    /\ leaseUntil = 0
    /\ pushedVersion = 0
    /\ board = [s \in Surface |-> {}]
    /\ pc = [w \in Worker |-> "idle"]
    /\ about = [w \in Worker |-> w[1]]
    /\ snap = [w \in Worker |-> {}]
    /\ token = [w \in Worker |-> 0]
    /\ deadline = [w \in Worker |-> 0]
    /\ owed = [w \in Worker |-> {}]
    /\ failed = [w \in Worker |-> {}]
    /\ rounds = [w \in Worker |-> 0]
    /\ now = 0
    /\ faulted = FALSE
    /\ inverted = FALSE

----------------------------------------------------------------------------
(* CreateUpload: the INSERT takes an id, the COMMIT makes the row visible. *)

InsertUpload(u) ==
    /\ pc[Request(u)] = "idle"
    /\ rowId' = [rowId EXCEPT ![u] = nextId]
    /\ nextId' = nextId + 1
    /\ Goto(Request(u), "inserting")
    /\ UNCHANGED <<landed, report, reportUpload, lock, leaseVars, board, about,
                   roundVars, rounds, now, faulted, inverted>>

CommitUpload(u) ==
    /\ pc[Request(u)] = "inserting"
    /\ landed' = landed \cup {u}
    /\ inverted' = (inverted \/ \E v \in landed : rowId[u] < rowId[v])
    /\ Goto(Request(u), "landed")
    /\ UNCHANGED <<rowId, nextId, report, reportUpload, lock, leaseVars, board,
                   about, roundVars, rounds, now, faulted>>

----------------------------------------------------------------------------
(* Recompute: one transaction under the commit's advisory lock. The read   *)
(* sees the rows committed by then; rows may land between it and the       *)
(* upsert, whose recompute is then still to come.                          *)

\* Mutants: the recompute outside the lock; the merge of the upload alone.
RecomputeRead_Unlocked(w) ==
    /\ pc[w] = "landed"
    /\ snap' = [snap EXCEPT ![w] = LatestUploadsPerPart(landed)]
    /\ Goto(w, "merging")
    /\ UNCHANGED <<dbVars, leaseVars, board, about, token, deadline, owed,
                   failed, rounds, now, faulted, inverted>>

RecomputeRead(w) ==
    /\ pc[w] = "landed"
    /\ lock = NoWorker
    /\ lock' = w
    /\ snap' = [snap EXCEPT ![w] = LatestUploadsPerPart(landed)]
    /\ Goto(w, "merging")
    /\ UNCHANGED <<rowId, nextId, landed, report, reportUpload, leaseVars,
                   board, about, token, deadline, owed, failed, rounds, now,
                   faulted, inverted>>

UpsertCommitReport(w) ==
    /\ pc[w] = "merging"
    /\ report' = snap[w]
    /\ reportUpload' = Version(w)
    /\ lock' = NoWorker
    /\ Goto(w, "merged")
    /\ UNCHANGED <<rowId, nextId, landed, leaseVars, board, about,
                   roundVars, rounds, now, faulted, inverted>>

----------------------------------------------------------------------------
(* pushRound. *)

\* Mutant: the lease is no longer than the push it protects.
ClaimPush_ShortLease(w) ==
    /\ pc[w] = "merged"
    /\ report /= {}
    /\ pushedVersion <= Version(w)
    /\ LeaseFree
    /\ leaseUntil' = now + PushTimeout
    /\ token' = [token EXCEPT ![w] = now + PushTimeout]
    /\ deadline' = [deadline EXCEPT ![w] = now + PushTimeout]
    /\ owed' = [owed EXCEPT ![w] = Surface]
    /\ failed' = [failed EXCEPT ![w] = {}]
    /\ Goto(w, "pushing")
    /\ UNCHANGED <<dbVars, pushedVersion, board, about, snap, rounds, now,
                   faulted, inverted>>

\* ClaimPush answered PushClaimed: the lease is this worker's until it lapses.
ClaimPush(w) ==
    /\ pc[w] = "merged"
    /\ report /= {}
    /\ pushedVersion <= Version(w)
    /\ LeaseFree
    /\ leaseUntil' = now + PushLease
    /\ token' = [token EXCEPT ![w] = now + PushLease]
    /\ deadline' = [deadline EXCEPT ![w] = now + PushTimeout]
    /\ owed' = [owed EXCEPT ![w] = Surface]
    /\ failed' = [failed EXCEPT ![w] = {}]
    /\ Goto(w, "pushing")
    /\ UNCHANGED <<dbVars, pushedVersion, board, about, snap, rounds, now,
                   faulted, inverted>>

\* PushSuperseded or PushQueued: nothing is written and the round ends.
ClaimRefused(w) ==
    /\ pc[w] = "merged"
    /\ report = {} \/ Version(w) < pushedVersion \/ ~LeaseFree
    /\ Goto(w, "done")
    /\ EndRound(w)
    /\ UNCHANGED <<dbVars, leaseVars, board, about, rounds,
                   now, faulted, inverted>>

\* pushSurfaces sends the surfaces side by side, in no order. The release
\* timeout starts when the last one has answered.
Answered(w, s) ==
    /\ pc[w] = "pushing"
    /\ s \in owed[w]
    /\ owed' = [owed EXCEPT ![w] = @ \ {s}]
    /\ IF owed[w] = {s}
       THEN /\ Goto(w, "finishing")
            /\ deadline' = [deadline EXCEPT ![w] = now + FinishTimeout]
       ELSE UNCHANGED <<pc, deadline>>
    /\ UNCHANGED <<dbVars, leaseVars, about, snap, token, rounds, now, inverted>>

PushSurface(w, s) ==
    /\ Answered(w, s)
    /\ board' = [board EXCEPT ![s] = snap[w]]
    /\ UNCHANGED <<failed, faulted>>

\* The forge call errors or times out. The forge may have applied it anyway.
PushSurfaceFails(w, s) ==
    /\ Answered(w, s)
    /\ failed' = [failed EXCEPT ![w] = @ \cup {s}]
    /\ \/ UNCHANGED board
       \/ board' = [board EXCEPT ![s] = snap[w]]
    /\ faulted' = TRUE

\* Mutants: the version recorded though the status failed; the lease kept.
Release_RecordsAlways(w) ==
    /\ pushedVersion' = IF pushedVersion < Version(w)
                        THEN Version(w) ELSE pushedVersion
    /\ leaseUntil' = IF leaseUntil = token[w] THEN 0 ELSE leaseUntil

Release_KeepsLease(w) ==
    /\ pushedVersion' = IF Status \notin failed[w] /\ pushedVersion < Version(w)
                        THEN Version(w) ELSE pushedVersion
    /\ leaseUntil' = leaseUntil

\* FinishPush's one statement: record the version if the build status was
\* posted, release the lease if it is still the caller's.
Release(w) ==
    /\ pushedVersion' = IF Status \notin failed[w] /\ pushedVersion < Version(w)
                        THEN Version(w) ELSE pushedVersion
    /\ leaseUntil' = IF leaseUntil = token[w] THEN 0 ELSE leaseUntil

\* Mutants: nobody goes round again; the next id does not count as newer.
Again_Never(w) == leaseUntil = token[w] /\ landed = {}

Again_OffByOne(w) ==
    /\ leaseUntil = token[w]
    /\ \E u \in landed : Version(w) + 1 < rowId[u]

\* What FinishPush answers: the lease was the caller's and a newer row exists.
Again(w) ==
    /\ leaseUntil = token[w]
    /\ \E u \in landed : Version(w) < rowId[u]

\* The release of a request's round. If uploads queued behind it, Push
\* starts a follow-up.
FinishRequest(u) ==
    LET w == Request(u) IN
    /\ pc[w] = "finishing"
    /\ Release(w)
    /\ pc' = [pc EXCEPT ![w] = "done",
                        ![FollowUp(u)] = IF Again(w) THEN "reload" ELSE @]
    /\ EndRound(w)
    /\ UNCHANGED <<dbVars, board, about, rounds, now, faulted,
                   inverted>>

\* The release of a follow-up's round: the loop goes round while more arrive
\* and rounds are left.
FinishFollowUp(u) ==
    LET w == FollowUp(u) IN
    /\ pc[w] = "finishing"
    /\ Release(w)
    /\ rounds' = [rounds EXCEPT ![w] = @ + 1]
    /\ Goto(w, IF Again(w) /\ rounds[w] + 1 < MaxFollowUpRounds
               THEN "reload" ELSE "done")
    /\ faulted' = (faulted \/ (Again(w) /\ rounds[w] + 1 >= MaxFollowUpRounds))
    /\ EndRound(w)
    /\ UNCHANGED <<dbVars, board, about, now, inverted>>

\* latestMerged reads the commit's newest upload outside the recompute lock.
FollowUpReload(u) ==
    LET w == FollowUp(u) IN
    /\ pc[w] = "reload"
    /\ about' = [about EXCEPT ![w] = Newest(landed)]
    /\ Goto(w, "landed")
    /\ UNCHANGED <<dbVars, leaseVars, board, roundVars, rounds, now,
                   faulted, inverted>>

----------------------------------------------------------------------------
(* What goes wrong. *)

\* The insert fails and rolls back, or the process dies during it: the id is
\* spent and the row is never visible.
RollbackUpload(u) ==
    /\ pc[Request(u)] = "inserting"
    /\ Goto(Request(u), "done")
    /\ UNCHANGED <<dbVars, leaseVars, board, about, roundVars, rounds,
                   now, faulted, inverted>>

\* A later step fails and the worker gives up: the recompute errs or times
\* out, the claim or the release errs, the repo has no forge client, a drain
\* cuts the follow-up short, or the process dies. The database rolls back the
\* worker's transaction; a lease it held stays until it lapses.
GiveUp(w) ==
    /\ pc[w] \in {"landed", "merging", "merged", "pushing", "finishing",
                  "reload"}
    /\ lock' = IF lock = w THEN NoWorker ELSE lock
    /\ Goto(w, "done")
    /\ faulted' = TRUE
    /\ EndRound(w)
    /\ UNCHANGED <<rowId, nextId, landed, report, reportUpload, leaseVars,
                   board, about, rounds, now, inverted>>

\* FinishPush's statement runs and its answer is lost: nobody goes round again.
FinishUnanswered(w) ==
    /\ pc[w] = "finishing"
    /\ Release(w)
    /\ Goto(w, "done")
    /\ faulted' = TRUE
    /\ EndRound(w)
    /\ UNCHANGED <<dbVars, board, about, rounds, now, inverted>>

\* Time passes, but not past a timeout that has to fire first.
Tick ==
    /\ now < MaxTime
    /\ \A w \in Worker : pc[w] \in {"pushing", "finishing"} => now < deadline[w]
    /\ now' = now + 1
    /\ UNCHANGED <<dbVars, leaseVars, board, pc, about, roundVars, rounds,
                   faulted, inverted>>

----------------------------------------------------------------------------
\* What the server does when nothing goes wrong.
Step(w) ==
    \/ RecomputeRead(w)
    \/ UpsertCommitReport(w)
    \/ ClaimPush(w)
    \/ ClaimRefused(w)
    \/ \E s \in Surface : PushSurface(w, s)

Next ==
    \/ \E u \in Upload :
        \/ InsertUpload(u)
        \/ CommitUpload(u)
        \/ RollbackUpload(u)
        \/ FinishRequest(u)
        \/ FinishFollowUp(u)
        \/ FollowUpReload(u)
    \/ \E w \in Worker :
        \/ Step(w)
        \/ \E s \in Surface : PushSurfaceFails(w, s)
        \/ GiveUp(w)
        \/ FinishUnanswered(w)
    \/ Tick

Spec == Init /\ [][Next]_vars

\* The behaviours in which nothing fails and rows become visible in the order
\* of their ids. A running worker takes its next step: Go schedules every
\* goroutine and every call it makes ends.
Calm == ~faulted' /\ ~inverted'

Fairness ==
    /\ \A u \in Upload : /\ WF_vars(CommitUpload(u) /\ Calm)
                         /\ WF_vars(FinishRequest(u) /\ Calm)
                         /\ WF_vars(FinishFollowUp(u) /\ Calm)
                         /\ WF_vars(FollowUpReload(u) /\ Calm)
    /\ \A w \in Worker : WF_vars(Step(w) /\ Calm)

CalmSpec == Init /\ [][Next /\ Calm]_vars /\ Fairness

----------------------------------------------------------------------------
(* Properties. *)

TypeOK ==
    /\ rowId \in [Upload -> Nat]
    /\ nextId \in Nat \ {0}
    /\ landed \subseteq Upload
    /\ report \subseteq Upload
    /\ reportUpload \in Nat
    /\ lock \in Worker \cup {NoWorker}
    /\ leaseUntil \in Nat
    /\ pushedVersion \in Nat
    /\ board \in [Surface -> SUBSET Upload]
    /\ pc \in [Worker -> State]
    /\ about \in [Worker -> Upload]
    /\ snap \in [Worker -> SUBSET Upload]
    /\ token \in [Worker -> Nat]
    /\ deadline \in [Worker -> Nat]
    /\ owed \in [Worker -> SUBSET Surface]
    /\ failed \in [Worker -> SUBSET Surface]
    /\ rounds \in [Worker -> Nat]
    /\ now \in Nat
    /\ faulted \in BOOLEAN
    /\ inverted \in BOOLEAN

Holding(w) == pc[w] \in {"pushing", "finishing"}

\* "One push per commit runs at a time" (Push), whoever crashes and whenever
\* the lease lapses: a live push never loses its lease to another (pushLease).
OnePushAtATime ==
    \A v, w \in Worker : Holding(v) /\ Holding(w) => v = w

\* An upload told "queued: pushed with a concurrent upload of this commit"
\* was told the truth: unless something failed, a lease that is held has a
\* live worker behind it that will release it and look for newer uploads.
HeldLeaseHasHolder ==
    ~LeaseFree => faulted \/ \E w \in Worker : Holding(w) /\ token[w] = leaseUntil

\* A recompute "cannot interleave with or clobber a newer recompute and drop
\* a part" (Recompute): what the stored report covers it goes on covering.
ReportKeepsParts ==
    [][\A u \in landed : Covers(report, u) => Covers(report, u)']_vars

Board == INSTANCE CommitBoard WITH id <- rowId, recorded <- pushedVersion

\* Forge latency cannot "let an older push land last and pin the commit to a
\* stale status" (Push) and no recompute clobbers another (Recompute): whatever
\* the workers do in between, the commit's rows, report and surfaces change as
\* those of a commit that one worker merges, shows and records at a time.
OneBoard == Board!Spec

\* An upload that got past its recompute is in the stored report, itself or
\* as a newer upload of its part, whatever the other uploads' recomputes did.
MergedUploadIsReported ==
    \A u \in Upload :
        pc[Request(u)] \in {"merged", "pushing", "finishing"} => Covers(report, u)

\* "A follow-up that stops early loses nothing: the uploads the forge has not
\* seen are newer than the version it recorded" (maxFollowUpRounds), through
\* every failure, if rows become visible in the order of their ids.
UnseenIsNewerThanRecorded ==
    ~inverted => \A u \in landed :
        rowId[u] <= pushedVersion => Covers(board[Status], u)

Quiet == \A w \in Worker : pc[w] \in {"idle", "done"}

BoardIsNewest ==
    \A s \in Surface : board[s] = LatestUploadsPerPart(landed)

\* When every worker is done, nothing failed and rows became visible in the
\* order of their ids, every surface shows the commit's newest merged state:
\* no upload that queued was left behind.
SettledBoardIsNewest ==
    Quiet /\ ~faulted /\ ~inverted => BoardIsNewest

\* The same without the assumption on the order of ids, as the documentation
\* has it: "the forge always ends on the newest merged report".
ForgeEndsOnNewest == Quiet /\ ~faulted => BoardIsNewest

\* Every upload that lands reaches the build status in the end, pushed by its
\* own request or by the follow-up of the one it queued behind (CalmSpec).
LandedReachesForge ==
    \A u \in Upload : u \in landed ~> Covers(board[Status], u)

=============================================================================
