---------------------------- MODULE UploadAccept ----------------------------
(***************************************************************************)
(* The upload endpoint for one commit of one GitHub repo, from the request *)
(* to its stored row: handleUpload (internal/server/upload.go) and Accept  *)
(* (internal/core/accept.go) in one server process.                        *)
(*                                                                         *)
(* An upload is authenticated by a bearer token, by an OIDC token its own  *)
(* CI minted, or, from a fork, by a claim: "I am this running workflow     *)
(* run" (internal/server/tokenless.go). A claim names a run; one whose     *)
(* commit, fork or pull request does not fit that run is unfit. Request    *)
(* bodies, profiles and forge clients are abstracted: what may go wrong    *)
(* with them is a step that ends the request. The merge and push that      *)
(* follow the stored row are CommitPush; the connection's flag that a      *)
(* refused installation token sets is not part of this module.             *)
(***************************************************************************)
EXTENDS Integers, FiniteSets

CONSTANTS
    Request,
    Run,            \* the workflow runs, each with its attempt
    Claim,
    Part,
    NoClaim,        \* what an upload of the repo's own CI claims
    ClaimsOf,       \* [Request -> the claims a request may make]
    PartOf,         \* [Request -> Part]
    RunOf,          \* [Claim -> Run]
    Unfit,          \* the claims that do not fit the run they name
    Faults,         \* what may go wrong: "gone", "database", "crash"
    \* Limits of the code, scaled down.
    MaxPreAuth,     \* maxPreAuthUploads
    MaxParts,       \* maxPartsPerCommit
    MaxAttempts,    \* maxTokenlessPerRepoHour
    MaxVerdicts,    \* maxClaimVerdicts
    VerdictTTL,     \* claimVerdictTTL
    Window,         \* the limiter's hour
    MaxTime         \* bound of the model: the last clock reading

ASSUME RequestAssumption ==
    /\ NoClaim \notin Claim
    /\ ClaimsOf \in [Request -> SUBSET (Claim \cup {NoClaim})]
    /\ PartOf \in [Request -> Part]
    /\ RunOf \in [Claim -> Run]
    /\ Unfit \subseteq Claim
ASSUME FaultsAssumption == Faults \subseteq {"gone", "database", "crash"}
ASSUME LimitsAssumption ==
    /\ MaxPreAuth \in Nat /\ MaxParts \in Nat /\ MaxAttempts \in Nat
    /\ MaxVerdicts \in Nat \ {0}
    /\ VerdictTTL \in Nat /\ Window \in Nat \ {0} /\ MaxTime \in Nat

VARIABLES
    now,
    pc,
    claim,     \* the claim a request makes, NoClaim with either token
    gone,      \* the requests whose client went away: their context is done
    reply,
    slots,     \* preAuthUploads: the slots taken
    verdicts,  \* claimVerdicts
    limiter,   \* tokenlessLimiter: start of the window, attempts in it
    asked,     \* the time a request sampled before it asked GitHub
    claimed,   \* table tokenless_claims
    blobs,     \* the requests whose raw profile is stored
    rows,      \* the requests whose upload row is committed
    running,   \* GitHub: the runs in progress
    \* History, for the properties only.
    endedAt,   \* when each run ended
    rejected,  \* the claims GitHub rejected
    late,      \* the requests that arrived when the commit had all its parts
    unknown    \* the requests whose commit succeeded without an answer

server == <<slots, verdicts, limiter>>
database == <<claimed, blobs, rows>>
github == <<running, endedAt, rejected>>
vars == <<now, pc, claim, gone, reply, asked, late, unknown, server, database, github>>

NoVerdict == [rejected |-> FALSE, until |-> -1]
Reply == {"none", "created", "rejected", "refused"}
State == {"idle", "parsing", "verifying", "authed", "read", "accepting",
          "stored", "cleaning", "landed", "failing", "done"}
PreAuth == {"parsing", "verifying"}
InFlight(r) == pc[r] \notin {"idle", "done"}
Holding == {"accepting", "stored", "cleaning", "landed", "failing"}

\* The uploads that make a claim: their workflow runs for a fork.
Fork == {r \in Request : claim[r] /= NoClaim}

Triple(r) == <<RunOf[claim[r]], PartOf[r]>>
Parts == {PartOf[r] : r \in rows}

\* A call on the request's context fails once its client is gone, and may
\* fail with the database.
MayFail(r) == r \in gone \/ "database" \in Faults

----------------------------------------------------------------------------
Init ==
    /\ now = 0
    /\ pc = [r \in Request |-> "idle"]
    /\ claim = [r \in Request |-> NoClaim]
    /\ gone = {}
    /\ reply = [r \in Request |-> "none"]
    /\ slots = 0
    /\ verdicts = [c \in Claim |-> NoVerdict]
    /\ limiter = [window |-> -Window, count |-> 0]
    /\ asked = [r \in Request |-> 0]
    /\ claimed = {}
    /\ blobs = {}
    /\ rows = {}
    /\ running = Run
    /\ endedAt = [n \in Run |-> MaxTime]
    /\ rejected = {}
    /\ late = {}
    /\ unknown = {}

----------------------------------------------------------------------------
Goto(r, state) == pc' = [pc EXCEPT ![r] = state]

\* The response is written: 201, GitHub's rejection, or any other refusal,
\* after which the claim is forgotten.
Answer(r, what) ==
    /\ Goto(r, "done")
    /\ reply' = [reply EXCEPT ![r] = what]
    /\ claim' = [claim EXCEPT ![r] = IF what = "refused" THEN NoClaim ELSE @]
    /\ gone' = gone \ {r}

Arrives(r) == late' = IF Cardinality(Parts) >= MaxParts THEN late \cup {r} ELSE late

\* A bearer token is looked up before the body is read.
AuthToken(r) ==
    /\ pc[r] = "idle"
    /\ NoClaim \in ClaimsOf[r]
    /\ Goto(r, "authed")
    /\ Arrives(r)
    /\ UNCHANGED <<now, claim, gone, reply, asked, unknown, server, database, github>>

\* authFormCredential: the credential is a form field, and a slot bounds how
\* many such bodies are read at once ...
EnterPreAuth(r, c) ==
    /\ pc[r] = "idle"
    /\ slots < MaxPreAuth
    /\ claim' = [claim EXCEPT ![r] = c]
    /\ slots' = slots + 1
    /\ Goto(r, "parsing")
    /\ Arrives(r)
    /\ UNCHANGED <<now, gone, reply, verdicts, limiter, asked, unknown, database,
                   github>>

\* ... and past the bound the client is told to come back.
TooManyPreAuth(r) ==
    /\ pc[r] = "idle"
    /\ slots >= MaxPreAuth
    /\ Answer(r, "refused")
    /\ UNCHANGED <<now, asked, late, unknown, server, database, github>>

\* The credential is decided: the slot goes back on every path.
LeavePreAuth(r) ==
    /\ slots' = slots - 1
    /\ asked' = [asked EXCEPT ![r] = 0]

\* The body, a field of the claim or the OIDC token is refused, or the repo is
\* not tracked or not connected.
RefuseCredential(r) ==
    /\ pc[r] = "parsing"
    /\ LeavePreAuth(r)
    /\ Answer(r, "refused")
    /\ UNCHANGED <<now, verdicts, limiter, late, unknown, database, github>>

\* The forge signed the token and names this repo.
AuthOIDC(r) ==
    /\ pc[r] = "parsing"
    /\ r \notin Fork
    /\ r \notin gone
    /\ LeavePreAuth(r)
    /\ Goto(r, "authed")
    /\ UNCHANGED <<now, claim, gone, reply, verdicts, limiter, late, unknown,
                   database, github>>

\* The remembered verdict on the claim, if it is still fresh.
Verdict(r) ==
    LET v == verdicts[claim[r]]
    IN  IF now > v.until THEN NoVerdict ELSE v

\* GitHub has answered this exact claim a short while ago.
AnswerFromVerdict(r) ==
    /\ pc[r] = "parsing"
    /\ r \in Fork
    /\ r \notin gone
    /\ Verdict(r) /= NoVerdict
    /\ LeavePreAuth(r)
    /\ IF Verdict(r).rejected
       THEN Answer(r, "rejected")
       ELSE Goto(r, "authed") /\ UNCHANGED <<claim, gone, reply>>
    /\ UNCHANGED <<now, verdicts, limiter, late, unknown, database, github>>

\* tokenlessLimiter: a window that has passed starts over at its next use.
CurrentWindow ==
    IF now - limiter.window >= Window THEN [window |-> now, count |-> 0] ELSE limiter

\* An attempt is charged before GitHub is asked.
ChargeAttempt(r) ==
    /\ pc[r] = "parsing"
    /\ r \in Fork
    /\ r \notin gone
    /\ Verdict(r) = NoVerdict
    /\ CurrentWindow.count < MaxAttempts
    /\ limiter' = [CurrentWindow EXCEPT !.count = @ + 1]
    /\ asked' = [asked EXCEPT ![r] = now]
    /\ Goto(r, "verifying")
    /\ UNCHANGED <<now, claim, gone, reply, slots, verdicts, late, unknown, database,
                   github>>

LimitReached(r) ==
    /\ pc[r] = "parsing"
    /\ r \in Fork
    /\ r \notin gone
    /\ Verdict(r) = NoVerdict
    /\ CurrentWindow.count >= MaxAttempts
    /\ limiter' = CurrentWindow
    /\ LeavePreAuth(r)
    /\ Answer(r, "refused")
    /\ UNCHANGED <<now, verdicts, late, unknown, database, github>>

\* Mutant: the verdict is remembered for the run.
PutVerdict_ByRun(r, no) ==
    verdicts' = [c \in Claim |->
                    IF RunOf[c] = RunOf[claim[r]]
                    THEN [rejected |-> no, until |-> asked[r] + VerdictTTL]
                    ELSE verdicts[c]]

\* A verdict is remembered for the whole claim, from the moment before GitHub
\* was asked; a full cache starts over.
PutVerdict(r, no) ==
    LET full == Cardinality({c \in Claim : verdicts[c] /= NoVerdict}) >= MaxVerdicts
    IN  verdicts' = [c \in Claim |->
                        CASE c = claim[r] ->
                                [rejected |-> no, until |-> asked[r] + VerdictTTL]
                          [] full /\ c /= claim[r] -> NoVerdict
                          [] OTHER -> verdicts[c]]

HoldsUp(c) == c \notin Unfit /\ RunOf[c] \in running

\* VerifyRunClaim: the run is in progress and everything the claim says fits.
ClaimVerified(r) ==
    /\ pc[r] = "verifying"
    /\ r \notin gone
    /\ HoldsUp(claim[r])
    /\ PutVerdict(r, FALSE)
    /\ LeavePreAuth(r)
    /\ Goto(r, "authed")
    /\ UNCHANGED <<now, claim, gone, reply, limiter, late, unknown, database, github>>

ClaimRejected(r) ==
    /\ pc[r] = "verifying"
    /\ r \notin gone
    /\ ~HoldsUp(claim[r])
    /\ PutVerdict(r, TRUE)
    /\ rejected' = rejected \cup {claim[r]}
    /\ LeavePreAuth(r)
    /\ Answer(r, "rejected")
    /\ UNCHANGED <<now, limiter, late, unknown, database, running, endedAt>>

\* GitHub cannot be asked: no verdict, and the attempt is spent.
VerifyFails(r) ==
    /\ pc[r] = "verifying"
    /\ LeavePreAuth(r)
    /\ Answer(r, "refused")
    /\ UNCHANGED <<now, verdicts, limiter, late, unknown, database, github>>

----------------------------------------------------------------------------
(* readUploadRequest, the claim of the triple, and Accept. *)

\* Mutant: one part too many.
PartAllowed_OffByOne(r) == Cardinality(Parts) <= MaxParts \/ PartOf[r] \in Parts

\* A new part on a commit with as many as it may have is refused.
PartAllowed(r) == Cardinality(Parts) < MaxParts \/ PartOf[r] \in Parts

\* The request is read and valid, as of the parts stored now.
ReadUploadRequest(r) ==
    /\ pc[r] = "authed"
    /\ r \notin gone
    /\ PartAllowed(r)
    /\ Goto(r, IF r \in Fork THEN "read" ELSE "accepting")
    /\ UNCHANGED <<now, claim, gone, reply, asked, late, unknown, server, database, github>>

TooManyParts(r) ==
    /\ pc[r] = "authed"
    /\ r \notin gone
    /\ ~PartAllowed(r)
    /\ Answer(r, "refused")
    /\ UNCHANGED <<now, asked, late, unknown, server, database, github>>

\* A field or the profile does not parse, or the parts cannot be counted.
RefuseUploadRequest(r) ==
    /\ pc[r] = "authed"
    /\ Answer(r, "refused")
    /\ UNCHANGED <<now, asked, late, unknown, server, database, github>>

\* The first verified upload of (run, attempt, part) wins the triple.
ClaimTokenlessUpload(r) ==
    /\ pc[r] = "read"
    /\ r \notin gone
    /\ Triple(r) \notin claimed
    /\ claimed' = claimed \cup {Triple(r)}
    /\ Goto(r, "accepting")
    /\ UNCHANGED <<now, claim, gone, reply, asked, late, unknown, server, blobs, rows,
                   github>>

ClaimLost(r) ==
    /\ pc[r] = "read"
    /\ r \notin gone
    /\ Triple(r) \in claimed
    /\ Answer(r, "refused")
    /\ UNCHANGED <<now, asked, late, unknown, server, database, github>>

\* The insert fails, or its answer is lost: nobody releases what it inserted.
ClaimFails(r) ==
    /\ pc[r] = "read"
    /\ MayFail(r)
    /\ \/ UNCHANGED claimed
       \/ "database" \in Faults /\ claimed' = claimed \cup {Triple(r)}
    /\ Answer(r, "refused")
    /\ UNCHANGED <<now, asked, late, unknown, server, blobs, rows, github>>

\* Accept ends before anything is stored: every file is ignored, matching them
\* costs too much, the baseline cannot be read or the blob not written.
AcceptFails(r) ==
    /\ pc[r] = "accepting"
    /\ Goto(r, "failing")
    /\ UNCHANGED <<now, claim, gone, reply, asked, late, unknown, server, database, github>>

StoreRaw(r) ==
    /\ pc[r] = "accepting"
    /\ r \notin gone
    /\ blobs' = blobs \cup {r}
    /\ Goto(r, "stored")
    /\ UNCHANGED <<now, claim, gone, reply, asked, late, unknown, server, claimed, rows,
                   github>>

CreateUpload(r) ==
    /\ pc[r] = "stored"
    /\ r \notin gone
    /\ rows' = rows \cup {r}
    /\ Goto(r, "landed")
    /\ UNCHANGED <<now, claim, gone, reply, asked, late, unknown, server, claimed, blobs,
                   github>>

\* The transaction fails, or the answer to its commit is lost.
CreateUploadFails(r) ==
    /\ pc[r] = "stored"
    /\ MayFail(r)
    /\ \/ UNCHANGED <<rows, unknown>>
       \/ /\ "database" \in Faults
          /\ rows' = rows \cup {r}
          /\ unknown' = unknown \cup {r}
    /\ Goto(r, "cleaning")
    /\ UNCHANGED <<now, claim, gone, reply, asked, late, server, claimed, blobs, github>>

\* "don't leave it orphaned": best effort, on the request's own context.
DeleteBlob(r) ==
    /\ pc[r] = "cleaning"
    /\ \/ r \notin gone /\ blobs' = blobs \ {r}
       \/ MayFail(r) /\ UNCHANGED blobs
    /\ Goto(r, "failing")
    /\ UNCHANGED <<now, claim, gone, reply, asked, late, unknown, server, claimed, rows,
                   github>>

\* Mutant: the triple is released whatever the outcome.
Recompute_Releases(r) ==
    /\ pc[r] = "landed"
    /\ r \notin gone
    /\ claimed' = IF r \in Fork THEN claimed \ {Triple(r)} ELSE claimed
    /\ Answer(r, "created")
    /\ UNCHANGED <<now, asked, late, unknown, server, blobs, rows, github>>

\* The merged report is computed and pushed; the push is best effort.
Recompute(r) ==
    /\ pc[r] = "landed"
    /\ r \notin gone
    /\ Answer(r, "created")
    /\ UNCHANGED <<now, asked, late, unknown, server, database, github>>

\* Mutant: a failed recompute is cleaned up like a failed insert.
RecomputeFails_CleansUp(r) ==
    /\ pc[r] = "landed"
    /\ Goto(r, "cleaning")
    /\ UNCHANGED <<now, claim, gone, reply, asked, late, unknown, server, database, github>>

\* The row is committed all the same; the client is told to send it again.
RecomputeFails(r) ==
    /\ pc[r] = "landed"
    /\ Goto(r, "failing")
    /\ UNCHANGED <<now, claim, gone, reply, asked, late, unknown, server, database, github>>

\* The upload did not land: the triple is freed for the retry, on the request's
\* own context.
ReleaseTokenlessUpload(r) ==
    /\ pc[r] = "failing"
    /\ \/ r \notin Fork /\ UNCHANGED claimed
       \/ r \in Fork /\ r \notin gone /\ claimed' = claimed \ {Triple(r)}
       \/ r \in Fork /\ MayFail(r) /\ UNCHANGED claimed
    /\ Answer(r, "refused")
    /\ UNCHANGED <<now, asked, late, unknown, server, blobs, rows, github>>

----------------------------------------------------------------------------
(* What happens around the requests. *)

\* The CLI waits 60 seconds; net/http ends the context of a closed connection.
ClientGone(r) ==
    /\ "gone" \in Faults
    /\ InFlight(r)
    /\ r \notin gone
    /\ gone' = gone \cup {r}
    /\ UNCHANGED <<now, claim, pc, reply, asked, late, unknown, server, database, github>>

RunEnds(n) ==
    /\ n \in running
    /\ running' = running \ {n}
    /\ endedAt' = [endedAt EXCEPT ![n] = now]
    /\ UNCHANGED <<now, pc, claim, gone, reply, asked, late, unknown, server, database,
                   rejected>>

Tick ==
    /\ now < MaxTime
    /\ now' = now + 1
    /\ UNCHANGED <<pc, claim, gone, reply, asked, late, unknown, server, database, github>>

\* The process restarts: what it was doing, and what it kept in memory, is gone.
Crash ==
    /\ "crash" \in Faults
    /\ \E r \in Request : InFlight(r)
    /\ pc' = [r \in Request |-> IF InFlight(r) THEN "done" ELSE pc[r]]
    /\ claim' = [r \in Request |-> IF InFlight(r) THEN NoClaim ELSE claim[r]]
    /\ gone' = {}
    /\ slots' = 0
    /\ verdicts' = [c \in Claim |-> NoVerdict]
    /\ limiter' = [window |-> -Window, count |-> 0]
    /\ asked' = [r \in Request |-> 0]
    /\ UNCHANGED <<now, reply, late, unknown, database, github>>

----------------------------------------------------------------------------
Authenticate(r) ==
    \/ AuthToken(r) \/ (\E c \in ClaimsOf[r] : EnterPreAuth(r, c)) \/ TooManyPreAuth(r) \/ RefuseCredential(r)
    \/ AuthOIDC(r) \/ AnswerFromVerdict(r) \/ ChargeAttempt(r) \/ LimitReached(r)
    \/ ClaimVerified(r) \/ ClaimRejected(r) \/ VerifyFails(r)

Accept(r) ==
    \/ ReadUploadRequest(r) \/ TooManyParts(r) \/ RefuseUploadRequest(r)
    \/ ClaimTokenlessUpload(r) \/ ClaimLost(r) \/ ClaimFails(r)
    \/ AcceptFails(r) \/ StoreRaw(r) \/ CreateUpload(r) \/ CreateUploadFails(r)
    \/ DeleteBlob(r) \/ Recompute(r) \/ RecomputeFails(r)
    \/ ReleaseTokenlessUpload(r)

Next ==
    \/ \E r \in Request : Authenticate(r) \/ Accept(r) \/ ClientGone(r)
    \/ \E n \in Run : RunEnds(n)
    \/ Tick
    \/ Crash

Spec == Init /\ [][Next]_vars

----------------------------------------------------------------------------
(* Properties. *)

\* "One accept per (run, attempt, part): first verified upload wins the triple,
\* replays are refused" (handleUpload): of two uploads claiming the same triple
\* one at a time is accepted or being accepted, through every failed attempt
\* and its retry.
AcceptedOnce ==
    \A r, q \in Fork :
        /\ Triple(r) = Triple(q)
        /\ pc[r] \in Holding \/ reply[r] = "created"
        /\ pc[q] \in Holding \/ reply[q] = "created"
        => r = q

\* "Only a run still in progress may upload" (VerifyRunClaim), and "a rejection
\* for a claim naming a real run with a wrong SHA must not shut that run out"
\* (claimVerdicts): a claim is let in or rejected on GitHub's verdict on that
\* very claim, never later than claimVerdictTTL after its run ended.
VerdictIsOfItsClaim ==
    [][\A r \in Fork :
        /\ pc[r] \in PreAuth /\ pc'[r] = "authed" =>
             /\ claim[r] \notin Unfit
             /\ \/ RunOf[claim[r]] \in running
                \/ now <= endedAt[RunOf[claim[r]]] + VerdictTTL
        /\ reply[r] /= "rejected" /\ reply'[r] = "rejected" => claim[r] \in rejected']_vars

\* The check of maxPartsPerCommit runs outside the lock, so uploads that arrive
\* together may overshoot it; "the cap guards against the unbounded case, which
\* that cannot become" (readUploadRequest): one that arrives after the commit
\* has all its parts only ever replaces one.
LateUploadsReplace ==
    \A r \in late \cap rows : \E q \in rows \ late : PartOf[q] = PartOf[r]

\* Accept deletes the raw profile of an upload it could not store, never that
\* of a stored one, unless the answer to the commit was lost.
StoredRowHasBlob == \A r \in rows : r \in blobs \/ r \in unknown

\* "free the triple so the CI job's retry is not locked out by this failure"
\* (handleUpload): a triple is taken only by an upload that landed or is still
\* on its way.  Does NOT hold (README, "What does not hold"), so no run lists it.
RetryNotLockedOut ==
    \A t \in claimed :
        \E r \in Fork :
            Triple(r) = t /\ (pc[r] \in Holding \/ reply[r] = "created")

=============================================================================
