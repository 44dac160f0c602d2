----------------------------- MODULE Visibility -----------------------------
(***************************************************************************)
(* The cached forge visibility of one repo: the switch behind its          *)
(* anonymous report pages (internal/core/repo.go).                         *)
(*                                                                         *)
(* Checks ask the forge and store the answer under the time they asked:    *)
(* uploads, background re-checks of a page served on an old answer, and    *)
(* the webhook that announces a repo made public. Closers store "private"  *)
(* without asking: the webhook that announces a repo made private, and the *)
(* loss of the workspace's connection (internal/core/forges.go). All of    *)
(* them run side by side, in several processes.                            *)
(*                                                                         *)
(* Clock readings are distinct and ordered across processes: a reading     *)
(* moves the clock on. TTLs are counted in readings.                       *)
(***************************************************************************)
EXTENDS Integers

CONSTANTS
    Process,
    Check,        \* the checks that may be made
    Closer,       \* the closers that may run
    KindOf,       \* [Check -> {"upload", "serve", "publicized"}],
                  \* [Closer -> {"privatized", "disconnect"}]
    ProcessOf,    \* [Check \cup Closer -> Process]
    UploadTTL,    \* defaultVisibilityUploadTTL
    ServeTTL,     \* defaultVisibilityServeTTL
    RecheckGap,   \* visibilityRecheckGap
    MaxTime       \* bound on the clock

Actor == Check \cup Closer

ASSUME ActorAssumption == Check \cap Closer = {}
ASSUME ProcessAssumption == ProcessOf \in [Actor -> Process]
ASSUME KindAssumption ==
    /\ KindOf \in [Actor -> {"upload", "serve", "publicized", "privatized",
                             "disconnect"}]
    /\ \A c \in Check : KindOf[c] \in {"upload", "serve", "publicized"}
    /\ \A k \in Closer : KindOf[k] \in {"privatized", "disconnect"}
ASSUME TimeAssumption ==
    UploadTTL \in Nat /\ ServeTTL \in Nat /\ RecheckGap \in Nat /\ MaxTime \in Nat

VARIABLES
    \* The database.
    visibility,  \* repos.visibility, "" until the forge has answered
    checkedAt,   \* repos.visibility_checked_at, 0 = NULL
    connected,   \* the workspace has a connection that is not broken
    \* The forge.
    truth,       \* "public", "private" or "gone" (not visible to the connection)
    announced,   \* the webhooks that may be delivered, late or again
    \* The processes.
    inFlight,    \* visInFlight: the processes asking about the repo
    recheckAt,   \* visChecks: when each process last claimed a re-check, 0 = not
    pc,
    copy,        \* the visibility in the actor's copy of the repo
    stamp,       \* the time the actor's answer will be stored under
    answer,
    now,
    \* History, for the properties only.
    hiddenAt,    \* when the repo last stopped being public
    toldAt,      \* the stamp of the newest privatized webhook applied
    failed       \* a check failed

vars == <<visibility, checkedAt, connected, truth, announced, inFlight,
          recheckAt, pc, copy, stamp, answer, now, hiddenAt, toldAt,
          failed>>
forgeVars == <<truth, announced, hiddenAt>>
rowVars == <<visibility, checkedAt>>

State == {"idle", "resolving", "client", "asking", "answered", "unverifiable",
          "listing", "stamped", "done"}

visibilityFresh(ttl) == checkedAt /= 0 /\ now - checkedAt < ttl

Goto(a, state) == pc' = [pc EXCEPT ![a] = state]

\* The clock is read: the reading is now', kept by a as its stamp.
Stamp(a) ==
    /\ now < MaxTime
    /\ now' = now + 1
    /\ stamp' = [stamp EXCEPT ![a] = now + 1]

\* What the actor read and asked is forgotten.
Forget(a) ==
    /\ copy' = [copy EXCEPT ![a] = ""]
    /\ stamp' = [stamp EXCEPT ![a] = 0]
    /\ answer' = [answer EXCEPT ![a] = ""]

\* endVisibilityRefresh, deferred by the check that asks.
EndRefresh(a) ==
    inFlight' = IF pc[a] \in {"asking", "answered"}
                THEN inFlight \ {ProcessOf[a]} ELSE inFlight

----------------------------------------------------------------------------
Init ==
    /\ visibility = ""
    /\ checkedAt = 0
    /\ connected = TRUE
    /\ truth \in {"public", "private"}
    /\ announced = {}
    /\ inFlight = {}
    /\ recheckAt = [p \in Process |-> 0]
    /\ pc = [a \in Actor |-> "idle"]
    /\ copy = [a \in Actor |-> ""]
    /\ stamp = [a \in Actor |-> 0]
    /\ answer = [a \in Actor |-> ""]
    /\ now = 1
    /\ hiddenAt = IF truth = "private" THEN 1 ELSE 0
    /\ toldAt = 0
    /\ failed = FALSE

----------------------------------------------------------------------------
(* A check. It works on the copy of the repo its request loaded. *)

\* Accept skips the check while the answer is younger than the upload TTL.
UploadCheck(c) ==
    /\ KindOf[c] = "upload"
    /\ ~visibilityFresh(UploadTTL)
    /\ UNCHANGED recheckAt

\* ReverifyVisibilityIfStale: a page is served publicly on an old answer, and
\* this process has not claimed a re-check within the gap.
ServeCheck(c) ==
    /\ KindOf[c] = "serve"
    /\ visibility = "public"
    /\ ~visibilityFresh(ServeTTL)
    /\ \/ recheckAt[ProcessOf[c]] = 0
       \/ now - recheckAt[ProcessOf[c]] >= RecheckGap
    /\ recheckAt' = [recheckAt EXCEPT ![ProcessOf[c]] = now]

\* The "publicized" webhook: verified before it can open pages.
PublicizedCheck(c) ==
    /\ KindOf[c] = "publicized"
    /\ "publicized" \in announced
    /\ UNCHANGED recheckAt

BeginCheck(c) ==
    /\ pc[c] = "idle"
    /\ UploadCheck(c) \/ ServeCheck(c) \/ PublicizedCheck(c)
    /\ copy' = [copy EXCEPT ![c] = visibility]
    /\ Goto(c, "resolving")
    /\ UNCHANGED <<rowVars, connected, forgeVars, inFlight, stamp, answer, now,
                   toldAt, failed>>

\* forgeFor: a client through the workspace's connection, or none.
ResolveClient(c) ==
    /\ pc[c] = "resolving"
    /\ \/ connected /\ Goto(c, "client") /\ UNCHANGED failed
       \/ ~connected /\ Goto(c, "unverifiable") /\ UNCHANGED failed
       \/ connected /\ Goto(c, "unverifiable") /\ failed' = TRUE
    /\ UNCHANGED <<rowVars, connected, forgeVars, inFlight, recheckAt, copy,
                   stamp, answer, now, toldAt>>

\* Mutant: the guard is set and not looked at.
BeginRefresh_Unguarded(c) ==
    /\ pc[c] = "client"
    /\ inFlight' = inFlight \cup {ProcessOf[c]}
    /\ Stamp(c)
    /\ Goto(c, "asking")
    /\ UNCHANGED <<rowVars, connected, forgeVars, recheckAt, copy, answer,
                   toldAt, failed>>

\* refreshVisibilityOnce begins: the stamp is the time of the question.
BeginRefresh(c) ==
    /\ pc[c] = "client"
    /\ ProcessOf[c] \notin inFlight
    /\ inFlight' = inFlight \cup {ProcessOf[c]}
    /\ Stamp(c)
    /\ Goto(c, "asking")
    /\ UNCHANGED <<rowVars, connected, forgeVars, recheckAt, copy, answer,
                   toldAt, failed>>

\* Another request of the process is asking: the duplicate is skipped.
SkipRefresh(c) ==
    /\ pc[c] = "client"
    /\ ProcessOf[c] \in inFlight
    /\ Goto(c, "done")
    /\ Forget(c)
    /\ UNCHANGED <<rowVars, connected, forgeVars, inFlight, recheckAt, now,
                   toldAt, failed>>

\* RefreshVisibility's answer. A repo the connection cannot see is private.
Answered(c) ==
    /\ pc[c] = "asking"
    /\ answer' = [answer EXCEPT ![c] =
                     IF truth = "public" THEN "public" ELSE "private"]
    /\ Goto(c, "answered")
    /\ UNCHANGED <<rowVars, connected, forgeVars, inFlight, recheckAt, copy,
                   stamp, now, toldAt, failed>>

\* closeUnverifiable: a repo read as public that no connection vouches for is
\* closed; a connection that only failed this once keeps it open.
CloseUnverifiable(c) ==
    /\ pc[c] = "unverifiable"
    /\ IF copy[c] = "public" /\ ~connected
       THEN /\ Stamp(c)
            /\ answer' = [answer EXCEPT ![c] = "private"]
            /\ Goto(c, "stamped")
            /\ UNCHANGED copy
       ELSE /\ Forget(c)
            /\ Goto(c, "done")
            /\ UNCHANGED now
    /\ UNCHANGED <<rowVars, connected, forgeVars, inFlight, recheckAt, toldAt, failed>>

----------------------------------------------------------------------------
(* A closer. *)

\* MarkRepoPrivate, for a "privatized" webhook.
MarkRepoPrivate(k) ==
    /\ pc[k] = "idle"
    /\ KindOf[k] = "privatized"
    /\ "privatized" \in announced
    /\ Stamp(k)
    /\ answer' = [answer EXCEPT ![k] = "private"]
    /\ Goto(k, "stamped")
    /\ UNCHANGED <<rowVars, connected, forgeVars, inFlight, recheckAt, copy,
                   toldAt, failed>>

\* The connection is disconnected, or found broken ...
LoseConnection(k) ==
    /\ pc[k] = "idle"
    /\ KindOf[k] = "disconnect"
    /\ connected
    /\ connected' = FALSE
    /\ Goto(k, "listing")
    /\ UNCHANGED <<rowVars, forgeVars, inFlight, recheckAt, copy, stamp, answer,
                   now, toldAt, failed>>

\* ... and MarkWorkspaceReposPrivate closes the repo if it lists it as public.
MarkWorkspaceReposPrivate(k) ==
    /\ pc[k] = "listing"
    /\ IF visibility = "public"
       THEN /\ Stamp(k)
            /\ answer' = [answer EXCEPT ![k] = "private"]
            /\ Goto(k, "stamped")
       ELSE /\ Goto(k, "done")
            /\ UNCHANGED <<stamp, answer, now>>
    /\ UNCHANGED <<rowVars, connected, forgeVars, inFlight, recheckAt, copy,
                   toldAt, failed>>

----------------------------------------------------------------------------
\* Mutants: the last write wins; the stamp is the time of the write.
SetRepoVisibility_LastWrite(a) ==
    /\ pc[a] \in {"answered", "stamped"}
    /\ visibility' = answer[a]
    /\ checkedAt' = stamp[a]
    /\ toldAt' = IF a \in Closer /\ KindOf[a] = "privatized" /\ stamp[a] > toldAt
                 THEN stamp[a] ELSE toldAt
    /\ EndRefresh(a)
    /\ Goto(a, "done")
    /\ Forget(a)
    /\ UNCHANGED <<connected, forgeVars, recheckAt, now, failed>>

SetRepoVisibility_StampsNow(a) ==
    /\ pc[a] \in {"answered", "stamped"}
    /\ visibility' = answer[a]
    /\ checkedAt' = now
    /\ toldAt' = IF a \in Closer /\ KindOf[a] = "privatized" /\ stamp[a] > toldAt
                 THEN stamp[a] ELSE toldAt
    /\ EndRefresh(a)
    /\ Goto(a, "done")
    /\ Forget(a)
    /\ UNCHANGED <<connected, forgeVars, recheckAt, now, failed>>

\* The row keeps whichever answer was asked for later.
SetRepoVisibility(a) ==
    /\ pc[a] \in {"answered", "stamped"}
    /\ IF checkedAt < stamp[a]
       THEN visibility' = answer[a] /\ checkedAt' = stamp[a]
       ELSE UNCHANGED rowVars
    /\ toldAt' = IF a \in Closer /\ KindOf[a] = "privatized" /\ stamp[a] > toldAt
                 THEN stamp[a] ELSE toldAt
    /\ EndRefresh(a)
    /\ Goto(a, "done")
    /\ Forget(a)
    /\ UNCHANGED <<connected, forgeVars, recheckAt, now, failed>>

\* The forge or the database errs, the re-check times out, or the work is cut
\* short: the last known answer stays.
GiveUp(a) ==
    /\ pc[a] \notin {"idle", "done"}
    /\ EndRefresh(a)
    /\ Goto(a, "done")
    /\ Forget(a)
    /\ failed' = TRUE
    /\ UNCHANGED <<rowVars, connected, forgeVars, recheckAt, now, toldAt>>

----------------------------------------------------------------------------
(* Around them. *)

\* An owner connects the workspace again.
Reconnect ==
    /\ ~connected
    /\ connected' = TRUE
    /\ UNCHANGED <<rowVars, forgeVars, inFlight, recheckAt, pc, copy, stamp,
                   answer, now, toldAt, failed>>

\* The repo is published, made private or taken away on the forge, which
\* announces the first two.
Flip(to) ==
    /\ now < MaxTime
    /\ truth /= to
    /\ truth' = to
    /\ now' = now + 1
    /\ announced' = announced \cup (CASE to = "public" -> {"publicized"}
                                      [] to = "private" -> {"privatized"}
                                      [] OTHER -> {})
    /\ hiddenAt' = IF truth = "public" THEN now + 1 ELSE hiddenAt
    /\ UNCHANGED <<rowVars, connected, inFlight, recheckAt, pc, copy, stamp,
                   answer, toldAt, failed>>

Tick ==
    /\ now < MaxTime
    /\ now' = now + 1
    /\ UNCHANGED <<rowVars, connected, forgeVars, inFlight, recheckAt, pc, copy,
                   stamp, answer, toldAt, failed>>

Next ==
    \/ \E c \in Check :
        \/ BeginCheck(c)
        \/ ResolveClient(c)
        \/ BeginRefresh(c)
        \/ SkipRefresh(c)
        \/ Answered(c)
        \/ CloseUnverifiable(c)
    \/ \E k \in Closer :
        MarkRepoPrivate(k) \/ LoseConnection(k) \/ MarkWorkspaceReposPrivate(k)
    \/ \E a \in Actor : SetRepoVisibility(a) \/ GiveUp(a)
    \/ Reconnect
    \/ \E to \in {"public", "private", "gone"} : Flip(to)
    \/ Tick

Spec == Init /\ [][Next]_vars

----------------------------------------------------------------------------
(* Properties. *)

Answers == {"", "public", "private"}

TypeOK ==
    /\ visibility \in Answers
    /\ checkedAt \in Nat
    /\ connected \in BOOLEAN
    /\ truth \in {"public", "private", "gone"}
    /\ announced \subseteq {"publicized", "privatized"}
    /\ inFlight \subseteq Process
    /\ recheckAt \in [Process -> Nat]
    /\ pc \in [Actor -> State]
    /\ copy \in [Actor -> Answers]
    /\ stamp \in [Actor -> Nat]
    /\ answer \in [Actor -> Answers]
    /\ now \in Nat
    /\ hiddenAt \in Nat /\ toldAt \in Nat
    /\ failed \in BOOLEAN

\* A repo that is no longer public on the forge is cached public only on an
\* answer asked for before it was hidden (RefreshVisibility's stamp), so every
\* window that counts from the stamp has been running since before the flip.
OpenPredatesHiding ==
    visibility = "public" /\ truth /= "public" => checkedAt < hiddenAt

\* "The later ask wins regardless of write order" (SetRepoVisibility): after a
\* privatized webhook was applied, no answer asked for before it reopens the
\* repo, however late it lands.
NewsIsNotUndone == visibility = "public" => toldAt < checkedAt

\* A process never asks the forge twice at once (refreshVisibilityOnce),
\* whichever checks fail, skip or end.
OneQuestionPerProcess ==
    \A c, d \in Check :
        /\ pc[c] \in {"asking", "answered"} /\ pc[d] \in {"asking", "answered"}
        /\ ProcessOf[c] = ProcessOf[d]
        => c = d

Quiet == \A a \in Actor : pc[a] \in {"idle", "done"}

\* "A public answer is only trusted while a connection can re-verify it"
\* (MarkWorkspaceReposPrivate): when everyone is done and nothing failed, a
\* repo without a connection is not public.  Does NOT hold (README, "What does
\* not hold"), so no run lists it.
PublicNeedsConnection ==
    Quiet /\ ~failed /\ ~connected => visibility /= "public"
=============================================================================
