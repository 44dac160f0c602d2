-------------------------- MODULE CommitPush_proofs --------------------------
(* Theorems about CommitPush, for any set of uploads, parts and surfaces. *)
EXTENDS CommitPush, WellFoundedInduction, TLAPS

----------------------------------------------------------------------------
(* The inductive invariant, in parts. *)

\* Row ids are distinct, come from the sequence and precede visibility.
IdsInv ==
    /\ \A u \in Upload : rowId[u] < nextId
    /\ \A u, v \in Upload : rowId[u] = rowId[v] /\ rowId[u] /= 0 => u = v
    /\ \A u \in landed : rowId[u] /= 0

\* How far a worker is says what is visible.
StageInv ==
    /\ \A u \in Upload :
        /\ about[Request(u)] = u
        /\ pc[Request(u)] /= "reload"
        /\ pc[FollowUp(u)] /= "inserting"
        /\ pc[Request(u)] = "idle" => rowId[u] = 0
        /\ pc[Request(u)] = "inserting" => rowId[u] /= 0
        /\ pc[Request(u)] \in {"idle", "inserting"} => u \notin landed
    /\ \A w \in Worker :
        /\ pc[w] \in {"landed", "merging", "merged", "pushing", "finishing"}
              => about[w] \in landed
        /\ pc[w] = "reload" => landed /= {}

\* The recompute lock is the worker's that is between its read and its upsert.
LockInv == \A w \in Worker : pc[w] = "merging" => lock = w

\* A worker that holds the lease holds it for longer than it may take.
LeaseInv ==
    \A w \in Worker :
        /\ Holding(w) => /\ leaseUntil = token[w]
                         /\ now <= deadline[w]
                         /\ deadline[w] < token[w]
        /\ pc[w] = "pushing" => deadline[w] + FinishTimeout < token[w]

\* Only visible rows are merged, reported and shown.
VisibleInv ==
    /\ report \subseteq landed
    /\ \A s \in Surface : board[s] \subseteq landed
    /\ \A w \in Worker : snap[w] \subseteq landed
    /\ pushedVersion /= 0 => \E v \in landed : rowId[v] = pushedVersion

\* What a recompute read covers what the report holds, and its own upload.
ReadInv ==
    \A w \in Worker :
        pc[w] = "merging" => /\ \A v \in report : Covers(snap[w], v)
                             /\ Covers(snap[w], about[w])

Merged(w) == pc[w] \in {"merging", "merged", "pushing", "finishing"}

\* A round carries every upload up to its version.
CarryInv ==
    \A w \in Worker :
        Merged(w) /\ ~inverted =>
            \A u \in landed : rowId[u] <= Version(w) => Covers(snap[w], u)

\* The version recorded is never past the one being pushed, and a status that
\* was answered is shown.
HoldInv ==
    \A w \in Worker :
        /\ Holding(w) => pushedVersion <= Version(w)
        /\ Holding(w) /\ Status \notin owed[w] /\ Status \notin failed[w]
             => board[Status] = snap[w]
        /\ pc[w] = "finishing" => owed[w] = {}

IndInv ==
    /\ TypeOK
    /\ IdsInv
    /\ StageInv
    /\ LockInv
    /\ LeaseInv
    /\ OnePushAtATime
    /\ VisibleInv
    /\ ReadInv
    /\ MergedUploadIsReported
    /\ CarryInv
    /\ HoldInv
    /\ UnseenIsNewerThanRecorded

----------------------------------------------------------------------------
(* What the store's reads return. *)

\* A non-empty set of rows has a newest one: ids are bounded by the sequence.
LEMMA NewestExists ==
    ASSUME TypeOK, IdsInv, NEW S \in SUBSET Upload, S /= {}
    PROVE  \E u \in S : \A v \in S : rowId[v] <= rowId[u]
<1> DEFINE Age(v) == nextId - rowId[v]
           T == {Age(v) : v \in S}
<1>1. \A v \in S : Age(v) \in Nat /\ rowId[v] \in Nat
  BY DEF TypeOK, IdsInv
<1>2. T \subseteq Nat /\ T /= {}
  BY <1>1
<1>3. PICK x \in T : \A y \in T : ~(<<y, x>> \in OpToRel(<, Nat))
  <2> HIDE DEF T
  <2> QED BY <1>2, WFMin, NatLessThanWellFounded
<1>4. PICK u \in S : x = Age(u)
  BY <1>3
<1>5. \A v \in S : ~(Age(v) < Age(u))
  <2> SUFFICES ASSUME NEW v \in S PROVE ~(Age(v) < Age(u))
    OBVIOUS
  <2>1. ~(<<Age(v), Age(u)>> \in OpToRel(<, Nat))
    BY <1>3, <1>4
  <2>2. Age(v) \in Nat /\ Age(u) \in Nat
    BY <1>1
  <2> HIDE DEF Age
  <2> QED BY <2>1, <2>2 DEF OpToRel
<1>6. nextId \in Nat
  BY DEF TypeOK
<1> QED BY <1>1, <1>5, <1>6

\* Newest answers a row of a non-empty set.
LEMMA NewestIsMember ==
    ASSUME TypeOK, IdsInv, NEW S \in SUBSET Upload, S /= {}
    PROVE  Newest(S) \in S
BY NewestExists DEF Newest

\* The newest row of each part covers every row it was chosen from.
LEMMA LatestCovers ==
    ASSUME TypeOK, IdsInv, NEW S \in SUBSET Upload, NEW u \in S
    PROVE  Covers(LatestUploadsPerPart(S), u)
<1> DEFINE P == {v \in S : Part[v] = Part[u]}
<1>1. P \in SUBSET Upload /\ P /= {} /\ u \in P
  OBVIOUS
<1>2. PICK v \in P : \A x \in P : rowId[x] <= rowId[v]
  BY <1>1, NewestExists
<1>3. v \in LatestUploadsPerPart(S)
  BY <1>2 DEF LatestUploadsPerPart
<1> QED BY <1>1, <1>2, <1>3 DEF Covers

----------------------------------------------------------------------------
(* Types, ids and stages. *)

BasicInv == TypeOK /\ IdsInv /\ StageInv

\* Every step keeps the variables in their types, the ids distinct and the
\* stages of the workers tied to what is visible.
LEMMA BasicStep == BasicInv /\ [Next]_vars => BasicInv'
<1> SUFFICES ASSUME BasicInv, [Next]_vars PROVE BasicInv'
  OBVIOUS
<1> USE SurfaceAssumption, TimeAssumption, NoWorkerAssumption
    DEF BasicInv, dbVars, leaseVars, roundVars
<1>1. ASSUME NEW u \in Upload, InsertUpload(u) PROVE BasicInv'
  <2>2. TypeOK'
    BY <1>1 DEF InsertUpload, Goto, TypeOK, State, Worker, Request
  <2>3. IdsInv'
    BY <1>1 DEF InsertUpload, TypeOK, IdsInv
  <2>4. StageInv'
    BY <1>1 DEF InsertUpload, Goto, TypeOK, StageInv, Worker, Request,
       FollowUp
  <2> QED BY <2>2, <2>3, <2>4
<1>2. ASSUME NEW u \in Upload, CommitUpload(u) PROVE BasicInv'
  <2>2. TypeOK'
    BY <1>2 DEF CommitUpload, Goto, TypeOK, State
  <2>3. IdsInv'
    BY <1>2 DEF CommitUpload, IdsInv, StageInv
  <2>4. StageInv'
    <3> USE DEF CommitUpload, Goto, TypeOK, StageInv, Worker, Request, FollowUp
    <3>1. ASSUME NEW v \in Upload
          PROVE  /\ about'[Request(v)] = v
                 /\ pc'[Request(v)] /= "reload"
                 /\ pc'[FollowUp(v)] /= "inserting"
                 /\ pc'[Request(v)] = "idle" => rowId'[v] = 0
                 /\ pc'[Request(v)] = "inserting" => rowId'[v] /= 0
                 /\ pc'[Request(v)] \in {"idle", "inserting"} => v \notin landed'
      <4>1. Request(u) \in Worker /\ Request(v) \in Worker /\ FollowUp(v) \in Worker
        OBVIOUS
      <4>2. Request(u) /= FollowUp(v) /\ (Request(u) = Request(v) => u = v)
        OBVIOUS
      <4> QED BY <1>2, <4>1, <4>2
    <3>2. ASSUME NEW w \in Worker
          PROVE  /\ pc'[w] \in {"landed", "merging", "merged", "pushing", "finishing"}
                       => about'[w] \in landed'
                 /\ pc'[w] = "reload" => landed' /= {}
      <4>1. Request(u) \in Worker /\ about[Request(u)] = u
        OBVIOUS
      <4> QED BY <1>2, <4>1
    <3> QED BY <3>1, <3>2
  <2> QED BY <2>2, <2>3, <2>4
<1>3. ASSUME NEW u \in Upload, RollbackUpload(u) PROVE BasicInv'
  <2>2. TypeOK'
    BY <1>3 DEF RollbackUpload, Goto, TypeOK, State
  <2>3. IdsInv'
    BY <1>3 DEF RollbackUpload, Goto, IdsInv
  <2>4. StageInv'
    BY <1>3 DEF RollbackUpload, Goto, StageInv
  <2> QED BY <2>2, <2>3, <2>4
<1>4. ASSUME NEW u \in Upload, FinishRequest(u) PROVE BasicInv'
  <2>2. TypeOK'
    BY <1>4 DEF FinishRequest, Release, EndRound, Version, TypeOK, State,
       Worker, Request
  <2>3. IdsInv'
    BY <1>4 DEF FinishRequest, IdsInv
  <2>4. StageInv'
    <3>1. /\ about' = about /\ rowId' = rowId /\ landed' = landed
          /\ pc[Request(u)] = "finishing"
          /\ pc' = [pc EXCEPT ![Request(u)] = "done",
                            ![FollowUp(u)] = IF Again(Request(u))
                                             THEN "reload" ELSE @]
      BY <1>4 DEF FinishRequest
    <3>2. pc \in [Worker -> State]
      BY DEF TypeOK
    <3>3. /\ Request(u) \in Worker /\ FollowUp(u) \in Worker
          /\ Request(u) /= FollowUp(u)
      BY DEF Worker, Request, FollowUp
    <3>4. pc'[FollowUp(u)] = "reload" => landed /= {}
      BY <3>1, <3>3 DEF StageInv
    <3>5. \A w \in Worker : pc'[w] \in {pc[w], "done", "reload"}
      BY <3>1, <3>2
    <3>6. \A w \in Worker : pc'[w] = "reload" => landed /= {}
      BY <3>1, <3>2, <3>3, <3>4 DEF StageInv
    <3>7. \A v \in Upload : /\ Request(v) \in Worker
                            /\ FollowUp(v) \in Worker
                            /\ Request(v) /= FollowUp(u)
      BY DEF Worker, Request, FollowUp
    <3>8. \A v \in Upload : pc'[Request(v)] \in {pc[Request(v)], "done"}
      BY <3>1, <3>2, <3>3, <3>7
    <3> QED BY <3>1, <3>5, <3>6, <3>7, <3>8 DEF StageInv
  <2> QED BY <2>2, <2>3, <2>4
<1>5. ASSUME NEW u \in Upload, FinishFollowUp(u) PROVE BasicInv'
  <2>2. TypeOK'
    BY <1>5 DEF FinishFollowUp, Release, EndRound, Goto, Version, TypeOK,
       State, Worker, FollowUp
  <2>3. IdsInv'
    BY <1>5 DEF FinishFollowUp, IdsInv
  <2>4. StageInv'
    BY <1>5 DEF FinishFollowUp, Goto, StageInv, Worker, Request, FollowUp
  <2> QED BY <2>2, <2>3, <2>4
<1>6. ASSUME NEW u \in Upload, FollowUpReload(u) PROVE BasicInv'
  <2>1. Newest(landed) \in landed
    BY <1>6, NewestIsMember DEF FollowUpReload, FollowUp, Worker, StageInv,
       TypeOK
  <2>2. TypeOK'
    BY <1>6, <2>1 DEF FollowUpReload, Goto, TypeOK, State
  <2>3. IdsInv'
    BY <1>6, <2>1 DEF FollowUpReload, Goto, IdsInv
  <2>4. StageInv'
    BY <1>6, <2>1 DEF FollowUpReload, Goto, TypeOK, StageInv
  <2> QED BY <2>2, <2>3, <2>4
\* A worker whose row is visible moves on, and nothing else is touched.
<1>s. ASSUME NEW w \in Worker, pc[w] \notin {"idle", "inserting", "reload", "done"},
             NEW x \in {"merging", "merged", "pushing", "finishing", "done"},
             pc' = [pc EXCEPT ![w] = x] \/ pc' = pc,
             about' = about, rowId' = rowId, landed' = landed
      PROVE  StageInv'
  <2>1. pc \in [Worker -> State]
    BY DEF TypeOK
  <2>2. \A v \in Upload : Request(v) \in Worker /\ FollowUp(v) \in Worker
    BY DEF Worker, Request, FollowUp
  <2>3. pc[w] \in {"landed", "merging", "merged", "pushing", "finishing"}
    BY <1>s, <2>1 DEF State
  <2>4. about[w] \in landed
    BY <2>3 DEF StageInv
  <2>5. \A v \in Worker : pc'[v] = pc[v] \/ (v = w /\ pc'[v] = x)
    BY <1>s, <2>1
  <2>6. ASSUME NEW v \in Upload
        PROVE  /\ about'[Request(v)] = v
               /\ pc'[Request(v)] /= "reload"
               /\ pc'[FollowUp(v)] /= "inserting"
               /\ pc'[Request(v)] = "idle" => rowId'[v] = 0
               /\ pc'[Request(v)] = "inserting" => rowId'[v] /= 0
               /\ pc'[Request(v)] \in {"idle", "inserting"} => v \notin landed'
    BY <1>s, <2>2, <2>5 DEF StageInv
  <2>7. ASSUME NEW v \in Worker
        PROVE  /\ pc'[v] \in {"landed", "merging", "merged", "pushing", "finishing"}
                     => about'[v] \in landed'
               /\ pc'[v] = "reload" => landed' /= {}
    BY <1>s, <2>4, <2>5 DEF StageInv
  <2> QED BY <2>6, <2>7 DEF StageInv
<1>7. ASSUME NEW w \in Worker, RecomputeRead(w) PROVE BasicInv'
  <2>2. TypeOK'
    BY <1>7 DEF RecomputeRead, Goto, LatestUploadsPerPart, TypeOK, State
  <2>3. IdsInv'
    BY <1>7 DEF RecomputeRead, IdsInv
  <2>4. StageInv'
    BY <1>7, <1>s DEF RecomputeRead, Goto
  <2> QED BY <2>2, <2>3, <2>4
<1>8. ASSUME NEW w \in Worker, UpsertCommitReport(w) PROVE BasicInv'
  <2>2. TypeOK'
    BY <1>8 DEF UpsertCommitReport, Goto, Version, TypeOK, State
  <2>3. IdsInv'
    BY <1>8 DEF UpsertCommitReport, IdsInv
  <2>4. StageInv'
    BY <1>8, <1>s DEF UpsertCommitReport, Goto
  <2> QED BY <2>2, <2>3, <2>4
<1>9. ASSUME NEW w \in Worker, ClaimPush(w) PROVE BasicInv'
  <2>2. TypeOK'
    BY <1>9 DEF ClaimPush, Goto, TypeOK, State
  <2>3. IdsInv'
    BY <1>9 DEF ClaimPush, Goto, IdsInv
  <2>4. StageInv'
    BY <1>9, <1>s DEF ClaimPush, Goto
  <2> QED BY <2>2, <2>3, <2>4
<1>10. ASSUME NEW w \in Worker, ClaimRefused(w) PROVE BasicInv'
  <2>2. TypeOK'
    BY <1>10 DEF ClaimRefused, Goto, EndRound, TypeOK, State
  <2>3. IdsInv'
    BY <1>10 DEF ClaimRefused, IdsInv
  <2>4. StageInv'
    BY <1>10, <1>s DEF ClaimRefused, Goto
  <2> QED BY <2>2, <2>3, <2>4
<1>11. ASSUME NEW w \in Worker, NEW s \in Surface, PushSurface(w, s) PROVE BasicInv'
  <2>2. TypeOK'
    BY <1>11 DEF PushSurface, Answered, Goto, TypeOK, State
  <2>3. IdsInv'
    BY <1>11 DEF PushSurface, Answered, IdsInv
  <2>4. StageInv'
    BY <1>11, <1>s DEF PushSurface, Answered, Goto
  <2> QED BY <2>2, <2>3, <2>4
<1>12. ASSUME NEW w \in Worker, NEW s \in Surface, PushSurfaceFails(w, s) PROVE BasicInv'
  <2>2. TypeOK'
    <3>1. board' \in [Surface -> SUBSET Upload]
      BY <1>12 DEF PushSurfaceFails, TypeOK
    <3>2. pc' \in [Worker -> State] /\ deadline' \in [Worker -> Nat]
      BY <1>12 DEF PushSurfaceFails, Answered, Goto, TypeOK, State
    <3>3. owed' \in [Worker -> SUBSET Surface] /\ failed' \in [Worker -> SUBSET Surface]
      BY <1>12 DEF PushSurfaceFails, Answered, TypeOK
    <3> QED BY <1>12, <3>1, <3>2, <3>3 DEF PushSurfaceFails, Answered, TypeOK
  <2>3. IdsInv'
    BY <1>12 DEF PushSurfaceFails, Answered, IdsInv
  <2>4. StageInv'
    BY <1>12, <1>s DEF PushSurfaceFails, Answered, Goto
  <2> QED BY <2>2, <2>3, <2>4
<1>13. ASSUME NEW w \in Worker, GiveUp(w) PROVE BasicInv'
  <2>2. TypeOK'
    BY <1>13 DEF GiveUp, Goto, EndRound, TypeOK, State
  <2>3. IdsInv'
    BY <1>13 DEF GiveUp, IdsInv
  <2>4. StageInv'
    <3>1. CASE pc[w] = "reload"
      BY <1>13, <3>1 DEF GiveUp, Goto, StageInv
    <3>2. CASE pc[w] /= "reload"
      BY <1>13, <1>s, <3>2 DEF GiveUp, Goto
    <3> QED BY <3>1, <3>2
  <2> QED BY <2>2, <2>3, <2>4
<1>14. ASSUME NEW w \in Worker, FinishUnanswered(w) PROVE BasicInv'
  <2>2. TypeOK'
    BY <1>14 DEF FinishUnanswered, Release, Goto, EndRound, Version, TypeOK,
       State
  <2>3. IdsInv'
    BY <1>14 DEF FinishUnanswered, IdsInv
  <2>4. StageInv'
    BY <1>14, <1>s DEF FinishUnanswered, Goto
  <2> QED BY <2>2, <2>3, <2>4
<1>15. ASSUME Tick PROVE BasicInv'
  <2>2. TypeOK'
    BY <1>15 DEF Tick, TypeOK
  <2>3. IdsInv'
    BY <1>15 DEF Tick, IdsInv
  <2>4. StageInv'
    BY <1>15 DEF Tick, StageInv
  <2> QED BY <2>2, <2>3, <2>4
<1>16. CASE UNCHANGED vars
  BY <1>16 DEF vars, TypeOK, IdsInv, StageInv
<1> QED BY <1>1, <1>2, <1>3, <1>4, <1>5, <1>6, <1>7, <1>8, <1>9, <1>10, <1>11, <1>12, <1>13, <1>14, <1>15, <1>16 DEF Next, Step

----------------------------------------------------------------------------
(* The recompute lock. *)

\* A worker between its read and its upsert holds the commit's lock.
LEMMA LockStep ==
    BasicInv /\ LockInv /\ [Next]_vars => LockInv'
<1> SUFFICES ASSUME BasicInv /\ LockInv, [Next]_vars
             PROVE  LockInv'
  OBVIOUS
<1> USE SurfaceAssumption, TimeAssumption, NoWorkerAssumption
    DEF dbVars, leaseVars, roundVars
<1>1. ASSUME NEW u \in Upload, InsertUpload(u) PROVE LockInv'
  BY <1>1 DEF InsertUpload, Goto, LockInv
<1>2. ASSUME NEW u \in Upload, CommitUpload(u) PROVE LockInv'
  BY <1>2 DEF CommitUpload, Goto, LockInv
<1>3. ASSUME NEW u \in Upload, RollbackUpload(u) PROVE LockInv'
  BY <1>3 DEF RollbackUpload, Goto, LockInv
<1>4. ASSUME NEW u \in Upload, FinishRequest(u) PROVE LockInv'
  BY <1>4 DEF FinishRequest, BasicInv, TypeOK, LockInv
<1>5. ASSUME NEW u \in Upload, FinishFollowUp(u) PROVE LockInv'
  BY <1>5 DEF FinishFollowUp, Goto, LockInv
<1>6. ASSUME NEW u \in Upload, FollowUpReload(u) PROVE LockInv'
  BY <1>6 DEF FollowUpReload, Goto, LockInv
<1>7. ASSUME NEW w \in Worker, RecomputeRead(w) PROVE LockInv'
  BY <1>7 DEF RecomputeRead, Goto, LockInv
<1>8. ASSUME NEW w \in Worker, UpsertCommitReport(w) PROVE LockInv'
  BY <1>8 DEF UpsertCommitReport, Goto, BasicInv, TypeOK, LockInv
<1>9. ASSUME NEW w \in Worker, ClaimPush(w) PROVE LockInv'
  BY <1>9 DEF ClaimPush, Goto, LockInv
<1>10. ASSUME NEW w \in Worker, ClaimRefused(w) PROVE LockInv'
  BY <1>10 DEF ClaimRefused, Goto, LockInv
<1>11. ASSUME NEW w \in Worker, NEW s \in Surface, PushSurface(w, s) PROVE LockInv'
  BY <1>11 DEF PushSurface, Answered, Goto, BasicInv, TypeOK, LockInv
<1>12. ASSUME NEW w \in Worker, NEW s \in Surface, PushSurfaceFails(w, s) PROVE LockInv'
  BY <1>12 DEF PushSurfaceFails, Answered, Goto, BasicInv, TypeOK, LockInv
<1>13. ASSUME NEW w \in Worker, GiveUp(w) PROVE LockInv'
  BY <1>13 DEF GiveUp, Goto, BasicInv, TypeOK, LockInv
<1>14. ASSUME NEW w \in Worker, FinishUnanswered(w) PROVE LockInv'
  BY <1>14 DEF FinishUnanswered, Goto, LockInv
<1>15. ASSUME Tick PROVE LockInv'
  BY <1>15 DEF Tick, LockInv
<1>16. CASE UNCHANGED vars
  BY <1>16 DEF vars, LockInv
<1> QED BY <1>1, <1>2, <1>3, <1>4, <1>5, <1>6, <1>7, <1>8, <1>9, <1>10, <1>11, <1>12, <1>13, <1>14, <1>15, <1>16 DEF Next, Step

----------------------------------------------------------------------------
(* The push lease. *)

\* A live push keeps its lease, so nobody else can take one meanwhile.
LEMMA LeaseStep ==
    BasicInv /\ LeaseInv /\ OnePushAtATime /\ [Next]_vars => (LeaseInv' /\ OnePushAtATime')
<1> SUFFICES ASSUME BasicInv, LeaseInv, OnePushAtATime, [Next]_vars
             PROVE  LeaseInv' /\ OnePushAtATime'
  OBVIOUS
<1> USE DEF dbVars, leaseVars, roundVars
<1>t. /\ pc \in [Worker -> State]
      /\ token \in [Worker -> Nat]
      /\ deadline \in [Worker -> Nat]
      /\ leaseUntil \in Nat
      /\ now \in Nat
      /\ \A u \in Upload : Request(u) \in Worker /\ FollowUp(u) \in Worker
  BY DEF BasicInv, TypeOK, Worker, Request, FollowUp
\* A step after which nobody holds who did not, and nothing about a holder
\* has changed.
<1>a. ASSUME \A w \in Worker : Holding(w)' =>
                /\ Holding(w)
                /\ token'[w] = token[w]
                /\ deadline'[w] = deadline[w]
                /\ pc'[w] = "pushing" => pc[w] = "pushing"
                /\ leaseUntil' = leaseUntil
                /\ now' = now
      PROVE  LeaseInv' /\ OnePushAtATime'
  <2>1. ASSUME NEW w \in Worker, Holding(w)'
        PROVE  /\ leaseUntil' = token'[w]
               /\ now' <= deadline'[w]
               /\ deadline'[w] < token'[w]
               /\ pc'[w] = "pushing" => deadline'[w] + FinishTimeout < token'[w]
    BY <1>a, <2>1 DEF LeaseInv
  <2>2. LeaseInv'
    BY <2>1 DEF LeaseInv, Holding
  <2>3. OnePushAtATime'
    BY <1>a DEF OnePushAtATime
  <2> QED BY <2>2, <2>3
\* A step after which nobody holds.
<1>b. ASSUME \A w \in Worker : ~Holding(w)'
      PROVE  LeaseInv' /\ OnePushAtATime'
  BY <1>b, <1>a
<1>1. ASSUME NEW u \in Upload, InsertUpload(u) PROVE LeaseInv' /\ OnePushAtATime'
  BY <1>a, <1>t, <1>1 DEF InsertUpload, Goto, Holding
<1>2. ASSUME NEW u \in Upload, CommitUpload(u) PROVE LeaseInv' /\ OnePushAtATime'
  BY <1>a, <1>t, <1>2 DEF CommitUpload, Goto, Holding
<1>3. ASSUME NEW u \in Upload, RollbackUpload(u) PROVE LeaseInv' /\ OnePushAtATime'
  BY <1>a, <1>t, <1>3 DEF RollbackUpload, Goto, Holding
<1>4. ASSUME NEW u \in Upload, FinishRequest(u) PROVE LeaseInv' /\ OnePushAtATime'
  <2>1. \A v \in Worker : Holding(v) => v = Request(u)
    BY <1>4, <1>t DEF FinishRequest, Holding, OnePushAtATime
  <2>2. \A v \in Worker : ~Holding(v)'
    BY <1>4, <1>t, <2>1 DEF FinishRequest, Holding
  <2> QED BY <2>2, <1>b
<1>5. ASSUME NEW u \in Upload, FinishFollowUp(u) PROVE LeaseInv' /\ OnePushAtATime'
  <2>1. \A v \in Worker : Holding(v) => v = FollowUp(u)
    BY <1>5, <1>t DEF FinishFollowUp, Holding, OnePushAtATime
  <2>2. \A v \in Worker : ~Holding(v)'
    BY <1>5, <1>t, <2>1 DEF FinishFollowUp, Goto, Holding
  <2> QED BY <2>2, <1>b
<1>6. ASSUME NEW u \in Upload, FollowUpReload(u) PROVE LeaseInv' /\ OnePushAtATime'
  BY <1>a, <1>t, <1>6 DEF FollowUpReload, Goto, Holding
<1>7. ASSUME NEW w \in Worker, RecomputeRead(w) PROVE LeaseInv' /\ OnePushAtATime'
  BY <1>a, <1>t, <1>7 DEF RecomputeRead, Goto, Holding
<1>8. ASSUME NEW w \in Worker, UpsertCommitReport(w) PROVE LeaseInv' /\ OnePushAtATime'
  BY <1>a, <1>t, <1>8 DEF UpsertCommitReport, Goto, Holding
<1>9. ASSUME NEW w \in Worker, ClaimPush(w) PROVE LeaseInv' /\ OnePushAtATime'
  <2>1. LeaseFree
    BY <1>9 DEF ClaimPush
  <2>2. \A v \in Worker : ~Holding(v)
    BY <1>t, <2>1 DEF LeaseInv, LeaseFree
  <2>3. \A v \in Worker : Holding(v)' => v = w
    BY <1>9, <1>t, <2>2 DEF ClaimPush, Goto, Holding
  <2>4. /\ leaseUntil' = token'[w]
        /\ token'[w] = now + PushLease
        /\ deadline'[w] = now + PushTimeout
        /\ now' = now
    BY <1>9, <1>t DEF ClaimPush
  <2>5. /\ now <= now + PushTimeout
        /\ now + PushTimeout < now + PushLease
        /\ now + PushTimeout + FinishTimeout < now + PushLease
    BY <1>t, TimeAssumption
  <2>6. LeaseInv'
    <3> SUFFICES ASSUME NEW v \in Worker, Holding(v)'
                 PROVE  /\ leaseUntil' = token'[v]
                        /\ now' <= deadline'[v]
                        /\ deadline'[v] < token'[v]
                        /\ deadline'[v] + FinishTimeout < token'[v]
      BY DEF LeaseInv, Holding
    <3> QED BY <2>3, <2>4, <2>5
  <2>7. OnePushAtATime'
    BY <2>3 DEF OnePushAtATime
  <2> QED BY <2>6, <2>7
<1>10. ASSUME NEW w \in Worker, ClaimRefused(w) PROVE LeaseInv' /\ OnePushAtATime'
  BY <1>a, <1>t, <1>10 DEF ClaimRefused, Goto, EndRound, Holding
\* The last surface has answered: the release has its own deadline, still
\* inside the lease.
<1>c. ASSUME NEW w \in Worker, NEW s \in Surface, Answered(w, s)
      PROVE  LeaseInv' /\ OnePushAtATime'
  <2>1. /\ Holding(w)
        /\ leaseUntil = token[w]
        /\ now <= deadline[w]
        /\ deadline[w] + FinishTimeout < token[w]
    BY <1>c DEF Answered, LeaseInv, Holding
  <2>2. \A v \in Worker : Holding(v) => v = w
    BY <2>1 DEF OnePushAtATime
  <2>3. token' = token /\ leaseUntil' = leaseUntil /\ now' = now
    BY <1>c DEF Answered
  <2>4. CASE owed[w] /= {s}
    BY <1>c, <2>3, <2>4, <1>a DEF Answered, Holding
  <2>5. CASE owed[w] = {s}
    <3>1. /\ pc' = [pc EXCEPT ![w] = "finishing"]
          /\ deadline' = [deadline EXCEPT ![w] = now + FinishTimeout]
      BY <1>c, <2>5 DEF Answered, Goto
    <3>2. \A v \in Worker : Holding(v)' => v = w /\ pc'[v] = "finishing"
      BY <1>t, <3>1, <2>2 DEF Holding
    <3>3. /\ now <= now + FinishTimeout
          /\ now + FinishTimeout < token[w]
      BY <1>t, <2>1, TimeAssumption
    <3>4. deadline'[w] = now + FinishTimeout
      BY <1>t, <3>1
    <3>5. LeaseInv'
      <4> SUFFICES ASSUME NEW v \in Worker, Holding(v)'
                   PROVE  /\ leaseUntil' = token'[v]
                          /\ now' <= deadline'[v]
                          /\ deadline'[v] < token'[v]
                          /\ pc'[v] /= "pushing"
        BY DEF LeaseInv, Holding
      <4> QED BY <3>2, <3>3, <3>4, <2>1, <2>3
    <3>6. OnePushAtATime'
      BY <3>2 DEF OnePushAtATime
    <3> QED BY <3>5, <3>6
  <2> QED BY <2>4, <2>5
<1>11. ASSUME NEW w \in Worker, NEW s \in Surface, PushSurface(w, s)
       PROVE  LeaseInv' /\ OnePushAtATime'
  BY <1>c, <1>11 DEF PushSurface
<1>12. ASSUME NEW w \in Worker, NEW s \in Surface, PushSurfaceFails(w, s)
       PROVE  LeaseInv' /\ OnePushAtATime'
  BY <1>c, <1>12 DEF PushSurfaceFails
<1>13. ASSUME NEW w \in Worker, GiveUp(w) PROVE LeaseInv' /\ OnePushAtATime'
  BY <1>a, <1>t, <1>13 DEF GiveUp, Goto, EndRound, Holding
<1>14. ASSUME NEW w \in Worker, FinishUnanswered(w)
       PROVE  LeaseInv' /\ OnePushAtATime'
  <2>1. \A v \in Worker : Holding(v) => v = w
    BY <1>14, <1>t DEF FinishUnanswered, Holding, OnePushAtATime
  <2>2. \A v \in Worker : ~Holding(v)'
    BY <1>14, <1>t, <2>1 DEF FinishUnanswered, Goto, Holding
  <2> QED BY <2>2, <1>b
<1>15. ASSUME Tick PROVE LeaseInv' /\ OnePushAtATime'
  <2>1. /\ pc' = pc /\ token' = token /\ deadline' = deadline
        /\ leaseUntil' = leaseUntil
        /\ now' = now + 1
        /\ \A w \in Worker : Holding(w) => now < deadline[w]
    BY <1>15 DEF Tick, Holding
  <2>2. \A w \in Worker : Holding(w) => now + 1 <= deadline[w]
    BY <1>t, <2>1
  <2>3. LeaseInv'
    BY <2>1, <2>2 DEF LeaseInv, Holding
  <2>4. OnePushAtATime'
    BY <2>1 DEF OnePushAtATime, Holding
  <2> QED BY <2>3, <2>4
<1>16. CASE UNCHANGED vars
  BY <1>16, <1>a DEF vars, Holding
<1> QED BY <1>1, <1>2, <1>3, <1>4, <1>5, <1>6, <1>7, <1>8, <1>9, <1>10, <1>11,
           <1>12, <1>13, <1>14, <1>15, <1>16 DEF Next, Step

----------------------------------------------------------------------------
(* What is merged, reported and shown is visible. *)

\* Only rows that became visible are merged, reported, shown and recorded.
LEMMA VisibleStep ==
    BasicInv /\ VisibleInv /\ [Next]_vars => VisibleInv'
<1> SUFFICES ASSUME BasicInv /\ VisibleInv, [Next]_vars
             PROVE  VisibleInv'
  OBVIOUS
<1> USE SurfaceAssumption, TimeAssumption, NoWorkerAssumption
    DEF dbVars, leaseVars, roundVars
<1>1. ASSUME NEW u \in Upload, InsertUpload(u) PROVE VisibleInv'
  BY <1>1 DEF InsertUpload, StageInv, BasicInv, VisibleInv
<1>2. ASSUME NEW u \in Upload, CommitUpload(u) PROVE VisibleInv'
  BY <1>2 DEF CommitUpload, VisibleInv
<1>3. ASSUME NEW u \in Upload, RollbackUpload(u) PROVE VisibleInv'
  BY <1>3 DEF RollbackUpload, VisibleInv
<1>4. ASSUME NEW u \in Upload, FinishRequest(u) PROVE VisibleInv'
  <2>1. about[Request(u)] \in landed
    BY <1>4 DEF FinishRequest, BasicInv, StageInv, Worker, Request
  <2>2. pushedVersion' \in {pushedVersion, rowId[about[Request(u)]]}
    BY <1>4 DEF FinishRequest, Release, Version
  <2>3. /\ report' = report /\ board' = board /\ landed' = landed /\ rowId' = rowId
        /\ snap' = [snap EXCEPT ![Request(u)] = {}]
    BY <1>4 DEF FinishRequest, EndRound
  <2> QED BY <2>1, <2>2, <2>3 DEF VisibleInv, BasicInv, TypeOK
<1>5. ASSUME NEW u \in Upload, FinishFollowUp(u) PROVE VisibleInv'
  <2>1. about[FollowUp(u)] \in landed
    BY <1>5 DEF FinishFollowUp, BasicInv, StageInv, Worker, FollowUp
  <2>2. pushedVersion' \in {pushedVersion, rowId[about[FollowUp(u)]]}
    BY <1>5 DEF FinishFollowUp, Release, Version
  <2>3. /\ report' = report /\ board' = board /\ landed' = landed /\ rowId' = rowId
        /\ snap' = [snap EXCEPT ![FollowUp(u)] = {}]
    BY <1>5 DEF FinishFollowUp, EndRound
  <2> QED BY <2>1, <2>2, <2>3 DEF VisibleInv, BasicInv, TypeOK
<1>6. ASSUME NEW u \in Upload, FollowUpReload(u) PROVE VisibleInv'
  BY <1>6 DEF FollowUpReload, VisibleInv
<1>7. ASSUME NEW w \in Worker, RecomputeRead(w) PROVE VisibleInv'
  BY <1>7 DEF RecomputeRead, LatestUploadsPerPart, VisibleInv
<1>8. ASSUME NEW w \in Worker, UpsertCommitReport(w) PROVE VisibleInv'
  BY <1>8 DEF UpsertCommitReport, VisibleInv
<1>9. ASSUME NEW w \in Worker, ClaimPush(w) PROVE VisibleInv'
  BY <1>9 DEF ClaimPush, VisibleInv
<1>10. ASSUME NEW w \in Worker, ClaimRefused(w) PROVE VisibleInv'
  BY <1>10 DEF ClaimRefused, EndRound, VisibleInv
<1>11. ASSUME NEW w \in Worker, NEW s \in Surface, PushSurface(w, s) PROVE VisibleInv'
  BY <1>11 DEF PushSurface, Answered, VisibleInv
<1>12. ASSUME NEW w \in Worker, NEW s \in Surface, PushSurfaceFails(w, s) PROVE VisibleInv'
  <2>1. /\ report' = report /\ landed' = landed /\ rowId' = rowId /\ snap' = snap
        /\ pushedVersion' = pushedVersion
    BY <1>12 DEF PushSurfaceFails, Answered
  <2>2. board' = board \/ board' = [board EXCEPT ![s] = snap[w]]
    BY <1>12 DEF PushSurfaceFails
  <2>3. \A x \in Surface : board'[x] \subseteq landed
    BY <2>2 DEF VisibleInv, BasicInv, TypeOK
  <2> QED BY <2>1, <2>3 DEF VisibleInv
<1>13. ASSUME NEW w \in Worker, GiveUp(w) PROVE VisibleInv'
  BY <1>13 DEF GiveUp, EndRound, VisibleInv
<1>14. ASSUME NEW w \in Worker, FinishUnanswered(w) PROVE VisibleInv'
  <2>1. about[w] \in landed
    BY <1>14 DEF FinishUnanswered, BasicInv, StageInv
  <2>2. pushedVersion' \in {pushedVersion, rowId[about[w]]}
    BY <1>14 DEF FinishUnanswered, Release, Version
  <2>3. /\ report' = report /\ board' = board /\ landed' = landed /\ rowId' = rowId
        /\ snap' = [snap EXCEPT ![w] = {}]
    BY <1>14 DEF FinishUnanswered, EndRound
  <2> QED BY <2>1, <2>2, <2>3 DEF VisibleInv, BasicInv, TypeOK
<1>15. ASSUME Tick PROVE VisibleInv'
  BY <1>15 DEF Tick, VisibleInv
<1>16. CASE UNCHANGED vars
  BY <1>16 DEF vars, VisibleInv
<1> QED BY <1>1, <1>2, <1>3, <1>4, <1>5, <1>6, <1>7, <1>8, <1>9, <1>10, <1>11, <1>12, <1>13, <1>14, <1>15, <1>16 DEF Next, Step

----------------------------------------------------------------------------
(* Rows once visible keep their ids, so what covers them goes on doing so. *)

\* No step touches the id of a visible row or makes one invisible.
LEMMA RowsStay ==
    BasicInv /\ [Next]_vars =>
        /\ landed \subseteq landed'
        /\ \A v \in landed : rowId'[v] = rowId[v]
<1> SUFFICES ASSUME BasicInv, [Next]_vars
             PROVE  /\ landed \subseteq landed'
                    /\ \A v \in landed : rowId'[v] = rowId[v]
  OBVIOUS
<1>1. ASSUME NEW u \in Upload, InsertUpload(u)
      PROVE  landed \subseteq landed' /\ \A v \in landed : rowId'[v] = rowId[v]
  <2>1. u \notin landed
    BY <1>1 DEF InsertUpload, BasicInv, StageInv
  <2> QED BY <1>1, <2>1 DEF InsertUpload, BasicInv, TypeOK
<1>2. ASSUME NEW u \in Upload, CommitUpload(u)
      PROVE  landed \subseteq landed' /\ rowId' = rowId
  BY <1>2 DEF CommitUpload
<1>3. ASSUME NEW u \in Upload,
             RollbackUpload(u) \/ FinishRequest(u) \/ FinishFollowUp(u) \/ FollowUpReload(u)
      PROVE  landed' = landed /\ rowId' = rowId
  BY <1>3 DEF RollbackUpload, FinishRequest, FinishFollowUp, FollowUpReload,
     dbVars
<1>4. ASSUME NEW w \in Worker,
             \/ Step(w)
             \/ \E s \in Surface : PushSurfaceFails(w, s)
             \/ GiveUp(w)
             \/ FinishUnanswered(w)
      PROVE  landed' = landed /\ rowId' = rowId
  BY <1>4 DEF Step, RecomputeRead, UpsertCommitReport, ClaimPush,
     ClaimRefused, PushSurface, PushSurfaceFails, Answered, GiveUp,
     FinishUnanswered, dbVars
<1>5. CASE Tick
  BY <1>5 DEF Tick, dbVars
<1>6. CASE UNCHANGED vars
  BY <1>6 DEF vars, dbVars
<1> QED BY <1>1, <1>2, <1>3, <1>4, <1>5, <1>6 DEF Next

\* A set of visible rows that covers a visible row covers it after the step.
LEMMA CoversStays ==
    ASSUME BasicInv, [Next]_vars, NEW S, S \subseteq landed, NEW u \in landed,
           Covers(S, u)
    PROVE  \E v \in S : Part[v] = Part[u] /\ rowId'[u] <= rowId'[v]
BY RowsStay DEF Covers

\* Covering is transitive through the rows of a set.
LEMMA CoversTransitive ==
    ASSUME TypeOK, NEW S \in SUBSET Upload, NEW R \in SUBSET Upload,
           \A v \in R : Covers(S, v), NEW u \in Upload, Covers(R, u)
    PROVE  Covers(S, u)
<1>1. PICK v \in R : Part[v] = Part[u] /\ rowId[u] <= rowId[v]
  BY DEF Covers
<1>2. PICK x \in S : Part[x] = Part[v] /\ rowId[v] <= rowId[x]
  BY DEF Covers
<1> QED BY <1>1, <1>2 DEF Covers, TypeOK

----------------------------------------------------------------------------
(* Recomputes. *)

\* A step that leaves the report and the workers under the lock alone keeps
\* what they read good.
LEMMA ReadFrame ==
    ASSUME BasicInv, VisibleInv, ReadInv, [Next]_vars, report' = report,
           \A x \in Worker : pc'[x] = "merging" =>
               pc[x] = "merging" /\ snap'[x] = snap[x] /\ about'[x] = about[x]
    PROVE  ReadInv'
<1> SUFFICES ASSUME NEW x \in Worker, pc'[x] = "merging"
             PROVE  /\ \A v \in report' : Covers(snap[x], v)'
                    /\ Covers(snap[x], about[x])'
  BY DEF ReadInv
<1>1. /\ pc[x] = "merging" /\ snap'[x] = snap[x] /\ about'[x] = about[x]
      /\ snap[x] \subseteq landed /\ report \subseteq landed /\ about[x] \in landed
  BY DEF VisibleInv, BasicInv, StageInv
<1>2. \A v \in report : Covers(snap[x], v)'
  BY <1>1, CoversStays DEF ReadInv, Covers
<1>3. Covers(snap[x], about[x])'
  BY <1>1, CoversStays DEF ReadInv, Covers
<1> QED BY <1>2, <1>3

\* The recompute lock keeps the report from changing between a recompute's
\* read and its upsert, so what was read still covers it.
LEMMA ReadStep ==
    BasicInv /\ LockInv /\ VisibleInv /\ ReadInv /\ [Next]_vars => ReadInv'
<1> SUFFICES ASSUME BasicInv, LockInv, VisibleInv, ReadInv, [Next]_vars PROVE ReadInv'
  OBVIOUS
<1> DEFINE Frame == /\ report' = report
                    /\ \A x \in Worker : pc'[x] = "merging" =>
                         pc[x] = "merging" /\ snap'[x] = snap[x] /\ about'[x] = about[x]
<1>1. ASSUME NEW w \in Worker, RecomputeRead(w) PROVE ReadInv'
  <2> SUFFICES ASSUME NEW x \in Worker, pc'[x] = "merging"
               PROVE  /\ \A v \in report' : Covers(snap[x], v)'
                      /\ Covers(snap[x], about[x])'
    BY DEF ReadInv
  <2>1. x = w /\ snap'[x] = LatestUploadsPerPart(landed)
    BY <1>1, NoWorkerAssumption DEF RecomputeRead, Goto, BasicInv, TypeOK,
       LockInv
  <2>2. \A v \in landed : Covers(LatestUploadsPerPart(landed), v)
    BY LatestCovers DEF BasicInv, TypeOK
  <2>3. about[w] \in landed /\ report \subseteq landed
    BY <1>1 DEF RecomputeRead, BasicInv, StageInv, VisibleInv
  <2>4. report' = report /\ about' = about /\ rowId' = rowId
    BY <1>1 DEF RecomputeRead
  <2>5. \A v \in landed : Covers(snap[x], v)'
    BY <2>1, <2>2, <2>4 DEF Covers
  <2> QED BY <2>1, <2>3, <2>4, <2>5 DEF Covers
<1>2. ASSUME NEW w \in Worker, UpsertCommitReport(w) PROVE ReadInv'
  <2>1. \A x \in Worker : pc'[x] /= "merging"
    BY <1>2 DEF UpsertCommitReport, Goto, BasicInv, TypeOK, LockInv
  <2> QED BY <2>1 DEF ReadInv
<1>3. ASSUME NEW u \in Upload, InsertUpload(u) PROVE Frame
  BY <1>3 DEF InsertUpload, Goto, roundVars
<1>4. ASSUME NEW u \in Upload, CommitUpload(u) PROVE Frame
  BY <1>4 DEF CommitUpload, Goto, roundVars
<1>5. ASSUME NEW u \in Upload, RollbackUpload(u) PROVE Frame
  BY <1>5 DEF RollbackUpload, Goto, dbVars, roundVars
<1>6. ASSUME NEW u \in Upload, FinishRequest(u) PROVE Frame
  BY <1>6 DEF FinishRequest, EndRound, dbVars, BasicInv, TypeOK
<1>7. ASSUME NEW u \in Upload, FinishFollowUp(u) PROVE Frame
  BY <1>7 DEF FinishFollowUp, EndRound, Goto, dbVars
<1>8. ASSUME NEW u \in Upload, FollowUpReload(u) PROVE Frame
  BY <1>8 DEF FollowUpReload, Goto, dbVars, roundVars
<1>9. ASSUME NEW w \in Worker, ClaimPush(w) PROVE Frame
  BY <1>9 DEF ClaimPush, Goto, dbVars
<1>10. ASSUME NEW w \in Worker, ClaimRefused(w) PROVE Frame
  BY <1>10 DEF ClaimRefused, Goto, EndRound, dbVars
<1>11. ASSUME NEW w \in Worker, NEW s \in Surface, PushSurface(w, s) PROVE Frame
  BY <1>11 DEF PushSurface, Answered, Goto, dbVars, BasicInv, TypeOK
<1>12. ASSUME NEW w \in Worker, NEW s \in Surface, PushSurfaceFails(w, s) PROVE Frame
  BY <1>12 DEF PushSurfaceFails, Answered, Goto, dbVars, BasicInv, TypeOK
<1>13. ASSUME NEW w \in Worker, GiveUp(w) PROVE Frame
  BY <1>13 DEF GiveUp, Goto, EndRound, BasicInv, TypeOK
<1>14. ASSUME NEW w \in Worker, FinishUnanswered(w) PROVE Frame
  BY <1>14 DEF FinishUnanswered, Goto, EndRound, dbVars
<1>15. ASSUME Tick PROVE Frame
  BY <1>15 DEF Tick, dbVars, roundVars
<1>16. ASSUME UNCHANGED vars PROVE Frame
  BY <1>16 DEF vars, dbVars, roundVars
<1>17. ASSUME Frame PROVE ReadInv'
  BY <1>17, ReadFrame
<1> HIDE DEF Frame
<1> QED BY <1>1, <1>2, <1>3, <1>4, <1>5, <1>6, <1>7, <1>8, <1>9, <1>10, <1>11, <1>12, <1>13, <1>14, <1>15, <1>16, <1>17 DEF Next, Step

\* An upload past its recompute is reported, and stays so.
LEMMA ReportedStep ==
    BasicInv /\ VisibleInv /\ ReadInv /\ MergedUploadIsReported /\ [Next]_vars
        => MergedUploadIsReported'
<1> SUFFICES ASSUME BasicInv, VisibleInv, ReadInv, MergedUploadIsReported, [Next]_vars,
                    NEW u \in Upload,
                    pc'[Request(u)] \in {"merged", "pushing", "finishing"}
             PROVE  Covers(report, u)'
  BY DEF MergedUploadIsReported
<1> DEFINE Past == pc[Request(u)] \in {"merged", "pushing", "finishing"}
           Frame == Past /\ report' = report
<1>0. Request(u) \in Worker
  BY DEF Request, Worker
<1>1. ASSUME NEW w \in Worker, UpsertCommitReport(w) PROVE Covers(report, u)'
  <2>1. report' = snap[w] /\ rowId' = rowId
    BY <1>1 DEF UpsertCommitReport
  <2>2. CASE w = Request(u)
    <3>1. Covers(snap[w], u)
      BY <1>1, <2>2 DEF UpsertCommitReport, ReadInv, BasicInv, StageInv
    <3> QED BY <2>1, <3>1 DEF Covers
  <2>3. CASE w /= Request(u)
    <3>1. Past
      BY <1>0, <1>1, <2>3 DEF UpsertCommitReport, Goto
    <3>2. Covers(report, u) /\ \A v \in report : Covers(snap[w], v)
      BY <1>1, <3>1 DEF MergedUploadIsReported, UpsertCommitReport, ReadInv
    <3>3. Covers(snap[w], u)
      BY <3>2, CoversTransitive DEF BasicInv, TypeOK
    <3> QED BY <2>1, <3>3 DEF Covers
  <2> QED BY <2>2, <2>3
<1>2. ASSUME NEW v \in Upload, InsertUpload(v) PROVE Frame
  BY <1>0, <1>2 DEF InsertUpload, Goto
<1>3. ASSUME NEW v \in Upload, CommitUpload(v) PROVE Frame
  BY <1>0, <1>3 DEF CommitUpload, Goto
<1>4. ASSUME NEW v \in Upload, RollbackUpload(v) PROVE Frame
  BY <1>0, <1>4 DEF RollbackUpload, Goto, dbVars
<1>5. ASSUME NEW v \in Upload, FinishRequest(v) PROVE Frame
  BY <1>0, <1>5 DEF FinishRequest, dbVars, BasicInv, TypeOK
<1>6. ASSUME NEW v \in Upload, FinishFollowUp(v) PROVE Frame
  BY <1>0, <1>6 DEF FinishFollowUp, Goto, dbVars
<1>7. ASSUME NEW v \in Upload, FollowUpReload(v) PROVE Frame
  BY <1>0, <1>7 DEF FollowUpReload, Goto, dbVars
<1>8. ASSUME NEW w \in Worker, RecomputeRead(w) PROVE Frame
  BY <1>0, <1>8 DEF RecomputeRead, Goto
<1>9. ASSUME NEW w \in Worker, ClaimPush(w) PROVE Frame
  BY <1>0, <1>9 DEF ClaimPush, Goto, dbVars
<1>10. ASSUME NEW w \in Worker, ClaimRefused(w) PROVE Frame
  BY <1>0, <1>10 DEF ClaimRefused, Goto, dbVars
<1>11. ASSUME NEW w \in Worker, NEW s \in Surface, PushSurface(w, s) PROVE Frame
  BY <1>0, <1>11 DEF PushSurface, Answered, Goto, dbVars, BasicInv, TypeOK
<1>12. ASSUME NEW w \in Worker, NEW s \in Surface, PushSurfaceFails(w, s) PROVE Frame
  BY <1>0, <1>12 DEF PushSurfaceFails, Answered, Goto, dbVars, BasicInv,
     TypeOK
<1>13. ASSUME NEW w \in Worker, GiveUp(w) PROVE Frame
  BY <1>0, <1>13 DEF GiveUp, Goto
<1>14. ASSUME NEW w \in Worker, FinishUnanswered(w) PROVE Frame
  BY <1>0, <1>14 DEF FinishUnanswered, Goto, dbVars
<1>15. ASSUME Tick PROVE Frame
  BY <1>0, <1>15 DEF Tick, dbVars
<1>16. ASSUME UNCHANGED vars PROVE Frame
  BY <1>16 DEF vars, dbVars
<1>17. ASSUME Frame PROVE Covers(report, u)'
  <2>1. u \in landed
    BY <1>17, <1>0 DEF BasicInv, StageInv
  <2>2. Covers(report, u) /\ report \subseteq landed
    BY <1>17 DEF MergedUploadIsReported, VisibleInv
  <2> QED BY <1>17, <2>1, <2>2, CoversStays DEF Covers
<1> HIDE DEF Frame
<1> QED BY <1>1, <1>2, <1>3, <1>4, <1>5, <1>6, <1>7, <1>8, <1>9, <1>10, <1>11, <1>12, <1>13, <1>14, <1>15, <1>16, <1>17 DEF Next, Step

----------------------------------------------------------------------------
(* Rounds. *)

\* Rows become visible in the order of their ids, or the history says so: a
\* row that lands is newer than every visible one.
LEMMA LandsInOrder ==
    ASSUME BasicInv, NEW u \in Upload, CommitUpload(u), ~inverted', NEW v \in landed
    PROVE  rowId[v] < rowId[u] /\ ~inverted
<1>1. ~(rowId[u] < rowId[v]) /\ ~inverted
  BY DEF CommitUpload
<1>2. u \notin landed /\ rowId[v] /= 0
  BY DEF CommitUpload, BasicInv, StageInv, IdsInv
<1>3. rowId[u] /= rowId[v]
  BY <1>2 DEF BasicInv, IdsInv, TypeOK
<1> QED BY <1>1, <1>3 DEF BasicInv, TypeOK

\* What a worker between its read and its release has is what it read: only
\* its own read and a row that lands change what that is compared with.
LEMMA RoundKeepsRead ==
    ASSUME BasicInv, [Next]_vars, NEW x \in Worker, Merged(x)'
    PROVE  \/ RecomputeRead(x)
           \/ \E u \in Upload : CommitUpload(u)
           \/ /\ Merged(x) /\ snap'[x] = snap[x] /\ about'[x] = about[x]
              /\ inverted' = inverted /\ landed' = landed
<1> DEFINE Frame == /\ Merged(x) /\ snap'[x] = snap[x] /\ about'[x] = about[x]
                    /\ inverted' = inverted /\ landed' = landed
<1>1. ASSUME NEW w \in Worker, RecomputeRead(w), w /= x PROVE Frame
  BY <1>1 DEF RecomputeRead, Goto, Merged
<1>2. ASSUME NEW u \in Upload, InsertUpload(u) PROVE Frame
  BY <1>2 DEF InsertUpload, Goto, roundVars, Merged
<1>3. ASSUME NEW u \in Upload, RollbackUpload(u) PROVE Frame
  BY <1>3 DEF RollbackUpload, Goto, dbVars, roundVars, Merged
<1>4. ASSUME NEW u \in Upload, FinishRequest(u) PROVE Frame
  <2>1. /\ Request(u) \in Worker /\ FollowUp(u) \in Worker /\ Request(u) /= FollowUp(u)
        /\ pc'[Request(u)] = "done" /\ pc'[FollowUp(u)] \in {pc[FollowUp(u)], "reload"}
    BY <1>4 DEF FinishRequest, Request, FollowUp, Worker, BasicInv, TypeOK
  <2>2. x /= Request(u) /\ pc'[x] = pc[x]
    BY <1>4, <2>1 DEF FinishRequest, Merged, BasicInv, TypeOK
  <2> QED BY <1>4, <2>2 DEF FinishRequest, EndRound, dbVars, Merged
<1>5. ASSUME NEW u \in Upload, FinishFollowUp(u) PROVE Frame
  BY <1>5 DEF FinishFollowUp, EndRound, Goto, dbVars, Merged, BasicInv, TypeOK
<1>6. ASSUME NEW u \in Upload, FollowUpReload(u) PROVE Frame
  BY <1>6 DEF FollowUpReload, Goto, dbVars, roundVars, Merged
<1>7. ASSUME NEW w \in Worker, UpsertCommitReport(w) PROVE Frame
  BY <1>7 DEF UpsertCommitReport, Goto, roundVars, Merged
<1>8. ASSUME NEW w \in Worker, ClaimPush(w) PROVE Frame
  BY <1>8 DEF ClaimPush, Goto, dbVars, Merged
<1>9. ASSUME NEW w \in Worker, ClaimRefused(w) PROVE Frame
  BY <1>9 DEF ClaimRefused, Goto, EndRound, dbVars, Merged, BasicInv, TypeOK
<1>10. ASSUME NEW w \in Worker, NEW s \in Surface, PushSurface(w, s) PROVE Frame
  BY <1>10 DEF PushSurface, Answered, Goto, dbVars, Merged, BasicInv, TypeOK
<1>11. ASSUME NEW w \in Worker, NEW s \in Surface, PushSurfaceFails(w, s) PROVE Frame
  BY <1>11 DEF PushSurfaceFails, Answered, Goto, dbVars, Merged, BasicInv,
     TypeOK
<1>12. ASSUME NEW w \in Worker, GiveUp(w) PROVE Frame
  BY <1>12 DEF GiveUp, Goto, EndRound, Merged, BasicInv, TypeOK
<1>13. ASSUME NEW w \in Worker, FinishUnanswered(w) PROVE Frame
  BY <1>13 DEF FinishUnanswered, Goto, EndRound, dbVars, Merged, BasicInv,
     TypeOK
<1>14. ASSUME Tick PROVE Frame
  BY <1>14 DEF Tick, dbVars, roundVars, Merged
<1>15. ASSUME UNCHANGED vars PROVE Frame
  BY <1>15 DEF vars, dbVars, roundVars, Merged
<1> HIDE DEF Frame
<1>16. Frame \/ RecomputeRead(x) \/ \E u \in Upload : CommitUpload(u)
  BY <1>1, <1>2, <1>3, <1>4, <1>5, <1>6, <1>7, <1>8, <1>9, <1>10, <1>11,
     <1>12, <1>13, <1>14, <1>15 DEF Next, Step
<1> QED BY <1>16 DEF Frame

\* What a recompute read covers every upload up to the one it is about, and
\* rows that land later are newer.
LEMMA CarryStep == BasicInv /\ VisibleInv /\ CarryInv /\ [Next]_vars => CarryInv'
<1> SUFFICES ASSUME BasicInv, VisibleInv, CarryInv, [Next]_vars,
                    NEW x \in Worker, Merged(x)', ~inverted',
                    NEW y \in landed', rowId'[y] <= Version(x)'
             PROVE  Covers(snap[x], y)'
  BY DEF CarryInv
<1> DEFINE Frame == /\ Merged(x) /\ snap'[x] = snap[x] /\ about'[x] = about[x]
                    /\ inverted' = inverted /\ landed' = landed
<1>1. ASSUME RecomputeRead(x) PROVE Covers(snap[x], y)'
  <2>1. snap'[x] = LatestUploadsPerPart(landed) /\ landed' = landed /\ rowId' = rowId
    BY <1>1 DEF RecomputeRead, BasicInv, TypeOK
  <2>2. Covers(LatestUploadsPerPart(landed), y)
    BY <2>1, LatestCovers DEF BasicInv, TypeOK
  <2> QED BY <2>1, <2>2 DEF Covers
<1>2. ASSUME NEW u \in Upload, CommitUpload(u) PROVE Covers(snap[x], y)'
  <2>0. Request(u) \in Worker /\ pc' = [pc EXCEPT ![Request(u)] = "landed"]
    BY <1>2 DEF CommitUpload, Goto, Request, Worker
  <2>1. /\ Merged(x) /\ snap' = snap /\ about' = about /\ rowId' = rowId
        /\ landed' = landed \cup {u}
    BY <1>2, <2>0 DEF CommitUpload, roundVars, Merged
  <2>2. about[x] \in landed
    BY <2>1 DEF Merged, BasicInv, StageInv
  <2>3. rowId[about[x]] < rowId[u] /\ ~inverted
    BY <1>2, <2>2, LandsInOrder
  <2>4. y \in landed
    BY <2>1, <2>2, <2>3 DEF Version, BasicInv, TypeOK
  <2>5. Covers(snap[x], y)
    BY <2>1, <2>3, <2>4 DEF CarryInv, Version
  <2> QED BY <2>1, <2>5 DEF Covers
<1>3. ASSUME Frame PROVE Covers(snap[x], y)'
  <2>1. about[x] \in landed /\ snap[x] \subseteq landed
    BY <1>3 DEF Merged, BasicInv, StageInv, VisibleInv
  <2>2. rowId[y] <= Version(x)
    BY <1>3, <2>1, RowsStay DEF Version
  <2>3. Covers(snap[x], y)
    BY <1>3, <2>2 DEF CarryInv
  <2> QED BY <1>3, <2>1, <2>3, CoversStays DEF Covers
<1> QED BY <1>1, <1>2, <1>3, RoundKeepsRead

\* The facts of HoldInv about one worker.
Hold(x) ==
    /\ Holding(x) => pushedVersion <= Version(x)
    /\ Holding(x) /\ Status \notin owed[x] /\ Status \notin failed[x]
         => board[Status] = snap[x]
    /\ pc[x] = "finishing" => owed[x] = {}

\* Pushes are exclusive, so nobody moves the recorded version or the status
\* under a worker that holds the lease.
LEMMA HoldStep ==
    BasicInv /\ OnePushAtATime /\ HoldInv /\ [Next]_vars => HoldInv'
<1> SUFFICES ASSUME BasicInv, OnePushAtATime, HoldInv, [Next]_vars,
                    NEW x \in Worker
             PROVE  Hold(x)'
  BY DEF HoldInv, Hold
<1>0. Hold(x)
  BY DEF HoldInv, Hold
<1> DEFINE Released == pc'[x] \notin {"pushing", "finishing"}
           Frame == /\ pc'[x] = pc[x] \/ Released
                    /\ about'[x] = about[x] \/ Released
                    /\ snap'[x] = snap[x] \/ Released
                    /\ owed'[x] = owed[x] \/ Released
                    /\ failed'[x] = failed[x] \/ Released
                    /\ pushedVersion' = pushedVersion \/ Released
                    /\ board' = board
<1>1. ASSUME NEW w \in Worker, ClaimPush(w), w = x PROVE Hold(x)'
  <2>1. /\ pc'[x] = "pushing" /\ owed'[x] = Surface /\ pushedVersion' = pushedVersion
        /\ about' = about /\ rowId' = rowId /\ pushedVersion <= Version(x)
    BY <1>1 DEF ClaimPush, Goto, dbVars, BasicInv, TypeOK
  <2> QED BY <2>1, SurfaceAssumption DEF Hold, Version
<1>2. ASSUME NEW w \in Worker, ClaimPush(w), w /= x PROVE Frame
  BY <1>2 DEF ClaimPush, Goto
<1>3. ASSUME NEW w \in Worker, NEW s \in Surface, PushSurface(w, s) PROVE Hold(x)'
  <2>1. /\ pc[w] = "pushing" /\ snap' = snap /\ about' = about /\ rowId' = rowId
        /\ failed' = failed /\ pushedVersion' = pushedVersion
        /\ board' = [board EXCEPT ![s] = snap[w]]
        /\ owed' = [owed EXCEPT ![w] = @ \ {s}]
        /\ IF owed[w] = {s} THEN pc' = [pc EXCEPT ![w] = "finishing"] ELSE pc' = pc
    BY <1>3 DEF PushSurface, Answered, Goto, dbVars, leaseVars
  <2>2. CASE w = x
    <3>1. Holding(x) /\ board' \in [Surface -> SUBSET Upload]
      BY <2>1, <2>2 DEF Holding, BasicInv, TypeOK
    <3>2. s /= Status /\ Status \notin owed'[x] => Status \notin owed[x]
      BY <2>1, <2>2 DEF BasicInv, TypeOK
    <3> QED BY <1>0, <2>1, <2>2, <3>1, <3>2, SurfaceAssumption DEF Hold,
           Version, BasicInv, TypeOK
  <2>3. CASE w /= x
    <3>1. ~Holding(x) /\ pc'[x] = pc[x]
      BY <2>1, <2>3 DEF OnePushAtATime, Holding, BasicInv, TypeOK
    <3> QED BY <3>1 DEF Hold, Holding
  <2> QED BY <2>2, <2>3
<1>4. ASSUME NEW w \in Worker, NEW s \in Surface, PushSurfaceFails(w, s) PROVE Hold(x)'
  <2>1. /\ pc[w] = "pushing" /\ snap' = snap /\ about' = about /\ rowId' = rowId
        /\ failed' = [failed EXCEPT ![w] = @ \cup {s}]
        /\ pushedVersion' = pushedVersion
        /\ board' = board \/ board' = [board EXCEPT ![s] = snap[w]]
        /\ owed' = [owed EXCEPT ![w] = @ \ {s}]
        /\ IF owed[w] = {s} THEN pc' = [pc EXCEPT ![w] = "finishing"] ELSE pc' = pc
    BY <1>4 DEF PushSurfaceFails, Answered, Goto, dbVars, leaseVars
  <2>2. CASE w = x
    <3>1. Holding(x) /\ (pc'[x] = "finishing" => owed'[x] = {})
      BY <1>0, <2>1, <2>2 DEF Hold, Holding, BasicInv, TypeOK
    <3>2. Status \notin owed'[x] /\ Status \notin failed'[x]
             => s /= Status /\ Status \notin owed[x] /\ Status \notin failed[x]
      BY <2>1, <2>2 DEF BasicInv, TypeOK
    <3>3. s /= Status => board'[Status] = board[Status]
      BY <2>1, SurfaceAssumption DEF BasicInv, TypeOK
    <3> QED BY <1>0, <2>1, <2>2, <3>1, <3>2, <3>3 DEF Hold, Holding, Version
  <2>3. CASE w /= x
    <3>1. ~Holding(x) /\ pc'[x] = pc[x]
      BY <2>1, <2>3 DEF OnePushAtATime, Holding, BasicInv, TypeOK
    <3> QED BY <3>1 DEF Hold, Holding
  <2> QED BY <2>2, <2>3
<1>5. ASSUME NEW u \in Upload, FinishRequest(u) PROVE Frame
  <2>1. /\ Request(u) \in Worker /\ FollowUp(u) \in Worker /\ Request(u) /= FollowUp(u)
        /\ pc'[Request(u)] = "done" /\ pc'[FollowUp(u)] \in {pc[FollowUp(u)], "reload"}
    BY <1>5 DEF FinishRequest, Request, FollowUp, Worker, BasicInv, TypeOK
  <2>2. x /= Request(u) /\ pc[x] \in {"pushing", "finishing"} => FALSE
    BY <1>5, <2>1 DEF FinishRequest, OnePushAtATime, Holding
  <2>3. Released
    BY <1>5, <2>1, <2>2 DEF FinishRequest, BasicInv, TypeOK
  <2> QED BY <1>5, <2>3 DEF FinishRequest
<1>6. ASSUME NEW u \in Upload, FinishFollowUp(u) PROVE Frame
  <2>1. FollowUp(u) \in Worker /\ pc'[FollowUp(u)] \in {"done", "reload"}
    BY <1>6 DEF FinishFollowUp, Goto, FollowUp, Worker, BasicInv, TypeOK
  <2>2. Released
    BY <1>6, <2>1 DEF FinishFollowUp, Goto, OnePushAtATime, Holding
  <2> QED BY <1>6, <2>2 DEF FinishFollowUp
<1>7. ASSUME NEW w \in Worker, FinishUnanswered(w) PROVE Frame
  <2>1. Released
    BY <1>7 DEF FinishUnanswered, Goto, OnePushAtATime, Holding, BasicInv,
       TypeOK
  <2> QED BY <1>7, <2>1 DEF FinishUnanswered
<1>8. ASSUME NEW u \in Upload, InsertUpload(u) PROVE Frame
  BY <1>8 DEF InsertUpload, Goto, leaseVars, roundVars
<1>9. ASSUME NEW u \in Upload, CommitUpload(u) PROVE Frame
  BY <1>9 DEF CommitUpload, Goto, leaseVars, roundVars
<1>10. ASSUME NEW u \in Upload, RollbackUpload(u) PROVE Frame
  BY <1>10 DEF RollbackUpload, Goto, leaseVars, roundVars
<1>11. ASSUME NEW u \in Upload, FollowUpReload(u) PROVE Frame
  BY <1>11 DEF FollowUpReload, Goto, leaseVars, roundVars
<1>12. ASSUME NEW w \in Worker, RecomputeRead(w) PROVE Frame
  BY <1>12 DEF RecomputeRead, Goto, leaseVars
<1>13. ASSUME NEW w \in Worker, UpsertCommitReport(w) PROVE Frame
  BY <1>13 DEF UpsertCommitReport, Goto, leaseVars, roundVars
<1>14. ASSUME NEW w \in Worker, ClaimRefused(w) PROVE Frame
  BY <1>14 DEF ClaimRefused, Goto, EndRound, leaseVars
<1>15. ASSUME NEW w \in Worker, GiveUp(w) PROVE Frame
  BY <1>15 DEF GiveUp, Goto, EndRound, leaseVars, BasicInv, TypeOK
<1>16. ASSUME Tick PROVE Frame
  BY <1>16 DEF Tick, leaseVars, roundVars
<1>17. ASSUME UNCHANGED vars PROVE Frame
  BY <1>17 DEF vars, leaseVars, roundVars
<1>18. ASSUME Frame PROVE Hold(x)'
  <2>1. CASE Released
    BY <2>1 DEF Hold, Holding
  <2>2. CASE ~Released
    <3>1. about[x] \in landed
      BY <1>18, <2>2 DEF BasicInv, StageInv
    <3>2. rowId'[about[x]] = rowId[about[x]]
      BY <3>1, RowsStay
    <3> QED BY <1>0, <1>18, <2>2, <3>2 DEF Hold, Holding, Version
  <2> QED BY <2>1, <2>2
<1> HIDE DEF Frame
<1> QED BY <1>1, <1>2, <1>3, <1>4, <1>5, <1>6, <1>7, <1>8, <1>9, <1>10, <1>11, <1>12, <1>13, <1>14, <1>15, <1>16, <1>17, <1>18 DEF Next, Step

\* A release records the version of a round whose status is shown.
LEMMA ReleaseIsShown ==
    ASSUME BasicInv, CarryInv, HoldInv, UnseenIsNewerThanRecorded, ~inverted,
           NEW w \in Worker, pc[w] = "finishing", Release(w),
           NEW y \in landed, rowId[y] <= pushedVersion'
    PROVE  Covers(board[Status], y)
<1>1. CASE pushedVersion' = pushedVersion
  BY <1>1 DEF UnseenIsNewerThanRecorded
<1>2. CASE pushedVersion' = Version(w) /\ Status \notin failed[w]
  <2>1. board[Status] = snap[w]
    BY <1>2 DEF HoldInv, Holding
  <2>2. Covers(snap[w], y)
    BY <1>2 DEF CarryInv, Merged
  <2> QED BY <2>1, <2>2
<1> QED BY <1>1, <1>2 DEF Release

\* The forge shows every upload up to the version recorded.
LEMMA UnseenStep ==
    BasicInv /\ VisibleInv /\ CarryInv /\ HoldInv /\ UnseenIsNewerThanRecorded
        /\ [Next]_vars => UnseenIsNewerThanRecorded'
<1> SUFFICES ASSUME BasicInv, VisibleInv, CarryInv, HoldInv,
                    UnseenIsNewerThanRecorded, [Next]_vars, ~inverted',
                    NEW y \in landed', rowId'[y] <= pushedVersion'
             PROVE  Covers(board[Status], y)'
  BY DEF UnseenIsNewerThanRecorded
<1> DEFINE Frame == /\ inverted' = inverted /\ landed' = landed
                    /\ pushedVersion' = pushedVersion /\ board' = board
<1>1. ASSUME NEW u \in Upload, CommitUpload(u) PROVE Covers(board[Status], y)'
  <2>1. /\ landed' = landed \cup {u} /\ rowId' = rowId /\ board' = board
        /\ pushedVersion' = pushedVersion /\ ~inverted /\ u \notin landed
    BY <1>1 DEF CommitUpload, leaseVars, BasicInv, StageInv
  <2>2. rowId[u] /= 0
    BY <1>1 DEF CommitUpload, BasicInv, StageInv
  <2>3. pushedVersion /= 0 => pushedVersion < rowId[u]
    BY <1>1, LandsInOrder DEF VisibleInv
  <2>4. y \in landed
    BY <2>1, <2>2, <2>3 DEF BasicInv, TypeOK
  <2>5. Covers(board[Status], y)
    BY <2>1, <2>4 DEF UnseenIsNewerThanRecorded
  <2> QED BY <2>1, <2>5 DEF Covers
<1>2. ASSUME NEW w \in Worker, NEW s \in Surface,
             PushSurface(w, s) \/ PushSurfaceFails(w, s)
      PROVE  Covers(board[Status], y)'
  <2>1. /\ landed' = landed /\ rowId' = rowId /\ pushedVersion' = pushedVersion
        /\ inverted' = inverted /\ pc[w] = "pushing"
        /\ board' = board \/ board' = [board EXCEPT ![s] = snap[w]]
    BY <1>2 DEF PushSurface, PushSurfaceFails, Answered, dbVars, leaseVars
  <2>2. board'[Status] = board[Status] \/ board'[Status] = snap[w]
    BY <2>1, SurfaceAssumption DEF BasicInv, TypeOK
  <2>3. Covers(board[Status], y)
    BY <2>1 DEF UnseenIsNewerThanRecorded
  <2>4. Covers(snap[w], y)
    <3>1. pushedVersion <= Version(w) /\ about[w] \in Upload
      BY <2>1 DEF HoldInv, Holding, BasicInv, TypeOK
    <3>2. rowId[y] <= Version(w)
      BY <2>1, <3>1 DEF Version, BasicInv, TypeOK
    <3> QED BY <2>1, <3>2 DEF CarryInv, Merged
  <2> QED BY <2>1, <2>2, <2>3, <2>4 DEF Covers
<1>3. ASSUME NEW u \in Upload, FinishRequest(u) PROVE Covers(board[Status], y)'
  <2>1. /\ Request(u) \in Worker /\ pc[Request(u)] = "finishing" /\ Release(Request(u))
        /\ landed' = landed /\ rowId' = rowId /\ board' = board /\ inverted' = inverted
    BY <1>3 DEF FinishRequest, dbVars, Request, Worker
  <2>2. Covers(board[Status], y)
    BY <2>1, ReleaseIsShown
  <2> QED BY <2>1, <2>2 DEF Covers
<1>4. ASSUME NEW u \in Upload, FinishFollowUp(u) PROVE Covers(board[Status], y)'
  <2>1. /\ FollowUp(u) \in Worker /\ pc[FollowUp(u)] = "finishing" /\ Release(FollowUp(u))
        /\ landed' = landed /\ rowId' = rowId /\ board' = board /\ inverted' = inverted
    BY <1>4 DEF FinishFollowUp, dbVars, FollowUp, Worker
  <2>2. Covers(board[Status], y)
    BY <2>1, ReleaseIsShown
  <2> QED BY <2>1, <2>2 DEF Covers
<1>5. ASSUME NEW w \in Worker, FinishUnanswered(w) PROVE Covers(board[Status], y)'
  <2>1. /\ w \in Worker /\ pc[w] = "finishing" /\ Release(w)
        /\ landed' = landed /\ rowId' = rowId /\ board' = board /\ inverted' = inverted
    BY <1>5 DEF FinishUnanswered, dbVars
  <2>2. Covers(board[Status], y)
    BY <2>1, ReleaseIsShown
  <2> QED BY <2>1, <2>2 DEF Covers
<1>6. ASSUME NEW u \in Upload, InsertUpload(u) PROVE Frame
  BY <1>6 DEF InsertUpload, dbVars, leaseVars
<1>7. ASSUME NEW u \in Upload, RollbackUpload(u) PROVE Frame
  BY <1>7 DEF RollbackUpload, dbVars, leaseVars
<1>8. ASSUME NEW u \in Upload, FollowUpReload(u) PROVE Frame
  BY <1>8 DEF FollowUpReload, dbVars, leaseVars
<1>9. ASSUME NEW w \in Worker, RecomputeRead(w) PROVE Frame
  BY <1>9 DEF RecomputeRead, dbVars, leaseVars
<1>10. ASSUME NEW w \in Worker, UpsertCommitReport(w) PROVE Frame
  BY <1>10 DEF UpsertCommitReport, dbVars, leaseVars
<1>11. ASSUME NEW w \in Worker, ClaimPush(w) PROVE Frame
  BY <1>11 DEF ClaimPush, dbVars, leaseVars
<1>12. ASSUME NEW w \in Worker, ClaimRefused(w) PROVE Frame
  BY <1>12 DEF ClaimRefused, dbVars, leaseVars
<1>13. ASSUME NEW w \in Worker, GiveUp(w) PROVE Frame
  BY <1>13 DEF GiveUp, dbVars, leaseVars
<1>14. ASSUME Tick PROVE Frame
  BY <1>14 DEF Tick, dbVars, leaseVars
<1>15. ASSUME UNCHANGED vars PROVE Frame
  BY <1>15 DEF vars, dbVars, leaseVars
<1>16. ASSUME Frame PROVE Covers(board[Status], y)'
  <2>1. Covers(board[Status], y) /\ board[Status] \subseteq landed
    BY <1>16, RowsStay, SurfaceAssumption DEF UnseenIsNewerThanRecorded, VisibleInv
  <2> QED BY <1>16, <2>1, CoversStays DEF Covers
<1> HIDE DEF Frame
<1> QED BY <1>1, <1>2, <1>3, <1>4, <1>5, <1>6, <1>7, <1>8, <1>9, <1>10, <1>11, <1>12, <1>13, <1>14, <1>15, <1>16 DEF Next, Step

----------------------------------------------------------------------------
(* The board settles on the newest report. *)

\* A held lease has its holder, unless something failed.
HeldInv ==
    leaseUntil /= 0 =>
        faulted \/ \E w \in Worker : Holding(w) /\ token[w] = leaseUntil

\* A recompute leaves a report.
ReportInv == \A w \in Worker : pc[w] = "merged" => report /= {}

\* Every surface that a round is no longer owed shows it.
ShownInv ==
    ~faulted =>
        \A w \in Worker, s \in Surface :
            Holding(w) /\ s \notin owed[w] => board[s] = snap[w]

IsNewest(u) == u \in landed /\ \A v \in landed : rowId[v] <= rowId[u]

\* What was read for the newest upload is still what there is.
NewestSnapInv ==
    ~inverted =>
        \A w \in Worker :
            Merged(w) /\ IsNewest(about[w]) => snap[w] = LatestUploadsPerPart(landed)

\* Somebody is on the way to the forge with the newest upload, or will look
\* for it before it ends.
Pending ==
    \/ \E w \in Worker : pc[w] = "reload" \/ Holding(w)
    \/ \E w \in Worker :
          pc[w] \in {"landed", "merging", "merged"} /\ IsNewest(about[w])

PendingInv == ~faulted /\ ~inverted => Pending \/ BoardIsNewest

SettleInv == HeldInv /\ ReportInv /\ ShownInv /\ NewestSnapInv /\ PendingInv

\* The newest row of a non-empty set of visible rows is the newest.
LEMMA NewestIsNewest ==
    ASSUME BasicInv, landed /= {}
    PROVE  IsNewest(Newest(landed))
<1>1. landed \in SUBSET Upload
  BY DEF BasicInv, TypeOK
<1>2. \E u \in landed : \A v \in landed : rowId[v] <= rowId[u]
  BY <1>1, NewestExists DEF BasicInv
<1> QED BY <1>2 DEF Newest, IsNewest

\* What a merge would read changes only with a row that lands.
LEMMA LatestStays ==
    ASSUME BasicInv, [Next]_vars, landed' = landed
    PROVE  /\ LatestUploadsPerPart(landed)' = LatestUploadsPerPart(landed)
           /\ \A u : IsNewest(u)' <=> IsNewest(u)
<1>1. \A v \in landed : rowId'[v] = rowId[v]
  BY RowsStay
<1> QED BY <1>1 DEF LatestUploadsPerPart, IsNewest

\* Who claims the lease holds it, and who ends its round gives it back.
LEMMA HeldStep == BasicInv /\ LeaseInv /\ HeldInv /\ [Next]_vars => HeldInv'
<1> SUFFICES ASSUME BasicInv, LeaseInv, HeldInv, [Next]_vars PROVE HeldInv'
  OBVIOUS
<1> USE DEF dbVars, leaseVars, roundVars
<1>t. /\ pc \in [Worker -> State] /\ token \in [Worker -> Nat]
      /\ \A u \in Upload : Request(u) \in Worker /\ FollowUp(u) \in Worker
  BY DEF BasicInv, TypeOK, Worker, Request, FollowUp
<1>1. ASSUME NEW u \in Upload, InsertUpload(u) PROVE HeldInv'
  BY <1>1, <1>t DEF InsertUpload, Goto, HeldInv, Holding
<1>2. ASSUME NEW u \in Upload, CommitUpload(u) PROVE HeldInv'
  BY <1>2, <1>t DEF CommitUpload, Goto, HeldInv, Holding
<1>3. ASSUME NEW u \in Upload, RollbackUpload(u) PROVE HeldInv'
  BY <1>3, <1>t DEF RollbackUpload, Goto, HeldInv, Holding
<1>4. ASSUME NEW u \in Upload, FinishRequest(u) PROVE HeldInv'
  <2>1. Holding(Request(u)) /\ leaseUntil = token[Request(u)]
    BY <1>t, <1>4 DEF FinishRequest, Holding, LeaseInv
  <2>2. leaseUntil' = 0
    BY <1>4, <2>1 DEF FinishRequest, Release
  <2> QED BY <2>2 DEF HeldInv
<1>5. ASSUME NEW u \in Upload, FinishFollowUp(u) PROVE HeldInv'
  <2>1. Holding(FollowUp(u)) /\ leaseUntil = token[FollowUp(u)]
    BY <1>t, <1>5 DEF FinishFollowUp, Holding, LeaseInv
  <2>2. leaseUntil' = 0
    BY <1>5, <2>1 DEF FinishFollowUp, Release
  <2> QED BY <2>2 DEF HeldInv
<1>6. ASSUME NEW u \in Upload, FollowUpReload(u) PROVE HeldInv'
  BY <1>6, <1>t DEF FollowUpReload, Goto, HeldInv, Holding
<1>7. ASSUME NEW w \in Worker, RecomputeRead(w) PROVE HeldInv'
  BY <1>7, <1>t DEF RecomputeRead, Goto, HeldInv, Holding
<1>8. ASSUME NEW w \in Worker, UpsertCommitReport(w) PROVE HeldInv'
  BY <1>8, <1>t DEF UpsertCommitReport, Goto, HeldInv, Holding
<1>9. ASSUME NEW w \in Worker, ClaimPush(w) PROVE HeldInv'
  <2>1. Holding(w)' /\ token'[w] = leaseUntil'
    BY <1>t, <1>9 DEF ClaimPush, Goto, Holding
  <2> QED BY <2>1 DEF HeldInv
<1>10. ASSUME NEW w \in Worker, ClaimRefused(w) PROVE HeldInv'
  BY <1>10, <1>t DEF ClaimRefused, Goto, EndRound, HeldInv, Holding
<1>11. ASSUME NEW w \in Worker, NEW s \in Surface, PushSurface(w, s)
      PROVE HeldInv'
  BY <1>11, <1>t DEF PushSurface, Answered, Goto, HeldInv, Holding
<1>12. ASSUME NEW w \in Worker, NEW s \in Surface, PushSurfaceFails(w, s)
      PROVE HeldInv'
  BY <1>12 DEF PushSurfaceFails, HeldInv
<1>13. ASSUME NEW w \in Worker, GiveUp(w) PROVE HeldInv'
  BY <1>13 DEF GiveUp, HeldInv
<1>14. ASSUME NEW w \in Worker, FinishUnanswered(w) PROVE HeldInv'
  BY <1>14 DEF FinishUnanswered, HeldInv
<1>15. CASE Tick
  BY <1>15, <1>t DEF Tick, HeldInv, Holding
<1>16. CASE UNCHANGED vars
  BY <1>16, <1>t DEF vars, HeldInv, Holding
<1> QED
  BY <1>1, <1>2, <1>3, <1>4, <1>5, <1>6, <1>7, <1>8, <1>9, <1>10, <1>11,
     <1>12, <1>13, <1>14, <1>15, <1>16 DEF Next, Step

\* The report that a recompute leaves holds its upload or a newer one.
LEMMA ReportStep == BasicInv /\ ReadInv /\ ReportInv /\ [Next]_vars => ReportInv'
<1> SUFFICES ASSUME BasicInv, ReadInv, ReportInv, [Next]_vars PROVE ReportInv'
  OBVIOUS
<1> USE DEF dbVars, leaseVars, roundVars
<1>t. /\ pc \in [Worker -> State] /\ token \in [Worker -> Nat]
      /\ \A u \in Upload : Request(u) \in Worker /\ FollowUp(u) \in Worker
  BY DEF BasicInv, TypeOK, Worker, Request, FollowUp
<1>1. ASSUME NEW u \in Upload, InsertUpload(u) PROVE ReportInv'
  BY <1>1, <1>t DEF InsertUpload, Goto, ReportInv
<1>2. ASSUME NEW u \in Upload, CommitUpload(u) PROVE ReportInv'
  BY <1>2, <1>t DEF CommitUpload, Goto, ReportInv
<1>3. ASSUME NEW u \in Upload, RollbackUpload(u) PROVE ReportInv'
  BY <1>3, <1>t DEF RollbackUpload, Goto, ReportInv
<1>4. ASSUME NEW u \in Upload, FinishRequest(u) PROVE ReportInv'
  BY <1>4, <1>t DEF FinishRequest, ReportInv
<1>5. ASSUME NEW u \in Upload, FinishFollowUp(u) PROVE ReportInv'
  BY <1>5, <1>t DEF FinishFollowUp, Goto, ReportInv
<1>6. ASSUME NEW u \in Upload, FollowUpReload(u) PROVE ReportInv'
  BY <1>6, <1>t DEF FollowUpReload, Goto, ReportInv
<1>7. ASSUME NEW w \in Worker, RecomputeRead(w) PROVE ReportInv'
  BY <1>7, <1>t DEF RecomputeRead, Goto, ReportInv
<1>8. ASSUME NEW w \in Worker, UpsertCommitReport(w) PROVE ReportInv'
  <2>1. report' /= {}
    BY <1>8 DEF UpsertCommitReport, ReadInv, Covers
  <2> QED BY <2>1 DEF ReportInv
<1>9. ASSUME NEW w \in Worker, ClaimPush(w) PROVE ReportInv'
  BY <1>9, <1>t DEF ClaimPush, Goto, ReportInv
<1>10. ASSUME NEW w \in Worker, ClaimRefused(w) PROVE ReportInv'
  BY <1>10, <1>t DEF ClaimRefused, ReportInv
<1>11. ASSUME NEW w \in Worker, NEW s \in Surface, PushSurface(w, s)
      PROVE ReportInv'
  BY <1>11, <1>t DEF PushSurface, Answered, Goto, ReportInv
<1>12. ASSUME NEW w \in Worker, NEW s \in Surface, PushSurfaceFails(w, s)
      PROVE ReportInv'
  BY <1>12, <1>t DEF PushSurfaceFails, Answered, Goto, ReportInv
<1>13. ASSUME NEW w \in Worker, GiveUp(w) PROVE ReportInv'
  BY <1>13, <1>t DEF GiveUp, Goto, ReportInv
<1>14. ASSUME NEW w \in Worker, FinishUnanswered(w) PROVE ReportInv'
  BY <1>14, <1>t DEF FinishUnanswered, Goto, ReportInv
<1>15. CASE Tick
  BY <1>15, <1>t DEF Tick, ReportInv
<1>16. CASE UNCHANGED vars
  BY <1>16, <1>t DEF vars, ReportInv
<1> QED
  BY <1>1, <1>2, <1>3, <1>4, <1>5, <1>6, <1>7, <1>8, <1>9, <1>10, <1>11,
     <1>12, <1>13, <1>14, <1>15, <1>16 DEF Next, Step

\* Pushes are exclusive, so nobody moves a surface that a round has answered.
LEMMA ShownStep == BasicInv /\ LeaseInv /\ OnePushAtATime /\ ShownInv /\ [Next]_vars => ShownInv'
<1> SUFFICES ASSUME BasicInv, LeaseInv, OnePushAtATime, ShownInv, [Next]_vars PROVE ShownInv'
  OBVIOUS
<1> USE DEF dbVars, leaseVars, roundVars
<1> SUFFICES ASSUME ~faulted', NEW x \in Worker, NEW z \in Surface,
                    Holding(x)', z \notin owed'[x]
             PROVE  board'[z] = snap'[x]
  BY DEF ShownInv
<1>e. OnePushAtATime'
  BY LeaseStep
<1>s. /\ pc \in [Worker -> State] /\ snap \in [Worker -> SUBSET Upload]
      /\ owed \in [Worker -> SUBSET Surface]
      /\ board \in [Surface -> SUBSET Upload]
      /\ \A u \in Upload : Request(u) \in Worker /\ FollowUp(u) \in Worker
  BY DEF BasicInv, TypeOK, Worker, Request, FollowUp
<1>1. ASSUME NEW u \in Upload, InsertUpload(u) PROVE board'[z] = snap'[x]
  BY <1>1, <1>s DEF InsertUpload, Goto, ShownInv, Holding
<1>2. ASSUME NEW u \in Upload, CommitUpload(u) PROVE board'[z] = snap'[x]
  BY <1>2, <1>s DEF CommitUpload, Goto, ShownInv, Holding
<1>3. ASSUME NEW u \in Upload, RollbackUpload(u) PROVE board'[z] = snap'[x]
  BY <1>3, <1>s DEF RollbackUpload, Goto, ShownInv, Holding
<1>4. ASSUME NEW u \in Upload, FinishRequest(u) PROVE board'[z] = snap'[x]
  BY <1>4, <1>s DEF FinishRequest, EndRound, ShownInv, Holding
<1>5. ASSUME NEW u \in Upload, FinishFollowUp(u) PROVE board'[z] = snap'[x]
  BY <1>5, <1>s DEF FinishFollowUp, Goto, EndRound, ShownInv, Holding
<1>6. ASSUME NEW u \in Upload, FollowUpReload(u) PROVE board'[z] = snap'[x]
  BY <1>6, <1>s DEF FollowUpReload, Goto, ShownInv, Holding
<1>7. ASSUME NEW w \in Worker, RecomputeRead(w) PROVE board'[z] = snap'[x]
  BY <1>7, <1>s DEF RecomputeRead, Goto, ShownInv, Holding
<1>8. ASSUME NEW w \in Worker, UpsertCommitReport(w) PROVE board'[z] = snap'[x]
  BY <1>8, <1>s DEF UpsertCommitReport, Goto, ShownInv, Holding
<1>9. ASSUME NEW w \in Worker, ClaimPush(w) PROVE board'[z] = snap'[x]
  <2>1. Holding(w)' /\ owed'[w] = Surface
    BY <1>s, <1>9 DEF ClaimPush, Goto, Holding
  <2>2. x = w
    BY <1>e, <2>1 DEF OnePushAtATime
  <2> QED BY <2>1, <2>2
<1>10. ASSUME NEW w \in Worker, ClaimRefused(w) PROVE board'[z] = snap'[x]
  BY <1>10, <1>s DEF ClaimRefused, Goto, EndRound, ShownInv, Holding
<1>11. ASSUME NEW w \in Worker, NEW s \in Surface, PushSurface(w, s)
      PROVE board'[z] = snap'[x]
  <2>1. Holding(w) /\ Holding(w)' /\ ~faulted
    BY <1>s, <1>11 DEF PushSurface, Answered, Goto, Holding
  <2>2. x = w
    BY <1>e, <2>1 DEF OnePushAtATime
  <2>3. /\ board' = [board EXCEPT ![s] = snap[w]] /\ snap' = snap
        /\ owed' = [owed EXCEPT ![w] = owed[w] \ {s}]
    BY <1>11 DEF PushSurface, Answered
  <2> QED BY <1>s, <2>1, <2>2, <2>3 DEF ShownInv
<1>12. ASSUME NEW w \in Worker, NEW s \in Surface, PushSurfaceFails(w, s)
      PROVE board'[z] = snap'[x]
  BY <1>12 DEF PushSurfaceFails
<1>13. ASSUME NEW w \in Worker, GiveUp(w) PROVE board'[z] = snap'[x]
  BY <1>13 DEF GiveUp
<1>14. ASSUME NEW w \in Worker, FinishUnanswered(w) PROVE board'[z] = snap'[x]
  BY <1>14 DEF FinishUnanswered
<1>15. CASE Tick
  BY <1>15, <1>s DEF Tick, ShownInv, Holding
<1>16. CASE UNCHANGED vars
  BY <1>16, <1>s DEF vars, ShownInv, Holding
<1> QED
  BY <1>1, <1>2, <1>3, <1>4, <1>5, <1>6, <1>7, <1>8, <1>9, <1>10, <1>11,
     <1>12, <1>13, <1>14, <1>15, <1>16 DEF Next, Step

\* What a recompute read for the newest upload stays what there is: what lands
\* later is newer.
LEMMA NewestSnapStep ==
    BasicInv /\ NewestSnapInv /\ [Next]_vars => NewestSnapInv'
<1> SUFFICES ASSUME BasicInv, NewestSnapInv, [Next]_vars, ~inverted',
                    NEW x \in Worker, Merged(x)', IsNewest(about[x])'
             PROVE  (snap[x] = LatestUploadsPerPart(landed))'
  BY DEF NewestSnapInv
<1>1. CASE RecomputeRead(x)
  <2>1. snap'[x] = LatestUploadsPerPart(landed) /\ landed' = landed
    BY <1>1 DEF RecomputeRead, BasicInv, TypeOK
  <2> QED BY <2>1, LatestStays
<1>2. ASSUME NEW u \in Upload, CommitUpload(u) PROVE FALSE
  <2>1. Request(u) \in Worker /\ pc' = [pc EXCEPT ![Request(u)] = "landed"]
    BY <1>2 DEF CommitUpload, Goto, Request, Worker
  <2>2. about[x] \in landed /\ about' = about /\ rowId' = rowId /\ u \in landed'
    BY <1>2, <2>1 DEF CommitUpload, Merged, BasicInv, StageInv
  <2>3. rowId[about[x]] < rowId[u] /\ rowId[u] <= rowId[about[x]]
    BY <1>2, <2>2, LandsInOrder DEF IsNewest
  <2> QED BY <2>2, <2>3 DEF BasicInv, TypeOK
<1>3. CASE /\ Merged(x) /\ snap'[x] = snap[x] /\ about'[x] = about[x]
           /\ inverted' = inverted /\ landed' = landed
  BY <1>3, LatestStays DEF NewestSnapInv
<1> QED BY <1>1, <1>2, <1>3, RoundKeepsRead

\* A release that finds no newer row leaves the newest report on every surface.
LEMMA LastFinishShowsNewest ==
    ASSUME BasicInv, LeaseInv, HoldInv, ShownInv, NewestSnapInv,
           ~faulted, ~inverted,
           NEW w \in Worker, pc[w] = "finishing", ~Again(w)
    PROVE  BoardIsNewest
<1>1. about[w] \in landed /\ leaseUntil = token[w] /\ owed[w] = {}
  BY DEF BasicInv, StageInv, LeaseInv, Holding, HoldInv
<1>2. IsNewest(about[w])
  BY <1>1 DEF Again, Version, IsNewest, BasicInv, TypeOK
<1>3. snap[w] = LatestUploadsPerPart(landed)
  BY <1>2 DEF NewestSnapInv, Merged
<1> QED BY <1>1, <1>3 DEF ShownInv, Holding, BoardIsNewest

\* A refused claim for the newest upload leaves a live push behind.
LEMMA RefusedHasHolder ==
    ASSUME BasicInv, VisibleInv, HeldInv, ReportInv, ~faulted,
           NEW w \in Worker, ClaimRefused(w), IsNewest(about[w])
    PROVE  \E v \in Worker : v /= w /\ Holding(v)
<1>1. pc[w] = "merged" /\ report /= {}
  BY DEF ClaimRefused, ReportInv
<1>2. ~(Version(w) < pushedVersion)
  BY DEF VisibleInv, IsNewest, Version, BasicInv, TypeOK
<1>3. ~LeaseFree
  BY <1>1, <1>2 DEF ClaimRefused
<1>4. PICK v \in Worker : Holding(v)
  BY <1>3 DEF LeaseFree, HeldInv
<1> QED BY <1>1, <1>4 DEF Holding

\* The workers that are on the way stay on it, and the board is what it was.
LEMMA PendingKept ==
    ASSUME BasicInv, [Next]_vars, landed' = landed, board' = board,
           Pending \/ BoardIsNewest,
           \A w \in Worker :
               /\ pc[w] = "reload" \/ Holding(w) => pc'[w] = pc[w]
               /\ pc[w] \in {"landed", "merging", "merged"} =>
                     /\ about'[w] = about[w]
                     /\ pc'[w] \in {"landed", "merging", "merged", "pushing"}
    PROVE  (Pending \/ BoardIsNewest)'
<1>1. CASE BoardIsNewest
  BY <1>1, LatestStays DEF BoardIsNewest
<1>2. CASE \E w \in Worker : pc[w] = "reload" \/ Holding(w)
  BY <1>2 DEF Pending, Holding
<1>3. CASE \E w \in Worker : pc[w] \in {"landed", "merging", "merged"}
                             /\ IsNewest(about[w])
  <2>1. PICK w \in Worker : /\ pc[w] \in {"landed", "merging", "merged"}
                            /\ IsNewest(about[w])
    BY <1>3
  <2>2. IsNewest(about[w])'
    BY <2>1, LatestStays
  <2> QED BY <2>1, <2>2 DEF Pending, Holding
<1> QED BY <1>1, <1>2, <1>3 DEF Pending

\* Nobody ends while the newest upload is not on the board, unless somebody is
\* left to bring it there.
LEMMA PendingStep ==
    IndInv /\ SettleInv /\ [Next]_vars => PendingInv'
<1> SUFFICES ASSUME IndInv, SettleInv, [Next]_vars, ~faulted', ~inverted'
             PROVE  (Pending \/ BoardIsNewest)'
  BY DEF PendingInv
<1> USE DEF dbVars, leaseVars, roundVars
<1>b. BasicInv
  BY DEF IndInv, BasicInv
<1>t. /\ pc \in [Worker -> State] /\ about \in [Worker -> Upload]
      /\ \A u \in Upload : Request(u) \in Worker /\ FollowUp(u) \in Worker
      /\ \A u \in Upload : Request(u) /= FollowUp(u)
  BY <1>b DEF BasicInv, TypeOK, Worker, Request, FollowUp
<1>f. ASSUME faulted' = faulted, inverted' = inverted PROVE Pending \/ BoardIsNewest
  BY <1>f DEF SettleInv, PendingInv
<1>1. ASSUME NEW u \in Upload, InsertUpload(u)
      PROVE (Pending \/ BoardIsNewest)'
  BY <1>1, <1>b, <1>t, <1>f, PendingKept DEF InsertUpload, Goto, Holding
<1>2. ASSUME NEW u \in Upload, CommitUpload(u)
      PROVE (Pending \/ BoardIsNewest)'
  <2>1. /\ pc'[Request(u)] = "landed" /\ about' = about /\ rowId' = rowId
        /\ landed' = landed \cup {u} /\ about[Request(u)] = u
    BY <1>2, <1>b, <1>t DEF CommitUpload, Goto, BasicInv, StageInv
  <2>2. \A v \in landed : rowId[v] < rowId[u]
    BY <1>2, <1>b, LandsInOrder
  <2>3. IsNewest(u)'
    BY <1>b, <2>1, <2>2 DEF IsNewest, BasicInv, TypeOK
  <2> QED BY <1>t, <2>1, <2>3 DEF Pending
<1>3. ASSUME NEW u \in Upload, RollbackUpload(u)
      PROVE (Pending \/ BoardIsNewest)'
  BY <1>3, <1>b, <1>t, <1>f, PendingKept DEF RollbackUpload, Goto, Holding
<1>4. ASSUME NEW u \in Upload, FinishRequest(u)
      PROVE (Pending \/ BoardIsNewest)'
  <2>1. CASE Again(Request(u))
    <3>1. pc'[FollowUp(u)] = "reload"
      BY <1>4, <1>t, <2>1 DEF FinishRequest
    <3> QED BY <1>t, <3>1 DEF Pending
  <2>2. CASE ~Again(Request(u))
    <3>1. pc[Request(u)] = "finishing" /\ ~faulted /\ ~inverted
      BY <1>4 DEF FinishRequest
    <3>2. BoardIsNewest
      BY <1>b, <1>t, <2>2, <3>1, LastFinishShowsNewest DEF IndInv, SettleInv
    <3>3. landed' = landed /\ board' = board
      BY <1>4 DEF FinishRequest
    <3> QED BY <1>b, <3>2, <3>3, LatestStays DEF BoardIsNewest
  <2> QED BY <2>1, <2>2
<1>5. ASSUME NEW u \in Upload, FinishFollowUp(u)
      PROVE (Pending \/ BoardIsNewest)'
  <2>1. CASE Again(FollowUp(u))
    <3>1. pc'[FollowUp(u)] = "reload"
      <4>1. rounds[FollowUp(u)] + 1 < MaxFollowUpRounds
        <5>1. ~(rounds[FollowUp(u)] + 1 >= MaxFollowUpRounds)
          BY <1>5, <2>1, Zenon DEF FinishFollowUp
        <5>2. rounds[FollowUp(u)] \in Nat
          BY <1>b, <1>t DEF BasicInv, TypeOK
        <5> QED BY <5>1, <5>2, RoundsAssumption
      <4> QED BY <1>5, <1>t, <2>1, <4>1 DEF FinishFollowUp, Goto
    <3> QED BY <1>t, <3>1 DEF Pending
  <2>2. CASE ~Again(FollowUp(u))
    <3>1. pc[FollowUp(u)] = "finishing" /\ ~faulted /\ ~inverted
      BY <1>5 DEF FinishFollowUp
    <3>2. BoardIsNewest
      BY <1>b, <1>t, <2>2, <3>1, LastFinishShowsNewest DEF IndInv, SettleInv
    <3>3. landed' = landed /\ board' = board
      BY <1>5 DEF FinishFollowUp
    <3> QED BY <1>b, <3>2, <3>3, LatestStays DEF BoardIsNewest
  <2> QED BY <2>1, <2>2
<1>6. ASSUME NEW u \in Upload, FollowUpReload(u)
      PROVE (Pending \/ BoardIsNewest)'
  <2>1. /\ pc'[FollowUp(u)] = "landed" /\ about'[FollowUp(u)] = Newest(landed)
        /\ landed' = landed /\ landed /= {}
    BY <1>6, <1>b, <1>t DEF FollowUpReload, Goto, BasicInv, StageInv
  <2>2. IsNewest(Newest(landed))'
    <3>1. IsNewest(Newest(landed))
      BY <1>b, <2>1, NewestIsNewest
    <3>2. rowId' = rowId
      BY <1>6 DEF FollowUpReload
    <3> QED BY <2>1, <3>1, <3>2 DEF IsNewest, Newest
  <2>3. Newest(landed)' = Newest(landed)
    BY <1>6 DEF FollowUpReload, Newest
  <2> QED BY <1>t, <2>1, <2>2, <2>3 DEF Pending
<1>7. ASSUME NEW w \in Worker, RecomputeRead(w)
      PROVE (Pending \/ BoardIsNewest)'
  BY <1>7, <1>b, <1>t, <1>f, PendingKept DEF RecomputeRead, Goto, Holding
<1>8. ASSUME NEW w \in Worker, UpsertCommitReport(w)
      PROVE (Pending \/ BoardIsNewest)'
  BY <1>8, <1>b, <1>t, <1>f, PendingKept DEF UpsertCommitReport, Goto, Holding
<1>9. ASSUME NEW w \in Worker, ClaimPush(w)
      PROVE (Pending \/ BoardIsNewest)'
  BY <1>9, <1>b, <1>t, <1>f, PendingKept DEF ClaimPush, Goto, Holding
<1>10. ASSUME NEW w \in Worker, ClaimRefused(w)
       PROVE (Pending \/ BoardIsNewest)'
  <2>0. /\ pc[w] = "merged" /\ landed' = landed /\ board' = board /\ ~faulted
        /\ \A v \in Worker \ {w} : pc'[v] = pc[v] /\ about'[v] = about[v]
    BY <1>10, <1>t DEF ClaimRefused, Goto
  <2>1. CASE \E v \in Worker \ {w} : pc[v] = "reload" \/ Holding(v)
    BY <2>0, <2>1 DEF Pending, Holding
  <2>2. CASE \E v \in Worker \ {w} : /\ pc[v] \in {"landed", "merging", "merged"}
                                     /\ IsNewest(about[v])
    <3>1. PICK v \in Worker \ {w} : /\ pc[v] \in {"landed", "merging", "merged"}
                                    /\ IsNewest(about[v])
      BY <2>2
    <3>2. IsNewest(about[v])'
      BY <1>b, <2>0, <3>1, LatestStays
    <3> QED BY <2>0, <3>1, <3>2 DEF Pending
  <2>3. CASE IsNewest(about[w])
    <3>1. \E v \in Worker : v /= w /\ Holding(v)
      BY <1>10, <1>b, <2>0, <2>3, RefusedHasHolder DEF IndInv, SettleInv
    <3> QED BY <2>1, <3>1
  <2>4. CASE BoardIsNewest
    BY <1>b, <2>0, <2>4, LatestStays DEF BoardIsNewest
  <2>5. Pending \/ BoardIsNewest
    BY <1>10, <1>f DEF ClaimRefused
  <2> QED BY <2>0, <2>1, <2>2, <2>3, <2>4, <2>5 DEF Pending, Holding
<1>11. ASSUME NEW w \in Worker, NEW s \in Surface, PushSurface(w, s)
       PROVE (Pending \/ BoardIsNewest)'
  <2>1. Holding(w)'
    BY <1>11, <1>t DEF PushSurface, Answered, Goto, Holding
  <2> QED BY <2>1 DEF Pending
<1>12. ASSUME NEW w \in Worker,
              \/ \E s \in Surface : PushSurfaceFails(w, s)
              \/ GiveUp(w)
              \/ FinishUnanswered(w)
       PROVE FALSE
  BY <1>12 DEF PushSurfaceFails, GiveUp, FinishUnanswered
<1>13. CASE Tick
  BY <1>13, <1>b, <1>t, <1>f, PendingKept DEF Tick, Holding
<1>14. CASE UNCHANGED vars
  BY <1>14, <1>b, <1>t, <1>f, PendingKept DEF vars, Holding
<1> QED
  BY <1>1, <1>2, <1>3, <1>4, <1>5, <1>6, <1>7, <1>8, <1>9, <1>10, <1>11,
     <1>12, <1>13, <1>14 DEF Next, Step

----------------------------------------------------------------------------
(* The commit as CommitBoard has it. *)

OnePerPart(S) == \A u, v \in S : Part[u] = Part[v] => u = v

\* What a worker carries is a merge, and once it is stored the report covers it.
MergeInv ==
    \A w \in Worker :
        Merged(w) => /\ OnePerPart(snap[w])
                     /\ pc[w] /= "merging" => \A v \in snap[w] : Covers(report, v)

\* Only an upsert writes the report, and it is the step from "merging" on.
LEMMA UpsertWrites ==
    ASSUME BasicInv, [Next]_vars
    PROVE  /\ report' = report \/ \E w \in Worker : UpsertCommitReport(w)
           /\ \A w \in Worker :
                 pc[w] = "merging" /\ Merged(w)' /\ pc'[w] /= "merging"
                     => UpsertCommitReport(w)
<1> DEFINE Frame == /\ report' = report
                    /\ \A w \in Worker :
                          ~(pc[w] = "merging" /\ Merged(w)' /\ pc'[w] /= "merging")
<1> USE DEF dbVars, BasicInv, TypeOK, Goto, Merged
<1>t. \A u \in Upload : Request(u) \in Worker /\ FollowUp(u) \in Worker
  BY DEF Request, FollowUp, Worker
<1>1. ASSUME NEW u \in Upload, InsertUpload(u) PROVE Frame
  BY <1>1, <1>t DEF InsertUpload
<1>2. ASSUME NEW u \in Upload, CommitUpload(u) PROVE Frame
  BY <1>2, <1>t DEF CommitUpload
<1>3. ASSUME NEW u \in Upload, RollbackUpload(u) PROVE Frame
  BY <1>3, <1>t DEF RollbackUpload
<1>4. ASSUME NEW u \in Upload, FinishRequest(u) PROVE Frame
  BY <1>4, <1>t DEF FinishRequest
<1>5. ASSUME NEW u \in Upload, FinishFollowUp(u) PROVE Frame
  BY <1>5, <1>t DEF FinishFollowUp
<1>6. ASSUME NEW u \in Upload, FollowUpReload(u) PROVE Frame
  BY <1>6, <1>t DEF FollowUpReload
<1>7. ASSUME NEW w \in Worker, RecomputeRead(w) PROVE Frame
  BY <1>7 DEF RecomputeRead
<1>8. ASSUME NEW w \in Worker, UpsertCommitReport(w),
             NEW x \in Worker, pc[x] = "merging", pc'[x] /= "merging"
      PROVE  x = w
  BY <1>8 DEF UpsertCommitReport
<1>9. ASSUME NEW w \in Worker, ClaimPush(w) PROVE Frame
  BY <1>9 DEF ClaimPush
<1>10. ASSUME NEW w \in Worker, ClaimRefused(w) PROVE Frame
  BY <1>10 DEF ClaimRefused
<1>11. ASSUME NEW w \in Worker, NEW s \in Surface, PushSurface(w, s) PROVE Frame
  BY <1>11 DEF PushSurface, Answered
<1>12. ASSUME NEW w \in Worker, NEW s \in Surface, PushSurfaceFails(w, s) PROVE Frame
  BY <1>12 DEF PushSurfaceFails, Answered
<1>13. ASSUME NEW w \in Worker, GiveUp(w) PROVE Frame
  BY <1>13 DEF GiveUp
<1>14. ASSUME NEW w \in Worker, FinishUnanswered(w) PROVE Frame
  BY <1>14 DEF FinishUnanswered
<1>15. CASE Tick
  BY <1>15 DEF Tick
<1>16. CASE UNCHANGED vars
  BY <1>16 DEF vars
<1> QED BY <1>1, <1>2, <1>3, <1>4, <1>5, <1>6, <1>7, <1>8, <1>9, <1>10, <1>11,
           <1>12, <1>13, <1>14, <1>15, <1>16 DEF Next, Step

\* The lock makes the report only ever grow.
LEMMA ReportKept ==
    ASSUME IndInv, [Next]_vars, NEW u \in landed, Covers(report, u)
    PROVE  Covers(report, u)'
<1>0. BasicInv /\ VisibleInv /\ ReadInv
  BY DEF IndInv, BasicInv
<1>1. ASSUME NEW w \in Worker, UpsertCommitReport(w) PROVE Covers(report, u)'
  <2>1. report' = snap[w] /\ rowId' = rowId /\ \A v \in report : Covers(snap[w], v)
    BY <1>0, <1>1 DEF UpsertCommitReport, ReadInv
  <2>2. Covers(snap[w], u)
    BY <1>0, <2>1, CoversTransitive DEF BasicInv, TypeOK
  <2> QED BY <2>1, <2>2 DEF Covers
<1>2. CASE report' = report
  <2>1. report \subseteq landed
    BY <1>0 DEF VisibleInv
  <2> QED BY <1>0, <1>2, <2>1, CoversStays DEF Covers
<1> QED BY <1>0, <1>1, <1>2, UpsertWrites

\* A read keeps one row per part, and an upsert stores what was read.
LEMMA MergeStep == IndInv /\ MergeInv /\ [Next]_vars => MergeInv'
<1> SUFFICES ASSUME IndInv, MergeInv, [Next]_vars, NEW x \in Worker, Merged(x)'
             PROVE  /\ OnePerPart(snap[x])'
                    /\ pc'[x] /= "merging" => \A v \in snap'[x] : Covers(report, v)'
  BY DEF MergeInv
<1>0. BasicInv /\ VisibleInv
  BY DEF IndInv, BasicInv
<1>1. CASE RecomputeRead(x)
  <2>1. snap'[x] = LatestUploadsPerPart(landed) /\ pc'[x] = "merging"
    BY <1>0, <1>1 DEF RecomputeRead, Goto, BasicInv, TypeOK
  <2>2. \A u, v \in LatestUploadsPerPart(landed) : Part[u] = Part[v] => u = v
    BY <1>0 DEF LatestUploadsPerPart, BasicInv, IdsInv, TypeOK
  <2> QED BY <2>1, <2>2 DEF OnePerPart
<1>2. ASSUME Merged(x), snap'[x] = snap[x], pc'[x] = "merging" \/ pc[x] /= "merging"
      PROVE  /\ OnePerPart(snap[x])'
             /\ pc'[x] /= "merging" => \A v \in snap'[x] : Covers(report, v)'
  <2>1. OnePerPart(snap[x]) /\ snap[x] \subseteq landed
    BY <1>0, <1>2 DEF MergeInv, VisibleInv
  <2>2. ASSUME pc'[x] /= "merging", NEW v \in snap[x] PROVE Covers(report, v)'
    BY <1>2, <2>1, <2>2, ReportKept DEF MergeInv
  <2> QED BY <1>2, <2>1, <2>2 DEF OnePerPart
<1>3. ASSUME NEW u \in Upload, CommitUpload(u)
      PROVE  Merged(x) /\ snap'[x] = snap[x] /\ pc'[x] = pc[x]
  <2>1. Request(u) \in Worker /\ pc' = [pc EXCEPT ![Request(u)] = "landed"]
    BY <1>3 DEF CommitUpload, Goto, Request, Worker
  <2> QED BY <1>0, <1>3, <2>1 DEF CommitUpload, roundVars, Merged
<1>4. ASSUME Merged(x), snap'[x] = snap[x], pc[x] = "merging", pc'[x] /= "merging"
      PROVE  /\ OnePerPart(snap[x])'
             /\ pc'[x] /= "merging" => \A v \in snap'[x] : Covers(report, v)'
  <2>1. UpsertCommitReport(x)
    BY <1>0, <1>4, UpsertWrites
  <2>2. report' = snap[x] /\ rowId' = rowId
    BY <2>1 DEF UpsertCommitReport
  <2>3. \A v \in snap[x] : Covers(report, v)'
    BY <1>0, <2>2 DEF Covers, BasicInv, TypeOK
  <2> QED BY <1>4, <2>3 DEF OnePerPart, MergeInv
<1>5. RecomputeRead(x) \/ (Merged(x) /\ snap'[x] = snap[x])
  BY <1>0, <1>3, RoundKeepsRead
<1> QED BY <1>1, <1>2, <1>4, <1>5

\* Every step is one of the board's, or none.
LEMMA BoardStep ==
    IndInv /\ MergeInv /\ [Next]_vars => [Board!Next]_(Board!vars)
<1> SUFFICES ASSUME IndInv, MergeInv, [Next]_vars PROVE [Board!Next]_(Board!vars)
  OBVIOUS
<1> USE DEF dbVars, leaseVars
<1> DEFINE Still == UNCHANGED <<rowId, landed, report, board, pushedVersion, inverted>>
<1>0. BasicInv /\ VisibleInv /\ ReadInv /\ HoldInv /\ CarryInv
  BY DEF IndInv, BasicInv
<1>c. \A S, u : Board!Covers(S, u) <=> Covers(S, u)
  BY DEF Board!Covers, Covers
\* What a worker carries is a merge of what is visible.
<1>m. ASSUME NEW w \in Worker, Merged(w) PROVE snap[w] \in Board!Merges
  BY <1>0, <1>m DEF MergeInv, OnePerPart, VisibleInv, Board!Merges
<1>s. ASSUME Still PROVE UNCHANGED Board!vars
  BY <1>s DEF Board!vars
<1>1. ASSUME NEW u \in Upload, InsertUpload(u) PROVE Board!Number(u)
  <2>1. rowId[u] = 0 /\ rowId' = [rowId EXCEPT ![u] = nextId]
    BY <1>0, <1>1 DEF InsertUpload, BasicInv, StageInv
  <2>2. rowId' \in [Upload -> Nat] /\ \A v \in Upload \ {u} : rowId'[v] = rowId[v]
    BY <1>0, <2>1 DEF BasicInv, TypeOK
  <2>3. \A v \in Upload : rowId[v] < rowId'[u]
    BY <1>0, <2>1 DEF BasicInv, TypeOK, IdsInv
  <2> QED BY <1>1, <2>1, <2>2, <2>3 DEF InsertUpload, Board!Number
<1>2. ASSUME NEW u \in Upload, CommitUpload(u) PROVE Board!Land(u)
  BY <1>0, <1>2 DEF CommitUpload, Board!Land, BasicInv, StageInv
<1>3. ASSUME NEW w \in Worker, UpsertCommitReport(w) PROVE Board!Merge
  <2>1. snap[w] \in Board!Merges /\ report' = snap[w] /\ rowId' = rowId
    BY <1>3, <1>m DEF UpsertCommitReport, Merged
  <2>2. \A u \in landed : Covers(report, u) => Covers(snap[w], u)
    <3>1. \A v \in report : Covers(snap[w], v)
      BY <1>0, <1>3 DEF UpsertCommitReport, ReadInv
    <3> QED BY <1>0, <3>1, CoversTransitive DEF BasicInv, TypeOK
  <2> QED BY <1>3, <1>c, <2>1, <2>2 DEF UpsertCommitReport, Board!Merge
\* What a push shows is reported, and covers what is recorded.
<1>4. ASSUME NEW w \in Worker, NEW s \in Surface, pc[w] = "pushing",
             board' = [board EXCEPT ![s] = snap[w]],
             UNCHANGED <<rowId, landed, report, pushedVersion, inverted>>
      PROVE  Board!Show(s)
  <2>1. snap[w] \in Board!Merges /\ \A u \in snap[w] : Covers(report, u)
    BY <1>4, <1>m DEF Merged, MergeInv
  <2>2. ~inverted => Board!CoversUpTo(snap[w], pushedVersion)
    <3> SUFFICES ASSUME ~inverted, NEW u \in landed, rowId[u] <= pushedVersion
                 PROVE  Covers(snap[w], u)
      BY <1>c DEF Board!CoversUpTo
    <3>1. pushedVersion <= Version(w)
      BY <1>0, <1>4 DEF HoldInv, Holding
    <3>2. rowId[u] <= Version(w)
      BY <1>0, <3>1 DEF Version, BasicInv, TypeOK
    <3> QED BY <1>0, <1>4, <3>2 DEF CarryInv, Merged
  <2> QED BY <1>4, <1>c, <2>1, <2>2 DEF Board!Show
\* A release records what is shown, or nothing.
<1>5. ASSUME NEW w \in Worker, pc[w] = "finishing", Release(w),
             UNCHANGED <<rowId, landed, report, board, inverted>>
      PROVE  Still \/ \E u \in landed : Board!Record(u)
  <2>1. CASE pushedVersion' = pushedVersion
    BY <1>5, <2>1
  <2>2. CASE pushedVersion' /= pushedVersion
    <3>1. about[w] \in landed /\ pushedVersion < Version(w) /\ pushedVersion' = Version(w)
      BY <1>0, <1>5, <2>2 DEF Release, BasicInv, StageInv
    <3>2. ~inverted => \A y \in landed :
             rowId[y] <= pushedVersion' => Covers(board[Status], y)
      BY <1>0, <1>5, ReleaseIsShown DEF IndInv
    <3> QED BY <1>5, <1>c, <3>1, <3>2 DEF Version, Board!Record,
           Board!CoversUpTo
  <2> QED BY <2>1, <2>2
<1>w. \A u \in Upload : Request(u) \in Worker /\ FollowUp(u) \in Worker
  BY DEF Request, FollowUp, Worker
<1>6. ASSUME NEW u \in Upload, FinishRequest(u) \/ FinishFollowUp(u)
      PROVE  Still \/ \E v \in landed : Board!Record(v)
  BY <1>5, <1>6, <1>w DEF FinishRequest, FinishFollowUp
<1>7. ASSUME NEW w \in Worker, FinishUnanswered(w)
      PROVE  Still \/ \E v \in landed : Board!Record(v)
  BY <1>5, <1>7 DEF FinishUnanswered
<1>8. ASSUME NEW w \in Worker, NEW s \in Surface, PushSurface(w, s) PROVE Board!Show(s)
  BY <1>4, <1>8 DEF PushSurface, Answered
<1>9. ASSUME NEW w \in Worker, NEW s \in Surface, PushSurfaceFails(w, s)
      PROVE  Still \/ Board!Show(s)
  BY <1>4, <1>9 DEF PushSurfaceFails, Answered
<1>10. ASSUME NEW u \in Upload, RollbackUpload(u) \/ FollowUpReload(u) PROVE Still
  BY <1>10 DEF RollbackUpload, FollowUpReload
<1>11. ASSUME NEW w \in Worker,
              RecomputeRead(w) \/ ClaimPush(w) \/ ClaimRefused(w) \/ GiveUp(w)
       PROVE  Still
  BY <1>11 DEF RecomputeRead, ClaimPush, ClaimRefused, GiveUp
<1>12. CASE Tick \/ UNCHANGED vars
  BY <1>12, <1>s DEF Tick, vars
<1> HIDE DEF Still
<1> QED BY <1>s, <1>1, <1>2, <1>3, <1>6, <1>7, <1>8, <1>9, <1>10, <1>11, <1>12
       DEF Next, Step, Board!Next

----------------------------------------------------------------------------
(* The theorems. *)

\* The parts of the invariant hold in every reachable state.
LEMMA Invariant == Spec => []IndInv
<1>1. Init => IndInv
  <2> SUFFICES ASSUME Init PROVE IndInv
    OBVIOUS
  <2>1. TypeOK
    <3>1. about \in [Worker -> Upload]
      BY DEF Init, Worker
    <3>2. /\ nextId \in Nat \ {0} /\ pushedVersion \in Nat /\ leaseUntil \in Nat
          /\ reportUpload \in Nat /\ now \in Nat /\ rowId \in [Upload -> Nat]
      BY DEF Init
    <3>3. /\ token \in [Worker -> Nat] /\ deadline \in [Worker -> Nat]
          /\ rounds \in [Worker -> Nat] /\ pc \in [Worker -> State]
      BY DEF Init, State
    <3>4. /\ snap \in [Worker -> SUBSET Upload] /\ board \in [Surface -> SUBSET Upload]
          /\ owed \in [Worker -> SUBSET Surface] /\ failed \in [Worker -> SUBSET Surface]
          /\ landed \subseteq Upload /\ report \subseteq Upload
          /\ lock \in Worker \cup {NoWorker}
          /\ faulted \in BOOLEAN /\ inverted \in BOOLEAN
      BY DEF Init
    <3> QED BY <3>1, <3>2, <3>3, <3>4 DEF TypeOK
  <2>2. IdsInv /\ StageInv
    BY DEF Init, IdsInv, StageInv, Worker, Request, FollowUp
  <2>3. LockInv /\ LeaseInv /\ OnePushAtATime /\ ReadInv /\ CarryInv /\ HoldInv
    BY DEF Init, LockInv, LeaseInv, OnePushAtATime, ReadInv, CarryInv,
       HoldInv, Holding
  <2>4. VisibleInv /\ MergedUploadIsReported /\ UnseenIsNewerThanRecorded
    BY DEF Init, VisibleInv, MergedUploadIsReported,
       UnseenIsNewerThanRecorded, Worker, Request
  <2> QED BY <2>1, <2>2, <2>3, <2>4 DEF IndInv
<1>2. IndInv /\ [Next]_vars => IndInv'
  <2> SUFFICES ASSUME IndInv, [Next]_vars PROVE IndInv'
    OBVIOUS
  <2>1. BasicInv
    BY DEF IndInv, BasicInv
  <2>2. TypeOK' /\ IdsInv' /\ StageInv'
    BY <2>1, BasicStep DEF BasicInv
  <2>3. LockInv' /\ LeaseInv' /\ OnePushAtATime' /\ VisibleInv'
    BY <2>1, LockStep, LeaseStep, VisibleStep DEF IndInv
  <2>4. ReadInv' /\ MergedUploadIsReported' /\ CarryInv' /\ HoldInv'
    BY <2>1, ReadStep, ReportedStep, CarryStep, HoldStep DEF IndInv
  <2>5. UnseenIsNewerThanRecorded'
    BY <2>1, UnseenStep DEF IndInv
  <2> QED BY <2>2, <2>3, <2>4, <2>5 DEF IndInv
<1> QED BY <1>1, <1>2, PTL DEF Spec

\* Every variable keeps its type: every action of the upload path is total on
\* the states it can be taken in, the follow-up's choice of the newest row
\* (latestMerged) included.
THEOREM TypeCorrect == Spec => []TypeOK
<1>1. IndInv => TypeOK
  BY DEF IndInv
<1> QED BY <1>1, Invariant, PTL

\* ClaimPush and FinishPush let one push of a commit run at a time, for any
\* number of uploads and processes, through crashes and lapsed leases, if the
\* push and its release time out before the lease (statusPushTimeout +
\* finishPushTimeout < pushLease).
THEOREM PushesAreExclusive == Spec => []OnePushAtATime
<1>1. IndInv => OnePushAtATime
  BY DEF IndInv
<1> QED BY <1>1, Invariant, PTL

\* Whatever is recorded as pushed is on the forge, through every failure, if
\* rows become visible in the order of their ids: a follow-up that stops early
\* leaves only uploads that the next push of the commit finds.
THEOREM NothingIsLost == Spec => []UnseenIsNewerThanRecorded
<1>1. IndInv => UnseenIsNewerThanRecorded
  BY DEF IndInv
<1> QED BY <1>1, Invariant, PTL

\* An upload that got past Recompute is in the stored report, whatever the
\* recomputes of the commit's other uploads did and in whatever order.
THEOREM MergedIsReported == Spec => []MergedUploadIsReported
<1>1. IndInv => MergedUploadIsReported
  BY DEF IndInv
<1> QED BY <1>1, Invariant, PTL

\* No recompute drops a part that the stored report covers: the per-commit
\* lock of WithCommitReportTx makes the report only ever grow.
THEOREM ReportGrows == Spec => ReportKeepsParts
<1>1. IndInv /\ [Next]_vars => [\A u \in landed : Covers(report, u) => Covers(report, u)']_vars
  BY ReportKept
<1>2. Spec => [][Next]_vars
  BY DEF Spec
<1> QED BY <1>1, <1>2, Invariant, PTL DEF ReportKeepsParts

\* The board's invariant holds in every state, beside the other one.
LEMMA SettleInvariance == Spec => []SettleInv
<1>1. Init => SettleInv
  <2> SUFFICES ASSUME Init PROVE SettleInv
    OBVIOUS
  <2>1. HeldInv /\ ReportInv /\ ShownInv /\ NewestSnapInv
    BY DEF Init, HeldInv, ReportInv, ShownInv, NewestSnapInv, Merged
  <2>2. PendingInv
    BY DEF Init, PendingInv, BoardIsNewest, LatestUploadsPerPart
  <2> QED BY <2>1, <2>2 DEF SettleInv
<1>2. IndInv /\ SettleInv /\ [Next]_vars => SettleInv'
  <2> SUFFICES ASSUME IndInv, SettleInv, [Next]_vars PROVE SettleInv'
    OBVIOUS
  <2>1. BasicInv
    BY DEF IndInv, BasicInv
  <2>2. HeldInv' /\ ReportInv' /\ ShownInv'
    BY <2>1, HeldStep, ReportStep, ShownStep DEF IndInv, SettleInv
  <2>3. NewestSnapInv' /\ PendingInv'
    BY <2>1, NewestSnapStep, PendingStep DEF SettleInv
  <2> QED BY <2>2, <2>3 DEF SettleInv
<1> QED BY <1>1, <1>2, Invariant, PTL DEF Spec

\* An upload that was told it is queued was told the truth: unless something
\* failed, a lease that is held has a live push behind it, which will release it
\* and look for newer uploads (ClaimPush, FinishPush).
THEOREM HeldByALivePush == Spec => []HeldLeaseHasHolder
<1>1. SettleInv => HeldLeaseHasHolder
  BY DEF SettleInv, HeldInv, HeldLeaseHasHolder, LeaseFree
<1> QED BY <1>1, SettleInvariance, PTL

\* When every worker is done, nothing failed and rows became visible in the
\* order of their ids, every surface shows the newest merged report: no upload
\* that queued behind another's push was left behind, for any number of uploads,
\* surfaces and follow-up rounds.
THEOREM SettlesOnNewest == Spec => []SettledBoardIsNewest
<1>1. SettleInv => SettledBoardIsNewest
  BY DEF SettleInv, PendingInv, Pending, Holding, Quiet, SettledBoardIsNewest
<1> QED BY <1>1, SettleInvariance, PTL

\* The uploads of a commit, in any number of processes and through every
\* failure, change its report and its surfaces as one worker would that merges,
\* shows and records one thing at a time: CommitPush implements CommitBoard.
THEOREM UploadsShareOneBoard == Spec => OneBoard
<1>1. Init => Board!Init
  BY DEF Init, Board!Init
<1>2. Init => MergeInv
  BY DEF Init, MergeInv, Merged
<1>3. Spec => []MergeInv
  BY <1>2, MergeStep, Invariant, PTL DEF Spec
<1> QED BY <1>1, <1>3, BoardStep, Invariant, PTL DEF Spec, OneBoard, Board!Spec

\* The board's own promise: no surface is ahead of the report, and as long as
\* rows become visible in the order of their ids, the build status shows every
\* upload up to the version recorded as pushed.
THEOREM BoardStaysInOrder == Board!Spec => []Board!InOrder
<1> DEFINE Ids == /\ rowId \in [Upload -> Nat]
                  /\ landed \subseteq Upload
                  /\ report \subseteq landed
                  /\ board \in [Surface -> SUBSET landed]
                  /\ pushedVersion \in Nat
                  /\ \A u \in landed : rowId[u] /= 0
                  /\ \A u, v \in Upload : rowId[u] = rowId[v] /\ rowId[u] /= 0 => u = v
                  /\ pushedVersion /= 0 => \E v \in landed : rowId[v] = pushedVersion
           Inv == Ids /\ Board!InOrder
<1>1. Board!Init => Inv
  BY SurfaceAssumption DEF Board!Init, Board!InOrder, Board!CoversUpTo
<1>2. Inv /\ [Board!Next]_(Board!vars) => Inv'
  <2> SUFFICES ASSUME Inv, [Board!Next]_(Board!vars) PROVE Inv'
    OBVIOUS
  <2> USE SurfaceAssumption
          DEF Board!InOrder, Board!CoversUpTo, Board!Covers, Board!Merges
  <2>1. ASSUME NEW u \in Upload, Board!Number(u) PROVE Inv'
    <3>1. /\ rowId' \in [Upload -> Nat] /\ u \notin landed
          /\ \A v \in Upload \ {u} : rowId'[v] = rowId[v] /\ rowId[v] < rowId'[u]
          /\ UNCHANGED <<landed, report, board, pushedVersion, inverted>>
      BY <2>1 DEF Board!Number
    <3>2. \A v \in landed : rowId'[v] = rowId[v]
      BY <3>1
    <3>3. Ids'
      BY <3>1, <3>2
    <3>4. Board!InOrder'
      BY <3>1, <3>2
    <3> QED BY <3>3, <3>4
  <2>2. ASSUME NEW u \in Upload, Board!Land(u) PROVE Inv'
    <3>1. Ids'
      BY <2>2 DEF Board!Land
    <3>2. ASSUME ~inverted' PROVE pushedVersion < rowId[u] /\ ~inverted
      <4>1. ~inverted /\ \A v \in landed : ~(rowId[u] < rowId[v]) /\ rowId[v] /= rowId[u]
        BY <2>2, <3>2 DEF Board!Land
      <4>2. rowId[u] \in Nat /\ rowId[u] /= 0 /\ \A v \in landed : rowId[v] \in Nat
        BY <2>2 DEF Board!Land
      <4> QED BY <4>1, <4>2
    <3>3. Board!InOrder'
      BY <2>2, <3>2 DEF Board!Land
    <3> QED BY <3>1, <3>3
  <2>3. CASE Board!Merge
    <3>1. PICK S \in Board!Merges :
             /\ \A u \in landed : Board!Covers(report, u) => Board!Covers(S, u)
             /\ report' = S
             /\ UNCHANGED <<rowId, landed, board, pushedVersion, inverted>>
      BY <2>3 DEF Board!Merge
    <3>2. Ids'
      BY <3>1
    <3>3. Board!InOrder'
      BY <3>1
    <3> QED BY <3>2, <3>3
  <2>4. ASSUME NEW s \in Surface, Board!Show(s) PROVE Inv'
    <3>1. PICK S \in Board!Merges :
             /\ \A u \in S : Board!Covers(report, u)
             /\ s = Status /\ ~inverted => Board!CoversUpTo(S, pushedVersion)
             /\ board' = [board EXCEPT ![s] = S]
             /\ UNCHANGED <<rowId, landed, report, pushedVersion, inverted>>
      BY <2>4 DEF Board!Show
    <3>2. Ids'
      BY <3>1
    <3>3. Board!InOrder'
      BY <3>1
    <3> QED BY <3>2, <3>3
  <2>5. ASSUME NEW u \in landed, Board!Record(u) PROVE Inv'
    BY <2>5 DEF Board!Record
  <2>6. CASE UNCHANGED Board!vars
    BY <2>6 DEF Board!vars
  <2> QED BY <2>1, <2>2, <2>3, <2>4, <2>5, <2>6 DEF Board!Next
<1>3. Inv => Board!InOrder
  OBVIOUS
<1> HIDE DEF Inv
<1> QED BY <1>1, <1>2, <1>3, PTL DEF Board!Spec
=============================================================================
