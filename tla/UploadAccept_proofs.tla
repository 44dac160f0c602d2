------------------------ MODULE UploadAccept_proofs ------------------------
(* Theorems about UploadAccept, for any requests, runs, claims, parts, faults *)
(* and limits.                                                                *)
EXTENDS UploadAccept, FiniteSetTheorems, TLAPS

----------------------------------------------------------------------------
(* The inductive invariant, in parts. *)

\* What a variable holds that the arguments below read.
Types ==
    /\ now \in Nat
    /\ pc \in [Request -> State]
    /\ claim \in [Request -> Claim \cup {NoClaim}]
    /\ reply \in [Request -> Reply]
    /\ asked \in [Request -> Nat]
    /\ verdicts \in [Claim -> [rejected : BOOLEAN, until : Int]]
    /\ running \subseteq Run
    /\ endedAt \in [Run -> Nat]
    /\ rows \subseteq Request
    /\ late \subseteq Request

\* A request is answered at its end, and only once.
ReplyInv == \A r \in Request : reply[r] /= "none" => pc[r] = "done"

\* The triple is an upload's from before it is accepted on.
Accepted(r) == pc[r] \in Holding \/ reply[r] = "created"
TripleInv == \A r \in Fork : Accepted(r) => Triple(r) \in claimed

\* How far an upload is says whether its profile and its row are there.
BlobInv ==
    /\ \A r \in Request :
        /\ pc[r] \in State \ {"cleaning", "landed", "failing", "done"}
              => r \notin rows
        /\ pc[r] \in {"stored", "landed"} => r \in blobs
        /\ pc[r] = "cleaning" /\ r \in rows => r \in unknown
    /\ StoredRowHasBlob

\* One that arrived late has had all the parts before it, and is past the check
\* only if one of them is its own.
Replaces(r) == \E q \in rows \ late : PartOf[q] = PartOf[r]
LateInv ==
    /\ IsFiniteSet(Parts)
    /\ \A r \in late : pc[r] /= "idle" /\ Cardinality(Parts) >= MaxParts
    /\ \A r \in late :
          pc[r] \in {"read", "accepting", "stored"} \/ r \in rows => Replaces(r)

\* A verdict is GitHub's on that very claim: a rejection, or the answer that its
\* run was in progress when it was asked.
VerdictsHold ==
    \A c \in Claim :
        verdicts[c].until >= 0 =>
            /\ verdicts[c].until <= now + VerdictTTL
            /\ verdicts[c].rejected => c \in rejected
            /\ ~verdicts[c].rejected =>
                  /\ c \notin Unfit
                  /\ \/ RunOf[c] \in running
                     \/ verdicts[c].until <= endedAt[RunOf[c]] + VerdictTTL
VerdictInv ==
    /\ \A r \in Request : asked[r] <= now
    /\ \A r \in Request : pc[r] = "verifying" => claim[r] \in Claim
    /\ VerdictsHold

IndInv ==
    /\ Types /\ ReplyInv /\ TripleInv /\ AcceptedOnce /\ BlobInv /\ LateInv
    /\ VerdictInv

----------------------------------------------------------------------------
(* The steps. *)

\* A remembered verdict is a verdict.
LEMMA PutVerdictType ==
  ASSUME Types, NEW r \in Request, NEW no \in BOOLEAN, PutVerdict(r, no)
  PROVE  verdicts' \in [Claim -> [rejected : BOOLEAN, until : Int]]
BY LimitsAssumption DEF Types, PutVerdict, NoVerdict

\* Every step keeps the types.
LEMMA TypesStep == IndInv /\ [Next]_vars => Types'
<1> SUFFICES ASSUME IndInv, [Next]_vars PROVE Types'
  OBVIOUS
<1> USE DEF IndInv
<1>1. ASSUME NEW r \in Request, AuthToken(r) PROVE Types'
  BY <1>1, RequestAssumption DEF AuthToken, Arrives, Goto, State, Types,
     server, database, github
<1>2. ASSUME NEW r \in Request, NEW c \in ClaimsOf[r], EnterPreAuth(r, c)
      PROVE Types'
  BY <1>2, RequestAssumption DEF EnterPreAuth, Arrives, Goto, State, Types,
     database, github
<1>3. ASSUME NEW r \in Request, TooManyPreAuth(r) PROVE Types'
  BY <1>3, RequestAssumption DEF TooManyPreAuth, Answer, Goto, State, Reply,
     Types, server, database, github
<1>4. ASSUME NEW r \in Request, RefuseCredential(r) PROVE Types'
  BY <1>4, RequestAssumption DEF RefuseCredential, LeavePreAuth, Answer, Goto,
     State, Reply, Types, database, github
<1>5. ASSUME NEW r \in Request, AuthOIDC(r) PROVE Types'
  BY <1>5, RequestAssumption DEF AuthOIDC, LeavePreAuth, Goto, State, Types,
     database, github
<1>6. ASSUME NEW r \in Request, AnswerFromVerdict(r) PROVE Types'
  BY <1>6, RequestAssumption DEF AnswerFromVerdict, LeavePreAuth, Answer,
     Goto, State, Reply, Types, database, github
<1>7. ASSUME NEW r \in Request, ChargeAttempt(r) PROVE Types'
  BY <1>7, RequestAssumption DEF ChargeAttempt, Goto, State, Types, database,
     github
<1>8. ASSUME NEW r \in Request, LimitReached(r) PROVE Types'
  BY <1>8, RequestAssumption DEF LimitReached, LeavePreAuth, Answer, Goto,
     State, Reply, Types, database, github
<1>9. ASSUME NEW r \in Request, ClaimVerified(r) PROVE Types'
  <2>1. PutVerdict(r, FALSE) /\ running' = running /\ endedAt' = endedAt
    BY <1>9 DEF ClaimVerified, github
  <2>2. verdicts' \in [Claim -> [rejected : BOOLEAN, until : Int]]
    BY <2>1, PutVerdictType
  <2> QED
    BY <1>9, <2>2 DEF ClaimVerified, LeavePreAuth, Goto, State, Types,
       database, github
<1>10. ASSUME NEW r \in Request, ClaimRejected(r) PROVE Types'
  <2>1. PutVerdict(r, TRUE)
    BY <1>10 DEF ClaimRejected
  <2>2. verdicts' \in [Claim -> [rejected : BOOLEAN, until : Int]]
    BY <2>1, PutVerdictType
  <2> QED
    BY <1>10, <2>2 DEF ClaimRejected, LeavePreAuth, Answer, Goto, State,
       Reply, Types, database
<1>11. ASSUME NEW r \in Request, VerifyFails(r) PROVE Types'
  BY <1>11, RequestAssumption DEF VerifyFails, LeavePreAuth, Answer, Goto,
     State, Reply, Types, database, github
<1>12. ASSUME NEW r \in Request, ReadUploadRequest(r) PROVE Types'
  BY <1>12, RequestAssumption DEF ReadUploadRequest, Goto, State, Types,
     server, database, github
<1>13. ASSUME NEW r \in Request, TooManyParts(r) PROVE Types'
  BY <1>13, RequestAssumption DEF TooManyParts, Answer, Goto, State, Reply,
     Types, server, database, github
<1>14. ASSUME NEW r \in Request, RefuseUploadRequest(r) PROVE Types'
  BY <1>14, RequestAssumption DEF RefuseUploadRequest, Answer, Goto, State,
     Reply, Types, server, database, github
<1>15. ASSUME NEW r \in Request, ClaimTokenlessUpload(r) PROVE Types'
  BY <1>15, RequestAssumption DEF ClaimTokenlessUpload, Goto, State, Types,
     server, github
<1>16. ASSUME NEW r \in Request, ClaimLost(r) PROVE Types'
  BY <1>16, RequestAssumption DEF ClaimLost, Answer, Goto, State, Reply,
     Types, server, database, github
<1>17. ASSUME NEW r \in Request, ClaimFails(r) PROVE Types'
  BY <1>17, RequestAssumption DEF ClaimFails, Answer, Goto, State, Reply,
     Types, server, github
<1>18. ASSUME NEW r \in Request, AcceptFails(r) PROVE Types'
  BY <1>18, RequestAssumption DEF AcceptFails, Goto, State, Types, server,
     database, github
<1>19. ASSUME NEW r \in Request, StoreRaw(r) PROVE Types'
  BY <1>19, RequestAssumption DEF StoreRaw, Goto, State, Types, server, github
<1>20. ASSUME NEW r \in Request, CreateUpload(r) PROVE Types'
  BY <1>20, RequestAssumption DEF CreateUpload, Goto, State, Types, server,
     github
<1>21. ASSUME NEW r \in Request, CreateUploadFails(r) PROVE Types'
  BY <1>21, RequestAssumption DEF CreateUploadFails, Goto, State, Types,
     server, github
<1>22. ASSUME NEW r \in Request, DeleteBlob(r) PROVE Types'
  BY <1>22, RequestAssumption DEF DeleteBlob, Goto, State, Types, server,
     github
<1>23. ASSUME NEW r \in Request, Recompute(r) PROVE Types'
  BY <1>23, RequestAssumption DEF Recompute, Answer, Goto, State, Reply,
     Types, server, database, github
<1>24. ASSUME NEW r \in Request, RecomputeFails(r) PROVE Types'
  BY <1>24, RequestAssumption DEF RecomputeFails, Goto, State, Types, server,
     database, github
<1>25. ASSUME NEW r \in Request, ReleaseTokenlessUpload(r) PROVE Types'
  BY <1>25, RequestAssumption DEF ReleaseTokenlessUpload, Answer, Goto, State,
     Reply, Types, server, github
<1>26. ASSUME NEW r \in Request, ClientGone(r) PROVE Types'
  BY <1>26, RequestAssumption DEF ClientGone, Types, server, database, github
<1>27. ASSUME NEW n \in Run, RunEnds(n) PROVE Types'
  BY <1>27, RequestAssumption DEF RunEnds, Types, server, database
<1>28. CASE Tick
  BY <1>28, RequestAssumption DEF Tick, Types, server, database, github
<1>29. CASE Crash
  BY <1>29, LimitsAssumption DEF Crash, NoVerdict, State, Types, database,
     github
<1>30. CASE UNCHANGED vars
  BY <1>30, RequestAssumption DEF vars, Types, server, database, github
<1> QED
  BY <1>1, <1>2, <1>3, <1>4, <1>5, <1>6, <1>7, <1>8, <1>9, <1>10, <1>11,
     <1>12, <1>13, <1>14, <1>15, <1>16, <1>17, <1>18, <1>19, <1>20, <1>21,
     <1>22, <1>23, <1>24, <1>25, <1>26, <1>27, <1>28, <1>29, <1>30 DEF Next,
     Authenticate, Accept

\* A request that is answered ends.
LEMMA ReplyStep == IndInv /\ [Next]_vars => ReplyInv'
<1> SUFFICES ASSUME IndInv, [Next]_vars PROVE ReplyInv'
  OBVIOUS
<1> USE DEF IndInv
<1>1. ASSUME NEW r \in Request, AuthToken(r) PROVE ReplyInv'
  BY <1>1 DEF AuthToken, Goto, ReplyInv
<1>2. ASSUME NEW r \in Request, NEW c \in ClaimsOf[r], EnterPreAuth(r, c)
      PROVE ReplyInv'
  BY <1>2 DEF EnterPreAuth, Goto, ReplyInv
<1>3. ASSUME NEW r \in Request, TooManyPreAuth(r) PROVE ReplyInv'
  BY <1>3 DEF TooManyPreAuth, Answer, Goto, ReplyInv, Types
<1>4. ASSUME NEW r \in Request, RefuseCredential(r) PROVE ReplyInv'
  BY <1>4 DEF RefuseCredential, Answer, Goto, ReplyInv, Types
<1>5. ASSUME NEW r \in Request, AuthOIDC(r) PROVE ReplyInv'
  BY <1>5 DEF AuthOIDC, Goto, ReplyInv
<1>6. ASSUME NEW r \in Request, AnswerFromVerdict(r) PROVE ReplyInv'
  BY <1>6 DEF AnswerFromVerdict, Answer, Goto, ReplyInv, Types
<1>7. ASSUME NEW r \in Request, ChargeAttempt(r) PROVE ReplyInv'
  BY <1>7 DEF ChargeAttempt, Goto, ReplyInv
<1>8. ASSUME NEW r \in Request, LimitReached(r) PROVE ReplyInv'
  BY <1>8 DEF LimitReached, Answer, Goto, ReplyInv, Types
<1>9. ASSUME NEW r \in Request, ClaimVerified(r) PROVE ReplyInv'
  BY <1>9 DEF ClaimVerified, Goto, ReplyInv
<1>10. ASSUME NEW r \in Request, ClaimRejected(r) PROVE ReplyInv'
  BY <1>10 DEF ClaimRejected, Answer, Goto, ReplyInv, Types
<1>11. ASSUME NEW r \in Request, VerifyFails(r) PROVE ReplyInv'
  BY <1>11 DEF VerifyFails, Answer, Goto, ReplyInv, Types
<1>12. ASSUME NEW r \in Request, ReadUploadRequest(r) PROVE ReplyInv'
  BY <1>12 DEF ReadUploadRequest, Goto, ReplyInv
<1>13. ASSUME NEW r \in Request, TooManyParts(r) PROVE ReplyInv'
  BY <1>13 DEF TooManyParts, Answer, Goto, ReplyInv, Types
<1>14. ASSUME NEW r \in Request, RefuseUploadRequest(r) PROVE ReplyInv'
  BY <1>14 DEF RefuseUploadRequest, Answer, Goto, ReplyInv, Types
<1>15. ASSUME NEW r \in Request, ClaimTokenlessUpload(r) PROVE ReplyInv'
  BY <1>15 DEF ClaimTokenlessUpload, Goto, ReplyInv
<1>16. ASSUME NEW r \in Request, ClaimLost(r) PROVE ReplyInv'
  BY <1>16 DEF ClaimLost, Answer, Goto, ReplyInv, Types
<1>17. ASSUME NEW r \in Request, ClaimFails(r) PROVE ReplyInv'
  BY <1>17 DEF ClaimFails, Answer, Goto, ReplyInv, Types
<1>18. ASSUME NEW r \in Request, AcceptFails(r) PROVE ReplyInv'
  BY <1>18 DEF AcceptFails, Goto, ReplyInv
<1>19. ASSUME NEW r \in Request, StoreRaw(r) PROVE ReplyInv'
  BY <1>19 DEF StoreRaw, Goto, ReplyInv
<1>20. ASSUME NEW r \in Request, CreateUpload(r) PROVE ReplyInv'
  BY <1>20 DEF CreateUpload, Goto, ReplyInv
<1>21. ASSUME NEW r \in Request, CreateUploadFails(r) PROVE ReplyInv'
  BY <1>21 DEF CreateUploadFails, Goto, ReplyInv
<1>22. ASSUME NEW r \in Request, DeleteBlob(r) PROVE ReplyInv'
  BY <1>22 DEF DeleteBlob, Goto, ReplyInv
<1>23. ASSUME NEW r \in Request, Recompute(r) PROVE ReplyInv'
  BY <1>23 DEF Recompute, Answer, Goto, ReplyInv, Types
<1>24. ASSUME NEW r \in Request, RecomputeFails(r) PROVE ReplyInv'
  BY <1>24 DEF RecomputeFails, Goto, ReplyInv
<1>25. ASSUME NEW r \in Request, ReleaseTokenlessUpload(r) PROVE ReplyInv'
  BY <1>25 DEF ReleaseTokenlessUpload, Answer, Goto, ReplyInv, Types
<1>26. ASSUME NEW r \in Request, ClientGone(r) PROVE ReplyInv'
  BY <1>26 DEF ClientGone, ReplyInv
<1>27. ASSUME NEW n \in Run, RunEnds(n) PROVE ReplyInv'
  BY <1>27 DEF RunEnds, ReplyInv
<1>28. CASE Tick
  BY <1>28 DEF Tick, ReplyInv
<1>29. CASE Crash
  BY <1>29 DEF Crash, ReplyInv
<1>30. CASE UNCHANGED vars
  BY <1>30 DEF vars, ReplyInv
<1> QED
  BY <1>1, <1>2, <1>3, <1>4, <1>5, <1>6, <1>7, <1>8, <1>9, <1>10, <1>11,
     <1>12, <1>13, <1>14, <1>15, <1>16, <1>17, <1>18, <1>19, <1>20, <1>21,
     <1>22, <1>23, <1>24, <1>25, <1>26, <1>27, <1>28, <1>29, <1>30 DEF Next,
     Authenticate, Accept

\* Nobody but the claim of a triple makes an upload accepted, and nothing but
\* the release of one gives a triple back.
NoNewcomer ==
    /\ claimed \subseteq claimed'
    /\ \A q \in Request :
          q \in Fork' /\ Accepted(q)' =>
              q \in Fork /\ Accepted(q) /\ claim'[q] = claim[q]

\* Every other step leaves the accepted uploads as they are.
LEMMA NewcomerStep == IndInv /\ [Next]_vars =>
        NoNewcomer
        \/ \E r \in Request : ClaimTokenlessUpload(r) \/ ReleaseTokenlessUpload(r)
<1> SUFFICES ASSUME IndInv, [Next]_vars
           PROVE  NoNewcomer
                  \/ \E r \in Request :
                        ClaimTokenlessUpload(r) \/ ReleaseTokenlessUpload(r)
  OBVIOUS
<1> USE DEF IndInv
<1>1. ASSUME NEW r \in Request, AuthToken(r) PROVE NoNewcomer
  BY <1>1 DEF AuthToken, Goto, NoNewcomer, Accepted, Holding, Fork, database
<1>2. ASSUME NEW r \in Request, NEW c \in ClaimsOf[r], EnterPreAuth(r, c)
      PROVE NoNewcomer
  BY <1>2 DEF EnterPreAuth, Goto, NoNewcomer, Accepted, Holding, Fork,
     ReplyInv, database
<1>3. ASSUME NEW r \in Request, TooManyPreAuth(r) PROVE NoNewcomer
  BY <1>3 DEF TooManyPreAuth, Answer, Goto, NoNewcomer, Accepted, Holding,
     Fork, database
<1>4. ASSUME NEW r \in Request, RefuseCredential(r) PROVE NoNewcomer
  BY <1>4 DEF RefuseCredential, Answer, Goto, NoNewcomer, Accepted, Holding,
     Fork, database
<1>5. ASSUME NEW r \in Request, AuthOIDC(r) PROVE NoNewcomer
  BY <1>5 DEF AuthOIDC, Goto, NoNewcomer, Accepted, Fork, database
<1>6. ASSUME NEW r \in Request, AnswerFromVerdict(r) PROVE NoNewcomer
  BY <1>6 DEF AnswerFromVerdict, Answer, Goto, NoNewcomer, Accepted, Holding,
     Fork, Types, database
<1>7. ASSUME NEW r \in Request, ChargeAttempt(r) PROVE NoNewcomer
  BY <1>7 DEF ChargeAttempt, Goto, NoNewcomer, Accepted, Holding, Fork,
     database
<1>8. ASSUME NEW r \in Request, LimitReached(r) PROVE NoNewcomer
  BY <1>8 DEF LimitReached, Answer, Goto, NoNewcomer, Accepted, Holding, Fork,
     database
<1>9. ASSUME NEW r \in Request, ClaimVerified(r) PROVE NoNewcomer
  BY <1>9 DEF ClaimVerified, Goto, NoNewcomer, Accepted, Holding, Fork,
     database
<1>10. ASSUME NEW r \in Request, ClaimRejected(r) PROVE NoNewcomer
  BY <1>10 DEF ClaimRejected, Answer, Goto, NoNewcomer, Accepted, Holding,
     Fork, database
<1>11. ASSUME NEW r \in Request, VerifyFails(r) PROVE NoNewcomer
  BY <1>11 DEF VerifyFails, Answer, Goto, NoNewcomer, Accepted, Holding, Fork,
     database
<1>12. ASSUME NEW r \in Request, ReadUploadRequest(r) PROVE NoNewcomer
  BY <1>12 DEF ReadUploadRequest, Goto, NoNewcomer, Accepted, Holding, Fork,
     database
<1>13. ASSUME NEW r \in Request, TooManyParts(r) PROVE NoNewcomer
  BY <1>13 DEF TooManyParts, Answer, Goto, NoNewcomer, Accepted, Holding,
     Fork, database
<1>14. ASSUME NEW r \in Request, RefuseUploadRequest(r) PROVE NoNewcomer
  BY <1>14 DEF RefuseUploadRequest, Answer, Goto, NoNewcomer, Accepted,
     Holding, Fork, database
<1>15. ASSUME NEW r \in Request, ClaimLost(r) PROVE NoNewcomer
  BY <1>15 DEF ClaimLost, Answer, Goto, NoNewcomer, Accepted, Holding, Fork,
     database
<1>16. ASSUME NEW r \in Request, ClaimFails(r) PROVE NoNewcomer
  BY <1>16 DEF ClaimFails, Answer, Goto, NoNewcomer, Accepted, Holding, Fork
<1>17. ASSUME NEW r \in Request, AcceptFails(r) PROVE NoNewcomer
  BY <1>17 DEF AcceptFails, Goto, NoNewcomer, Accepted, Holding, Fork,
     database
<1>18. ASSUME NEW r \in Request, StoreRaw(r) PROVE NoNewcomer
  BY <1>18 DEF StoreRaw, Goto, NoNewcomer, Accepted, Holding, Fork
<1>19. ASSUME NEW r \in Request, CreateUpload(r) PROVE NoNewcomer
  BY <1>19 DEF CreateUpload, Goto, NoNewcomer, Accepted, Holding, Fork
<1>20. ASSUME NEW r \in Request, CreateUploadFails(r) PROVE NoNewcomer
  BY <1>20 DEF CreateUploadFails, Goto, NoNewcomer, Accepted, Holding, Fork
<1>21. ASSUME NEW r \in Request, DeleteBlob(r) PROVE NoNewcomer
  BY <1>21 DEF DeleteBlob, Goto, NoNewcomer, Accepted, Holding, Fork
<1>22. ASSUME NEW r \in Request, Recompute(r) PROVE NoNewcomer
  BY <1>22 DEF Recompute, Answer, Goto, NoNewcomer, Accepted, Holding, Fork,
     database
<1>23. ASSUME NEW r \in Request, RecomputeFails(r) PROVE NoNewcomer
  BY <1>23 DEF RecomputeFails, Goto, NoNewcomer, Accepted, Holding, Fork,
     database
<1>24. ASSUME NEW r \in Request, ClientGone(r) PROVE NoNewcomer
  BY <1>24 DEF ClientGone, NoNewcomer, Accepted, Fork, database
<1>25. ASSUME NEW n \in Run, RunEnds(n) PROVE NoNewcomer
  BY <1>25 DEF RunEnds, NoNewcomer, Accepted, Fork, database
<1>26. CASE Tick
  BY <1>26 DEF Tick, NoNewcomer, Accepted, Fork, database
<1>27. CASE Crash
  BY <1>27 DEF Crash, NoNewcomer, Accepted, Fork, database
<1>28. CASE UNCHANGED vars
  BY <1>28 DEF vars, NoNewcomer, Accepted, Fork, database
<1> QED
  BY <1>1, <1>2, <1>3, <1>4, <1>5, <1>6, <1>7, <1>8, <1>9, <1>10, <1>11,
     <1>12, <1>13, <1>14, <1>15, <1>16, <1>17, <1>18, <1>19, <1>20, <1>21,
     <1>22, <1>23, <1>24, <1>25, <1>26, <1>27, <1>28 DEF Next,
     Authenticate, Accept

\* The triple is taken before its upload is accepted, and given back by nobody
\* else.
LEMMA TripleStep == IndInv /\ [Next]_vars => TripleInv' /\ AcceptedOnce'
<1> SUFFICES ASSUME IndInv, [Next]_vars PROVE TripleInv' /\ AcceptedOnce'
  OBVIOUS
<1> USE DEF IndInv
<1>1. CASE NoNewcomer
  <2>1. \A q \in Fork' : Accepted(q)' =>
           q \in Fork /\ Accepted(q) /\ Triple(q)' = Triple(q)
    BY <1>1 DEF NoNewcomer, Fork, Triple
  <2> QED BY <1>1, <2>1 DEF NoNewcomer, TripleInv, AcceptedOnce, Accepted
<1>2. ASSUME NEW r \in Request, ClaimTokenlessUpload(r)
      PROVE TripleInv' /\ AcceptedOnce'
  <2>1. Fork' = Fork /\ \A q \in Fork : Triple(q)' = Triple(q)
    BY <1>2 DEF ClaimTokenlessUpload, Fork, Triple
  <2>2. \A q \in Request \ {r} : Accepted(q)' => Accepted(q)
    BY <1>2 DEF ClaimTokenlessUpload, Goto, Accepted
  <2>3. claimed' = claimed \cup {Triple(r)} /\ Triple(r) \notin claimed
    BY <1>2 DEF ClaimTokenlessUpload
  <2>4. \A q \in Fork \ {r} : Accepted(q)' => Triple(q) \in claimed
    BY <2>2 DEF Fork, TripleInv
  <2>5. TripleInv'
    BY <2>1, <2>3, <2>4 DEF TripleInv
  <2>6. ASSUME NEW p \in Fork, NEW q \in Fork, Triple(p) = Triple(q),
               Accepted(p)', Accepted(q)'
        PROVE p = q
    <3>1. CASE p = r \/ q = r
      BY <2>3, <2>4, <2>6, <3>1
    <3>2. CASE p /= r /\ q /= r
      BY <2>2, <2>6, <3>2 DEF AcceptedOnce, Accepted, Fork
    <3> QED BY <3>1, <3>2
  <2> QED BY <2>1, <2>5, <2>6 DEF AcceptedOnce, Accepted
<1>3. ASSUME NEW r \in Request, ReleaseTokenlessUpload(r)
      PROVE TripleInv' /\ AcceptedOnce'
  <2>1. r \notin Fork' /\ Fork' \subseteq Fork
    BY <1>3 DEF ReleaseTokenlessUpload, Answer, Fork, Types
  <2>2. \A q \in Request \ {r} : Accepted(q)' => Accepted(q)
    BY <1>3 DEF ReleaseTokenlessUpload, Answer, Goto, Accepted
  <2>3. \A q \in Fork' : Triple(q)' = Triple(q)
    BY <1>3 DEF ReleaseTokenlessUpload, Answer, Fork, Triple
  <2>4. \/ claimed' = claimed
        \/ r \in Fork /\ claimed' = claimed \ {Triple(r)}
    BY <1>3 DEF ReleaseTokenlessUpload
  <2>5. Accepted(r)
    BY <1>3 DEF ReleaseTokenlessUpload, Accepted, Holding
  <2>6. \A q \in Fork' : Accepted(q)' =>
           q \in Fork /\ Accepted(q) /\ Triple(q) \in claimed
    BY <2>1, <2>2 DEF TripleInv, Fork
  <2>7. ASSUME NEW q \in Fork', Accepted(q)', r \in Fork
        PROVE Triple(q) /= Triple(r)
    BY <2>1, <2>5, <2>6, <2>7 DEF AcceptedOnce, Accepted
  <2>8. TripleInv'
    BY <2>3, <2>4, <2>6, <2>7 DEF TripleInv
  <2>9. AcceptedOnce'
    BY <2>3, <2>6 DEF AcceptedOnce, Accepted
  <2> QED BY <2>8, <2>9
<1> QED BY <1>1, <1>2, <1>3, NewcomerStep

\* A row is stored after its profile, which outlives it.
LEMMA BlobStep == IndInv /\ [Next]_vars => BlobInv'
<1> SUFFICES ASSUME IndInv, [Next]_vars PROVE BlobInv'
  OBVIOUS
<1> USE DEF IndInv
<1>1. ASSUME NEW r \in Request, AuthToken(r) PROVE BlobInv'
  BY <1>1 DEF AuthToken, Goto, BlobInv, StoredRowHasBlob, State, database
<1>2. ASSUME NEW r \in Request, NEW c \in ClaimsOf[r], EnterPreAuth(r, c)
      PROVE BlobInv'
  BY <1>2 DEF EnterPreAuth, Goto, BlobInv, StoredRowHasBlob, State, database
<1>3. ASSUME NEW r \in Request, TooManyPreAuth(r) PROVE BlobInv'
  BY <1>3 DEF TooManyPreAuth, Answer, Goto, BlobInv, StoredRowHasBlob,
     database
<1>4. ASSUME NEW r \in Request, RefuseCredential(r) PROVE BlobInv'
  BY <1>4 DEF RefuseCredential, Answer, Goto, BlobInv, StoredRowHasBlob,
     database
<1>5. ASSUME NEW r \in Request, AuthOIDC(r) PROVE BlobInv'
  BY <1>5 DEF AuthOIDC, Goto, BlobInv, StoredRowHasBlob, State, database
<1>6. ASSUME NEW r \in Request, AnswerFromVerdict(r) PROVE BlobInv'
  BY <1>6 DEF AnswerFromVerdict, Answer, Goto, BlobInv, StoredRowHasBlob,
     Types, database
<1>7. ASSUME NEW r \in Request, ChargeAttempt(r) PROVE BlobInv'
  BY <1>7 DEF ChargeAttempt, Goto, BlobInv, StoredRowHasBlob, State, database
<1>8. ASSUME NEW r \in Request, LimitReached(r) PROVE BlobInv'
  BY <1>8 DEF LimitReached, Answer, Goto, BlobInv, StoredRowHasBlob, database
<1>9. ASSUME NEW r \in Request, ClaimVerified(r) PROVE BlobInv'
  BY <1>9 DEF ClaimVerified, Goto, BlobInv, StoredRowHasBlob, State, database
<1>10. ASSUME NEW r \in Request, ClaimRejected(r) PROVE BlobInv'
  BY <1>10 DEF ClaimRejected, Answer, Goto, BlobInv, StoredRowHasBlob,
     database
<1>11. ASSUME NEW r \in Request, VerifyFails(r) PROVE BlobInv'
  BY <1>11 DEF VerifyFails, Answer, Goto, BlobInv, StoredRowHasBlob, database
<1>12. ASSUME NEW r \in Request, ReadUploadRequest(r) PROVE BlobInv'
  BY <1>12 DEF ReadUploadRequest, Goto, BlobInv, StoredRowHasBlob, State,
     database
<1>13. ASSUME NEW r \in Request, TooManyParts(r) PROVE BlobInv'
  BY <1>13 DEF TooManyParts, Answer, Goto, BlobInv, StoredRowHasBlob, database
<1>14. ASSUME NEW r \in Request, RefuseUploadRequest(r) PROVE BlobInv'
  BY <1>14 DEF RefuseUploadRequest, Answer, Goto, BlobInv, StoredRowHasBlob,
     database
<1>15. ASSUME NEW r \in Request, ClaimTokenlessUpload(r) PROVE BlobInv'
  BY <1>15 DEF ClaimTokenlessUpload, Goto, BlobInv, StoredRowHasBlob, State
<1>16. ASSUME NEW r \in Request, ClaimLost(r) PROVE BlobInv'
  BY <1>16 DEF ClaimLost, Answer, Goto, BlobInv, StoredRowHasBlob, database
<1>17. ASSUME NEW r \in Request, ClaimFails(r) PROVE BlobInv'
  BY <1>17 DEF ClaimFails, Answer, Goto, BlobInv, StoredRowHasBlob
<1>18. ASSUME NEW r \in Request, AcceptFails(r) PROVE BlobInv'
  BY <1>18 DEF AcceptFails, Goto, BlobInv, StoredRowHasBlob, database
<1>19. ASSUME NEW r \in Request, StoreRaw(r) PROVE BlobInv'
  BY <1>19 DEF StoreRaw, Goto, BlobInv, StoredRowHasBlob, State
<1>20. ASSUME NEW r \in Request, CreateUpload(r) PROVE BlobInv'
  BY <1>20 DEF CreateUpload, Goto, BlobInv, StoredRowHasBlob, Types
<1>21. ASSUME NEW r \in Request, CreateUploadFails(r) PROVE BlobInv'
  BY <1>21 DEF CreateUploadFails, Goto, BlobInv, StoredRowHasBlob, Types
<1>22. ASSUME NEW r \in Request, DeleteBlob(r) PROVE BlobInv'
  BY <1>22 DEF DeleteBlob, Goto, BlobInv, StoredRowHasBlob
<1>23. ASSUME NEW r \in Request, Recompute(r) PROVE BlobInv'
  BY <1>23 DEF Recompute, Answer, Goto, BlobInv, StoredRowHasBlob, database
<1>24. ASSUME NEW r \in Request, RecomputeFails(r) PROVE BlobInv'
  BY <1>24 DEF RecomputeFails, Goto, BlobInv, StoredRowHasBlob, database
<1>25. ASSUME NEW r \in Request, ReleaseTokenlessUpload(r) PROVE BlobInv'
  BY <1>25 DEF ReleaseTokenlessUpload, Answer, Goto, BlobInv, StoredRowHasBlob
<1>26. ASSUME NEW r \in Request, ClientGone(r) PROVE BlobInv'
  BY <1>26 DEF ClientGone, BlobInv, StoredRowHasBlob, database
<1>27. ASSUME NEW n \in Run, RunEnds(n) PROVE BlobInv'
  BY <1>27 DEF RunEnds, BlobInv, StoredRowHasBlob, database
<1>28. CASE Tick
  BY <1>28 DEF Tick, BlobInv, StoredRowHasBlob, database
<1>29. CASE Crash
  BY <1>29 DEF Crash, BlobInv, StoredRowHasBlob, database
<1>30. CASE UNCHANGED vars
  BY <1>30 DEF vars, BlobInv, StoredRowHasBlob, database
<1> QED
  BY <1>1, <1>2, <1>3, <1>4, <1>5, <1>6, <1>7, <1>8, <1>9, <1>10, <1>11,
     <1>12, <1>13, <1>14, <1>15, <1>16, <1>17, <1>18, <1>19, <1>20, <1>21,
     <1>22, <1>23, <1>24, <1>25, <1>26, <1>27, <1>28, <1>29, <1>30 DEF Next,
     Authenticate, Accept

\* The parts of a commit are finitely many, and never fewer.
LEMMA PartsGrow ==
  ASSUME IsFiniteSet(Parts), rows \subseteq rows', IsFiniteSet(Parts')
  PROVE  Cardinality(Parts) <= Cardinality(Parts')
<1>1. Parts \subseteq Parts'
  BY DEF Parts
<1> QED BY <1>1, FS_Subset

LEMMA PartsStored ==
  ASSUME IsFiniteSet(Parts), NEW r \in Request, rows' = rows \cup {r}
  PROVE  IsFiniteSet(Parts')
<1>1. Parts' = Parts \cup {PartOf[r]}
  BY DEF Parts
<1> QED BY <1>1, FS_AddElement

\* What a step may do to the parts and to those who came late: a request enters
\* late, gets past the check, or stores its row.
Past == {"read", "accepting", "stored"}
LateFrame ==
    /\ late \subseteq late'
    /\ \A q \in late' \ late :
          /\ pc[q] = "idle" /\ pc'[q] \in {"parsing", "authed"}
          /\ Cardinality(Parts) >= MaxParts
          /\ rows' = rows
    /\ \A q \in Request :
          /\ pc[q] /= "idle" => pc'[q] /= "idle"
          /\ pc'[q] \in Past =>
                \/ pc[q] \in Past
                \/ pc[q] = "authed" /\ PartAllowed(q)
    /\ \/ rows' = rows
       \/ \E r \in Request : pc[r] = "stored" /\ rows' = rows \cup {r}

\* Every step is one of these.
LEMMA LateFrameStep == IndInv /\ [Next]_vars => LateFrame
<1> SUFFICES ASSUME IndInv, [Next]_vars PROVE LateFrame
  OBVIOUS
<1> USE DEF IndInv
<1>1. ASSUME NEW r \in Request, AuthToken(r) PROVE LateFrame
  BY <1>1 DEF AuthToken, Arrives, Goto, LateFrame, Past, Types, database
<1>2. ASSUME NEW r \in Request, NEW c \in ClaimsOf[r], EnterPreAuth(r, c)
      PROVE LateFrame
  BY <1>2 DEF EnterPreAuth, Arrives, Goto, LateFrame, Past, Types, database
<1>3. ASSUME NEW r \in Request, TooManyPreAuth(r) PROVE LateFrame
  BY <1>3 DEF TooManyPreAuth, Answer, Goto, LateFrame, Past, database
<1>4. ASSUME NEW r \in Request, RefuseCredential(r) PROVE LateFrame
  BY <1>4 DEF RefuseCredential, Answer, Goto, LateFrame, Past, database
<1>5. ASSUME NEW r \in Request, AuthOIDC(r) PROVE LateFrame
  BY <1>5 DEF AuthOIDC, Goto, LateFrame, Past, database
<1>6. ASSUME NEW r \in Request, AnswerFromVerdict(r) PROVE LateFrame
  BY <1>6 DEF AnswerFromVerdict, Answer, Goto, LateFrame, Past, Types,
     database
<1>7. ASSUME NEW r \in Request, ChargeAttempt(r) PROVE LateFrame
  BY <1>7 DEF ChargeAttempt, Goto, LateFrame, Past, database
<1>8. ASSUME NEW r \in Request, LimitReached(r) PROVE LateFrame
  BY <1>8 DEF LimitReached, Answer, Goto, LateFrame, Past, database
<1>9. ASSUME NEW r \in Request, ClaimVerified(r) PROVE LateFrame
  BY <1>9 DEF ClaimVerified, Goto, LateFrame, Past, database
<1>10. ASSUME NEW r \in Request, ClaimRejected(r) PROVE LateFrame
  BY <1>10 DEF ClaimRejected, Answer, Goto, LateFrame, Past, database
<1>11. ASSUME NEW r \in Request, VerifyFails(r) PROVE LateFrame
  BY <1>11 DEF VerifyFails, Answer, Goto, LateFrame, Past, database
<1>12. ASSUME NEW r \in Request, ReadUploadRequest(r) PROVE LateFrame
  BY <1>12 DEF ReadUploadRequest, Goto, LateFrame, database
<1>13. ASSUME NEW r \in Request, TooManyParts(r) PROVE LateFrame
  BY <1>13 DEF TooManyParts, Answer, Goto, LateFrame, Past, database
<1>14. ASSUME NEW r \in Request, RefuseUploadRequest(r) PROVE LateFrame
  BY <1>14 DEF RefuseUploadRequest, Answer, Goto, LateFrame, Past, database
<1>15. ASSUME NEW r \in Request, ClaimTokenlessUpload(r) PROVE LateFrame
  BY <1>15 DEF ClaimTokenlessUpload, Goto, LateFrame, Past
<1>16. ASSUME NEW r \in Request, ClaimLost(r) PROVE LateFrame
  BY <1>16 DEF ClaimLost, Answer, Goto, LateFrame, Past, database
<1>17. ASSUME NEW r \in Request, ClaimFails(r) PROVE LateFrame
  BY <1>17 DEF ClaimFails, Answer, Goto, LateFrame, Past
<1>18. ASSUME NEW r \in Request, AcceptFails(r) PROVE LateFrame
  BY <1>18 DEF AcceptFails, Goto, LateFrame, Past, database
<1>19. ASSUME NEW r \in Request, StoreRaw(r) PROVE LateFrame
  BY <1>19 DEF StoreRaw, Goto, LateFrame, Past
<1>20. ASSUME NEW r \in Request, CreateUpload(r) PROVE LateFrame
  BY <1>20 DEF CreateUpload, Goto, LateFrame, Past
<1>21. ASSUME NEW r \in Request, CreateUploadFails(r) PROVE LateFrame
  BY <1>21 DEF CreateUploadFails, Goto, LateFrame, Past
<1>22. ASSUME NEW r \in Request, DeleteBlob(r) PROVE LateFrame
  BY <1>22 DEF DeleteBlob, Goto, LateFrame, Past
<1>23. ASSUME NEW r \in Request, Recompute(r) PROVE LateFrame
  BY <1>23 DEF Recompute, Answer, Goto, LateFrame, Past, database
<1>24. ASSUME NEW r \in Request, RecomputeFails(r) PROVE LateFrame
  BY <1>24 DEF RecomputeFails, Goto, LateFrame, Past, database
<1>25. ASSUME NEW r \in Request, ReleaseTokenlessUpload(r) PROVE LateFrame
  BY <1>25 DEF ReleaseTokenlessUpload, Answer, Goto, LateFrame, Past
<1>26. ASSUME NEW r \in Request, ClientGone(r) PROVE LateFrame
  BY <1>26 DEF ClientGone, LateFrame, database
<1>27. ASSUME NEW n \in Run, RunEnds(n) PROVE LateFrame
  BY <1>27 DEF RunEnds, LateFrame, database
<1>28. CASE Tick
  BY <1>28 DEF Tick, LateFrame, database
<1>29. CASE Crash
  BY <1>29 DEF Crash, LateFrame, Past, database
<1>30. CASE UNCHANGED vars
  BY <1>30 DEF vars, LateFrame, database
<1> QED
  BY <1>1, <1>2, <1>3, <1>4, <1>5, <1>6, <1>7, <1>8, <1>9, <1>10, <1>11,
     <1>12, <1>13, <1>14, <1>15, <1>16, <1>17, <1>18, <1>19, <1>20, <1>21,
     <1>22, <1>23, <1>24, <1>25, <1>26, <1>27, <1>28, <1>29, <1>30 DEF Next,
     Authenticate, Accept

\* A late upload that gets past the check finds its part stored, by one that
\* was not late or that replaced one.
LEMMA LateStep == IndInv /\ [Next]_vars => LateInv'
<1> SUFFICES ASSUME IndInv, [Next]_vars PROVE LateInv'
  OBVIOUS
<1>1. LateFrame
  BY LateFrameStep
<1> USE DEF IndInv
<1>2. IsFiniteSet(Parts')
  <2>1. CASE rows' = rows
    BY <2>1 DEF LateInv, Parts
  <2>2. CASE \E r \in Request : rows' = rows \cup {r}
    BY <2>2, PartsStored DEF LateInv
  <2> QED BY <1>1, <2>1, <2>2 DEF LateFrame
<1>3. rows \subseteq rows' /\ \A q \in rows' : q \in rows \/ pc[q] = "stored"
  BY <1>1 DEF LateFrame
<1>4. Cardinality(Parts') >= MaxParts \/ \A q \in late' : FALSE
  <2>1. \A q \in late' : Cardinality(Parts) >= MaxParts
    BY <1>1 DEF LateFrame, LateInv
  <2>2. Cardinality(Parts) \in Nat /\ Cardinality(Parts') \in Nat
    BY <1>2, FS_CardinalityType DEF LateInv
  <2>3. Cardinality(Parts) <= Cardinality(Parts')
    BY <1>2, <1>3, PartsGrow DEF LateInv
  <2> QED BY <2>1, <2>2, <2>3, LimitsAssumption
<1>5. \A q \in late' : pc'[q] /= "idle"
  BY <1>1 DEF LateFrame, LateInv, Types
<1>6. rows \ late \subseteq rows' \ late'
  BY <1>1, <1>3 DEF LateFrame, BlobInv, Types
<1>7. ASSUME NEW q \in late', pc'[q] \in Past \/ q \in rows'
      PROVE \E p \in rows' \ late' : PartOf[p] = PartOf[q]
  <2>0. q \in Request
    BY TypesStep DEF Types
  <2>1. q \in late
    <3> SUFFICES ASSUME q \notin late PROVE FALSE
      OBVIOUS
    <3>1. pc[q] = "idle" /\ pc'[q] \in {"parsing", "authed"} /\ rows' = rows
      BY <1>1 DEF LateFrame
    <3> QED BY <1>7, <2>0, <3>1 DEF Past, BlobInv, State
  <2>2. CASE pc[q] \in Past \/ q \in rows
    BY <1>6, <2>1, <2>2 DEF LateInv, Replaces, Past
  <2>3. CASE pc[q] = "authed" /\ PartAllowed(q)
    <3>1. PartOf[q] \in Parts
      <4>1. Cardinality(Parts) \in Nat /\ Cardinality(Parts) >= MaxParts
        BY <2>1, FS_CardinalityType DEF LateInv
      <4> QED BY <2>3, <4>1, LimitsAssumption DEF PartAllowed
    <3>2. PICK p \in rows : PartOf[p] = PartOf[q]
      BY <3>1 DEF Parts
    <3> QED BY <1>6, <3>2 DEF LateInv, Replaces
  <2> QED BY <1>1, <1>3, <1>7, <2>0, <2>2, <2>3 DEF LateFrame, Past
<1> QED BY <1>2, <1>4, <1>5, <1>7 DEF LateInv, Replaces, Past

\* A verdict is put for the claim it is on, and for no other.
LEMMA PutVerdictIsOne ==
  ASSUME NEW r, NEW no, PutVerdict(r, no)
  PROVE  \A c \in Claim :
            \/ verdicts'[c] = verdicts[c] \/ verdicts'[c] = NoVerdict
            \/ /\ c = claim[r]
               /\ verdicts'[c] = [rejected |-> no, until |-> asked[r] + VerdictTTL]
BY DEF PutVerdict

\* A verdict is put for the claim GitHub answered on, and counted from before
\* the question.
LEMMA VerdictStep == IndInv /\ [Next]_vars => VerdictInv'
<1> SUFFICES ASSUME IndInv, [Next]_vars PROVE VerdictInv'
  OBVIOUS
<1> USE DEF IndInv
<1>1. ASSUME NEW r \in Request, AuthToken(r) PROVE VerdictInv'
  BY <1>1, LimitsAssumption DEF AuthToken, Goto, VerdictInv, VerdictsHold,
     server, github
<1>2. ASSUME NEW r \in Request, NEW c \in ClaimsOf[r], EnterPreAuth(r, c)
      PROVE VerdictInv'
  BY <1>2, LimitsAssumption DEF EnterPreAuth, Goto, VerdictInv, VerdictsHold,
     github
<1>3. ASSUME NEW r \in Request, TooManyPreAuth(r) PROVE VerdictInv'
  BY <1>3, LimitsAssumption DEF TooManyPreAuth, Answer, Goto, VerdictInv,
     VerdictsHold, server, github
<1>4. ASSUME NEW r \in Request, RefuseCredential(r) PROVE VerdictInv'
  BY <1>4, LimitsAssumption DEF RefuseCredential, LeavePreAuth, Answer, Goto,
     VerdictInv, VerdictsHold, Types, github
<1>5. ASSUME NEW r \in Request, AuthOIDC(r) PROVE VerdictInv'
  BY <1>5, LimitsAssumption DEF AuthOIDC, LeavePreAuth, Goto, VerdictInv,
     VerdictsHold, Types, github
<1>6. ASSUME NEW r \in Request, AnswerFromVerdict(r) PROVE VerdictInv'
  BY <1>6, LimitsAssumption DEF AnswerFromVerdict, LeavePreAuth, Answer, Goto,
     VerdictInv, VerdictsHold, Types, github
<1>7. ASSUME NEW r \in Request, ChargeAttempt(r) PROVE VerdictInv'
  BY <1>7, LimitsAssumption DEF ChargeAttempt, Goto, VerdictInv, VerdictsHold,
     Fork, Types, github
<1>8. ASSUME NEW r \in Request, LimitReached(r) PROVE VerdictInv'
  BY <1>8, LimitsAssumption DEF LimitReached, LeavePreAuth, Answer, Goto,
     VerdictInv, VerdictsHold, Types, github
<1>9. ASSUME NEW r \in Request, ClaimVerified(r) PROVE VerdictInv'
  <2>1. /\ PutVerdict(r, FALSE) /\ HoldsUp(claim[r])
        /\ UNCHANGED <<now, claim, rejected, running, endedAt>>
    BY <1>9 DEF ClaimVerified, github
  <2>2. asked' = [asked EXCEPT ![r] = 0] /\ pc' = [pc EXCEPT ![r] = "authed"]
    BY <1>9 DEF ClaimVerified, LeavePreAuth, Goto
  <2>3. claim[r] \in Claim
    BY <1>9 DEF ClaimVerified, VerdictInv
  <2>4. \A c \in Claim :
           \/ verdicts'[c] = verdicts[c] \/ verdicts'[c] = NoVerdict
           \/ /\ c = claim[r]
              /\ verdicts'[c] = [rejected |-> FALSE,
                                 until |-> asked[r] + VerdictTTL]
    BY <2>1, PutVerdictIsOne
  <2>5. VerdictsHold'
    BY <2>1, <2>3, <2>4, LimitsAssumption DEF VerdictInv, VerdictsHold,
       HoldsUp, NoVerdict, Types
  <2> QED BY <2>1, <2>2, <2>5 DEF VerdictInv, Types
<1>10. ASSUME NEW r \in Request, ClaimRejected(r) PROVE VerdictInv'
  <2>1. /\ PutVerdict(r, TRUE) /\ rejected' = rejected \cup {claim[r]}
        /\ UNCHANGED <<now, running, endedAt>>
    BY <1>10 DEF ClaimRejected
  <2>2. /\ asked' = [asked EXCEPT ![r] = 0] /\ pc' = [pc EXCEPT ![r] = "done"]
        /\ claim' = claim
    BY <1>10 DEF ClaimRejected, LeavePreAuth, Answer, Goto, Types
  <2>3. claim[r] \in Claim
    BY <1>10 DEF ClaimRejected, VerdictInv
  <2>4. \A c \in Claim :
           \/ verdicts'[c] = verdicts[c] \/ verdicts'[c] = NoVerdict
           \/ /\ c = claim[r]
              /\ verdicts'[c] = [rejected |-> TRUE,
                                 until |-> asked[r] + VerdictTTL]
    BY <2>1, PutVerdictIsOne
  <2>5. VerdictsHold'
    BY <2>1, <2>3, <2>4, LimitsAssumption DEF VerdictInv, VerdictsHold,
       NoVerdict, Types
  <2> QED BY <2>1, <2>2, <2>5 DEF VerdictInv, Types
<1>11. ASSUME NEW r \in Request, VerifyFails(r) PROVE VerdictInv'
  BY <1>11, LimitsAssumption DEF VerifyFails, LeavePreAuth, Answer, Goto,
     VerdictInv, VerdictsHold, Types, github
<1>12. ASSUME NEW r \in Request, ReadUploadRequest(r) PROVE VerdictInv'
  BY <1>12, LimitsAssumption DEF ReadUploadRequest, Goto, VerdictInv,
     VerdictsHold, server, github
<1>13. ASSUME NEW r \in Request, TooManyParts(r) PROVE VerdictInv'
  BY <1>13, LimitsAssumption DEF TooManyParts, Answer, Goto, VerdictInv,
     VerdictsHold, server, github
<1>14. ASSUME NEW r \in Request, RefuseUploadRequest(r) PROVE VerdictInv'
  BY <1>14, LimitsAssumption DEF RefuseUploadRequest, Answer, Goto,
     VerdictInv, VerdictsHold, server, github
<1>15. ASSUME NEW r \in Request, ClaimTokenlessUpload(r) PROVE VerdictInv'
  BY <1>15, LimitsAssumption DEF ClaimTokenlessUpload, Goto, VerdictInv,
     VerdictsHold, server, github
<1>16. ASSUME NEW r \in Request, ClaimLost(r) PROVE VerdictInv'
  BY <1>16, LimitsAssumption DEF ClaimLost, Answer, Goto, VerdictInv,
     VerdictsHold, server, github
<1>17. ASSUME NEW r \in Request, ClaimFails(r) PROVE VerdictInv'
  BY <1>17, LimitsAssumption DEF ClaimFails, Answer, Goto, VerdictInv,
     VerdictsHold, server, github
<1>18. ASSUME NEW r \in Request, AcceptFails(r) PROVE VerdictInv'
  BY <1>18, LimitsAssumption DEF AcceptFails, Goto, VerdictInv, VerdictsHold,
     server, github
<1>19. ASSUME NEW r \in Request, StoreRaw(r) PROVE VerdictInv'
  BY <1>19, LimitsAssumption DEF StoreRaw, Goto, VerdictInv, VerdictsHold,
     server, github
<1>20. ASSUME NEW r \in Request, CreateUpload(r) PROVE VerdictInv'
  BY <1>20, LimitsAssumption DEF CreateUpload, Goto, VerdictInv, VerdictsHold,
     server, github
<1>21. ASSUME NEW r \in Request, CreateUploadFails(r) PROVE VerdictInv'
  BY <1>21, LimitsAssumption DEF CreateUploadFails, Goto, VerdictInv,
     VerdictsHold, server, github
<1>22. ASSUME NEW r \in Request, DeleteBlob(r) PROVE VerdictInv'
  BY <1>22, LimitsAssumption DEF DeleteBlob, Goto, VerdictInv, VerdictsHold,
     server, github
<1>23. ASSUME NEW r \in Request, Recompute(r) PROVE VerdictInv'
  BY <1>23, LimitsAssumption DEF Recompute, Answer, Goto, VerdictInv,
     VerdictsHold, server, github
<1>24. ASSUME NEW r \in Request, RecomputeFails(r) PROVE VerdictInv'
  BY <1>24, LimitsAssumption DEF RecomputeFails, Goto, VerdictInv,
     VerdictsHold, server, github
<1>25. ASSUME NEW r \in Request, ReleaseTokenlessUpload(r) PROVE VerdictInv'
  BY <1>25, LimitsAssumption DEF ReleaseTokenlessUpload, Answer, Goto,
     VerdictInv, VerdictsHold, server, github
<1>26. ASSUME NEW r \in Request, ClientGone(r) PROVE VerdictInv'
  BY <1>26, LimitsAssumption DEF ClientGone, VerdictInv, VerdictsHold, server,
     github
<1>27. ASSUME NEW n \in Run, RunEnds(n) PROVE VerdictInv'
  BY <1>27, LimitsAssumption DEF RunEnds, VerdictInv, VerdictsHold, Types,
     server
<1>28. CASE Tick
  BY <1>28, LimitsAssumption DEF Tick, VerdictInv, VerdictsHold, Types,
     server, github
<1>29. CASE Crash
  BY <1>29, LimitsAssumption DEF Crash, NoVerdict, VerdictInv, VerdictsHold,
     Types
<1>30. CASE UNCHANGED vars
  BY <1>30, LimitsAssumption DEF vars, VerdictInv, VerdictsHold, server,
     github
<1> QED
  BY <1>1, <1>2, <1>3, <1>4, <1>5, <1>6, <1>7, <1>8, <1>9, <1>10, <1>11,
     <1>12, <1>13, <1>14, <1>15, <1>16, <1>17, <1>18, <1>19, <1>20, <1>21,
     <1>22, <1>23, <1>24, <1>25, <1>26, <1>27, <1>28, <1>29, <1>30 DEF Next,
     Authenticate, Accept

LEMMA InitInv == Init => IndInv
<1> SUFFICES ASSUME Init PROVE IndInv
  OBVIOUS
<1> USE DEF Init
<1>1. Types
  BY LimitsAssumption DEF Types, State, Reply, NoVerdict
<1>2. ReplyInv /\ BlobInv
  BY DEF ReplyInv, BlobInv, StoredRowHasBlob
<1>3. TripleInv /\ AcceptedOnce
  BY DEF TripleInv, AcceptedOnce, Fork
<1>4. LateInv
  <2>1. Parts = {}
    BY DEF Parts
  <2>2. IsFiniteSet(Parts)
    BY <2>1, FS_EmptySet
  <2> QED BY <2>2 DEF LateInv
<1>5. VerdictInv
  BY DEF VerdictInv, VerdictsHold, NoVerdict
<1> QED BY <1>1, <1>2, <1>3, <1>4, <1>5 DEF IndInv

LEMMA NextInv == IndInv /\ [Next]_vars => IndInv'
BY TypesStep, ReplyStep, TripleStep, BlobStep, LateStep, VerdictStep DEF IndInv

THEOREM Invariance == Spec => []IndInv
BY InitInv, NextInv, PTL DEF Spec

----------------------------------------------------------------------------
(* The theorems. *)

\* A triple is one upload's: whatever fails and is tried again, two uploads of
\* one (run, attempt, part) are never both accepted or being accepted
\* (handleUpload, ClaimTokenlessUpload and ReleaseTokenlessUpload).
THEOREM OneUploadPerTriple == Spec => []AcceptedOnce
BY Invariance, PTL DEF IndInv

\* The check of maxPartsPerCommit is not under a lock, yet an upload that comes
\* after the commit has all its parts stores none that is new
\* (readUploadRequest).
THEOREM NoPartBeyondTheCap == Spec => []LateUploadsReplace
<1>1. IndInv => LateUploadsReplace
  BY DEF IndInv, LateInv, Replaces, LateUploadsReplace
<1> QED BY <1>1, Invariance, PTL

\* Cleaning up after a failed insert deletes no stored upload's raw profile
\* (Accept).
THEOREM RowsKeepTheirBlobs == Spec => []StoredRowHasBlob
<1>1. IndInv => StoredRowHasBlob
  BY DEF IndInv, BlobInv
<1> QED BY <1>1, Invariance, PTL

\* A claim is let in, or rejected, on what GitHub answered about it.
LetIn(r) ==
    /\ claim[r] \notin Unfit
    /\ \/ RunOf[claim[r]] \in running
       \/ now <= endedAt[RunOf[claim[r]]] + VerdictTTL
Decided(r) ==
    /\ pc[r] \in PreAuth /\ pc'[r] = "authed" => LetIn(r)
    /\ reply[r] /= "rejected" /\ reply'[r] = "rejected" => claim[r] \in rejected'

\* Every step of a request that makes a claim decides it this way.
LEMMA DecidedStep ==
  ASSUME NEW r \in Fork PROVE IndInv /\ [Next]_vars => Decided(r)
<1> SUFFICES ASSUME IndInv, [Next]_vars PROVE Decided(r)
  OBVIOUS
<1>0. r \in Request /\ claim[r] \in Claim
  BY DEF IndInv, Types, Fork
<1> USE DEF IndInv
<1>1. ASSUME NEW q \in Request, AuthToken(q) PROVE Decided(r)
  BY <1>1 DEF AuthToken, Goto, Decided, PreAuth
<1>2. ASSUME NEW q \in Request, NEW c \in ClaimsOf[q], EnterPreAuth(q, c)
      PROVE Decided(r)
  BY <1>2 DEF EnterPreAuth, Goto, Decided, PreAuth
<1>3. ASSUME NEW q \in Request, TooManyPreAuth(q) PROVE Decided(r)
  BY <1>3 DEF TooManyPreAuth, Answer, Goto, Decided, PreAuth
<1>4. ASSUME NEW q \in Request, RefuseCredential(q) PROVE Decided(r)
  BY <1>4 DEF RefuseCredential, Answer, Goto, Decided, PreAuth
<1>5. ASSUME NEW q \in Request, AuthOIDC(q) PROVE Decided(r)
  BY <1>5 DEF AuthOIDC, Goto, Decided, PreAuth
<1>6. ASSUME NEW q \in Request, AnswerFromVerdict(q) PROVE Decided(r)
  <2>1. CASE q /= r
    BY <1>6, <1>0, <2>1 DEF AnswerFromVerdict, Answer, Goto, Decided, Types,
       PreAuth
  <2>2. CASE q = r
    <3> DEFINE v == verdicts[claim[r]]
    <3>1. Verdict(r) = v /\ now <= v.until
      BY <1>6, <1>0, <2>2 DEF AnswerFromVerdict, Verdict, Types
    <3>2. v.until >= 0
      BY <1>0, <3>1 DEF Types
    <3>3. v.rejected => claim[r] \in rejected
      BY <1>0, <3>2 DEF VerdictInv, VerdictsHold
    <3>4. ~v.rejected => LetIn(r)
      BY <1>0, <3>1, <3>2, LimitsAssumption, RequestAssumption DEF VerdictInv,
         VerdictsHold, LetIn, Types
    <3>5. rejected' = rejected
      BY <1>6 DEF AnswerFromVerdict, github
    <3>6. CASE v.rejected
      BY <1>6, <1>0, <2>2, <3>1, <3>3, <3>5, <3>6 DEF AnswerFromVerdict,
         Answer, Goto, Decided, Types
    <3>7. CASE ~v.rejected
      BY <1>6, <1>0, <2>2, <3>1, <3>4, <3>7 DEF AnswerFromVerdict, Decided
    <3> QED BY <3>6, <3>7
  <2> QED BY <2>1, <2>2
<1>7. ASSUME NEW q \in Request, ChargeAttempt(q) PROVE Decided(r)
  BY <1>7 DEF ChargeAttempt, Goto, Decided, PreAuth
<1>8. ASSUME NEW q \in Request, LimitReached(q) PROVE Decided(r)
  BY <1>8 DEF LimitReached, Answer, Goto, Decided, PreAuth
<1>9. ASSUME NEW q \in Request, ClaimVerified(q) PROVE Decided(r)
  <2>1. HoldsUp(claim[q]) /\ rejected' = rejected /\ reply' = reply
    BY <1>9 DEF ClaimVerified, github
  <2>2. pc' = [pc EXCEPT ![q] = "authed"]
    BY <1>9 DEF ClaimVerified, Goto
  <2> QED BY <1>0, <2>1, <2>2 DEF Decided, HoldsUp, LetIn, PreAuth
<1>10. ASSUME NEW q \in Request, ClaimRejected(q) PROVE Decided(r)
  BY <1>10 DEF ClaimRejected, Answer, Goto, Decided, PreAuth
<1>11. ASSUME NEW q \in Request, VerifyFails(q) PROVE Decided(r)
  BY <1>11 DEF VerifyFails, Answer, Goto, Decided, PreAuth
<1>12. ASSUME NEW q \in Request, ReadUploadRequest(q) PROVE Decided(r)
  BY <1>12 DEF ReadUploadRequest, Goto, Decided, PreAuth
<1>13. ASSUME NEW q \in Request, TooManyParts(q) PROVE Decided(r)
  BY <1>13 DEF TooManyParts, Answer, Goto, Decided, PreAuth
<1>14. ASSUME NEW q \in Request, RefuseUploadRequest(q) PROVE Decided(r)
  BY <1>14 DEF RefuseUploadRequest, Answer, Goto, Decided, PreAuth
<1>15. ASSUME NEW q \in Request, ClaimTokenlessUpload(q) PROVE Decided(r)
  BY <1>15 DEF ClaimTokenlessUpload, Goto, Decided, PreAuth
<1>16. ASSUME NEW q \in Request, ClaimLost(q) PROVE Decided(r)
  BY <1>16 DEF ClaimLost, Answer, Goto, Decided, PreAuth
<1>17. ASSUME NEW q \in Request, ClaimFails(q) PROVE Decided(r)
  BY <1>17 DEF ClaimFails, Answer, Goto, Decided, PreAuth
<1>18. ASSUME NEW q \in Request, AcceptFails(q) PROVE Decided(r)
  BY <1>18 DEF AcceptFails, Goto, Decided, PreAuth
<1>19. ASSUME NEW q \in Request, StoreRaw(q) PROVE Decided(r)
  BY <1>19 DEF StoreRaw, Goto, Decided, PreAuth
<1>20. ASSUME NEW q \in Request, CreateUpload(q) PROVE Decided(r)
  BY <1>20 DEF CreateUpload, Goto, Decided, PreAuth
<1>21. ASSUME NEW q \in Request, CreateUploadFails(q) PROVE Decided(r)
  BY <1>21 DEF CreateUploadFails, Goto, Decided, PreAuth
<1>22. ASSUME NEW q \in Request, DeleteBlob(q) PROVE Decided(r)
  BY <1>22 DEF DeleteBlob, Goto, Decided, PreAuth
<1>23. ASSUME NEW q \in Request, Recompute(q) PROVE Decided(r)
  BY <1>23 DEF Recompute, Answer, Goto, Decided, PreAuth
<1>24. ASSUME NEW q \in Request, RecomputeFails(q) PROVE Decided(r)
  BY <1>24 DEF RecomputeFails, Goto, Decided, PreAuth
<1>25. ASSUME NEW q \in Request, ReleaseTokenlessUpload(q) PROVE Decided(r)
  BY <1>25 DEF ReleaseTokenlessUpload, Answer, Goto, Decided, PreAuth
<1>26. ASSUME NEW q \in Request, ClientGone(q) PROVE Decided(r)
  BY <1>26 DEF ClientGone, Decided, PreAuth
<1>27. ASSUME NEW n \in Run, RunEnds(n) PROVE Decided(r)
  BY <1>27 DEF RunEnds, Decided, PreAuth
<1>28. CASE Tick
  BY <1>28 DEF Tick, Decided, PreAuth
<1>29. CASE Crash
  BY <1>29 DEF Crash, InFlight, Decided, Fork
<1>30. CASE UNCHANGED vars
  BY <1>30 DEF vars, Decided, PreAuth
<1> QED
  BY <1>1, <1>2, <1>3, <1>4, <1>5, <1>6, <1>7, <1>8, <1>9, <1>10, <1>11,
     <1>12, <1>13, <1>14, <1>15, <1>16, <1>17, <1>18, <1>19, <1>20, <1>21,
     <1>22, <1>23, <1>24, <1>25, <1>26, <1>27, <1>28, <1>29, <1>30 DEF Next,
     Authenticate, Accept

\* Only a claim GitHub was asked about is let in or rejected, and none is let in
\* later than claimVerdictTTL after its run ended (tokenlessAuth, VerifyRunClaim,
\* claimVerdicts).
THEOREM VerdictsAreTheClaims == Spec => VerdictIsOfItsClaim
<1>1. IndInv /\ [Next]_vars =>
        [\A r \in Fork :
            /\ pc[r] \in PreAuth /\ pc'[r] = "authed" =>
                 /\ claim[r] \notin Unfit
                 /\ \/ RunOf[claim[r]] \in running
                    \/ now <= endedAt[RunOf[claim[r]]] + VerdictTTL
            /\ reply[r] /= "rejected" /\ reply'[r] = "rejected" =>
                 claim[r] \in rejected']_vars
  BY DecidedStep DEF Decided, LetIn
<1>2. Spec => [][Next]_vars
  BY DEF Spec
<1> QED BY <1>1, <1>2, Invariance, PTL DEF VerdictIsOfItsClaim

=============================================================================
