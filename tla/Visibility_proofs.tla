------------------------- MODULE Visibility_proofs -------------------------
(* Theorems about Visibility, for any processes, checks, closers and TTLs. *)
EXTENDS Visibility, TLAPS

\* Checks ask, closers do not.
KindInv ==
    /\ \A c \in Check : pc[c] /= "listing"
    /\ \A k \in Closer : pc[k] \in {"idle", "listing", "stamped", "done"}
    /\ \A a \in Actor : pc[a] = "stamped" => answer[a] = "private"

Pending(a) == pc[a] \in {"asking", "answered", "stamped"}

\* No stamp is in the future, and those still to be written differ from each
\* other and from the one stored.
StampInv ==
    /\ checkedAt <= now /\ toldAt <= checkedAt
    /\ \A a \in Actor : stamp[a] <= now
    /\ \A a \in Actor : Pending(a) => stamp[a] /= checkedAt
    /\ \A a, b \in Actor : Pending(a) /\ Pending(b) /\ stamp[a] = stamp[b] => a = b

\* A public answer on its way was asked for before the repo was hidden.
AnswerInv ==
    \A c \in Actor :
        pc[c] = "answered" /\ answer[c] = "public" /\ truth /= "public"
        => stamp[c] < hiddenAt

\* A check that asks has its process's guard.
GuardInv ==
    \A c \in Check :
        pc[c] \in {"asking", "answered"} => ProcessOf[c] \in inFlight

IndInv ==
    /\ TypeOK
    /\ KindInv
    /\ StampInv
    /\ AnswerInv
    /\ GuardInv
    /\ OpenPredatesHiding
    /\ NewsIsNotUndone
    /\ OneQuestionPerProcess

USE DEF Actor

\* The first states satisfy the invariant.
LEMMA InitInv == Init => IndInv
<1> SUFFICES ASSUME Init PROVE IndInv
  OBVIOUS
<1>1. hiddenAt \in Nat /\ failed \in BOOLEAN /\ connected \in BOOLEAN
  BY DEF Init
<1>2. TypeOK
  BY <1>1 DEF Init, TypeOK, State, Answers
<1>3. KindInv /\ AnswerInv /\ GuardInv
  BY DEF Init, KindInv, AnswerInv, GuardInv
<1>4. StampInv
  <2>1. \A a \in Actor : ~Pending(a) /\ stamp[a] = 0
    BY DEF Init, Pending
  <2>2. checkedAt = 0 /\ toldAt = 0 /\ now = 1
    BY DEF Init
  <2> QED BY <2>1, <2>2 DEF StampInv
<1>5. OpenPredatesHiding /\ NewsIsNotUndone /\ OneQuestionPerProcess
  BY DEF Init, OpenPredatesHiding, NewsIsNotUndone, OneQuestionPerProcess
<1> QED BY <1>2, <1>3, <1>4, <1>5 DEF IndInv

\* Every step keeps the variables in their types.
LEMMA TypeStep == IndInv /\ [Next]_vars => TypeOK'
<1> SUFFICES ASSUME IndInv, [Next]_vars PROVE TypeOK'
  OBVIOUS
<1>0. TypeOK
  BY DEF IndInv
<1>1. ASSUME NEW c \in Check, BeginCheck(c) PROVE TypeOK'
  <2>1. pc' \in [Actor -> State]
    BY <1>0, <1>1 DEF BeginCheck, TypeOK, Goto, State
  <2>2. /\ copy' \in [Actor -> Answers] /\ answer' \in [Actor -> Answers]
         /\ visibility' \in Answers
    BY <1>0, <1>1 DEF BeginCheck, rowVars, TypeOK
  <2>3. /\ stamp' \in [Actor -> Nat] /\ now' \in Nat /\ checkedAt' \in Nat
         /\ recheckAt' \in [Process -> Nat]
         /\ hiddenAt' \in Nat /\ toldAt' \in Nat
    BY <1>0, <1>1, TimeAssumption DEF BeginCheck, UploadCheck, ServeCheck,
       PublicizedCheck, rowVars, forgeVars, TypeOK
  <2>4. /\ connected' \in BOOLEAN /\ failed' \in BOOLEAN /\ inFlight' \subseteq Process
         /\ truth' \in {"public", "private", "gone"}
         /\ announced' \subseteq {"publicized", "privatized"}
    BY <1>0, <1>1 DEF BeginCheck, forgeVars, TypeOK
  <2> QED BY <2>1, <2>2, <2>3, <2>4 DEF TypeOK
<1>2. ASSUME NEW c \in Check, ResolveClient(c) PROVE TypeOK'
  <2>1. pc' \in [Actor -> State]
    BY <1>0, <1>2 DEF ResolveClient, TypeOK, Goto, State
  <2>2. /\ copy' \in [Actor -> Answers] /\ answer' \in [Actor -> Answers]
         /\ visibility' \in Answers
    BY <1>0, <1>2 DEF ResolveClient, rowVars, TypeOK
  <2>3. /\ stamp' \in [Actor -> Nat] /\ now' \in Nat /\ checkedAt' \in Nat
         /\ recheckAt' \in [Process -> Nat]
         /\ hiddenAt' \in Nat /\ toldAt' \in Nat
    BY <1>0, <1>2, TimeAssumption DEF ResolveClient, rowVars, forgeVars,
       TypeOK
  <2>4. /\ connected' \in BOOLEAN /\ failed' \in BOOLEAN /\ inFlight' \subseteq Process
         /\ truth' \in {"public", "private", "gone"}
         /\ announced' \subseteq {"publicized", "privatized"}
    BY <1>0, <1>2 DEF ResolveClient, forgeVars, TypeOK
  <2> QED BY <2>1, <2>2, <2>3, <2>4 DEF TypeOK
<1>3. ASSUME NEW c \in Check, BeginRefresh(c) PROVE TypeOK'
  <2>1. pc' \in [Actor -> State]
    BY <1>0, <1>3 DEF BeginRefresh, TypeOK, Goto, State
  <2>2. /\ copy' \in [Actor -> Answers] /\ answer' \in [Actor -> Answers]
         /\ visibility' \in Answers
    BY <1>0, <1>3 DEF BeginRefresh, rowVars, TypeOK
  <2>3. /\ stamp' \in [Actor -> Nat] /\ now' \in Nat /\ checkedAt' \in Nat
         /\ recheckAt' \in [Process -> Nat]
         /\ hiddenAt' \in Nat /\ toldAt' \in Nat
    BY <1>0, <1>3, TimeAssumption DEF BeginRefresh, Stamp, rowVars, forgeVars,
       TypeOK
  <2>4. /\ connected' \in BOOLEAN /\ failed' \in BOOLEAN /\ inFlight' \subseteq Process
         /\ truth' \in {"public", "private", "gone"}
         /\ announced' \subseteq {"publicized", "privatized"}
    <3>1. UNCHANGED <<connected, truth, announced, failed>>
      BY <1>3 DEF BeginRefresh, forgeVars
    <3>2. inFlight' \subseteq Process
      BY <1>0, <1>3, ProcessAssumption DEF BeginRefresh, TypeOK
    <3> QED BY <1>0, <3>1, <3>2 DEF TypeOK
  <2> QED BY <2>1, <2>2, <2>3, <2>4 DEF TypeOK
<1>4. ASSUME NEW c \in Check, SkipRefresh(c) PROVE TypeOK'
  <2>1. pc' \in [Actor -> State]
    BY <1>0, <1>4 DEF SkipRefresh, TypeOK, Goto, State
  <2>2. /\ copy' \in [Actor -> Answers] /\ answer' \in [Actor -> Answers]
         /\ visibility' \in Answers
    BY <1>0, <1>4 DEF SkipRefresh, Forget, rowVars, TypeOK, Answers
  <2>3. /\ stamp' \in [Actor -> Nat] /\ now' \in Nat /\ checkedAt' \in Nat
         /\ recheckAt' \in [Process -> Nat]
         /\ hiddenAt' \in Nat /\ toldAt' \in Nat
    BY <1>0, <1>4, TimeAssumption DEF SkipRefresh, Forget, rowVars, forgeVars,
       TypeOK
  <2>4. /\ connected' \in BOOLEAN /\ failed' \in BOOLEAN /\ inFlight' \subseteq Process
         /\ truth' \in {"public", "private", "gone"}
         /\ announced' \subseteq {"publicized", "privatized"}
    BY <1>0, <1>4 DEF SkipRefresh, forgeVars, TypeOK
  <2> QED BY <2>1, <2>2, <2>3, <2>4 DEF TypeOK
<1>5. ASSUME NEW c \in Check, Answered(c) PROVE TypeOK'
  <2>1. pc' \in [Actor -> State]
    BY <1>0, <1>5 DEF Answered, TypeOK, Goto, State
  <2>2. /\ copy' \in [Actor -> Answers] /\ answer' \in [Actor -> Answers]
         /\ visibility' \in Answers
    BY <1>0, <1>5 DEF Answered, rowVars, TypeOK, Answers
  <2>3. /\ stamp' \in [Actor -> Nat] /\ now' \in Nat /\ checkedAt' \in Nat
         /\ recheckAt' \in [Process -> Nat]
         /\ hiddenAt' \in Nat /\ toldAt' \in Nat
    BY <1>0, <1>5, TimeAssumption DEF Answered, rowVars, forgeVars, TypeOK
  <2>4. /\ connected' \in BOOLEAN /\ failed' \in BOOLEAN /\ inFlight' \subseteq Process
         /\ truth' \in {"public", "private", "gone"}
         /\ announced' \subseteq {"publicized", "privatized"}
    BY <1>0, <1>5 DEF Answered, forgeVars, TypeOK
  <2> QED BY <2>1, <2>2, <2>3, <2>4 DEF TypeOK
<1>6. ASSUME NEW c \in Check, CloseUnverifiable(c) PROVE TypeOK'
  <2>1. pc' \in [Actor -> State]
    BY <1>0, <1>6 DEF CloseUnverifiable, TypeOK, Goto, State
  <2>2. /\ copy' \in [Actor -> Answers] /\ answer' \in [Actor -> Answers]
         /\ visibility' \in Answers
    BY <1>0, <1>6 DEF CloseUnverifiable, Forget, rowVars, TypeOK, Answers
  <2>3. /\ stamp' \in [Actor -> Nat] /\ now' \in Nat /\ checkedAt' \in Nat
         /\ recheckAt' \in [Process -> Nat]
         /\ hiddenAt' \in Nat /\ toldAt' \in Nat
    <3>1. UNCHANGED <<checkedAt, recheckAt, hiddenAt, toldAt>>
      BY <1>6 DEF CloseUnverifiable, rowVars, forgeVars
    <3>2. stamp' \in [Actor -> Nat] /\ now' \in Nat
      <4>1. CASE copy[c] = "public" /\ ~connected
        BY <1>0, <1>6, <4>1 DEF CloseUnverifiable, Stamp, TypeOK
      <4>2. CASE ~(copy[c] = "public" /\ ~connected)
        <5>1. stamp' = [stamp EXCEPT ![c] = 0] /\ now' = now
          BY <1>6, <4>2 DEF CloseUnverifiable, Forget
        <5> QED BY <1>0, <5>1 DEF TypeOK
      <4> QED BY <4>1, <4>2
    <3> QED BY <1>0, <3>1, <3>2 DEF TypeOK
  <2>4. /\ connected' \in BOOLEAN /\ failed' \in BOOLEAN /\ inFlight' \subseteq Process
         /\ truth' \in {"public", "private", "gone"}
         /\ announced' \subseteq {"publicized", "privatized"}
    BY <1>0, <1>6 DEF CloseUnverifiable, forgeVars, TypeOK
  <2> QED BY <2>1, <2>2, <2>3, <2>4 DEF TypeOK
<1>7. ASSUME NEW k \in Closer, MarkRepoPrivate(k) PROVE TypeOK'
  <2>1. pc' \in [Actor -> State]
    BY <1>0, <1>7 DEF MarkRepoPrivate, TypeOK, Goto, State
  <2>2. /\ copy' \in [Actor -> Answers] /\ answer' \in [Actor -> Answers]
         /\ visibility' \in Answers
    BY <1>0, <1>7 DEF MarkRepoPrivate, rowVars, TypeOK, Answers
  <2>3. /\ stamp' \in [Actor -> Nat] /\ now' \in Nat /\ checkedAt' \in Nat
         /\ recheckAt' \in [Process -> Nat]
         /\ hiddenAt' \in Nat /\ toldAt' \in Nat
    BY <1>0, <1>7, TimeAssumption DEF MarkRepoPrivate, Stamp, rowVars,
       forgeVars, TypeOK
  <2>4. /\ connected' \in BOOLEAN /\ failed' \in BOOLEAN /\ inFlight' \subseteq Process
         /\ truth' \in {"public", "private", "gone"}
         /\ announced' \subseteq {"publicized", "privatized"}
    BY <1>0, <1>7 DEF MarkRepoPrivate, forgeVars, TypeOK
  <2> QED BY <2>1, <2>2, <2>3, <2>4 DEF TypeOK
<1>8. ASSUME NEW k \in Closer, LoseConnection(k) PROVE TypeOK'
  <2>1. pc' \in [Actor -> State]
    BY <1>0, <1>8 DEF LoseConnection, TypeOK, Goto, State
  <2>2. /\ copy' \in [Actor -> Answers] /\ answer' \in [Actor -> Answers]
         /\ visibility' \in Answers
    BY <1>0, <1>8 DEF LoseConnection, rowVars, TypeOK
  <2>3. /\ stamp' \in [Actor -> Nat] /\ now' \in Nat /\ checkedAt' \in Nat
         /\ recheckAt' \in [Process -> Nat]
         /\ hiddenAt' \in Nat /\ toldAt' \in Nat
    BY <1>0, <1>8, TimeAssumption DEF LoseConnection, rowVars, forgeVars,
       TypeOK
  <2>4. /\ connected' \in BOOLEAN /\ failed' \in BOOLEAN /\ inFlight' \subseteq Process
         /\ truth' \in {"public", "private", "gone"}
         /\ announced' \subseteq {"publicized", "privatized"}
    BY <1>0, <1>8 DEF LoseConnection, forgeVars, TypeOK
  <2> QED BY <2>1, <2>2, <2>3, <2>4 DEF TypeOK
<1>9. ASSUME NEW k \in Closer, MarkWorkspaceReposPrivate(k) PROVE TypeOK'
  <2>1. pc' \in [Actor -> State]
    BY <1>0, <1>9 DEF MarkWorkspaceReposPrivate, TypeOK, Goto, State
  <2>2. /\ copy' \in [Actor -> Answers] /\ answer' \in [Actor -> Answers]
         /\ visibility' \in Answers
    BY <1>0, <1>9 DEF MarkWorkspaceReposPrivate, rowVars, TypeOK, Answers
  <2>3. /\ stamp' \in [Actor -> Nat] /\ now' \in Nat /\ checkedAt' \in Nat
         /\ recheckAt' \in [Process -> Nat]
         /\ hiddenAt' \in Nat /\ toldAt' \in Nat
    BY <1>0, <1>9, TimeAssumption DEF MarkWorkspaceReposPrivate, Stamp,
       rowVars, forgeVars, TypeOK
  <2>4. /\ connected' \in BOOLEAN /\ failed' \in BOOLEAN /\ inFlight' \subseteq Process
         /\ truth' \in {"public", "private", "gone"}
         /\ announced' \subseteq {"publicized", "privatized"}
    BY <1>0, <1>9 DEF MarkWorkspaceReposPrivate, forgeVars, TypeOK
  <2> QED BY <2>1, <2>2, <2>3, <2>4 DEF TypeOK
<1>10. ASSUME NEW a \in Actor, SetRepoVisibility(a) PROVE TypeOK'
  <2>1. pc' \in [Actor -> State]
    BY <1>0, <1>10 DEF SetRepoVisibility, TypeOK, Goto, State
  <2>2. /\ copy' \in [Actor -> Answers] /\ answer' \in [Actor -> Answers]
         /\ visibility' \in Answers
    BY <1>0, <1>10 DEF SetRepoVisibility, Forget, rowVars, TypeOK, Answers
  <2>3. /\ stamp' \in [Actor -> Nat] /\ now' \in Nat /\ checkedAt' \in Nat
         /\ recheckAt' \in [Process -> Nat]
         /\ hiddenAt' \in Nat /\ toldAt' \in Nat
    BY <1>0, <1>10, TimeAssumption DEF SetRepoVisibility, Forget, rowVars,
       forgeVars, TypeOK
  <2>4. /\ connected' \in BOOLEAN /\ failed' \in BOOLEAN /\ inFlight' \subseteq Process
         /\ truth' \in {"public", "private", "gone"}
         /\ announced' \subseteq {"publicized", "privatized"}
    BY <1>0, <1>10 DEF SetRepoVisibility, EndRefresh, forgeVars, TypeOK
  <2> QED BY <2>1, <2>2, <2>3, <2>4 DEF TypeOK
<1>11. ASSUME NEW a \in Actor, GiveUp(a) PROVE TypeOK'
  <2>1. pc' \in [Actor -> State]
    BY <1>0, <1>11 DEF GiveUp, TypeOK, Goto, State
  <2>2. /\ copy' \in [Actor -> Answers] /\ answer' \in [Actor -> Answers]
         /\ visibility' \in Answers
    BY <1>0, <1>11 DEF GiveUp, Forget, rowVars, TypeOK, Answers
  <2>3. /\ stamp' \in [Actor -> Nat] /\ now' \in Nat /\ checkedAt' \in Nat
         /\ recheckAt' \in [Process -> Nat]
         /\ hiddenAt' \in Nat /\ toldAt' \in Nat
    BY <1>0, <1>11, TimeAssumption DEF GiveUp, Forget, rowVars, forgeVars,
       TypeOK
  <2>4. /\ connected' \in BOOLEAN /\ failed' \in BOOLEAN /\ inFlight' \subseteq Process
         /\ truth' \in {"public", "private", "gone"}
         /\ announced' \subseteq {"publicized", "privatized"}
    BY <1>0, <1>11 DEF GiveUp, EndRefresh, forgeVars, TypeOK
  <2> QED BY <2>1, <2>2, <2>3, <2>4 DEF TypeOK
<1>12. CASE Reconnect
  <2>1. pc' \in [Actor -> State]
    BY <1>0, <1>12 DEF Reconnect, TypeOK
  <2>2. /\ copy' \in [Actor -> Answers] /\ answer' \in [Actor -> Answers]
         /\ visibility' \in Answers
    BY <1>0, <1>12 DEF Reconnect, rowVars, TypeOK
  <2>3. /\ stamp' \in [Actor -> Nat] /\ now' \in Nat /\ checkedAt' \in Nat
         /\ recheckAt' \in [Process -> Nat]
         /\ hiddenAt' \in Nat /\ toldAt' \in Nat
    BY <1>0, <1>12, TimeAssumption DEF Reconnect, rowVars, forgeVars, TypeOK
  <2>4. /\ connected' \in BOOLEAN /\ failed' \in BOOLEAN /\ inFlight' \subseteq Process
         /\ truth' \in {"public", "private", "gone"}
         /\ announced' \subseteq {"publicized", "privatized"}
    BY <1>0, <1>12 DEF Reconnect, forgeVars, TypeOK
  <2> QED BY <2>1, <2>2, <2>3, <2>4 DEF TypeOK
<1>13. ASSUME NEW to \in {"public", "private", "gone"}, Flip(to) PROVE TypeOK'
  <2>1. pc' \in [Actor -> State]
    BY <1>0, <1>13 DEF Flip, TypeOK
  <2>2. /\ copy' \in [Actor -> Answers] /\ answer' \in [Actor -> Answers]
         /\ visibility' \in Answers
    BY <1>0, <1>13 DEF Flip, rowVars, TypeOK
  <2>3. /\ stamp' \in [Actor -> Nat] /\ now' \in Nat /\ checkedAt' \in Nat
         /\ recheckAt' \in [Process -> Nat]
         /\ hiddenAt' \in Nat /\ toldAt' \in Nat
    BY <1>0, <1>13, TimeAssumption DEF Flip, rowVars, TypeOK
  <2>4. /\ connected' \in BOOLEAN /\ failed' \in BOOLEAN /\ inFlight' \subseteq Process
         /\ truth' \in {"public", "private", "gone"}
         /\ announced' \subseteq {"publicized", "privatized"}
    BY <1>0, <1>13 DEF Flip, TypeOK
  <2> QED BY <2>1, <2>2, <2>3, <2>4 DEF TypeOK
<1>14. CASE Tick
  <2>1. pc' \in [Actor -> State]
    BY <1>0, <1>14 DEF Tick, TypeOK
  <2>2. /\ copy' \in [Actor -> Answers] /\ answer' \in [Actor -> Answers]
         /\ visibility' \in Answers
    BY <1>0, <1>14 DEF Tick, rowVars, TypeOK
  <2>3. /\ stamp' \in [Actor -> Nat] /\ now' \in Nat /\ checkedAt' \in Nat
         /\ recheckAt' \in [Process -> Nat]
         /\ hiddenAt' \in Nat /\ toldAt' \in Nat
    BY <1>0, <1>14, TimeAssumption DEF Tick, rowVars, forgeVars, TypeOK
  <2>4. /\ connected' \in BOOLEAN /\ failed' \in BOOLEAN /\ inFlight' \subseteq Process
         /\ truth' \in {"public", "private", "gone"}
         /\ announced' \subseteq {"publicized", "privatized"}
    BY <1>0, <1>14 DEF Tick, forgeVars, TypeOK
  <2> QED BY <2>1, <2>2, <2>3, <2>4 DEF TypeOK
<1>15. CASE UNCHANGED vars
  BY <1>0, <1>15 DEF vars, TypeOK
<1> QED
  BY <1>1, <1>2, <1>3, <1>4, <1>5, <1>6, <1>7, <1>8, <1>9, <1>10, <1>11,
     <1>12, <1>13, <1>14, <1>15 DEF Next

\* Closers never ask, and whoever closes stores "private".
LEMMA KindStep == IndInv /\ [Next]_vars => KindInv'
<1> SUFFICES ASSUME IndInv, [Next]_vars PROVE KindInv'
  OBVIOUS
<1>0. TypeOK /\ KindInv
  BY DEF IndInv
<1>1. ASSUME NEW c \in Check, BeginCheck(c) PROVE KindInv'
  <2>1. \A b \in Check : pc'[b] /= "listing"
    BY <1>0, <1>1, ActorAssumption DEF BeginCheck, KindInv, Goto
  <2>2. \A b \in Closer : pc'[b] \in {"idle", "listing", "stamped", "done"}
    BY <1>0, <1>1, ActorAssumption DEF BeginCheck, KindInv, Goto
  <2>3. \A b \in Actor : pc'[b] = "stamped" => answer'[b] = "private"
    BY <1>0, <1>1, ActorAssumption DEF BeginCheck, KindInv, Goto
  <2> QED BY <2>1, <2>2, <2>3 DEF KindInv
<1>2. ASSUME NEW c \in Check, ResolveClient(c) PROVE KindInv'
  <2>1. \A b \in Check : pc'[b] /= "listing"
    BY <1>0, <1>2, ActorAssumption DEF ResolveClient, TypeOK, KindInv, Goto
  <2>2. \A b \in Closer : pc'[b] \in {"idle", "listing", "stamped", "done"}
    BY <1>0, <1>2, ActorAssumption DEF ResolveClient, TypeOK, KindInv, Goto
  <2>3. \A b \in Actor : pc'[b] = "stamped" => answer'[b] = "private"
    BY <1>0, <1>2, ActorAssumption DEF ResolveClient, TypeOK, KindInv, Goto
  <2> QED BY <2>1, <2>2, <2>3 DEF KindInv
<1>3. ASSUME NEW c \in Check, BeginRefresh(c) PROVE KindInv'
  <2>1. \A b \in Check : pc'[b] /= "listing"
    BY <1>0, <1>3, ActorAssumption DEF BeginRefresh, KindInv, Goto
  <2>2. \A b \in Closer : pc'[b] \in {"idle", "listing", "stamped", "done"}
    BY <1>0, <1>3, ActorAssumption DEF BeginRefresh, KindInv, Goto
  <2>3. \A b \in Actor : pc'[b] = "stamped" => answer'[b] = "private"
    BY <1>0, <1>3, ActorAssumption DEF BeginRefresh, KindInv, Goto
  <2> QED BY <2>1, <2>2, <2>3 DEF KindInv
<1>4. ASSUME NEW c \in Check, SkipRefresh(c) PROVE KindInv'
  <2>1. \A b \in Check : pc'[b] /= "listing"
    BY <1>0, <1>4, ActorAssumption DEF SkipRefresh, TypeOK, KindInv, Goto
  <2>2. \A b \in Closer : pc'[b] \in {"idle", "listing", "stamped", "done"}
    BY <1>0, <1>4, ActorAssumption DEF SkipRefresh, TypeOK, KindInv, Goto
  <2>3. \A b \in Actor : pc'[b] = "stamped" => answer'[b] = "private"
    BY <1>0, <1>4, ActorAssumption DEF SkipRefresh, Forget, TypeOK, KindInv,
       Goto
  <2> QED BY <2>1, <2>2, <2>3 DEF KindInv
<1>5. ASSUME NEW c \in Check, Answered(c) PROVE KindInv'
  <2>1. \A b \in Check : pc'[b] /= "listing"
    BY <1>0, <1>5, ActorAssumption DEF Answered, KindInv, Goto
  <2>2. \A b \in Closer : pc'[b] \in {"idle", "listing", "stamped", "done"}
    BY <1>0, <1>5, ActorAssumption DEF Answered, KindInv, Goto
  <2>3. \A b \in Actor : pc'[b] = "stamped" => answer'[b] = "private"
    BY <1>0, <1>5, ActorAssumption DEF Answered, KindInv, Goto
  <2> QED BY <2>1, <2>2, <2>3 DEF KindInv
<1>6. ASSUME NEW c \in Check, CloseUnverifiable(c) PROVE KindInv'
  <2>1. \A b \in Check : pc'[b] /= "listing"
    BY <1>0, <1>6, ActorAssumption DEF CloseUnverifiable, TypeOK, KindInv,
       Goto
  <2>2. \A b \in Closer : pc'[b] \in {"idle", "listing", "stamped", "done"}
    BY <1>0, <1>6, ActorAssumption DEF CloseUnverifiable, TypeOK, KindInv,
       Goto
  <2>3. \A b \in Actor : pc'[b] = "stamped" => answer'[b] = "private"
    BY <1>0, <1>6, ActorAssumption DEF CloseUnverifiable, Forget, TypeOK,
       KindInv, Goto
  <2> QED BY <2>1, <2>2, <2>3 DEF KindInv
<1>7. ASSUME NEW k \in Closer, MarkRepoPrivate(k) PROVE KindInv'
  <2>1. \A b \in Check : pc'[b] /= "listing"
    BY <1>0, <1>7, ActorAssumption DEF MarkRepoPrivate, KindInv, Goto
  <2>2. \A b \in Closer : pc'[b] \in {"idle", "listing", "stamped", "done"}
    BY <1>0, <1>7, ActorAssumption DEF MarkRepoPrivate, KindInv, Goto
  <2>3. \A b \in Actor : pc'[b] = "stamped" => answer'[b] = "private"
    BY <1>0, <1>7, ActorAssumption DEF MarkRepoPrivate, TypeOK, KindInv, Goto
  <2> QED BY <2>1, <2>2, <2>3 DEF KindInv
<1>8. ASSUME NEW k \in Closer, LoseConnection(k) PROVE KindInv'
  <2>1. \A b \in Check : pc'[b] /= "listing"
    BY <1>0, <1>8, ActorAssumption DEF LoseConnection, KindInv, Goto
  <2>2. \A b \in Closer : pc'[b] \in {"idle", "listing", "stamped", "done"}
    BY <1>0, <1>8, ActorAssumption DEF LoseConnection, KindInv, Goto
  <2>3. \A b \in Actor : pc'[b] = "stamped" => answer'[b] = "private"
    BY <1>0, <1>8, ActorAssumption DEF LoseConnection, KindInv, Goto
  <2> QED BY <2>1, <2>2, <2>3 DEF KindInv
<1>9. ASSUME NEW k \in Closer, MarkWorkspaceReposPrivate(k) PROVE KindInv'
  <2>1. \A b \in Check : pc'[b] /= "listing"
    BY <1>0, <1>9, ActorAssumption DEF MarkWorkspaceReposPrivate, TypeOK,
       KindInv, Goto
  <2>2. \A b \in Closer : pc'[b] \in {"idle", "listing", "stamped", "done"}
    BY <1>0, <1>9, ActorAssumption DEF MarkWorkspaceReposPrivate, TypeOK,
       KindInv, Goto
  <2>3. \A b \in Actor : pc'[b] = "stamped" => answer'[b] = "private"
    BY <1>0, <1>9, ActorAssumption DEF MarkWorkspaceReposPrivate, TypeOK,
       KindInv, Goto
  <2> QED BY <2>1, <2>2, <2>3 DEF KindInv
<1>10. ASSUME NEW a \in Actor, SetRepoVisibility(a) PROVE KindInv'
  <2>1. \A b \in Check : pc'[b] /= "listing"
    BY <1>0, <1>10, ActorAssumption DEF SetRepoVisibility, TypeOK, KindInv,
       Goto
  <2>2. \A b \in Closer : pc'[b] \in {"idle", "listing", "stamped", "done"}
    BY <1>0, <1>10, ActorAssumption DEF SetRepoVisibility, TypeOK, KindInv,
       Goto
  <2>3. \A b \in Actor : pc'[b] = "stamped" => answer'[b] = "private"
    BY <1>0, <1>10, ActorAssumption DEF SetRepoVisibility, Forget, TypeOK,
       KindInv, Goto
  <2> QED BY <2>1, <2>2, <2>3 DEF KindInv
<1>11. ASSUME NEW a \in Actor, GiveUp(a) PROVE KindInv'
  <2>1. \A b \in Check : pc'[b] /= "listing"
    BY <1>0, <1>11, ActorAssumption DEF GiveUp, TypeOK, KindInv, Goto
  <2>2. \A b \in Closer : pc'[b] \in {"idle", "listing", "stamped", "done"}
    BY <1>0, <1>11, ActorAssumption DEF GiveUp, TypeOK, KindInv, Goto
  <2>3. \A b \in Actor : pc'[b] = "stamped" => answer'[b] = "private"
    BY <1>0, <1>11, ActorAssumption DEF GiveUp, Forget, TypeOK, KindInv, Goto
  <2> QED BY <2>1, <2>2, <2>3 DEF KindInv
<1>12. CASE Reconnect
  <2>1. \A b \in Check : pc'[b] /= "listing"
    BY <1>0, <1>12, ActorAssumption DEF Reconnect, KindInv
  <2>2. \A b \in Closer : pc'[b] \in {"idle", "listing", "stamped", "done"}
    BY <1>0, <1>12, ActorAssumption DEF Reconnect, KindInv
  <2>3. \A b \in Actor : pc'[b] = "stamped" => answer'[b] = "private"
    BY <1>0, <1>12, ActorAssumption DEF Reconnect, KindInv
  <2> QED BY <2>1, <2>2, <2>3 DEF KindInv
<1>13. ASSUME NEW to \in {"public", "private", "gone"}, Flip(to) PROVE KindInv'
  <2>1. \A b \in Check : pc'[b] /= "listing"
    BY <1>0, <1>13, ActorAssumption DEF Flip, KindInv
  <2>2. \A b \in Closer : pc'[b] \in {"idle", "listing", "stamped", "done"}
    BY <1>0, <1>13, ActorAssumption DEF Flip, KindInv
  <2>3. \A b \in Actor : pc'[b] = "stamped" => answer'[b] = "private"
    BY <1>0, <1>13, ActorAssumption DEF Flip, KindInv
  <2> QED BY <2>1, <2>2, <2>3 DEF KindInv
<1>14. CASE Tick
  <2>1. \A b \in Check : pc'[b] /= "listing"
    BY <1>0, <1>14, ActorAssumption DEF Tick, KindInv
  <2>2. \A b \in Closer : pc'[b] \in {"idle", "listing", "stamped", "done"}
    BY <1>0, <1>14, ActorAssumption DEF Tick, KindInv
  <2>3. \A b \in Actor : pc'[b] = "stamped" => answer'[b] = "private"
    BY <1>0, <1>14, ActorAssumption DEF Tick, KindInv
  <2> QED BY <2>1, <2>2, <2>3 DEF KindInv
<1>15. CASE UNCHANGED vars
  BY <1>0, <1>15 DEF vars, KindInv
<1> QED
  BY <1>1, <1>2, <1>3, <1>4, <1>5, <1>6, <1>7, <1>8, <1>9, <1>10, <1>11,
     <1>12, <1>13, <1>14, <1>15 DEF Next

\* Stamps stay distinct and in the past.
LEMMA StampStep == IndInv /\ [Next]_vars => StampInv'
<1> SUFFICES ASSUME IndInv, [Next]_vars PROVE StampInv'
  OBVIOUS
<1>0. TypeOK /\ KindInv /\ StampInv
  BY DEF IndInv
<1>1. ASSUME NEW c \in Check, BeginCheck(c) PROVE StampInv'
  <2>1. checkedAt' <= now' /\ toldAt' <= checkedAt'
    BY <1>0, <1>1 DEF BeginCheck, rowVars, StampInv
  <2>2. \A b \in Actor : stamp'[b] <= now'
    BY <1>0, <1>1 DEF BeginCheck, StampInv
  <2>3. \A b \in Actor : Pending(b)' => stamp'[b] /= checkedAt'
    BY <1>0, <1>1 DEF BeginCheck, rowVars, StampInv, Pending, Goto
  <2>4. \A b, d \in Actor :
         Pending(b)' /\ Pending(d)' /\ stamp'[b] = stamp'[d] => b = d
    BY <1>0, <1>1 DEF BeginCheck, StampInv, Pending, Goto
  <2> QED BY <2>1, <2>2, <2>3, <2>4 DEF StampInv
<1>2. ASSUME NEW c \in Check, ResolveClient(c) PROVE StampInv'
  <2>1. checkedAt' <= now' /\ toldAt' <= checkedAt'
    BY <1>0, <1>2 DEF ResolveClient, rowVars, StampInv
  <2>2. \A b \in Actor : stamp'[b] <= now'
    BY <1>0, <1>2 DEF ResolveClient, StampInv
  <2>3. \A b \in Actor : Pending(b)' => stamp'[b] /= checkedAt'
    BY <1>0, <1>2 DEF ResolveClient, rowVars, TypeOK, StampInv, Pending, Goto
  <2>4. \A b, d \in Actor :
         Pending(b)' /\ Pending(d)' /\ stamp'[b] = stamp'[d] => b = d
    BY <1>0, <1>2 DEF ResolveClient, TypeOK, StampInv, Pending, Goto
  <2> QED BY <2>1, <2>2, <2>3, <2>4 DEF StampInv
<1>3. ASSUME NEW c \in Check, BeginRefresh(c) PROVE StampInv'
  <2>1. checkedAt' <= now' /\ toldAt' <= checkedAt'
    BY <1>0, <1>3 DEF BeginRefresh, Stamp, rowVars, TypeOK, StampInv
  <2>2. \A b \in Actor : stamp'[b] <= now'
    BY <1>0, <1>3 DEF BeginRefresh, Stamp, TypeOK, StampInv
  <2>3. \A b \in Actor : Pending(b)' => stamp'[b] /= checkedAt'
    BY <1>0, <1>3 DEF BeginRefresh, Stamp, rowVars, TypeOK, StampInv, Pending,
       Goto
  <2>4. \A b, d \in Actor :
         Pending(b)' /\ Pending(d)' /\ stamp'[b] = stamp'[d] => b = d
    BY <1>0, <1>3 DEF BeginRefresh, Stamp, TypeOK, StampInv, Pending, Goto
  <2> QED BY <2>1, <2>2, <2>3, <2>4 DEF StampInv
<1>4. ASSUME NEW c \in Check, SkipRefresh(c) PROVE StampInv'
  <2>1. checkedAt' <= now' /\ toldAt' <= checkedAt'
    BY <1>0, <1>4 DEF SkipRefresh, rowVars, StampInv
  <2>2. \A b \in Actor : stamp'[b] <= now'
    <3>1. stamp' = [stamp EXCEPT ![c] = 0] /\ now' = now
      BY <1>4 DEF SkipRefresh, Forget
    <3> QED BY <1>0, <3>1 DEF TypeOK, StampInv
  <2>3. \A b \in Actor : Pending(b)' => stamp'[b] /= checkedAt'
    BY <1>0, <1>4 DEF SkipRefresh, Forget, rowVars, TypeOK, StampInv, Pending,
       Goto
  <2>4. \A b, d \in Actor :
         Pending(b)' /\ Pending(d)' /\ stamp'[b] = stamp'[d] => b = d
    BY <1>0, <1>4 DEF SkipRefresh, Forget, TypeOK, StampInv, Pending, Goto
  <2> QED BY <2>1, <2>2, <2>3, <2>4 DEF StampInv
<1>5. ASSUME NEW c \in Check, Answered(c) PROVE StampInv'
  <2>1. checkedAt' <= now' /\ toldAt' <= checkedAt'
    BY <1>0, <1>5 DEF Answered, rowVars, StampInv
  <2>2. \A b \in Actor : stamp'[b] <= now'
    BY <1>0, <1>5 DEF Answered, StampInv
  <2>3. \A b \in Actor : Pending(b)' => stamp'[b] /= checkedAt'
    BY <1>0, <1>5 DEF Answered, rowVars, StampInv, Pending, Goto
  <2>4. \A b, d \in Actor :
         Pending(b)' /\ Pending(d)' /\ stamp'[b] = stamp'[d] => b = d
    BY <1>0, <1>5 DEF Answered, StampInv, Pending, Goto
  <2> QED BY <2>1, <2>2, <2>3, <2>4 DEF StampInv
<1>6. ASSUME NEW c \in Check, CloseUnverifiable(c) PROVE StampInv'
  <2>1. UNCHANGED <<checkedAt, toldAt>>
    BY <1>6 DEF CloseUnverifiable, rowVars
  <2>2. CASE copy[c] = "public" /\ ~connected
    <3>1. /\ now' = now + 1 /\ stamp' = [stamp EXCEPT ![c] = now + 1]
          /\ pc' = [pc EXCEPT ![c] = "stamped"]
      BY <1>6, <2>2 DEF CloseUnverifiable, Stamp, Goto
    <3> QED BY <1>0, <2>1, <3>1 DEF TypeOK, StampInv, Pending
  <2>3. CASE ~(copy[c] = "public" /\ ~connected)
    <3>1. /\ now' = now /\ stamp' = [stamp EXCEPT ![c] = 0]
          /\ pc' = [pc EXCEPT ![c] = "done"]
      BY <1>6, <2>3 DEF CloseUnverifiable, Forget, Goto
    <3> QED BY <1>0, <2>1, <3>1 DEF TypeOK, StampInv, Pending
  <2> QED BY <2>2, <2>3
<1>7. ASSUME NEW k \in Closer, MarkRepoPrivate(k) PROVE StampInv'
  <2>1. checkedAt' <= now' /\ toldAt' <= checkedAt'
    BY <1>0, <1>7 DEF MarkRepoPrivate, Stamp, rowVars, TypeOK, StampInv
  <2>2. \A b \in Actor : stamp'[b] <= now'
    BY <1>0, <1>7 DEF MarkRepoPrivate, Stamp, TypeOK, StampInv
  <2>3. \A b \in Actor : Pending(b)' => stamp'[b] /= checkedAt'
    BY <1>0, <1>7 DEF MarkRepoPrivate, Stamp, rowVars, TypeOK, StampInv,
       Pending, Goto
  <2>4. \A b, d \in Actor :
         Pending(b)' /\ Pending(d)' /\ stamp'[b] = stamp'[d] => b = d
    BY <1>0, <1>7 DEF MarkRepoPrivate, Stamp, TypeOK, StampInv, Pending, Goto
  <2> QED BY <2>1, <2>2, <2>3, <2>4 DEF StampInv
<1>8. ASSUME NEW k \in Closer, LoseConnection(k) PROVE StampInv'
  <2>1. checkedAt' <= now' /\ toldAt' <= checkedAt'
    BY <1>0, <1>8 DEF LoseConnection, rowVars, StampInv
  <2>2. \A b \in Actor : stamp'[b] <= now'
    BY <1>0, <1>8 DEF LoseConnection, StampInv
  <2>3. \A b \in Actor : Pending(b)' => stamp'[b] /= checkedAt'
    BY <1>0, <1>8 DEF LoseConnection, rowVars, StampInv, Pending, Goto
  <2>4. \A b, d \in Actor :
         Pending(b)' /\ Pending(d)' /\ stamp'[b] = stamp'[d] => b = d
    BY <1>0, <1>8 DEF LoseConnection, StampInv, Pending, Goto
  <2> QED BY <2>1, <2>2, <2>3, <2>4 DEF StampInv
<1>9. ASSUME NEW k \in Closer, MarkWorkspaceReposPrivate(k) PROVE StampInv'
  <2>1. checkedAt' <= now' /\ toldAt' <= checkedAt'
    BY <1>0, <1>9 DEF MarkWorkspaceReposPrivate, Stamp, rowVars, TypeOK,
       StampInv
  <2>2. \A b \in Actor : stamp'[b] <= now'
    BY <1>0, <1>9 DEF MarkWorkspaceReposPrivate, Stamp, TypeOK, StampInv
  <2>3. \A b \in Actor : Pending(b)' => stamp'[b] /= checkedAt'
    BY <1>0, <1>9 DEF MarkWorkspaceReposPrivate, Stamp, rowVars, TypeOK,
       StampInv, Pending, Goto
  <2>4. \A b, d \in Actor :
         Pending(b)' /\ Pending(d)' /\ stamp'[b] = stamp'[d] => b = d
    BY <1>0, <1>9 DEF MarkWorkspaceReposPrivate, Stamp, TypeOK, StampInv,
       Pending, Goto
  <2> QED BY <2>1, <2>2, <2>3, <2>4 DEF StampInv
<1>10. ASSUME NEW a \in Actor, SetRepoVisibility(a) PROVE StampInv'
  <2>1. checkedAt' <= now' /\ toldAt' <= checkedAt'
    <3>1. now' = now /\ checkedAt \in Nat /\ toldAt \in Nat /\ stamp[a] \in Nat
      BY <1>0, <1>10 DEF SetRepoVisibility, TypeOK
    <3>2. toldAt' \in {toldAt, stamp[a]}
      BY <1>10 DEF SetRepoVisibility
    <3>3. checkedAt' = IF checkedAt < stamp[a] THEN stamp[a] ELSE checkedAt
      BY <1>10 DEF SetRepoVisibility, rowVars
    <3> QED BY <1>0, <3>1, <3>2, <3>3 DEF StampInv, TypeOK
  <2>2. \A b \in Actor : stamp'[b] <= now'
    <3>1. stamp' = [stamp EXCEPT ![a] = 0] /\ now' = now
      BY <1>10 DEF SetRepoVisibility, Forget
    <3> QED BY <1>0, <3>1 DEF TypeOK, StampInv
  <2>3. \A b \in Actor : Pending(b)' => stamp'[b] /= checkedAt'
    BY <1>0, <1>10 DEF SetRepoVisibility, Forget, rowVars, TypeOK, StampInv,
       Pending, Goto
  <2>4. \A b, d \in Actor :
         Pending(b)' /\ Pending(d)' /\ stamp'[b] = stamp'[d] => b = d
    BY <1>0, <1>10 DEF SetRepoVisibility, Forget, TypeOK, StampInv, Pending,
       Goto
  <2> QED BY <2>1, <2>2, <2>3, <2>4 DEF StampInv
<1>11. ASSUME NEW a \in Actor, GiveUp(a) PROVE StampInv'
  <2>1. checkedAt' <= now' /\ toldAt' <= checkedAt'
    BY <1>0, <1>11 DEF GiveUp, rowVars, StampInv
  <2>2. \A b \in Actor : stamp'[b] <= now'
    <3>1. stamp' = [stamp EXCEPT ![a] = 0] /\ now' = now
      BY <1>11 DEF GiveUp, Forget
    <3> QED BY <1>0, <3>1 DEF TypeOK, StampInv
  <2>3. \A b \in Actor : Pending(b)' => stamp'[b] /= checkedAt'
    BY <1>0, <1>11 DEF GiveUp, Forget, rowVars, TypeOK, StampInv, Pending,
       Goto
  <2>4. \A b, d \in Actor :
         Pending(b)' /\ Pending(d)' /\ stamp'[b] = stamp'[d] => b = d
    BY <1>0, <1>11 DEF GiveUp, Forget, TypeOK, StampInv, Pending, Goto
  <2> QED BY <2>1, <2>2, <2>3, <2>4 DEF StampInv
<1>12. CASE Reconnect
  <2>1. checkedAt' <= now' /\ toldAt' <= checkedAt'
    BY <1>0, <1>12 DEF Reconnect, rowVars, StampInv
  <2>2. \A b \in Actor : stamp'[b] <= now'
    BY <1>0, <1>12 DEF Reconnect, StampInv
  <2>3. \A b \in Actor : Pending(b)' => stamp'[b] /= checkedAt'
    BY <1>0, <1>12 DEF Reconnect, rowVars, StampInv, Pending
  <2>4. \A b, d \in Actor :
         Pending(b)' /\ Pending(d)' /\ stamp'[b] = stamp'[d] => b = d
    BY <1>0, <1>12 DEF Reconnect, StampInv, Pending
  <2> QED BY <2>1, <2>2, <2>3, <2>4 DEF StampInv
<1>13. ASSUME NEW to \in {"public", "private", "gone"}, Flip(to) PROVE StampInv'
  <2>1. checkedAt' <= now' /\ toldAt' <= checkedAt'
    BY <1>0, <1>13 DEF Flip, rowVars, TypeOK, StampInv
  <2>2. \A b \in Actor : stamp'[b] <= now'
    BY <1>0, <1>13 DEF Flip, TypeOK, StampInv
  <2>3. \A b \in Actor : Pending(b)' => stamp'[b] /= checkedAt'
    BY <1>0, <1>13 DEF Flip, rowVars, StampInv, Pending
  <2>4. \A b, d \in Actor :
         Pending(b)' /\ Pending(d)' /\ stamp'[b] = stamp'[d] => b = d
    BY <1>0, <1>13 DEF Flip, StampInv, Pending
  <2> QED BY <2>1, <2>2, <2>3, <2>4 DEF StampInv
<1>14. CASE Tick
  <2>1. checkedAt' <= now' /\ toldAt' <= checkedAt'
    BY <1>0, <1>14 DEF Tick, rowVars, TypeOK, StampInv
  <2>2. \A b \in Actor : stamp'[b] <= now'
    BY <1>0, <1>14 DEF Tick, TypeOK, StampInv
  <2>3. \A b \in Actor : Pending(b)' => stamp'[b] /= checkedAt'
    BY <1>0, <1>14 DEF Tick, rowVars, StampInv, Pending
  <2>4. \A b, d \in Actor :
         Pending(b)' /\ Pending(d)' /\ stamp'[b] = stamp'[d] => b = d
    BY <1>0, <1>14 DEF Tick, StampInv, Pending
  <2> QED BY <2>1, <2>2, <2>3, <2>4 DEF StampInv
<1>15. CASE UNCHANGED vars
  BY <1>0, <1>15 DEF vars, StampInv, Pending
<1> QED
  BY <1>1, <1>2, <1>3, <1>4, <1>5, <1>6, <1>7, <1>8, <1>9, <1>10, <1>11,
     <1>12, <1>13, <1>14, <1>15 DEF Next

\* A public answer on its way predates the hiding of the repo.
LEMMA AnswerStep == IndInv /\ [Next]_vars => AnswerInv'
<1> SUFFICES ASSUME IndInv, [Next]_vars PROVE AnswerInv'
  OBVIOUS
<1>0. TypeOK /\ KindInv /\ StampInv /\ AnswerInv
  BY DEF IndInv
<1>1. ASSUME NEW c \in Check, BeginCheck(c) PROVE AnswerInv'
  BY <1>0, <1>1, ActorAssumption DEF BeginCheck, Goto, forgeVars, AnswerInv
<1>2. ASSUME NEW c \in Check, ResolveClient(c) PROVE AnswerInv'
  BY <1>0, <1>2, ActorAssumption DEF ResolveClient, Goto, forgeVars, TypeOK,
     AnswerInv
<1>3. ASSUME NEW c \in Check, BeginRefresh(c) PROVE AnswerInv'
  BY <1>0, <1>3, ActorAssumption DEF BeginRefresh, Stamp, Goto, forgeVars,
     AnswerInv
<1>4. ASSUME NEW c \in Check, SkipRefresh(c) PROVE AnswerInv'
  BY <1>0, <1>4, ActorAssumption DEF SkipRefresh, Forget, Goto, forgeVars,
     TypeOK, AnswerInv
<1>5. ASSUME NEW c \in Check, Answered(c) PROVE AnswerInv'
  BY <1>0, <1>5, ActorAssumption DEF Answered, Goto, forgeVars, TypeOK,
     AnswerInv
<1>6. ASSUME NEW c \in Check, CloseUnverifiable(c) PROVE AnswerInv'
  BY <1>0, <1>6, ActorAssumption DEF CloseUnverifiable, Stamp, Forget, Goto,
     forgeVars, TypeOK, AnswerInv
<1>7. ASSUME NEW k \in Closer, MarkRepoPrivate(k) PROVE AnswerInv'
  BY <1>0, <1>7, ActorAssumption DEF MarkRepoPrivate, Stamp, Goto, forgeVars,
     AnswerInv
<1>8. ASSUME NEW k \in Closer, LoseConnection(k) PROVE AnswerInv'
  BY <1>0, <1>8, ActorAssumption DEF LoseConnection, Goto, forgeVars,
     AnswerInv
<1>9. ASSUME NEW k \in Closer, MarkWorkspaceReposPrivate(k) PROVE AnswerInv'
  BY <1>0, <1>9, ActorAssumption DEF MarkWorkspaceReposPrivate, Stamp, Goto,
     forgeVars, TypeOK, AnswerInv
<1>10. ASSUME NEW a \in Actor, SetRepoVisibility(a) PROVE AnswerInv'
  BY <1>0, <1>10, ActorAssumption DEF SetRepoVisibility, Forget, Goto,
     forgeVars, TypeOK, AnswerInv
<1>11. ASSUME NEW a \in Actor, GiveUp(a) PROVE AnswerInv'
  BY <1>0, <1>11, ActorAssumption DEF GiveUp, Forget, Goto, forgeVars, TypeOK,
     AnswerInv
<1>12. CASE Reconnect
  BY <1>0, <1>12, ActorAssumption DEF Reconnect, forgeVars, AnswerInv
<1>13. ASSUME NEW to \in {"public", "private", "gone"}, Flip(to) PROVE AnswerInv'
  BY <1>0, <1>13, ActorAssumption DEF Flip, TypeOK, StampInv, AnswerInv
<1>14. CASE Tick
  BY <1>0, <1>14, ActorAssumption DEF Tick, forgeVars, AnswerInv
<1>15. CASE UNCHANGED vars
  BY <1>0, <1>15 DEF vars, AnswerInv
<1> QED
  BY <1>1, <1>2, <1>3, <1>4, <1>5, <1>6, <1>7, <1>8, <1>9, <1>10, <1>11,
     <1>12, <1>13, <1>14, <1>15 DEF Next

\* The in-flight guard outlives the question it guards.
LEMMA GuardStep == IndInv /\ [Next]_vars => GuardInv'
<1> SUFFICES ASSUME IndInv, [Next]_vars PROVE GuardInv'
  OBVIOUS
<1>0. TypeOK /\ KindInv /\ GuardInv /\ OneQuestionPerProcess
  BY DEF IndInv
<1>1. ASSUME NEW c \in Check, BeginCheck(c) PROVE GuardInv'
  BY <1>0, <1>1, ActorAssumption DEF BeginCheck, Goto, GuardInv
<1>2. ASSUME NEW c \in Check, ResolveClient(c) PROVE GuardInv'
  BY <1>0, <1>2, ActorAssumption DEF ResolveClient, Goto, TypeOK, GuardInv
<1>3. ASSUME NEW c \in Check, BeginRefresh(c) PROVE GuardInv'
  BY <1>0, <1>3, ActorAssumption DEF BeginRefresh, Goto, GuardInv
<1>4. ASSUME NEW c \in Check, SkipRefresh(c) PROVE GuardInv'
  BY <1>0, <1>4, ActorAssumption DEF SkipRefresh, Goto, TypeOK, GuardInv
<1>5. ASSUME NEW c \in Check, Answered(c) PROVE GuardInv'
  BY <1>0, <1>5, ActorAssumption DEF Answered, Goto, GuardInv
<1>6. ASSUME NEW c \in Check, CloseUnverifiable(c) PROVE GuardInv'
  BY <1>0, <1>6, ActorAssumption DEF CloseUnverifiable, Goto, TypeOK, GuardInv
<1>7. ASSUME NEW k \in Closer, MarkRepoPrivate(k) PROVE GuardInv'
  BY <1>0, <1>7, ActorAssumption DEF MarkRepoPrivate, Goto, GuardInv
<1>8. ASSUME NEW k \in Closer, LoseConnection(k) PROVE GuardInv'
  BY <1>0, <1>8, ActorAssumption DEF LoseConnection, Goto, GuardInv
<1>9. ASSUME NEW k \in Closer, MarkWorkspaceReposPrivate(k) PROVE GuardInv'
  BY <1>0, <1>9, ActorAssumption DEF MarkWorkspaceReposPrivate, Goto, TypeOK,
     GuardInv
<1>10. ASSUME NEW a \in Actor, SetRepoVisibility(a) PROVE GuardInv'
  BY <1>0, <1>10, ActorAssumption DEF SetRepoVisibility, EndRefresh, Goto,
     TypeOK, KindInv, GuardInv, OneQuestionPerProcess
<1>11. ASSUME NEW a \in Actor, GiveUp(a) PROVE GuardInv'
  BY <1>0, <1>11, ActorAssumption DEF GiveUp, EndRefresh, Goto, TypeOK,
     KindInv, GuardInv, OneQuestionPerProcess
<1>12. CASE Reconnect
  BY <1>0, <1>12, ActorAssumption DEF Reconnect, GuardInv
<1>13. ASSUME NEW to \in {"public", "private", "gone"}, Flip(to) PROVE GuardInv'
  BY <1>0, <1>13, ActorAssumption DEF Flip, GuardInv
<1>14. CASE Tick
  BY <1>0, <1>14, ActorAssumption DEF Tick, GuardInv
<1>15. CASE UNCHANGED vars
  BY <1>0, <1>15 DEF vars, GuardInv
<1> QED
  BY <1>1, <1>2, <1>3, <1>4, <1>5, <1>6, <1>7, <1>8, <1>9, <1>10, <1>11,
     <1>12, <1>13, <1>14, <1>15 DEF Next

\* No step stores a public answer asked for after the repo was hidden.
LEMMA HidingStep == IndInv /\ [Next]_vars => OpenPredatesHiding'
<1> SUFFICES ASSUME IndInv, [Next]_vars PROVE OpenPredatesHiding'
  OBVIOUS
<1>0. TypeOK /\ KindInv /\ StampInv /\ AnswerInv /\ OpenPredatesHiding
  BY DEF IndInv
<1>1. ASSUME NEW c \in Check, BeginCheck(c) PROVE OpenPredatesHiding'
  BY <1>0, <1>1, ActorAssumption DEF BeginCheck, rowVars, forgeVars,
     OpenPredatesHiding
<1>2. ASSUME NEW c \in Check, ResolveClient(c) PROVE OpenPredatesHiding'
  BY <1>0, <1>2, ActorAssumption DEF ResolveClient, rowVars, forgeVars,
     OpenPredatesHiding
<1>3. ASSUME NEW c \in Check, BeginRefresh(c) PROVE OpenPredatesHiding'
  BY <1>0, <1>3, ActorAssumption DEF BeginRefresh, rowVars, forgeVars,
     OpenPredatesHiding
<1>4. ASSUME NEW c \in Check, SkipRefresh(c) PROVE OpenPredatesHiding'
  BY <1>0, <1>4, ActorAssumption DEF SkipRefresh, rowVars, forgeVars,
     OpenPredatesHiding
<1>5. ASSUME NEW c \in Check, Answered(c) PROVE OpenPredatesHiding'
  BY <1>0, <1>5, ActorAssumption DEF Answered, rowVars, forgeVars,
     OpenPredatesHiding
<1>6. ASSUME NEW c \in Check, CloseUnverifiable(c) PROVE OpenPredatesHiding'
  BY <1>0, <1>6, ActorAssumption DEF CloseUnverifiable, rowVars, forgeVars,
     OpenPredatesHiding
<1>7. ASSUME NEW k \in Closer, MarkRepoPrivate(k) PROVE OpenPredatesHiding'
  BY <1>0, <1>7, ActorAssumption DEF MarkRepoPrivate, rowVars, forgeVars,
     OpenPredatesHiding
<1>8. ASSUME NEW k \in Closer, LoseConnection(k) PROVE OpenPredatesHiding'
  BY <1>0, <1>8, ActorAssumption DEF LoseConnection, rowVars, forgeVars,
     OpenPredatesHiding
<1>9. ASSUME NEW k \in Closer, MarkWorkspaceReposPrivate(k) PROVE OpenPredatesHiding'
  BY <1>0, <1>9, ActorAssumption DEF MarkWorkspaceReposPrivate, rowVars,
     forgeVars, OpenPredatesHiding
<1>10. ASSUME NEW a \in Actor, SetRepoVisibility(a) PROVE OpenPredatesHiding'
  BY <1>0, <1>10, ActorAssumption DEF SetRepoVisibility, rowVars, forgeVars,
     KindInv, AnswerInv, OpenPredatesHiding
<1>11. ASSUME NEW a \in Actor, GiveUp(a) PROVE OpenPredatesHiding'
  BY <1>0, <1>11, ActorAssumption DEF GiveUp, rowVars, forgeVars,
     OpenPredatesHiding
<1>12. CASE Reconnect
  BY <1>0, <1>12, ActorAssumption DEF Reconnect, rowVars, forgeVars,
     OpenPredatesHiding
<1>13. ASSUME NEW to \in {"public", "private", "gone"}, Flip(to) PROVE OpenPredatesHiding'
  BY <1>0, <1>13, ActorAssumption DEF Flip, rowVars, TypeOK, StampInv,
     OpenPredatesHiding
<1>14. CASE Tick
  BY <1>0, <1>14, ActorAssumption DEF Tick, rowVars, forgeVars,
     OpenPredatesHiding
<1>15. CASE UNCHANGED vars
  BY <1>0, <1>15 DEF vars, OpenPredatesHiding
<1> QED
  BY <1>1, <1>2, <1>3, <1>4, <1>5, <1>6, <1>7, <1>8, <1>9, <1>10, <1>11,
     <1>12, <1>13, <1>14, <1>15 DEF Next

\* No step reopens the repo on an answer older than the news.
LEMMA NewsStep == IndInv /\ [Next]_vars => NewsIsNotUndone'
<1> SUFFICES ASSUME IndInv, [Next]_vars PROVE NewsIsNotUndone'
  OBVIOUS
<1>0. TypeOK /\ KindInv /\ StampInv /\ NewsIsNotUndone
  BY DEF IndInv
<1>1. ASSUME NEW c \in Check, BeginCheck(c) PROVE NewsIsNotUndone'
  BY <1>0, <1>1, ActorAssumption DEF BeginCheck, rowVars, NewsIsNotUndone
<1>2. ASSUME NEW c \in Check, ResolveClient(c) PROVE NewsIsNotUndone'
  BY <1>0, <1>2, ActorAssumption DEF ResolveClient, rowVars, NewsIsNotUndone
<1>3. ASSUME NEW c \in Check, BeginRefresh(c) PROVE NewsIsNotUndone'
  BY <1>0, <1>3, ActorAssumption DEF BeginRefresh, rowVars, NewsIsNotUndone
<1>4. ASSUME NEW c \in Check, SkipRefresh(c) PROVE NewsIsNotUndone'
  BY <1>0, <1>4, ActorAssumption DEF SkipRefresh, rowVars, NewsIsNotUndone
<1>5. ASSUME NEW c \in Check, Answered(c) PROVE NewsIsNotUndone'
  BY <1>0, <1>5, ActorAssumption DEF Answered, rowVars, NewsIsNotUndone
<1>6. ASSUME NEW c \in Check, CloseUnverifiable(c) PROVE NewsIsNotUndone'
  BY <1>0, <1>6, ActorAssumption DEF CloseUnverifiable, rowVars,
     NewsIsNotUndone
<1>7. ASSUME NEW k \in Closer, MarkRepoPrivate(k) PROVE NewsIsNotUndone'
  BY <1>0, <1>7, ActorAssumption DEF MarkRepoPrivate, rowVars, NewsIsNotUndone
<1>8. ASSUME NEW k \in Closer, LoseConnection(k) PROVE NewsIsNotUndone'
  BY <1>0, <1>8, ActorAssumption DEF LoseConnection, rowVars, NewsIsNotUndone
<1>9. ASSUME NEW k \in Closer, MarkWorkspaceReposPrivate(k) PROVE NewsIsNotUndone'
  BY <1>0, <1>9, ActorAssumption DEF MarkWorkspaceReposPrivate, rowVars,
     NewsIsNotUndone
<1>10. ASSUME NEW a \in Actor, SetRepoVisibility(a) PROVE NewsIsNotUndone'
  <2>1. /\ checkedAt \in Nat /\ toldAt \in Nat /\ stamp[a] \in Nat
        /\ stamp[a] /= checkedAt /\ toldAt <= checkedAt
    BY <1>0, <1>10 DEF SetRepoVisibility, TypeOK, StampInv, Pending
  <2>2. toldAt' = toldAt \/ (toldAt' = stamp[a] /\ answer[a] = "private")
    BY <1>0, <1>10, ActorAssumption DEF SetRepoVisibility, KindInv
  <2>3. CASE checkedAt < stamp[a]
    BY <1>10, <2>1, <2>2, <2>3 DEF SetRepoVisibility, NewsIsNotUndone
  <2>4. CASE ~(checkedAt < stamp[a])
    BY <1>0, <1>10, <2>1, <2>2, <2>4 DEF SetRepoVisibility, rowVars,
       NewsIsNotUndone
  <2> QED BY <2>3, <2>4
<1>11. ASSUME NEW a \in Actor, GiveUp(a) PROVE NewsIsNotUndone'
  BY <1>0, <1>11, ActorAssumption DEF GiveUp, rowVars, NewsIsNotUndone
<1>12. CASE Reconnect
  BY <1>0, <1>12, ActorAssumption DEF Reconnect, rowVars, NewsIsNotUndone
<1>13. ASSUME NEW to \in {"public", "private", "gone"}, Flip(to) PROVE NewsIsNotUndone'
  BY <1>0, <1>13, ActorAssumption DEF Flip, rowVars, NewsIsNotUndone
<1>14. CASE Tick
  BY <1>0, <1>14, ActorAssumption DEF Tick, rowVars, NewsIsNotUndone
<1>15. CASE UNCHANGED vars
  BY <1>0, <1>15 DEF vars, NewsIsNotUndone
<1> QED
  BY <1>1, <1>2, <1>3, <1>4, <1>5, <1>6, <1>7, <1>8, <1>9, <1>10, <1>11,
     <1>12, <1>13, <1>14, <1>15 DEF Next

\* No step makes a process ask twice at once.
LEMMA QuestionStep == IndInv /\ [Next]_vars => OneQuestionPerProcess'
<1> SUFFICES ASSUME IndInv, [Next]_vars PROVE OneQuestionPerProcess'
  OBVIOUS
<1>0. TypeOK /\ KindInv /\ GuardInv /\ OneQuestionPerProcess
  BY DEF IndInv
<1>1. ASSUME NEW c \in Check, BeginCheck(c) PROVE OneQuestionPerProcess'
  BY <1>0, <1>1, ActorAssumption DEF BeginCheck, Goto, OneQuestionPerProcess
<1>2. ASSUME NEW c \in Check, ResolveClient(c) PROVE OneQuestionPerProcess'
  BY <1>0, <1>2, ActorAssumption DEF ResolveClient, Goto, TypeOK,
     OneQuestionPerProcess
<1>3. ASSUME NEW c \in Check, BeginRefresh(c) PROVE OneQuestionPerProcess'
  BY <1>0, <1>3, ActorAssumption DEF BeginRefresh, Goto, GuardInv,
     OneQuestionPerProcess
<1>4. ASSUME NEW c \in Check, SkipRefresh(c) PROVE OneQuestionPerProcess'
  BY <1>0, <1>4, ActorAssumption DEF SkipRefresh, Goto, TypeOK,
     OneQuestionPerProcess
<1>5. ASSUME NEW c \in Check, Answered(c) PROVE OneQuestionPerProcess'
  BY <1>0, <1>5, ActorAssumption DEF Answered, Goto, OneQuestionPerProcess
<1>6. ASSUME NEW c \in Check, CloseUnverifiable(c) PROVE OneQuestionPerProcess'
  BY <1>0, <1>6, ActorAssumption DEF CloseUnverifiable, Goto, TypeOK,
     OneQuestionPerProcess
<1>7. ASSUME NEW k \in Closer, MarkRepoPrivate(k) PROVE OneQuestionPerProcess'
  BY <1>0, <1>7, ActorAssumption DEF MarkRepoPrivate, Goto,
     OneQuestionPerProcess
<1>8. ASSUME NEW k \in Closer, LoseConnection(k) PROVE OneQuestionPerProcess'
  BY <1>0, <1>8, ActorAssumption DEF LoseConnection, Goto,
     OneQuestionPerProcess
<1>9. ASSUME NEW k \in Closer, MarkWorkspaceReposPrivate(k) PROVE OneQuestionPerProcess'
  BY <1>0, <1>9, ActorAssumption DEF MarkWorkspaceReposPrivate, Goto, TypeOK,
     OneQuestionPerProcess
<1>10. ASSUME NEW a \in Actor, SetRepoVisibility(a) PROVE OneQuestionPerProcess'
  BY <1>0, <1>10, ActorAssumption DEF SetRepoVisibility, Goto, TypeOK,
     OneQuestionPerProcess
<1>11. ASSUME NEW a \in Actor, GiveUp(a) PROVE OneQuestionPerProcess'
  BY <1>0, <1>11, ActorAssumption DEF GiveUp, Goto, TypeOK,
     OneQuestionPerProcess
<1>12. CASE Reconnect
  BY <1>0, <1>12, ActorAssumption DEF Reconnect, OneQuestionPerProcess
<1>13. ASSUME NEW to \in {"public", "private", "gone"}, Flip(to) PROVE OneQuestionPerProcess'
  BY <1>0, <1>13, ActorAssumption DEF Flip, OneQuestionPerProcess
<1>14. CASE Tick
  BY <1>0, <1>14, ActorAssumption DEF Tick, OneQuestionPerProcess
<1>15. CASE UNCHANGED vars
  BY <1>0, <1>15 DEF vars, OneQuestionPerProcess
<1> QED
  BY <1>1, <1>2, <1>3, <1>4, <1>5, <1>6, <1>7, <1>8, <1>9, <1>10, <1>11,
     <1>12, <1>13, <1>14, <1>15 DEF Next

\* The invariant holds in every state.
THEOREM Invariance == Spec => []IndInv
<1>1. IndInv /\ [Next]_vars => IndInv'
  BY TypeStep, KindStep, StampStep, AnswerStep, GuardStep, HidingStep, NewsStep,
     QuestionStep DEF IndInv
<1> QED BY InitInv, <1>1, PTL DEF Spec

----------------------------------------------------------------------------
\* A hidden repo is cached public only on an answer asked for before it was
\* hidden: RefreshVisibility stamps the question, not the answer.
THEOREM OpenIsOld == Spec => []OpenPredatesHiding
<1>1. IndInv => OpenPredatesHiding
  BY DEF IndInv
<1> QED BY Invariance, <1>1, PTL

\* A privatized webhook is not undone by an answer asked for before it, in
\* whatever order SetRepoVisibility's writes land.
THEOREM NewsStands == Spec => []NewsIsNotUndone
<1>1. IndInv => NewsIsNotUndone
  BY DEF IndInv
<1> QED BY Invariance, <1>1, PTL

\* A process asks the forge about a repo once at a time.
THEOREM OneQuestion == Spec => []OneQuestionPerProcess
<1>1. IndInv => OneQuestionPerProcess
  BY DEF IndInv
<1> QED BY Invariance, <1>1, PTL
=============================================================================
