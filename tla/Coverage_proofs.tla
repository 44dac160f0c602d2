--------------------------- MODULE Coverage_proofs ---------------------------
(* Theorems about how an upload's coverage is measured, merged and compared:  *)
(* about GateBaseline, for any commits, parts, search depth, bounds of the    *)
(* gate and number of uploads, and about the calls of Pipeline that merge the *)
(* parts of a commit, pair a diff's paths with a report's files, merge what   *)
(* the parts measured of the changed lines, walk over spans of lines, match   *)
(* ignore patterns and accept a pull request's parts, for any of their inputs. *)
(* The two modules share no variable; each theorem is about one of them.      *)
EXTENDS GateBaseline, Pipeline, FiniteSetTheorems, SequenceTheorems,
        WellFoundedInduction, TLAPS

----------------------------------------------------------------------------
(* GateBaseline: the inductive invariant, in parts. *)

Reported == {c \in Commit : HasReport(c)}

Types ==
    /\ DOMAIN covered = Commit
    /\ DOMAIN report = Commit
    /\ newest \in [Commit -> Origin]
    /\ pending \subseteq Commit \X Origin

\* Ids are given in the order of the first reports, so no two reports share one.
IdsInv ==
    /\ \A c \in Commit : HasReport(c) => report[c].id \in 1 .. Cardinality(Reported)
    /\ \A c, d \in Reported : report[c].id = report[d].id => c = d

\* A report that has seen every upload of its commit holds what they cover.
FreshInv ==
    \A c \in Commit \ stale : HasReport(c) =>
        /\ report[c].covered = Over(c, PartsOf(c)).covered
        /\ report[c].total = Over(c, PartsOf(c)).total

IndInv == Types /\ IdsInv /\ FreshInv

----------------------------------------------------------------------------
(* The reports of the table. *)

\* There are finitely many, and the next id is beyond them all.
LEMMA ReportedIsFinite ==
    /\ IsFiniteSet(Reported) /\ Cardinality(Reported) \in Nat
    /\ NextId = Cardinality(Reported) + 1
<1>1. IsFiniteSet(Commit)
  BY GateAssumption
<1>2. IsFiniteSet(Reported)
  BY <1>1, FS_Subset DEF Reported
<1>3. Cardinality(Reported) \in Nat
  BY <1>2, FS_CardinalityType
<1> QED BY <1>2, <1>3 DEF NextId, Reported

\* A non-empty set of reports has a newest one, which LIMIT 1 selects.
LEMMA NewestIsNewest ==
    ASSUME IdsInv, NEW S \in SUBSET Reported, S /= {}
    PROVE  Newest(S) \in S /\ \A d \in S : report[d].id <= report[Newest(S)].id
<1> DEFINE Age(c) == NextId - report[c].id
           T == {Age(c) : c \in S}
<1>0. NextId \in Nat
  BY ReportedIsFinite
<1>1. \A c \in S : Age(c) \in Nat /\ report[c].id \in Nat
  BY ReportedIsFinite DEF IdsInv, Reported
<1>2. T \subseteq Nat /\ T /= {}
  BY <1>1
<1>3. PICK x \in T : \A y \in T : ~(<<y, x>> \in OpToRel(<, Nat))
  <2> HIDE DEF T
  <2> QED BY <1>2, WFMin, NatLessThanWellFounded
<1>4. PICK c \in S : x = Age(c)
  BY <1>3
<1>5. \A d \in S : ~(Age(d) < Age(c))
  <2> SUFFICES ASSUME NEW d \in S PROVE ~(Age(d) < Age(c))
    OBVIOUS
  <2>1. ~(<<Age(d), Age(c)>> \in OpToRel(<, Nat))
    BY <1>3, <1>4
  <2>2. Age(d) \in Nat /\ Age(c) \in Nat
    BY <1>1
  <2> HIDE DEF Age
  <2> QED BY <2>1, <2>2 DEF OpToRel
<1>6. \A d \in S : report[d].id <= report[c].id
  BY <1>0, <1>1, <1>5
<1> HIDE DEF Age, T
<1> QED BY <1>6 DEF Newest

----------------------------------------------------------------------------
(* What the walk of comparableReport answers. *)

Newer(S, b) == {d \in S : report[d].id > report[b].id}

\* Of the n newest in a set of reports, the newest that has all the parts.
FirstOf(S, n, parts) ==
    {b \in S : /\ parts \subseteq PartsOf(b)
               /\ \A d \in S : parts \subseteq PartsOf(d) => report[d].id <= report[b].id
               /\ Cardinality(Newer(S, b)) < n}

\* Nothing is left to look at, or nothing may be looked at any more.
LEMMA FirstOfNone ==
    ASSUME NEW S \in SUBSET Reported, NEW n \in Nat, NEW parts, n = 0 \/ S = {}
    PROVE  FirstOf(S, n, parts) = {}
<1>1. \A b : Newer(S, b) \in SUBSET Reported
  BY DEF Newer
<1>2. \A b : Cardinality(Newer(S, b)) \in Nat
  BY <1>1, ReportedIsFinite, FS_Subset, FS_CardinalityType
<1>3. CASE S = {}
  BY <1>3 DEF FirstOf
<1>4. CASE n = 0
  BY <1>2, <1>4 DEF FirstOf
<1> QED BY <1>3, <1>4

\* The newest is the answer if it has all the parts.
LEMMA FirstOfFound ==
    ASSUME IdsInv, NEW S \in SUBSET Reported, S /= {}, NEW n \in Nat \ {0}, NEW parts,
           parts \subseteq PartsOf(Newest(S))
    PROVE  FirstOf(S, n, parts) = {Newest(S)}
<1> DEFINE last == Newest(S)
<1>1. last \in S /\ \A d \in S : report[d].id <= report[last].id
  BY NewestIsNewest
<1>2. \A d \in S : report[d].id \in Int
  BY ReportedIsFinite DEF IdsInv, Reported
<1> HIDE DEF last
<1>3. Newer(S, last) = {}
  BY <1>1, <1>2 DEF Newer
<1>4. last \in FirstOf(S, n, parts)
  BY <1>1, <1>3, FS_EmptySet DEF FirstOf, last
<1>5. \A b \in FirstOf(S, n, parts) : b = last
  BY <1>1, <1>2 DEF FirstOf, last, IdsInv
<1> QED BY <1>4, <1>5 DEF last

\* If it lacks one, the search goes on below its id, one step shorter.
LEMMA FirstOfGoesOn ==
    ASSUME IdsInv, NEW S \in SUBSET Reported, S /= {}, NEW n \in Nat \ {0}, NEW parts,
           ~(parts \subseteq PartsOf(Newest(S)))
    PROVE  LET below == {b \in S : report[b].id < report[Newest(S)].id}
           IN  FirstOf(S, n, parts) = FirstOf(below, n - 1, parts)
<1> DEFINE last == Newest(S)
           below == {b \in S : report[b].id < report[last].id}
<1>1. last \in S /\ \A d \in S : report[d].id <= report[last].id
  BY NewestIsNewest
<1>2. \A d \in S : report[d].id \in Int
  BY ReportedIsFinite DEF IdsInv, Reported
<1>0. ~(parts \subseteq PartsOf(last))
  OBVIOUS
<1> HIDE DEF last
<1>3. \A b \in S : b /= last => report[b].id < report[last].id
  BY <1>1, <1>2 DEF IdsInv
<1>4. below \subseteq S /\ last \notin below /\ S = below \cup {last}
  BY <1>1, <1>2, <1>3
<1> HIDE DEF below
<1>5. ASSUME NEW b \in below PROVE Cardinality(Newer(S, b)) = Cardinality(Newer(below, b)) + 1
  <2>1. b \in S /\ b /= last
    BY <1>4
  <2>2. Newer(S, b) = Newer(below, b) \cup {last} /\ last \notin Newer(below, b)
    BY <1>1, <1>2, <1>3, <1>4, <2>1 DEF Newer
  <2>3. Newer(below, b) \in SUBSET Reported
    BY <1>4 DEF Newer
  <2>4. IsFiniteSet(Newer(below, b))
    BY <2>3, ReportedIsFinite, FS_Subset
  <2> QED BY <2>2, <2>4, FS_AddElement
<1>6. ASSUME NEW b \in below
      PROVE  Cardinality(Newer(S, b)) < n <=> Cardinality(Newer(below, b)) < n - 1
  <2>1. Newer(below, b) \in SUBSET Reported
    BY <1>4 DEF Newer
  <2>2. Cardinality(Newer(below, b)) \in Nat
    BY <2>1, ReportedIsFinite, FS_Subset, FS_CardinalityType
  <2> QED BY <1>5, <2>2
<1>7. \A b : b \in FirstOf(S, n, parts) <=> b \in FirstOf(below, n - 1, parts)
  BY <1>0, <1>4, <1>6 DEF FirstOf
<1> QED BY <1>7 DEF below, last

----------------------------------------------------------------------------
(* The search is that, though it goes step by step. *)

\* The reports it may look at below an id, and one round of its loop.
Below(c, before) == {b \in Passed(c) : report[b].id < before}
Round(c, parts, n, before, search) ==
    IF n = 0 \/ Below(c, before) = {} THEN {}
    ELSE IF parts \subseteq PartsOf(Newest(Below(c, before)))
    THEN {Newest(Below(c, before))}
    ELSE search[n - 1][report[Newest(Below(c, before))].id]
Rounds(c, parts, search) ==
    [n \in 0 .. Depth |-> [before \in 1 .. NextId |-> Round(c, parts, n, before, search)]]

\* The recursive definition, by its unfolding.
LEMMA ComparableReportUnfolds ==
    ASSUME NEW c, NEW parts
    PROVE  ComparableReport(c, parts) =
             (CHOOSE search : search = Rounds(c, parts, search))[Depth][NextId]
BY DEF ComparableReport, Rounds, Round, Below

Answers(c, parts) ==
    [n \in 0 .. Depth |-> [before \in 1 .. NextId |-> FirstOf(Below(c, before), n, parts)]]

\* What is looked at is reported, and its newest has an id to go on from.
LEMMA BelowIsReported ==
    ASSUME IdsInv, NEW c, NEW before \in 1 .. NextId
    PROVE  /\ Below(c, before) \in SUBSET Reported
           /\ Below(c, before) /= {} => report[Newest(Below(c, before))].id \in 1 .. NextId
<1>1. Below(c, before) \in SUBSET Reported
  BY DEF Below, Passed, Reported
<1>2. ASSUME Below(c, before) /= {}
      PROVE  report[Newest(Below(c, before))].id \in 1 .. NextId
  <2>1. Newest(Below(c, before)) \in Reported
    BY <1>1, <1>2, NewestIsNewest
  <2> QED BY <2>1, ReportedIsFinite DEF IdsInv, Reported
<1> QED BY <1>1, <1>2

\* The reports below the newest of those below an id.
LEMMA BelowTheNewest ==
    ASSUME IdsInv, NEW c, NEW before \in 1 .. NextId, Below(c, before) /= {}
    PROVE  {b \in Below(c, before) : report[b].id < report[Newest(Below(c, before))].id}
             = Below(c, report[Newest(Below(c, before))].id)
<1> DEFINE last == Newest(Below(c, before))
<1>1. last \in Below(c, before)
  BY BelowIsReported, NewestIsNewest
<1>2. \A b \in Passed(c) : report[b].id \in Int
  BY ReportedIsFinite DEF IdsInv, Reported, Passed
<1>3. report[last].id < before
  BY <1>1 DEF Below
<1>4. last \in Passed(c)
  BY <1>1 DEF Below
<1>5. before \in Int
  BY ReportedIsFinite
<1> HIDE DEF last
<1> QED BY <1>2, <1>3, <1>4, <1>5 DEF Below, last

\* One round of the loop gives the answer if the rounds after it do.
LEMMA RoundAnswers ==
    ASSUME IdsInv, NEW c, NEW parts, NEW n \in 0 .. Depth, NEW before \in 1 .. NextId,
           NEW search,
           n > 0 => \A b \in 1 .. NextId : search[n - 1][b] = FirstOf(Below(c, b), n - 1, parts)
    PROVE  Round(c, parts, n, before, search) = FirstOf(Below(c, before), n, parts)
<1> DEFINE S == Below(c, before)
<1>0. n \in Nat
  BY GateAssumption
<1>1. S \in SUBSET Reported /\ (S /= {} => report[Newest(S)].id \in 1 .. NextId)
  BY BelowIsReported
<1>2. CASE n = 0 \/ S = {}
  BY <1>0, <1>1, <1>2, FirstOfNone DEF Round
<1>3. CASE n /= 0 /\ S /= {} /\ parts \subseteq PartsOf(Newest(S))
  BY <1>0, <1>1, <1>3, FirstOfFound DEF Round
<1>4. CASE n /= 0 /\ S /= {} /\ ~(parts \subseteq PartsOf(Newest(S)))
  <2>1. Round(c, parts, n, before, search) = search[n - 1][report[Newest(S)].id]
    BY <1>4 DEF Round
  <2>2. search[n - 1][report[Newest(S)].id] = FirstOf(Below(c, report[Newest(S)].id), n - 1, parts)
    BY <1>0, <1>1, <1>4
  <2>3. Below(c, report[Newest(S)].id) = {b \in S : report[b].id < report[Newest(S)].id}
    BY <1>4, BelowTheNewest
  <2> HIDE DEF S
  <2>4. FirstOf(S, n, parts) = FirstOf({b \in S : report[b].id < report[Newest(S)].id}, n - 1, parts)
    BY <1>0, <1>1, <1>4, FirstOfGoesOn
  <2> QED BY <2>1, <2>2, <2>3, <2>4 DEF S
<1> QED BY <1>2, <1>3, <1>4

\* So there is a function that the recursive definition defines,
LEMMA AnswersAreRounds ==
    ASSUME IdsInv, NEW c, NEW parts
    PROVE  Answers(c, parts) = Rounds(c, parts, Answers(c, parts))
<1>1. ASSUME NEW n \in 0 .. Depth, NEW before \in 1 .. NextId
      PROVE  Round(c, parts, n, before, Answers(c, parts)) = FirstOf(Below(c, before), n, parts)
  <2>1. ASSUME n > 0, NEW b \in 1 .. NextId
        PROVE  Answers(c, parts)[n - 1][b] = FirstOf(Below(c, b), n - 1, parts)
    <3>1. n - 1 \in 0 .. Depth
      BY <2>1, GateAssumption
    <3> QED BY <3>1 DEF Answers
  <2> QED BY <2>1, RoundAnswers
<1> QED BY <1>1 DEF Answers, Rounds

\* and no other: the least number of rounds that answered otherwise would need
\* a smaller one that did.
LEMMA RoundsAreAnswers ==
    ASSUME IdsInv, NEW c, NEW parts, NEW search, search = Rounds(c, parts, search)
    PROVE  \A n \in 0 .. Depth, before \in 1 .. NextId :
             search[n][before] = FirstOf(Below(c, before), n, parts)
<1> DEFINE Good(n) == \A before \in 1 .. NextId :
                          search[n][before] = FirstOf(Below(c, before), n, parts)
           Bad == {n \in 0 .. Depth : ~Good(n)}
<1>1. SUFFICES ASSUME Bad /= {} PROVE FALSE
  OBVIOUS
<1>2. Bad \subseteq Nat
  BY GateAssumption
<1>3. PICK n \in Bad : \A m \in Bad : ~(<<m, n>> \in OpToRel(<, Nat))
  <2> HIDE DEF Bad
  <2> QED BY <1>1, <1>2, WFMin, NatLessThanWellFounded
<1>4. n \in 0 .. Depth /\ n \in Nat /\ Depth \in Nat
  BY GateAssumption
<1>5. n > 0 => Good(n - 1)
  <2> SUFFICES ASSUME n > 0, ~Good(n - 1) PROVE FALSE
    OBVIOUS
  <2> HIDE DEF Good
  <2>1. n - 1 \in Bad /\ n - 1 \in Nat /\ n - 1 < n
    BY <1>4
  <2>2. <<n - 1, n>> \in OpToRel(<, Nat)
    BY <1>4, <2>1 DEF OpToRel
  <2> QED BY <1>3, <2>1, <2>2
<1>6. ASSUME NEW before \in 1 .. NextId
      PROVE  search[n][before] = FirstOf(Below(c, before), n, parts)
  <2>1. search[n][before] = Round(c, parts, n, before, search)
    <3>1. Rounds(c, parts, search)[n][before] = Round(c, parts, n, before, search)
      BY <1>4 DEF Rounds
    <3> QED BY <3>1
  <2>2. Round(c, parts, n, before, search) = FirstOf(Below(c, before), n, parts)
    BY <1>4, <1>5, RoundAnswers
  <2> QED BY <2>1, <2>2
<1> QED BY <1>3, <1>6

\* What comparableReport answers.
LEMMA ComparableReportIsFirst ==
    ASSUME IdsInv, NEW c, NEW parts
    PROVE  ComparableReport(c, parts) = FirstOf(Passed(c), Depth, parts)
<1> DEFINE search == CHOOSE f : f = Rounds(c, parts, f)
<1>1. search = Rounds(c, parts, search)
  BY AnswersAreRounds
<1>2. Depth \in 0 .. Depth /\ NextId \in 1 .. NextId
  BY GateAssumption, ReportedIsFinite
<1>3. Below(c, NextId) = Passed(c)
  BY ReportedIsFinite DEF Below, Passed, IdsInv
<1>4. ComparableReport(c, parts) = search[Depth][NextId]
  BY ComparableReportUnfolds
<1> HIDE DEF search
<1> QED BY <1>1, <1>2, <1>3, <1>4, RoundsAreAnswers

----------------------------------------------------------------------------
(* The invariant holds. *)

LEMMA InitInv == Init => IndInv
<1> SUFFICES ASSUME Init PROVE IndInv
  OBVIOUS
<1>1. Types
  BY DEF Init, Types, Origin
<1>2. \A c \in Commit : ~HasReport(c)
  BY DEF Init, HasReport, NoReport, Missing
<1>3. IdsInv /\ FreshInv
  BY <1>2 DEF IdsInv, FreshInv, Reported
<1> QED BY <1>1, <1>3 DEF IndInv

\* A row of the table that is written keeps its id or takes the next one.
LEMMA UpsertStep ==
    ASSUME IndInv, NEW c \in Commit, NEW origin \in Origin, NEW diffFails,
           Upsert(c, origin, diffFails), covered' = covered
    PROVE  /\ DOMAIN report' = Commit
           /\ IdsInv'
           /\ \A d \in Commit \ {c} : report'[d] = report[d]
           /\ report'[c].covered = Over(c, PartsOf(c)).covered
           /\ report'[c].total = Over(c, PartsOf(c)).total
<1> DEFINE id == IF HasReport(c) THEN report[c].id ELSE NextId
<1>1. /\ DOMAIN report' = Commit
      /\ \A d \in Commit \ {c} : report'[d] = report[d]
      /\ report'[c].id = id
      /\ report'[c].covered = Over(c, PartsOf(c)).covered
      /\ report'[c].total = Over(c, PartsOf(c)).total
  BY DEF Upsert, IndInv, Types
<1>2. id \in Nat \ {0}
  BY ReportedIsFinite DEF IndInv, IdsInv
<1>3. Reported' = Reported \cup {c}
  BY <1>1, <1>2 DEF Reported, HasReport, Missing
<1>4. Cardinality(Reported') = IF c \in Reported THEN Cardinality(Reported)
                                                 ELSE Cardinality(Reported) + 1
  BY <1>3, ReportedIsFinite, FS_AddElement
<1>5. c \in Reported <=> HasReport(c)
  BY DEF Reported
<1>6. id \in 1 .. Cardinality(Reported')
  BY <1>4, <1>5, ReportedIsFinite DEF IndInv, IdsInv
<1>7. ASSUME NEW d \in Commit, HasReport(d)'
      PROVE  report'[d].id \in 1 .. Cardinality(Reported')
  <2>1. CASE d = c
    BY <1>1, <1>6, <2>1
  <2>2. CASE d /= c
    <3>1. HasReport(d) /\ report'[d].id = report[d].id
      BY <1>1, <1>7, <2>2 DEF HasReport
    <3> QED BY <1>4, <3>1, ReportedIsFinite DEF IndInv, IdsInv
  <2> QED BY <2>1, <2>2
<1>8. ASSUME NEW d \in Reported, d /= c PROVE report[d].id /= id
  <2>1. report[d].id \in 1 .. Cardinality(Reported)
    BY DEF Reported, IndInv, IdsInv
  <2> QED BY <1>5, <1>8, <2>1, ReportedIsFinite DEF IndInv, IdsInv
<1>9. \A d, e \in Reported' : report'[d].id = report'[e].id => d = e
  <2>1. \A d \in Reported' : d /= c => d \in Reported /\ report'[d].id = report[d].id
    BY <1>1, <1>3 DEF Reported
  <2> QED BY <1>1, <1>8, <2>1 DEF IndInv, IdsInv
<1> HIDE DEF id
<1> QED BY <1>1, <1>7, <1>9 DEF IdsInv

\* A recompute, after an upload or of a follow-up round.
LEMMA RecomputeStep ==
    ASSUME IndInv, NEW c \in Commit, NEW origin \in Origin, NEW diffFails,
           Upsert(c, origin, diffFails), covered' = covered, stale' = stale \ {c},
           newest' = newest, pending' \subseteq pending
    PROVE  IndInv'
<1>1. DOMAIN report' = Commit /\ IdsInv'
  BY UpsertStep
<1>2. Types'
  BY <1>1 DEF Types, IndInv
<1>3. ASSUME NEW d \in Commit \ stale', HasReport(d)'
      PROVE  /\ report'[d].covered = Over(d, PartsOf(d)).covered
             /\ report'[d].total = Over(d, PartsOf(d)).total
  <2>1. CASE d = c
    BY <2>1, UpsertStep
  <2>2. CASE d /= c
    <3>1. report'[d] = report[d] /\ d \in Commit \ stale
      BY <1>3, <2>2, UpsertStep
    <3> QED BY <1>3, <3>1 DEF IndInv, FreshInv, HasReport
  <2> QED BY <2>1, <2>2
<1>4. \A d \in Commit : Over(d, PartsOf(d))' = Over(d, PartsOf(d))
  BY DEF Over, PartsOf
<1>5. FreshInv'
  BY <1>3, <1>4 DEF FreshInv
<1> QED BY <1>1, <1>2, <1>5 DEF IndInv

LEMMA Step == IndInv /\ [Next]_vars => IndInv'
<1> SUFFICES ASSUME IndInv, [Next]_vars PROVE IndInv'
  OBVIOUS
<1>1. ASSUME NEW c \in Commit, NEW p \in Part, NEW n \in 0 .. PartSize, NEW origin \in Origin,
             CreateUpload(c, p, n, origin)
      PROVE  IndInv'
  <2>1. Types'
    BY <1>1 DEF CreateUpload, IndInv, Types
  <2>2. report' = report
    BY <1>1 DEF CreateUpload
  <2>3. IdsInv'
    BY <2>2 DEF IndInv, IdsInv, Reported, HasReport
  <2>4. \A d \in Commit \ stale' : d \notin stale /\ covered'[d] = covered[d]
    BY <1>1 DEF CreateUpload, IndInv, Types
  <2>5. \A d \in Commit \ stale' : Over(d, PartsOf(d))' = Over(d, PartsOf(d))
    BY <2>4 DEF Over, PartsOf
  <2>6. FreshInv'
    BY <2>2, <2>4, <2>5 DEF IndInv, FreshInv, HasReport
  <2> QED BY <2>1, <2>3, <2>6 DEF IndInv
<1>2. ASSUME NEW c \in Commit, NEW origin \in Origin, Recompute(c, origin) PROVE IndInv'
  BY <1>2, RecomputeStep DEF Recompute
<1>3. ASSUME NEW c \in Commit, NEW origin \in Origin, RecomputeFails(c, origin) PROVE IndInv'
  BY <1>3 DEF RecomputeFails, IndInv, Types, IdsInv, FreshInv, Reported, HasReport, Over, PartsOf
<1>4. ASSUME NEW c \in Commit, LatestMerged(c) PROVE IndInv'
  <2>1. newest[c] \in Origin
    BY DEF IndInv, Types
  <2> QED BY <1>4, <2>1, RecomputeStep DEF LatestMerged
<1>5. CASE UNCHANGED vars
  BY <1>5 DEF vars, IndInv, Types, IdsInv, FreshInv, Reported, HasReport, Over, PartsOf
<1> QED BY <1>1, <1>2, <1>3, <1>4, <1>5 DEF Next

THEOREM Invariance == Spec => []IndInv
<1>1. Init => IndInv
  BY InitInv
<1>2. IndInv /\ [Next]_vars => IndInv'
  BY Step
<1> QED BY <1>1, <1>2, PTL DEF Spec

----------------------------------------------------------------------------
(* The properties. *)

\* The set BaselineIsNewest describes.
Baseline(c) ==
    {b \in Commit :
        /\ Suits(b, c)
        /\ \A d \in Commit : Suits(d, c) => report[d].id <= report[b].id
        /\ Cardinality({d \in Commit \ {c} :
               /\ report[d].id > report[b].id
               /\ report[d].origin = "default" /\ ~report[d].failed})
           < Depth}

BaselinesAreNewest == \A c \in Commit : ComparableReport(c, PartsOf(c)) = Baseline(c)

\* What the walk answers is what its comment says it looks for.
LEMMA BaselinesFollow == IndInv => BaselinesAreNewest
<1> SUFFICES ASSUME IndInv, NEW c \in Commit
             PROVE  FirstOf(Passed(c), Depth, PartsOf(c)) = Baseline(c)
  BY ComparableReportIsFirst DEF IndInv, BaselinesAreNewest
<1> DEFINE More(b) == {d \in Commit \ {c} :
                          /\ report[d].id > report[b].id
                          /\ report[d].origin = "default" /\ ~report[d].failed}
<1>1. \A b : b \in Passed(c) /\ PartsOf(c) \subseteq PartsOf(b) <=> b \in Commit /\ Suits(b, c)
  BY DEF Passed, Suits
<1>2. \A d \in Commit : report[d].id = -1 \/ report[d].id \in Nat \ {0}
  BY ReportedIsFinite DEF IndInv, IdsInv, HasReport, Missing
<1>3. ASSUME NEW b \in Passed(c) PROVE Newer(Passed(c), b) = More(b)
  <2>1. report[b].id \in Nat \ {0}
    BY <1>2 DEF Passed, HasReport, Missing
  <2> QED BY <1>2, <2>1 DEF Newer, Passed, HasReport, Missing
<1> HIDE DEF More
<1>4. \A b : b \in FirstOf(Passed(c), Depth, PartsOf(c)) <=>
          /\ b \in Commit /\ Suits(b, c)
          /\ \A d \in Commit : Suits(d, c) => report[d].id <= report[b].id
          /\ Cardinality(More(b)) < Depth
  BY <1>1, <1>3 DEF FirstOf
<1> QED BY <1>4 DEF Baseline, More

\* The gate compares with the newest report that has all the parts, if fewer
\* than Depth are newer: the loop over LatestPassedCommitReport, which goes on
\* from the id of the last one it saw, neither skips one nor meets one twice.
THEOREM SearchFindsTheNewest == Spec => []BaselineIsNewest
<1>1. BaselinesAreNewest => BaselineIsNewest
  BY DEF BaselinesAreNewest, BaselineIsNewest, Baseline, Due
<1> QED BY <1>1, Invariance, BaselinesFollow, PTL

\* The stored total stands for the parts that are compared exactly when the base
\* has no others, which totalOver knows from their number alone.
THEOREM ComparesLikeWithLike == Spec => []SettledLikeWithLike
<1>1. IndInv => SettledLikeWithLike
  <2> SUFFICES ASSUME IndInv, NEW c \in Due,
                      NEW b \in ComparableReport(c, PartsOf(c)) \ stale
               PROVE  SameRate(TotalOver(b, PartsOf(c)), Over(b, PartsOf(c)))
    BY DEF SettledLikeWithLike
  <2>1. c \in Commit
    BY DEF Due
  <2>2. b \in Commit /\ HasReport(b) /\ PartsOf(c) \subseteq PartsOf(b)
    BY <2>1, BaselinesFollow DEF BaselinesAreNewest, Baseline, Suits
  <2>3. CASE Cardinality(PartsOf(b)) = Cardinality(PartsOf(c))
    <3>1. IsFiniteSet(PartsOf(b))
      BY GateAssumption, FS_Subset DEF PartsOf
    <3>2. PartsOf(b) = PartsOf(c)
      BY <2>2, <2>3, <3>1, FS_Subset
    <3>3. /\ TotalOver(b, PartsOf(c)) = Fraction(report[b].covered, report[b].total)
          /\ report[b].covered = Over(b, PartsOf(c)).covered
          /\ report[b].total = Over(b, PartsOf(c)).total
      BY <2>2, <2>3, <3>2 DEF TotalOver, IndInv, FreshInv
    <3> QED BY <3>3 DEF SameRate, Fraction
  <2>4. CASE Cardinality(PartsOf(b)) /= Cardinality(PartsOf(c))
    BY <2>4 DEF TotalOver, SameRate
  <2> QED BY <2>3, <2>4
<1> QED BY <1>1, Invariance, PTL

\* Who builds other branches and pull requests moves no commit's baseline: the
\* rows they write are not among those the search selects from, before or after.
THEOREM BaselinesStayPut == Spec => BranchesMoveNoBaseline
<1> DEFINE Elsewhere ==
              /\ \A c \in Commit : report'[c] /= report[c] =>
                    report'[c].origin /= "default" /\ report[c].origin /= "default"
              /\ covered' = covered
           Unmoved == \A c \in Commit :
                    ComparableReport(c, PartsOf(c))' = ComparableReport(c, PartsOf(c))
<1>1. ASSUME BaselinesAreNewest, BaselinesAreNewest', IndInv, IndInv', Elsewhere
      PROVE  Unmoved
  <2>1. \A b : PartsOf(b)' = PartsOf(b)
    BY <1>1 DEF PartsOf
  <2>2. \A b \in Commit : report'[b].origin = "default" \/ report[b].origin = "default"
                            => report'[b] = report[b]
    BY <1>1
  <2>3. ASSUME NEW c \in Commit PROVE Baseline(c)' = Baseline(c)
    <3>1. \A b \in Commit : /\ Suits(b, c)' <=> Suits(b, c)
                            /\ Suits(b, c) => report'[b] = report[b]
      BY <2>1, <2>2 DEF Suits, HasReport
    <3>2. ASSUME NEW b \in Commit, Suits(b, c)
          PROVE  {d \in Commit \ {c} :
                    /\ report'[d].id > report'[b].id
                    /\ report'[d].origin = "default" /\ ~report'[d].failed}
                 = {d \in Commit \ {c} :
                    /\ report[d].id > report[b].id
                    /\ report[d].origin = "default" /\ ~report[d].failed}
      BY <2>2, <3>1, <3>2
    <3> DEFINE Conjuncts(b) ==
                 /\ Suits(b, c)
                 /\ \A d \in Commit : Suits(d, c) => report[d].id <= report[b].id
                 /\ Cardinality({d \in Commit \ {c} :
                        /\ report[d].id > report[b].id
                        /\ report[d].origin = "default" /\ ~report[d].failed}) < Depth
    <3>3. \A b \in Commit : Conjuncts(b)' <=> Conjuncts(b)
      BY <3>1, <3>2
    <3>4. Baseline(c) = {b \in Commit : Conjuncts(b)}
      BY DEF Baseline
    <3>5. Baseline(c)' = {b \in Commit : Conjuncts(b)'}
      BY DEF Baseline
    <3> HIDE DEF Conjuncts
    <3> QED BY <3>3, <3>4, <3>5
  <2> QED BY <1>1, <2>3 DEF BaselinesAreNewest
<1>2. BaselinesAreNewest /\ BaselinesAreNewest' /\ IndInv /\ IndInv' => (Elsewhere => Unmoved)
  BY <1>1
<1> QED BY <1>2, Invariance, BaselinesFollow, PTL DEF BranchesMoveNoBaseline

----------------------------------------------------------------------------
(* Pipeline: least and largest, the CHOOSEs behind "the first" and "the       *)
(* longest" of the matcher and the max of the merge.                          *)

\* A set of naturals has the least element that Min chooses.
LEMMA LeastIsLeast ==
    ASSUME NEW S \in SUBSET Nat, S # {}
    PROVE  Min(S) \in S /\ \A n \in S : Min(S) <= n
<1>1. PICK x \in S : \A y \in S : ~(<<y, x>> \in OpToRel(<, Nat))
  BY WFMin, NatLessThanWellFounded
<1>2. \A y \in S : x <= y
  <2> SUFFICES ASSUME NEW y \in S PROVE ~(y < x)
    OBVIOUS
  <2>1. ~(<<y, x>> \in OpToRel(<, Nat))
    BY <1>1
  <2>2. y \in Nat /\ x \in Nat
    OBVIOUS
  <2> QED BY <2>1, <2>2 DEF OpToRel
<1> QED BY <1>2 DEF Min

\* A bounded set of naturals has the largest element that Max chooses.
LEMMA LargestIsLargest ==
    ASSUME NEW S \in SUBSET Nat, S # {}, NEW n \in Nat, \A m \in S : m <= n
    PROVE  Max(S) \in S /\ \A m \in S : m <= Max(S)
<1> DEFINE T == {n - m : m \in S}
<1>1. T \in SUBSET Nat /\ T # {}
  <2>1. \A m \in S : n - m \in Nat
    OBVIOUS
  <2>2. PICK k \in S : TRUE
    OBVIOUS
  <2>3. n - k \in T
    OBVIOUS
  <2> QED BY <2>1, <2>3
<1>2. Min(T) \in T /\ \A t \in T : Min(T) <= t
  BY <1>1, LeastIsLeast
<1>3. PICK m \in S : Min(T) = n - m
  BY <1>2
<1>4. \A k \in S : n - m <= n - k
  BY <1>2, <1>3
<1>5. \A k \in S : k <= m
  BY <1>4
<1> QED BY <1>5 DEF Max

\* A finite set of counts has a bound: else the least number of its items with
\* none would follow one that has.
LEMMA FiniteIsBounded ==
    ASSUME NEW S \in SUBSET Nat, IsFiniteSet(S)
    PROVE  \E n \in Nat : \A m \in S : m <= n
<1> DEFINE n == Cardinality(S)
<1>1. n \in Nat /\ ExistsBijection(1 .. n, S)
  BY FS_CardinalityType
<1>2. PICK f \in Bijection(1 .. n, S) : TRUE
  BY <1>1 DEF ExistsBijection
<1>3. /\ \A i \in 1 .. n : f[i] \in Nat
      /\ \A m \in S : \E i \in 1 .. n : f[i] = m
  BY <1>2 DEF Bijection, Injection, Surjection
<1> HIDE DEF n
<1> DEFINE Bounded(k) == \E b \in Nat : \A i \in 1 .. k : f[i] <= b
           Bad == {k \in 0 .. n : ~ Bounded(k)}
<1>4. Bad = {}
  <2> SUFFICES ASSUME Bad # {} PROVE FALSE
    OBVIOUS
  <2> DEFINE k == Min(Bad)
  <2>1. k \in Bad /\ \A j \in Bad : k <= j
    <3>1. Bad \in SUBSET Nat
      BY <1>1
    <3> HIDE DEF Bad
    <3> QED BY <3>1, LeastIsLeast
  <2> HIDE DEF k
  <2>2. k \in 0 .. n /\ ~ Bounded(k)
    BY <2>1
  <2>3. Bounded(0)
    <3>1. 0 \in Nat /\ 1 .. 0 = {}
      OBVIOUS
    <3> QED BY <3>1
  <2>4. k \in Nat /\ k <= n /\ k # 0
    <3> HIDE DEF Bounded
    <3> QED BY <1>1, <2>2, <2>3
  <2>5. Bounded(k - 1)
    <3>1. k - 1 \in 0 .. n /\ ~ (k <= k - 1)
      BY <1>1, <2>4
    <3>2. k - 1 \in Bad <=> ~ Bounded(k - 1)
      <4> HIDE DEF Bounded
      <4> QED BY <3>1
    <3> HIDE DEF Bad, Bounded
    <3> QED BY <2>1, <3>1, <3>2
  <2>6. PICK b \in Nat : \A i \in 1 .. k - 1 : f[i] <= b
    BY <2>5
  <2>7. ASSUME NEW i \in 1 .. k PROVE f[i] <= b + f[k]
    <3>1. i \in 1 .. n /\ k \in 1 .. n /\ (i = k \/ i \in 1 .. k - 1)
      BY <1>1, <2>4
    <3>2. f[i] \in Nat /\ f[k] \in Nat
      BY <1>3, <3>1
    <3>3. b \in Nat /\ (i \in 1 .. k - 1 => f[i] <= b)
      BY <2>6
    <3>4. CASE i = k
      <4>1. \A x, y \in Nat : y <= x + y
        OBVIOUS
      <4> QED BY <3>2, <3>3, <3>4, <4>1
    <3>5. CASE i \in 1 .. k - 1
      <4>1. \A x, y, z \in Nat : z <= x => z <= x + y
        OBVIOUS
      <4> QED BY <3>2, <3>3, <3>5, <4>1
    <3> QED BY <3>1, <3>4, <3>5
  <2>8. b + f[k] \in Nat
    <3>1. b \in Nat /\ f[k] \in Nat
      BY <1>1, <1>3, <2>4, <2>6
    <3>2. \A x, y \in Nat : x + y \in Nat
      OBVIOUS
    <3> QED BY <3>1, <3>2
  <2>9. Bounded(k)
    BY <2>7, <2>8
  <2> QED BY <2>2, <2>9
<1>5. Bounded(n)
  <2> HIDE DEF Bounded
  <2>1. n \in 0 .. n
    BY <1>1
  <2> QED BY <1>4, <2>1
<1> QED BY <1>3, <1>5

----------------------------------------------------------------------------
(* Pairing changed paths with files (matcher.match, Touches).                 *)

\* What PairingsAssumption says of one input.
IsPairing(files, paths, prefix) ==
    /\ IsSeq(files) /\ IsSeq(prefix)
    /\ \A i \in DOMAIN files : IsSeq(files[i].path)
    /\ \A q \in paths : IsSeq(q)

\* The positions of a list of files.
LEMMA PairsIndices ==
    ASSUME NEW files, IsSeq(files)
    PROVE  /\ Len(files) \in Nat /\ DOMAIN files = 1 .. Len(files)
BY DEF IsSeq

\* A file the shortest or the longest rule picks is one of its candidates.
LEMMA ShortestIsOne ==
    ASSUME NEW files, IsSeq(files), \A i \in DOMAIN files : IsSeq(files[i].path),
           NEW I \in SUBSET DOMAIN files, I # {}
    PROVE  ShortestOf(files, I) \in I
<1> DEFINE L(i) == Len(files[i].path)
           Lengths == {L(i) : i \in I}
           Least == {i \in I : \A j \in I : L(i) <= L(j)}
<1>0. DOMAIN files \subseteq Nat
  BY PairsIndices
<1>1. Lengths \in SUBSET Nat /\ Lengths # {}
  <2>1. \A i \in I : L(i) \in Nat
    <3> TAKE i \in I
    <3>1. IsSeq(files[i].path)
      OBVIOUS
    <3> QED BY <3>1 DEF IsSeq
  <2> QED BY <2>1
<1>2. Min(Lengths) \in Lengths /\ \A n \in Lengths : Min(Lengths) <= n
  BY <1>1, LeastIsLeast
<1>3. PICK i \in I : L(i) = Min(Lengths)
  BY <1>2
<1>4. i \in Least
  BY <1>2, <1>3
<1>5. Min(Least) \in Least
  BY <1>0, <1>4, LeastIsLeast
<1> QED BY <1>5 DEF ShortestOf

\* As is one the longest rule picks, if no candidate is longer than the path.
LEMMA LongestIsOne ==
    ASSUME NEW files, IsSeq(files), \A i \in DOMAIN files : IsSeq(files[i].path),
           NEW I \in SUBSET DOMAIN files, I # {},
           NEW n \in Nat, \A i \in I : Len(files[i].path) <= n
    PROVE  LongestOf(files, I) \in I
<1> DEFINE L(i) == Len(files[i].path)
           Lengths == {L(i) : i \in I}
           Most == {i \in I : \A j \in I : L(i) >= L(j)}
<1>0. DOMAIN files \subseteq Nat
  BY PairsIndices
<1>1. Lengths \in SUBSET Nat /\ Lengths # {}
  <2>1. \A i \in I : L(i) \in Nat
    <3> TAKE i \in I
    <3>1. IsSeq(files[i].path)
      OBVIOUS
    <3> QED BY <3>1 DEF IsSeq
  <2> QED BY <2>1
<1>2. Max(Lengths) \in Lengths /\ \A m \in Lengths : m <= Max(Lengths)
  BY <1>1, LargestIsLargest
<1>3. PICK i \in I : L(i) = Max(Lengths)
  BY <1>2
<1>4. i \in Most
  BY <1>1, <1>2, <1>3
<1>5. Min(Most) \in Most
  BY <1>0, <1>4, LeastIsLeast
<1> QED BY <1>5 DEF LongestOf

\* Taking the module prefix off a path it was put on gives the path, and putting
\* it on again gives what it was taken off: the two directions Touches and match
\* go in.
LEMMA PrefixedPath ==
    ASSUME NEW s, NEW t, IsSeq(s), IsSeq(t)
    PROVE  IsPrefix(s, s \o t) /\ SubSeq(s \o t, Len(s) + 1, Len(s \o t)) = t
<1> DEFINE R == Range(s) \cup Range(t)
<1>1. s \in Seq(R) /\ t \in Seq(R)
  BY DEF IsSeq, Range
<1>2. s \o t \in Seq(R) /\ Len(s \o t) = Len(s) + Len(t)
  BY <1>1
<1>3. SubSeq(s \o t, 1, Len(s)) = SubSeq(s, 1, Len(s))
  BY <1>1, <1>2
<1>4. SubSeq(s \o t, Len(s) + 1, Len(s \o t)) = t
  BY <1>1, <1>2
<1> QED BY <1>1, <1>2, <1>3, <1>4 DEF IsPrefix

LEMMA UnprefixedPath ==
    ASSUME NEW s, NEW f, IsSeq(s), IsSeq(f), IsPrefix(s, f)
    PROVE  s \o SubSeq(f, Len(s) + 1, Len(f)) = f
<1> DEFINE R == Range(s) \cup Range(f)
<1>1. s \in Seq(R) /\ f \in Seq(R)
  BY DEF IsSeq, Range
<1>2. /\ Len(s) <= Len(f)
      /\ SubSeq(s, 1, Len(s)) = SubSeq(f, 1, Len(s))
  BY DEF IsPrefix
<1>3. \A i \in 1 .. Len(s) : s[i] = f[i]
  <2> TAKE i \in 1 .. Len(s)
  <2>1. SubSeq(s, 1, Len(s))[i] = s[i] /\ SubSeq(f, 1, Len(s))[i] = f[i]
    BY <1>1, <1>2
  <2> QED BY <2>1, <1>2
<1> DEFINE r == SubSeq(f, Len(s) + 1, Len(f))
<1>4. r \in Seq(R) /\ Len(r) = Len(f) - Len(s)
      /\ \A i \in 1 .. Len(r) : r[i] = f[Len(s) + i]
  BY <1>1, <1>2
<1>5. s \o r \in Seq(R) /\ Len(s \o r) = Len(f)
  BY <1>1, <1>2, <1>4
<1>6. \A i \in 1 .. Len(f) : (s \o r)[i] = f[i]
  BY <1>1, <1>2, <1>3, <1>4
<1> QED BY <1>1, <1>5, <1>6

\* A bound path touches the file it is bound to, whichever of match's rules
\* bound it: by name, under the prefix, or the one as a suffix of the other.
LEMMA BoundTouches ==
    ASSUME NEW files, NEW paths, NEW prefix, IsPairing(files, paths, prefix),
           NEW p \in paths, match(files, p, prefix) # 0
    PROVE  Touches(paths, files[match(files, p, prefix)].path, prefix)
<1> DEFINE exact == Named(files, p)
           whole == Named(files, prefix \o p)
           i == match(files, p, prefix)
<1>1. DOMAIN files \subseteq Nat
  BY PairsIndices DEF IsPairing
<1>2. exact \cup whole \subseteq DOMAIN files
  BY DEF Named
<1>3. CASE prefix # NoPath
  <2>1. exact \cup whole # {} /\ i = Min(exact \cup whole)
    BY <1>3 DEF match
  <2>2. i \in exact \cup whole
    BY <2>1, <1>1, <1>2, LeastIsLeast
  <2>3. CASE i \in exact
    BY <2>3 DEF Named, Touches
  <2>4. CASE i \in whole
    <3>1. files[i].path = prefix \o p
      BY <2>4 DEF Named
    <3>2. IsPrefix(prefix, prefix \o p)
          /\ SubSeq(prefix \o p, Len(prefix) + 1, Len(prefix \o p)) = p
      BY PrefixedPath DEF IsPairing
    <3> QED BY <1>3, <3>1, <3>2 DEF Touches
  <2> QED BY <2>2, <2>3, <2>4
<1>4. CASE prefix = NoPath
  <2>1. CASE exact # {}
    <3>1. i = Min(exact)
      BY <1>4, <2>1 DEF match
    <3>2. i \in exact
      BY <3>1, <2>1, <1>1, <1>2, LeastIsLeast
    <3> QED BY <3>2 DEF Named, Touches
  <2>2. CASE exact = {} /\ Forward(files, p) # {}
    <3>1. i = ShortestOf(files, Forward(files, p))
      BY <1>4, <2>2 DEF match
    <3>2. Forward(files, p) \subseteq DOMAIN files
      BY DEF Forward
    <3>3. i \in Forward(files, p)
      BY <3>1, <3>2, <2>2, ShortestIsOne DEF IsPairing
    <3> QED BY <3>3, <1>4 DEF Forward, Touches
  <2>3. CASE exact = {} /\ Forward(files, p) = {} /\ Backward(files, p) # {}
    <3>1. i = LongestOf(files, Backward(files, p))
      BY <1>4, <2>3 DEF match
    <3>2. Backward(files, p) \subseteq DOMAIN files
      BY DEF Backward
    <3>3. \A j \in Backward(files, p) : Len(files[j].path) <= Len(p) /\ Len(p) \in Nat
      <4> TAKE j \in Backward(files, p)
      <4>1. PICK k \in 2 .. Len(p) : files[j].path = SubSeq(p, k, Len(p))
        BY DEF Backward, dirSuffixes
      <4>2. p \in Seq(Range(p))
        BY DEF IsPairing, IsSeq
      <4> QED BY <4>1, <4>2
    <3>3a. Len(p) \in Nat
      BY DEF IsPairing, IsSeq
    <3>4. i \in Backward(files, p)
      BY <3>1, <3>2, <3>3, <3>3a, <2>3, LongestIsOne DEF IsPairing
    <3> QED BY <3>4, <1>4 DEF Backward, Touches
  <2> QED BY <1>4, <2>1, <2>2, <2>3 DEF match
<1> QED BY <1>3, <1>4

\* A path bound to no file touches none: match has tried every rule of Touches,
\* and a rule with a candidate picks one.
LEMMA UnboundTouchesNothing ==
    ASSUME NEW files, NEW paths, NEW prefix, IsPairing(files, paths, prefix),
           NEW p \in paths, match(files, p, prefix) = 0
    PROVE  \A i \in DOMAIN files : ~ Touches({p}, files[i].path, prefix)
<1> DEFINE exact == Named(files, p)
           whole == Named(files, prefix \o p)
<1>1. DOMAIN files \subseteq Nat \ {0}
  BY PairsIndices DEF IsPairing
<1>2. exact \cup whole \subseteq DOMAIN files /\ Forward(files, p) \subseteq DOMAIN files
      /\ Backward(files, p) \subseteq DOMAIN files
  BY DEF Named, Forward, Backward
<1> SUFFICES ASSUME NEW i \in DOMAIN files, Touches({p}, files[i].path, prefix)
             PROVE  FALSE
  OBVIOUS
<1>3. CASE prefix # NoPath
  <2>1. i \in exact \cup whole
    <3>1. CASE files[i].path = p
      BY <3>1 DEF Named
    <3>2. CASE /\ IsPrefix(prefix, files[i].path)
               /\ SubSeq(files[i].path, Len(prefix) + 1, Len(files[i].path)) = p
      BY <3>2, UnprefixedPath DEF Named, IsPairing
    <3> QED BY <3>1, <3>2, <1>3 DEF Touches
  <2>2. Min(exact \cup whole) \in exact \cup whole
    BY <2>1, <1>1, <1>2, LeastIsLeast
  <2>3. match(files, p, prefix) = Min(exact \cup whole)
    BY <2>1, <1>3 DEF match
  <2> QED BY <2>2, <2>3, <1>1, <1>2
<1>4. CASE prefix = NoPath
  <2>1. exact = {}
    BY <1>1, <1>2, <1>4, LeastIsLeast DEF match
  <2>2. Forward(files, p) = {}
    <3> SUFFICES ASSUME Forward(files, p) # {} PROVE FALSE
      OBVIOUS
    <3>1. ShortestOf(files, Forward(files, p)) \in Forward(files, p)
      BY <1>2, ShortestIsOne DEF IsPairing
    <3> QED BY <3>1, <2>1, <1>1, <1>2, <1>4 DEF match
  <2>3. Backward(files, p) = {}
    <3> SUFFICES ASSUME Backward(files, p) # {} PROVE FALSE
      OBVIOUS
    <3>1. \A j \in Backward(files, p) : Len(files[j].path) <= Len(p)
      <4> TAKE j \in Backward(files, p)
      <4>1. PICK k \in 2 .. Len(p) : files[j].path = SubSeq(p, k, Len(p))
        BY DEF Backward, dirSuffixes
      <4>2. p \in Seq(Range(p))
        BY DEF IsPairing, IsSeq
      <4> QED BY <4>1, <4>2
    <3>2. Len(p) \in Nat
      BY DEF IsPairing, IsSeq
    <3>3. LongestOf(files, Backward(files, p)) \in Backward(files, p)
      BY <1>2, <3>1, <3>2, LongestIsOne DEF IsPairing
    <3> QED BY <3>3, <2>1, <2>2, <1>1, <1>2, <1>4 DEF match
  <2> QED BY <2>1, <2>2, <2>3, <1>4 DEF Touches, Named, Forward, Backward
<1> QED BY <1>3, <1>4

----------------------------------------------------------------------------
(* Merging the measurements of a commit's parts (MergeDiffs, mergeFile).      *)

\* What MeasurementsAssumption says of one input.
IsMeasurement(m) ==
    /\ IsSeq(m) /\ m # <<>>
    /\ \A i \in DOMAIN m : IsFiniteSet(m[i].executable) /\ m[i].ran \subseteq m[i].executable

\* The coverage of one part, and the coverages of them all.
PartCoverage(m, i) ==
    FileCoverage(<<"f">>, Cardinality(m[i].ran), Cardinality(m[i].executable),
                 m[i].executable \ m[i].ran)
Coverages(m) == {PartCoverage(m, i) : i \in DOMAIN m}
MergedOf(m) == MergeDiffs([i \in DOMAIN m |-> Measured(m[i])])

\* The lines some part has, and those some part ran.
ExecutableIn(m) == UNION {m[i].executable : i \in DOMAIN m}
RanIn(m) == UNION {m[i].ran : i \in DOMAIN m}

\* All parts measured the one file, so the merge is that file's.
LEMMA MergedIsOneFile ==
    ASSUME NEW m, IsMeasurement(m)
    PROVE  /\ MergedOf(m).result.files = {mergeFile(<<"f">>, Coverages(m))}
           /\ <<"f">> \in MergedOf(m).conflicts <=> ~ Agree(Coverages(m))
<1> DEFINE results == [i \in DOMAIN m |-> Measured(m[i])]
           paths == {f.path : f \in UNION {results[i].files : i \in DOMAIN results}}
<1>1. \A i \in DOMAIN m : results[i].files = {PartCoverage(m, i)}
  BY DEF Measured, Result, PartCoverage
<1>2. UNION {results[i].files : i \in DOMAIN results} = Coverages(m)
  BY <1>1 DEF Coverages
<1>3. \A f \in Coverages(m) : f.path = <<"f">>
  BY DEF Coverages, PartCoverage, FileCoverage
<1>4. Coverages(m) # {}
  BY DEF Coverages, IsMeasurement, IsSeq
<1>5. paths = {<<"f">>}
  BY <1>2, <1>3, <1>4
<1>6. PartsWith(results, <<"f">>) = Coverages(m)
  BY <1>2, <1>3 DEF PartsWith
<1> HIDE DEF results, paths
<1>7. {mergeFile(p, PartsWith(results, p)) : p \in paths} = {mergeFile(<<"f">>, Coverages(m))}
  BY <1>5, <1>6
<1>8. {p \in paths : ~ Agree(PartsWith(results, p))} = {p \in {<<"f">>} : ~ Agree(Coverages(m))}
  BY <1>5, <1>6
<1>9. /\ MergedOf(m).result.files = {mergeFile(p, PartsWith(results, p)) : p \in paths}
      /\ MergedOf(m).conflicts = {p \in paths : ~ Agree(PartsWith(results, p))}
  BY DEF MergedOf, MergeDiffs, Result, results, paths
<1> QED BY <1>7, <1>8, <1>9

\* The sets are finite and inside one another.
LEMMA LinesAreFinite ==
    ASSUME NEW m, IsMeasurement(m)
    PROVE  /\ IsFiniteSet(ExecutableIn(m)) /\ IsFiniteSet(RanIn(m))
           /\ IsFiniteSet(Uncovered(Coverages(m)))
           /\ RanIn(m) \subseteq ExecutableIn(m)
           /\ Uncovered(Coverages(m)) \subseteq ExecutableIn(m)
<1> DEFINE sets == {m[i].executable : i \in DOMAIN m}
<1>1. IsFiniteSet(DOMAIN m)
  <2>1. DOMAIN m = 1 .. Len(m) /\ Len(m) \in Nat
    BY DEF IsMeasurement, IsSeq
  <2> QED BY <2>1, FS_Interval
<1>2. IsFiniteSet(sets)
  <2> DEFINE g == [i \in DOMAIN m |-> m[i].executable]
  <2>1. g \in Surjection(DOMAIN m, sets)
    BY DEF Surjection
  <2> HIDE DEF g, sets
  <2> QED BY <1>1, <2>1, FS_Surjection
<1>3. IsFiniteSet(ExecutableIn(m))
  <2>1. \A T \in sets : IsFiniteSet(T)
    BY DEF IsMeasurement
  <2> QED BY <1>2, <2>1, FS_UNION DEF ExecutableIn
<1>4. RanIn(m) \subseteq ExecutableIn(m)
  BY DEF IsMeasurement, RanIn, ExecutableIn
<1>5. \A f \in Coverages(m) : f.uncovered_lines \subseteq ExecutableIn(m)
  BY DEF Coverages, PartCoverage, FileCoverage, ExecutableIn
<1>6. Uncovered(Coverages(m)) \subseteq ExecutableIn(m)
  BY <1>5 DEF Uncovered
<1> QED BY <1>3, <1>4, <1>6, FS_Subset

\* The merged total is a part's, or what is uncovered; it is at least each.
LEMMA TotalIsLargest ==
    ASSUME NEW m, IsMeasurement(m)
    PROVE  /\ \A i \in DOMAIN m : /\ Cardinality(m[i].executable) \in Nat
                                  /\ Cardinality(m[i].executable) <= MergedTotal(Coverages(m))
           /\ Cardinality(Uncovered(Coverages(m))) \in Nat
           /\ Cardinality(Uncovered(Coverages(m))) <= MergedTotal(Coverages(m))
           /\ MergedTotal(Coverages(m)) \in Nat
           /\ \/ MergedTotal(Coverages(m)) = Cardinality(Uncovered(Coverages(m)))
              \/ \E i \in DOMAIN m : MergedTotal(Coverages(m)) = Cardinality(m[i].executable)
<1> DEFINE U == Uncovered(Coverages(m))
           E == ExecutableIn(m)
           N == {f.total_lines : f \in Coverages(m)} \cup {Cardinality(U)}
<1>1. Cardinality(E) \in Nat /\ Cardinality(U) \in Nat /\ Cardinality(U) <= Cardinality(E)
  BY LinesAreFinite, FS_CardinalityType, FS_Subset
<1>2. \A i \in DOMAIN m : /\ Cardinality(m[i].executable) \in Nat
                          /\ Cardinality(m[i].executable) <= Cardinality(E)
  <2> TAKE i \in DOMAIN m
  <2>1. m[i].executable \subseteq E
    BY DEF ExecutableIn
  <2> QED BY <2>1, LinesAreFinite, FS_CardinalityType, FS_Subset
<1>3. {f.total_lines : f \in Coverages(m)} = {Cardinality(m[i].executable) : i \in DOMAIN m}
  <2>1. \A i \in DOMAIN m : PartCoverage(m, i).total_lines = Cardinality(m[i].executable)
    BY DEF PartCoverage, FileCoverage
  <2> QED BY <2>1 DEF Coverages
<1>4. N \in SUBSET Nat /\ N # {} /\ \A n \in N : n <= Cardinality(E)
  BY <1>1, <1>2, <1>3
<1> HIDE DEF N
<1>5. Max(N) \in N /\ \A n \in N : n <= Max(N)
  BY <1>1, <1>4, LargestIsLargest
<1>6. MergedTotal(Coverages(m)) = Max(N)
  BY DEF MergedTotal, N
<1> QED BY <1>1, <1>2, <1>3, <1>4, <1>5, <1>6 DEF N

\* When parts counted differently, a line any of them missed is uncovered:
\* what is left of the largest part is lines that ran, and the rest of the
\* file's lines are uncovered or ran.
LEMMA ConflictNeverOverstates ==
    ASSUME NEW m, IsMeasurement(m), ~ Agree(Coverages(m))
    PROVE  LET T == MergedTotal(Coverages(m))
               u == Cardinality(Uncovered(Coverages(m)))
           IN  /\ T - u <= Cardinality(RanIn(m))
               /\ (T - u) * Cardinality(ExecutableIn(m)) <= Cardinality(RanIn(m)) * T
<1> DEFINE U == Uncovered(Coverages(m))
           E == ExecutableIn(m)
           R == RanIn(m)
           T == MergedTotal(Coverages(m))
           u == Cardinality(U)
           e == Cardinality(E)
           r == Cardinality(R)
<1>1. U = UNION {m[i].executable \ m[i].ran : i \in DOMAIN m}
  <2>1. \A i \in DOMAIN m : PartCoverage(m, i).uncovered_lines = m[i].executable \ m[i].ran
    BY DEF PartCoverage, FileCoverage
  <2> QED BY <2>1 DEF Uncovered, Coverages
<1>2. u \in Nat /\ e \in Nat /\ r \in Nat /\ T \in Nat /\ u <= T /\ u <= e
  BY LinesAreFinite, TotalIsLargest, FS_CardinalityType, FS_Subset
<1>3. e <= u + r
  <2>1. E = U \cup R
    BY <1>1 DEF ExecutableIn, RanIn, IsMeasurement
  <2>2. Cardinality(U \cup R) = u + r - Cardinality(U \cap R)
    BY LinesAreFinite, FS_Union
  <2>3. Cardinality(U \cap R) \in Nat
    BY LinesAreFinite, FS_Intersection, FS_CardinalityType
  <2> QED BY <1>2, <2>1, <2>2, <2>3
<1>4. CASE T = u
  <2>1. T - u = 0
    BY <1>2, <1>4
  <2>2. 0 <= r /\ 0 * e = 0 /\ 0 <= r * T
    BY <1>2
  <2> QED BY <2>1, <2>2
<1>5. CASE \E i \in DOMAIN m : T = Cardinality(m[i].executable)
  <2>1. PICK i \in DOMAIN m : T = Cardinality(m[i].executable)
    BY <1>5
  <2> DEFINE X == m[i].executable
             Z == m[i].ran
  <2>2. /\ IsFiniteSet(X) /\ Z \subseteq X /\ X \subseteq E /\ Z \subseteq R /\ X \ Z \subseteq U
    BY <1>1 DEF IsMeasurement, ExecutableIn, RanIn
  <2>3. Cardinality(X \ Z) = T - Cardinality(Z)
    <3>1. X \cap Z = Z
      BY <2>2
    <3> QED BY <2>1, <2>2, <3>1, FS_Difference
  <2>4. Cardinality(Z) <= r /\ T <= e /\ Cardinality(X \ Z) <= u /\ Cardinality(Z) \in Nat
    BY <2>1, <2>2, LinesAreFinite, FS_Subset, FS_CardinalityType
  <2>5. T - u <= r
    BY <1>2, <2>3, <2>4
  <2>6. (T - u) * e <= r * T
    <3> HIDE DEF T, u, e, r
    <3>1. T <= e /\ e <= u + r
      BY <2>4, <1>3
    <3>2. T * e <= T * (u + r)
      BY <1>2, <3>1
    <3>3. u * T <= u * e
      BY <1>2, <3>1
    <3>4. (T - u) * e = T * e - u * e /\ T * (u + r) = u * T + r * T
      BY <1>2
    <3>5. T * e \in Int /\ u * e \in Int /\ u * T \in Int /\ r * T \in Int /\ T * (u + r) \in Int
      BY <1>2
    <3> QED BY <3>2, <3>3, <3>4, <3>5
  <2> QED BY <2>5, <2>6
<1> QED BY <1>4, <1>5, TotalIsLargest

\* When all measured the same lines, a line is uncovered if it ran in none.
LEMMA SameLinesMerge ==
    ASSUME NEW m, IsMeasurement(m),
           \A i \in DOMAIN m : m[i].executable = ExecutableIn(m)
    PROVE  /\ MergedTotal(Coverages(m)) = Cardinality(ExecutableIn(m))
           /\ Uncovered(Coverages(m)) = ExecutableIn(m) \ RanIn(m)
<1> DEFINE E == ExecutableIn(m)
           U == Uncovered(Coverages(m))
<1>1. DOMAIN m # {}
  BY DEF IsMeasurement, IsSeq
<1>2. \A i \in DOMAIN m : PartCoverage(m, i).total_lines = Cardinality(E)
                          /\ PartCoverage(m, i).uncovered_lines = E \ m[i].ran
  BY DEF PartCoverage, FileCoverage
<1>3. Agree(Coverages(m))
  BY <1>2 DEF Agree, Coverages
<1>4. U = E \ RanIn(m)
  <2>1. {f.uncovered_lines : f \in Coverages(m)} = {E \ m[i].ran : i \in DOMAIN m}
    BY <1>2 DEF Coverages
  <2>2. U = {l \in UNION {E \ m[i].ran : i \in DOMAIN m} :
               \A s \in {E \ m[i].ran : i \in DOMAIN m} : l \in s}
    BY <1>3, <2>1 DEF Uncovered
  <2> HIDE DEF U, E
  <2>3. ASSUME NEW l PROVE l \in U <=> l \in E /\ \A i \in DOMAIN m : l \notin m[i].ran
    <3>1. l \in U => l \in E
      BY <2>2
    <3>2. l \in U => \A i \in DOMAIN m : l \in E \ m[i].ran
      BY <2>2
    <3>3. ASSUME l \in E, \A i \in DOMAIN m : l \notin m[i].ran PROVE l \in U
      <4>1. \A i \in DOMAIN m : l \in E \ m[i].ran
        BY <3>3
      <4> QED BY <1>1, <2>2, <4>1
    <3> QED BY <3>1, <3>2, <3>3
  <2>4. \A l : l \in RanIn(m) <=> \E i \in DOMAIN m : l \in m[i].ran
    BY DEF RanIn
  <2> QED BY <2>3, <2>4
<1>5. Cardinality(U) <= Cardinality(E) /\ Cardinality(E) \in Nat
  BY LinesAreFinite, FS_Subset, FS_CardinalityType
<1>6. MergedTotal(Coverages(m)) = Cardinality(E)
  BY <1>1, <1>5, TotalIsLargest
<1> QED BY <1>4, <1>6

----------------------------------------------------------------------------
(* Sorting (Before, Ordered): places and spans by their numbers, the first    *)
(* that differs deciding (comparePos, the sort of MergedSpans).               *)

Places(k) == [1 .. k -> Int]

\* Tuples are places.
LEMMA TuplesArePlaces ==
    /\ \A a \in Int : <<a>> \in Places(1)
    /\ \A a, b \in Int : <<a, b>> \in Places(2)
    /\ \A a, b, c, d \in Int : <<a, b, c, d>> \in Places(4)
<1>1. 1 .. 1 = {1} /\ 1 .. 2 = {1, 2} /\ 1 .. 4 = {1, 2, 3, 4}
  OBVIOUS
<1> QED BY <1>1 DEF Places

\* The order is a strict total one.
LEMMA BeforeIsStrict ==
    ASSUME NEW k \in Nat
    PROVE  /\ \A p \in Places(k) : ~ Before(p, p)
           /\ \A p, q, r \in Places(k) : Before(p, q) /\ Before(q, r) => Before(p, r)
           /\ \A p, q \in Places(k) : p = q \/ Before(p, q) \/ Before(q, p)
<1>1. ASSUME NEW p \in Places(k), NEW q
      PROVE  Before(p, q) <=> \E i \in 1 .. k : p[i] < q[i] /\ \A j \in 1 .. i - 1 : p[j] = q[j]
  BY DEF Places, Before
<1>2. ASSUME NEW p \in Places(k) PROVE ~ Before(p, p)
  BY <1>1 DEF Places
<1>3. ASSUME NEW p \in Places(k), NEW q \in Places(k), NEW r \in Places(k),
             Before(p, q), Before(q, r)
      PROVE  Before(p, r)
  <2>1. PICK i \in 1 .. k : p[i] < q[i] /\ \A j \in 1 .. i - 1 : p[j] = q[j]
    BY <1>1, <1>3
  <2>2. PICK j \in 1 .. k : q[j] < r[j] /\ \A m \in 1 .. j - 1 : q[m] = r[m]
    BY <1>1, <1>3
  <2>3. \A m \in 1 .. k : p[m] \in Int /\ q[m] \in Int /\ r[m] \in Int
    BY DEF Places
  <2>4. CASE i <= j
    <3>1. p[i] < r[i]
      <4>1. i = j \/ i \in 1 .. j - 1
        BY <2>4
      <4> QED BY <2>1, <2>2, <2>3, <4>1
    <3>2. \A m \in 1 .. i - 1 : p[m] = r[m]
      BY <2>1, <2>2, <2>4
    <3> QED BY <1>1, <3>1, <3>2
  <2>5. CASE j < i
    <3>1. p[j] < r[j]
      <4>1. j \in 1 .. i - 1
        BY <2>5
      <4> QED BY <2>1, <2>2, <2>3, <4>1
    <3>2. \A m \in 1 .. j - 1 : p[m] = r[m]
      BY <2>1, <2>2, <2>5
    <3> QED BY <1>1, <3>1, <3>2
  <2> QED BY <2>4, <2>5
<1>4. ASSUME NEW p \in Places(k), NEW q \in Places(k), p # q
      PROVE  Before(p, q) \/ Before(q, p)
  <2> DEFINE D == {i \in 1 .. k : p[i] # q[i]}
             m == Min(D)
  <2>1. D \in SUBSET Nat /\ D # {}
    BY <1>4 DEF Places
  <2>2. m \in D /\ \A i \in D : m <= i
    <3> HIDE DEF D
    <3> QED BY <2>1, LeastIsLeast
  <2> HIDE DEF m
  <2>3. m \in 1 .. k /\ p[m] # q[m] /\ \A j \in 1 .. m - 1 : p[j] = q[j]
    BY <2>2
  <2>4. p[m] \in Int /\ q[m] \in Int
    BY <2>3 DEF Places
  <2>5. p[m] < q[m] \/ q[m] < p[m]
    BY <2>3, <2>4
  <2> QED BY <1>1, <2>3, <2>5
<1> QED BY <1>2, <1>3, <1>4

\* How many places come before one.
Rank(P, p) == Cardinality({q \in P : Before(q, p)})

\* Ranks go up with the order, and no two places have the same.
LEMMA RanksGoUp ==
    ASSUME NEW k \in Nat, NEW P \in SUBSET Places(k), IsFiniteSet(P)
    PROVE  /\ Cardinality(P) \in Nat
           /\ \A p \in P : Rank(P, p) \in 0 .. Cardinality(P) - 1
           /\ \A p, q \in P : Before(p, q) <=> Rank(P, p) < Rank(P, q)
           /\ \A p, q \in P : Rank(P, p) = Rank(P, q) => p = q
<1> DEFINE less(p) == {q \in P : Before(q, p)}
<1>1. ASSUME NEW p \in P
      PROVE  IsFiniteSet(less(p)) /\ Cardinality(less(p)) \in Nat
  <2>1. less(p) \in SUBSET P
    OBVIOUS
  <2> QED BY <2>1, FS_Subset, FS_CardinalityType
<1>2. ASSUME NEW p \in P PROVE Cardinality(less(p)) < Cardinality(P)
  <2>1. less(p) \in SUBSET P /\ less(p) # P
    BY BeforeIsStrict
  <2> HIDE DEF less
  <2> QED BY <1>1, <2>1, FS_Subset, FS_CardinalityType
<1>3. ASSUME NEW p \in P, NEW q \in P, Before(p, q)
      PROVE  Cardinality(less(p)) < Cardinality(less(q))
  <2>1. less(p) \in SUBSET less(q) /\ less(p) # less(q)
    BY <1>3, BeforeIsStrict
  <2> HIDE DEF less
  <2> QED BY <1>1, <2>1, FS_Subset
<1>4. Cardinality(P) \in Nat
  BY FS_CardinalityType
<1>5. \A p \in P : Rank(P, p) = Cardinality(less(p)) /\ Rank(P, p) \in Nat
  BY <1>1 DEF Rank
<1>6. \A p, q \in P : Before(p, q) => Rank(P, p) < Rank(P, q)
  BY <1>3, <1>5
<1>7. \A p \in P : Rank(P, p) < Cardinality(P)
  BY <1>2, <1>5
<1>8. \A p, q \in P : p = q \/ Before(p, q) \/ Before(q, p)
  BY BeforeIsStrict
<1> HIDE DEF less
<1>9. \A p, q \in P : Rank(P, p) < Rank(P, q) => Before(p, q)
  BY <1>5, <1>6, <1>8
<1>10. \A p, q \in P : Rank(P, p) = Rank(P, q) => p = q
  BY <1>5, <1>6, <1>8
<1> QED BY <1>4, <1>5, <1>6, <1>7, <1>9, <1>10

\* The places in their order: all of them, one after another.
LEMMA OrderedIsSorted ==
    ASSUME NEW k \in Nat, NEW P \in SUBSET Places(k), IsFiniteSet(P)
    PROVE  /\ DOMAIN Ordered(P) = 1 .. Cardinality(P)
           /\ \A i \in 1 .. Cardinality(P) : Ordered(P)[i] \in P /\ Rank(P, Ordered(P)[i]) = i - 1
           /\ \A p \in P : \E i \in 1 .. Cardinality(P) : Ordered(P)[i] = p
<1> DEFINE n == Cardinality(P)
           f == [p \in P |-> Rank(P, p) + 1]
<1>1. n \in Nat
  BY FS_CardinalityType
<1>2. f \in [P -> 1 .. n]
  BY <1>1, RanksGoUp
<1>3. f \in Injection(P, 1 .. n)
  BY <1>2, RanksGoUp DEF Injection, IsInjective
<1>4. IsFiniteSet(1 .. n) /\ Cardinality(1 .. n) = n
  BY <1>1, FS_Interval
<1>5. f \in Surjection(P, 1 .. n)
  <2> HIDE DEF f, n
  <2> QED BY <1>3, <1>4, FS_Injection DEF n
<1>6. \A i \in 1 .. n : \E p \in P : Rank(P, p) = i - 1
  <2> SUFFICES ASSUME NEW i \in 1 .. n PROVE \E p \in P : Rank(P, p) = i - 1
    OBVIOUS
  <2>1. PICK p \in P : f[p] = i
    BY <1>5 DEF Surjection
  <2> QED BY <2>1, <1>1, RanksGoUp
<1>7. Ordered(P) = [i \in 1 .. n |-> CHOOSE p \in P : Rank(P, p) = i - 1]
  BY DEF Ordered, Rank
<1>8. \A i \in 1 .. n : Ordered(P)[i] \in P /\ Rank(P, Ordered(P)[i]) = i - 1
  BY <1>6, <1>7
<1>9. ASSUME NEW p \in P PROVE \E i \in 1 .. n : Ordered(P)[i] = p
  <2>1. f[p] \in 1 .. n /\ f[p] - 1 = Rank(P, p)
    BY <1>1, <1>2, RanksGoUp
  <2>2. Rank(P, Ordered(P)[f[p]]) = Rank(P, p) /\ Ordered(P)[f[p]] \in P
    BY <1>8, <2>1
  <2> QED BY <2>1, <2>2, RanksGoUp
<1> QED BY <1>7, <1>8, <1>9

\* A sequence of places in order is what its places are sorted to.
LEMMA SortedStays ==
    ASSUME NEW k \in Nat, NEW n \in Nat, NEW s \in [1 .. n -> Places(k)],
           \A i \in 2 .. n : Before(s[i - 1], s[i])
    PROVE  Ordered({s[i] : i \in 1 .. n}) = s
<1> DEFINE P == {s[i] : i \in 1 .. n}
<1>1. \A j \in 1 .. n : \A i \in 1 .. j - 1 : Before(s[i], s[j])
  <2> DEFINE bad == {j \in 1 .. n : ~ \A i \in 1 .. j - 1 : Before(s[i], s[j])}
  <2> SUFFICES ASSUME bad # {} PROVE FALSE
    OBVIOUS
  <2>1. bad \in SUBSET Nat
    OBVIOUS
  <2> DEFINE j == Min(bad)
  <2>2. j \in bad /\ \A m \in bad : j <= m
    BY <2>1, LeastIsLeast
  <2>3. PICK i \in 1 .. j - 1 : ~ Before(s[i], s[j])
    BY <2>2
  <2> HIDE DEF j
  <2>4. j \in 2 .. n /\ j - 1 \in 1 .. n /\ j - 1 \notin bad
    BY <2>2, <2>3
  <2>5. i # j - 1
    BY <2>3, <2>4
  <2>6. i \in 1 .. (j - 1) - 1
    BY <2>3, <2>4, <2>5
  <2>7. Before(s[i], s[j - 1])
    BY <2>4, <2>6
  <2>8. s[i] \in Places(k) /\ s[j - 1] \in Places(k) /\ s[j] \in Places(k)
    BY <2>2, <2>4, <2>6
  <2> QED BY <2>3, <2>4, <2>7, <2>8, BeforeIsStrict
<1>2. P \in SUBSET Places(k) /\ IsFiniteSet(P) /\ Cardinality(P) = n
  <2>1. s \in Bijection(1 .. n, P)
    <3>1. ASSUME NEW i \in 1 .. n, NEW j \in 1 .. n, s[i] = s[j] PROVE i = j
      <4>1. ASSUME i < j PROVE FALSE
        BY <1>1, <3>1, <4>1, BeforeIsStrict
      <4>2. ASSUME j < i PROVE FALSE
        BY <1>1, <3>1, <4>2, BeforeIsStrict
      <4> QED BY <4>1, <4>2
    <3>2. s \in [1 .. n -> P] /\ \A p \in P : \E i \in 1 .. n : s[i] = p
      OBVIOUS
    <3> QED BY <3>1, <3>2 DEF Bijection, Injection, Surjection, IsInjective
  <2>2. IsFiniteSet(1 .. n) /\ Cardinality(1 .. n) = n
    BY FS_Interval
  <2> QED BY <2>1, <2>2, FS_Bijection DEF ExistsBijection
<1>3. ASSUME NEW i \in 1 .. n PROVE Rank(P, s[i]) = i - 1
  <2> DEFINE less == {q \in P : Before(q, s[i])}
             t == [j \in 1 .. i - 1 |-> s[j]]
  <2>1. \A j \in 1 .. n : Before(s[j], s[i]) <=> j < i
    <3> SUFFICES ASSUME NEW j \in 1 .. n, Before(s[j], s[i]) PROVE j < i
      BY <1>1
    <3>1. j # i
      BY BeforeIsStrict
    <3>2. ASSUME i < j PROVE FALSE
      <4>1. Before(s[i], s[j])
        BY <1>1, <3>2
      <4> QED BY <4>1, BeforeIsStrict
    <3> QED BY <3>1, <3>2
  <2>2. less = {s[j] : j \in 1 .. i - 1}
    BY <2>1
  <2>3. t \in Bijection(1 .. i - 1, less)
    <3>1. ASSUME NEW j \in 1 .. i - 1, NEW m \in 1 .. i - 1, s[j] = s[m] PROVE j = m
      <4>1. ASSUME j < m PROVE FALSE
        BY <1>1, <3>1, <4>1, BeforeIsStrict
      <4>2. ASSUME m < j PROVE FALSE
        BY <1>1, <3>1, <4>2, BeforeIsStrict
      <4> QED BY <4>1, <4>2
    <3>2. t \in [1 .. i - 1 -> less] /\ \A p \in less : \E j \in 1 .. i - 1 : t[j] = p
      BY <2>2
    <3> HIDE DEF less
    <3> QED BY <3>1, <3>2 DEF Bijection, Injection, Surjection, IsInjective
  <2>4. IsFiniteSet(1 .. i - 1) /\ Cardinality(1 .. i - 1) = i - 1
    BY FS_Interval
  <2> HIDE DEF t, less
  <2>5. Cardinality(less) = i - 1
    BY <2>3, <2>4, FS_Bijection DEF ExistsBijection
  <2> QED BY <2>5 DEF Rank, less
<1>4. ASSUME NEW i \in 1 .. n PROVE Ordered(P)[i] = s[i]
  <2>1. s[i] \in P /\ Ordered(P)[i] \in P /\ Rank(P, Ordered(P)[i]) = i - 1
    BY <1>2, OrderedIsSorted
  <2> HIDE DEF P
  <2> QED BY <1>2, <1>3, <2>1, RanksGoUp
<1>5. Ordered(P) = [i \in 1 .. n |-> Ordered(P)[i]]
  <2> DEFINE at(i) == CHOOSE p \in P : Cardinality({q \in P : Before(q, p)}) = i - 1
  <2>1. Ordered(P) = [i \in 1 .. n |-> at(i)]
    BY <1>2 DEF Ordered
  <2> HIDE DEF at, P
  <2> QED BY <2>1
<1> HIDE DEF P
<1>6. Ordered(P) = s
  BY <1>4, <1>5
<1> QED BY <1>6 DEF P

----------------------------------------------------------------------------
(* Joining lists (FlattenSeq) and adding hits (SumOver): recursive            *)
(* definitions, by the least length or size at which they could go wrong.     *)

\* A recursion along a list of lists has a value.
LEMMA FlattenHasAValue ==
    ASSUME NEW ss, NEW n \in Nat
    PROVE  \E f : f = [i \in 1 .. n |-> IF i = 1 THEN ss[i] ELSE f[i - 1] \o ss[i]]
<1> DEFINE Solves(f, k) == f = [i \in 1 .. k |-> IF i = 1 THEN ss[i] ELSE f[i - 1] \o ss[i]]
           bad == {k \in Nat : ~ \E f : Solves(f, k)}
<1> SUFFICES ASSUME bad # {} PROVE FALSE
  OBVIOUS
<1> DEFINE m == Min(bad)
<1> HIDE DEF Solves
<1>1. bad \in SUBSET Nat
  OBVIOUS
<1>2. m \in bad /\ \A k \in bad : m <= k
  BY <1>1, LeastIsLeast
<1> HIDE DEF m
<1>3. m \in Nat /\ ~ \E f : Solves(f, m)
  BY <1>2
<1>4. m # 0
  <2> DEFINE e == [i \in 1 .. 0 |-> ss]
  <2>1. Solves(e, 0)
    BY DEF Solves
  <2> QED BY <2>1, <1>3
<1>5. m - 1 \in Nat /\ m - 1 \notin bad
  BY <1>2, <1>3, <1>4
<1>6. PICK f : Solves(f, m - 1)
  BY <1>5
<1> DEFINE g == [i \in 1 .. m |-> IF i = 1 THEN ss[i] ELSE f[i - 1] \o ss[i]]
<1>7. \A i \in 1 .. m - 1 : g[i] = f[i]
  <2>1. m - 1 \in Nat /\ \A i \in 1 .. m - 1 : i \in 1 .. m
    BY <1>3, <1>5
  <2>2. \A i \in 1 .. m - 1 : f[i] = IF i = 1 THEN ss[i] ELSE f[i - 1] \o ss[i]
    BY <1>6 DEF Solves
  <2>3. \A i \in 1 .. m : g[i] = IF i = 1 THEN ss[i] ELSE f[i - 1] \o ss[i]
    OBVIOUS
  <2> HIDE DEF g
  <2> QED BY <2>1, <2>2, <2>3
<1>8. \A i \in 1 .. m : i # 1 => g[i - 1] = f[i - 1]
  <2> HIDE DEF g
  <2>1. \A i \in 1 .. m : i # 1 => i - 1 \in 1 .. m - 1
    BY <1>3
  <2> QED BY <1>7, <2>1
<1>9. Solves(g, m)
  BY <1>3, <1>8 DEF Solves
<1> QED BY <1>3, <1>9

\* A joined list has the items of the lists it is joined from.
LEMMA FlattenJoins ==
    ASSUME NEW B, NEW n \in Nat, NEW ss \in [1 .. n -> Seq(B)]
    PROVE  /\ FlattenSeq(ss) \in Seq(B)
           /\ Range(FlattenSeq(ss)) = UNION {Range(ss[i]) : i \in 1 .. n}
           /\ \A k \in 1 .. n : (\A i \in 1 .. n : i # k => ss[i] = <<>>) => FlattenSeq(ss) = ss[k]
<1>1. ss \in Seq(Seq(B)) /\ Len(ss) = n
  OBVIOUS
<1>2. CASE n = 0
  <2>1. FlattenSeq(ss) = ss /\ ss = <<>>
    BY <1>1, <1>2 DEF FlattenSeq
  <2> QED BY <1>2, <2>1 DEF Range
<1>3. CASE n # 0
  <2> DEFINE Solves(f) == f = [i \in 1 .. n |-> IF i = 1 THEN ss[i] ELSE f[i - 1] \o ss[i]]
             flat == CHOOSE f : Solves(f)
  <2>1. FlattenSeq(ss) = flat[n]
    BY <1>1, <1>3 DEF FlattenSeq
  <2>2. Solves(flat)
    <3>1. \E f : Solves(f)
      BY FlattenHasAValue
    <3> HIDE DEF Solves
    <3> QED BY <3>1
  <2>3. \A i \in 1 .. n : flat[i] = IF i = 1 THEN ss[i] ELSE flat[i - 1] \o ss[i]
    <3> HIDE DEF flat
    <3> QED BY <2>2
  <2> HIDE DEF flat
  <2> DEFINE Good(i) ==
               /\ flat[i] \in Seq(B)
               /\ Range(flat[i]) = UNION {Range(ss[j]) : j \in 1 .. i}
               /\ \A k \in 1 .. n : (\A j \in 1 .. n : j # k => ss[j] = <<>>) =>
                    flat[i] = IF k <= i THEN ss[k] ELSE <<>>
             bad == {i \in 1 .. n : ~ Good(i)}
  <2>4. bad = {}
    <3> SUFFICES ASSUME bad # {} PROVE FALSE
      OBVIOUS
    <3> DEFINE m == Min(bad)
    <3> HIDE DEF Good
    <3>1. bad \in SUBSET Nat
      OBVIOUS
    <3>2. m \in bad /\ \A k \in bad : m <= k
      BY <3>1, LeastIsLeast
    <3> HIDE DEF m
    <3>3. m \in 1 .. n /\ ~ Good(m)
      BY <3>2
    <3>4. CASE m = 1
      <4>1. flat[1] = ss[1]
        BY <2>3, <3>3, <3>4
      <4>2. ss[1] \in Seq(B) /\ 1 .. 1 = {1}
        BY <3>3, <3>4
      <4>3. Range(flat[1]) = UNION {Range(ss[j]) : j \in 1 .. 1}
        BY <4>1, <4>2
      <4>4. ASSUME NEW k \in 1 .. n, \A j \in 1 .. n : j # k => ss[j] = <<>>
            PROVE  flat[1] = IF k <= 1 THEN ss[k] ELSE <<>>
        <5>1. CASE k = 1
          BY <4>1, <5>1
        <5>2. CASE k # 1
          <6>1. ~ (k <= 1) /\ 1 \in 1 .. n
            BY <3>3, <3>4, <5>2
          <6>2. ss[1] = <<>>
            BY <4>4, <5>2, <6>1
          <6> QED BY <4>1, <6>1, <6>2
        <5> QED BY <5>1, <5>2
      <4>5. Good(1)
        BY <4>1, <4>2, <4>3, <4>4 DEF Good
      <4> QED BY <3>3, <3>4, <4>5
    <3>5. CASE m # 1
      <4>1. m - 1 \in 1 .. n /\ m - 1 \notin bad
        BY <3>2, <3>3, <3>5
      <4>2. Good(m - 1)
        BY <4>1
      <4>3. flat[m] = flat[m - 1] \o ss[m] /\ ss[m] \in Seq(B) /\ flat[m - 1] \in Seq(B)
        BY <2>3, <3>3, <3>5, <4>2 DEF Good
      <4>4. Range(flat[m]) = Range(flat[m - 1]) \cup Range(ss[m])
        <5> DEFINE a == flat[m - 1]
                   b == ss[m]
        <5>1. a \in Seq(B) /\ b \in Seq(B) /\ flat[m] = a \o b
          BY <4>3
        <5> HIDE DEF a, b
        <5>2. /\ DOMAIN (a \o b) = 1 .. Len(a) + Len(b)
              /\ \A i \in 1 .. Len(a) + Len(b) : (a \o b)[i] = IF i <= Len(a) THEN a[i] ELSE b[i - Len(a)]
          BY <5>1
        <5>3. ASSUME NEW x \in Range(a \o b) PROVE x \in Range(a) \cup Range(b)
          BY <5>1, <5>2 DEF Range
        <5>4. ASSUME NEW x \in Range(a) PROVE x \in Range(a \o b)
          <6>1. PICK i \in DOMAIN a : x = a[i]
            BY DEF Range
          <6>2. i \in 1 .. Len(a) + Len(b) /\ (a \o b)[i] = x
            BY <5>1, <5>2, <6>1
          <6> QED BY <5>2, <6>2 DEF Range
        <5>5. ASSUME NEW x \in Range(b) PROVE x \in Range(a \o b)
          <6>1. PICK i \in DOMAIN b : x = b[i]
            BY DEF Range
          <6>2. i + Len(a) \in 1 .. Len(a) + Len(b) /\ (a \o b)[i + Len(a)] = x
            BY <5>1, <5>2, <6>1
          <6> QED BY <5>2, <6>2 DEF Range
        <5> QED BY <5>1, <5>3, <5>4, <5>5 DEF a, b
      <4>5. UNION {Range(ss[j]) : j \in 1 .. m}
              = (UNION {Range(ss[j]) : j \in 1 .. m - 1}) \cup Range(ss[m])
        <5>1. 1 .. m = (1 .. m - 1) \cup {m}
          BY <3>3
        <5> QED BY <5>1
      <4>6. ASSUME NEW k \in 1 .. n, \A j \in 1 .. n : j # k => ss[j] = <<>>
            PROVE  flat[m] = IF k <= m THEN ss[k] ELSE <<>>
        <5>1. flat[m - 1] = IF k <= m - 1 THEN ss[k] ELSE <<>>
          BY <4>2, <4>6 DEF Good
        <5>2. CASE k = m
          BY <3>3, <4>3, <5>1, <5>2
        <5>3. CASE k # m
          <6>1. ss[m] = <<>>
            BY <3>3, <4>6, <5>3
          <6>2. flat[m] = flat[m - 1]
            BY <4>3, <6>1
          <6> QED BY <3>3, <5>1, <5>3, <6>2
        <5> QED BY <5>2, <5>3
      <4> QED BY <3>3, <4>2, <4>3, <4>4, <4>5, <4>6 DEF Good
    <3> QED BY <3>4, <3>5
  <2>5. Good(n)
    <3>1. n \in 1 .. n
      BY <1>3
    <3> HIDE DEF Good
    <3> QED BY <2>4, <3>1
  <2> QED BY <2>1, <2>5
<1> QED BY <1>2, <1>3

\* The recursion that adds up hits, as its definition has it.
AddsUp(L, S, f) ==
    f = [s \in SUBSET S |->
           IF s = {} THEN 0 ELSE LET x == CHOOSE y \in s : TRUE IN L[x].count + f[s \ {x}]]

\* It has a value over a finite set: sets of at most n items first.
LEMMA SumHasAValue ==
    ASSUME NEW L, NEW S, IsFiniteSet(S)
    PROVE  \E f : AddsUp(L, S, f)
<1> DEFINE Pick(s) == CHOOSE y \in s : TRUE
           Small(k) == {s \in SUBSET S : Cardinality(s) <= k}
           Solves(f, k) == f = [s \in Small(k) |->
                                  IF s = {} THEN 0 ELSE L[Pick(s)].count + f[s \ {Pick(s)}]]
           bad == {k \in Nat : ~ \E f : Solves(f, k)}
<1>1. \A s \in SUBSET S : IsFiniteSet(s) /\ Cardinality(s) \in Nat
  BY FS_Subset, FS_CardinalityType
<1>2. \A s \in SUBSET S : s # {} =>
        /\ Pick(s) \in s /\ s \ {Pick(s)} \in SUBSET S
        /\ Cardinality(s \ {Pick(s)}) = Cardinality(s) - 1
  <2> SUFFICES ASSUME NEW s \in SUBSET S, s # {}
               PROVE  /\ Pick(s) \in s
                      /\ Cardinality(s \ {Pick(s)}) = Cardinality(s) - 1
    OBVIOUS
  <2>1. Pick(s) \in s
    OBVIOUS
  <2> HIDE DEF Pick
  <2> QED BY <1>1, <2>1, FS_RemoveElement
<1> HIDE DEF Pick
<1>3. bad = {}
  <2> SUFFICES ASSUME bad # {} PROVE FALSE
    OBVIOUS
  <2> DEFINE m == Min(bad)
  <2> HIDE DEF Solves
  <2>1. bad \in SUBSET Nat
    OBVIOUS
  <2>2. m \in bad /\ \A k \in bad : m <= k
    BY <2>1, LeastIsLeast
  <2> HIDE DEF m
  <2>3. m \in Nat /\ ~ \E f : Solves(f, m)
    BY <2>2
  <2>4. m # 0
    <3> SUFFICES ASSUME m = 0 PROVE FALSE
      OBVIOUS
    <3> DEFINE e == [s \in Small(0) |-> 0]
    <3>1. \A s \in Small(0) : s = {}
      BY <1>1, FS_EmptySet
    <3>2. Solves(e, 0)
      BY <3>1 DEF Solves
    <3> QED BY <2>3, <3>2
  <2>5. m - 1 \in Nat /\ m - 1 \notin bad
    BY <2>2, <2>3, <2>4
  <2>6. PICK f : Solves(f, m - 1)
    BY <2>5
  <2> DEFINE g == [s \in Small(m) |-> IF s = {} THEN 0 ELSE L[Pick(s)].count + f[s \ {Pick(s)}]]
  <2>7. Small(m - 1) \in SUBSET Small(m)
    BY <1>1, <2>3
  <2>8. \A s \in Small(m - 1) : g[s] = f[s]
    <3>1. \A s \in Small(m - 1) : f[s] = IF s = {} THEN 0 ELSE L[Pick(s)].count + f[s \ {Pick(s)}]
      <4> HIDE DEF Small
      <4> QED BY <2>6 DEF Solves
    <3>2. \A s \in Small(m) : g[s] = IF s = {} THEN 0 ELSE L[Pick(s)].count + f[s \ {Pick(s)}]
      <4> HIDE DEF Small
      <4> QED OBVIOUS
    <3> HIDE DEF g, Small
    <3> QED BY <2>7, <3>1, <3>2
  <2>9. \A s \in Small(m) : s # {} => s \ {Pick(s)} \in Small(m - 1)
    BY <1>1, <1>2, <2>3
  <2> HIDE DEF Small
  <2>10. \A s \in Small(m) : s # {} => g[s \ {Pick(s)}] = f[s \ {Pick(s)}]
    <3> HIDE DEF g
    <3> QED BY <2>8, <2>9
  <2>11. Solves(g, m)
    BY <2>10 DEF Solves
  <2> QED BY <2>3, <2>11
<1>4. Cardinality(S) \in Nat
  BY FS_CardinalityType
<1>5. Small(Cardinality(S)) = SUBSET S
  BY FS_Subset
<1>6. PICK f : Solves(f, Cardinality(S))
  <2> HIDE DEF Solves
  <2> QED BY <1>3, <1>4
<1>7. f = [s \in SUBSET S |-> IF s = {} THEN 0 ELSE L[Pick(s)].count + f[s \ {Pick(s)}]]
  <2> HIDE DEF Small
  <2> QED BY <1>5, <1>6
<1>8. AddsUp(L, S, f)
  BY <1>7 DEF AddsUp, Pick
<1> QED BY <1>8

\* Hits of finitely many blocks add up to some exactly if one of them has some,
\* and to its own if there is but one.
LEMMA HitsAddUp ==
    ASSUME NEW L, NEW S, IsFiniteSet(S), \A i \in S : L[i].count \in Nat
    PROVE  /\ SumOver(S, LAMBDA i : L[i].count) \in Nat
           /\ SumOver(S, LAMBDA i : L[i].count) > 0 <=> \E i \in S : L[i].count > 0
           /\ \A i : S = {i} => SumOver(S, LAMBDA j : L[j].count) = L[i].count
<1> DEFINE Pick(s) == CHOOSE y \in s : TRUE
           sum == CHOOSE f : AddsUp(L, S, f)
<1>1. SumOver(S, LAMBDA i : L[i].count) = sum[S]
  BY DEF SumOver, MapThenSumSet, MapThenFoldSet, AddsUp
<1>2. AddsUp(L, S, sum)
  BY SumHasAValue
<1>3. \A s \in SUBSET S : sum[s] = IF s = {} THEN 0 ELSE L[Pick(s)].count + sum[s \ {Pick(s)}]
  <2> HIDE DEF sum
  <2> QED BY <1>2 DEF AddsUp
<1>4. \A s \in SUBSET S : IsFiniteSet(s) /\ Cardinality(s) \in Nat
  BY FS_Subset, FS_CardinalityType
<1>5. \A s \in SUBSET S : s # {} =>
        /\ Pick(s) \in s /\ s \ {Pick(s)} \in SUBSET S
        /\ Cardinality(s \ {Pick(s)}) = Cardinality(s) - 1
  <2> SUFFICES ASSUME NEW s \in SUBSET S, s # {}
               PROVE  /\ Pick(s) \in s
                      /\ Cardinality(s \ {Pick(s)}) = Cardinality(s) - 1
    OBVIOUS
  <2>1. Pick(s) \in s
    OBVIOUS
  <2> HIDE DEF Pick
  <2> QED BY <1>4, <2>1, FS_RemoveElement
<1> HIDE DEF sum, Pick
<1> DEFINE Good(s) == sum[s] \in Nat /\ (sum[s] > 0 <=> \E i \in s : L[i].count > 0)
           bad == {Cardinality(s) : s \in {t \in SUBSET S : ~ Good(t)}}
<1>6. bad = {}
  <2> SUFFICES ASSUME bad # {} PROVE FALSE
    OBVIOUS
  <2> DEFINE m == Min(bad)
  <2>1. bad \in SUBSET Nat
    BY <1>4
  <2>2. m \in bad /\ \A k \in bad : m <= k
    <3> HIDE DEF bad
    <3> QED BY <2>1, LeastIsLeast
  <2> HIDE DEF m, Good
  <2>3. PICK s \in SUBSET S : ~ Good(s) /\ Cardinality(s) = m
    BY <2>2
  <2>4. CASE s = {}
    BY <1>3, <2>3, <2>4 DEF Good
  <2>5. CASE s # {}
    <3> DEFINE x == Pick(s)
               t == s \ {x}
    <3>1. x \in s /\ t \in SUBSET S /\ Cardinality(t) = m - 1 /\ m \in Nat
      BY <1>4, <1>5, <2>3, <2>5
    <3>2. sum[s] = L[x].count + sum[t]
      BY <1>3, <2>5
    <3>3. s = t \cup {x} /\ L[x].count \in Nat
      BY <3>1
    <3> HIDE DEF x, t
    <3>4. Good(t)
      BY <2>2, <3>1
    <3> QED BY <2>3, <3>2, <3>3, <3>4 DEF Good
  <2> QED BY <2>4, <2>5
<1>7. Good(S)
  <2> HIDE DEF Good
  <2> QED BY <1>6
<1>8. ASSUME NEW i, S = {i} PROVE sum[S] = L[i].count
  <2>1. Pick(S) = i /\ S \ {Pick(S)} = {}
    BY <1>8, <1>5
  <2>2. sum[{}] = 0 /\ L[i].count \in Nat
    BY <1>3, <1>8
  <2>3. sum[S] = L[Pick(S)].count + sum[S \ {Pick(S)}]
    BY <1>3, <1>8
  <2> QED BY <2>1, <2>2, <2>3
<1> QED BY <1>1, <1>7, <1>8

----------------------------------------------------------------------------
(* The merge of blocks (MergedBlocks, AtPosition).                            *)

\* The blocks of a list, which at one place hold the same statements.
IsBlockList(L) ==
    /\ IsSeq(L) /\ \A b \in Range(L) : IsBlock(b)
    /\ \A a, b \in Range(L) : Position(a) = Position(b) => (Statement(a) <=> Statement(b))

\* A list has finitely many items.
LEMMA ItemsAreFinite ==
    ASSUME NEW n \in Nat, NEW f, DOMAIN f = 1 .. n
    PROVE  IsFiniteSet(1 .. n) /\ IsFiniteSet({f[i] : i \in 1 .. n})
<1> DEFINE S == {f[i] : i \in 1 .. n}
           g == [i \in 1 .. n |-> f[i]]
<1>1. IsFiniteSet(1 .. n)
  <2>1. 1 \in Int /\ n \in Int
    OBVIOUS
  <2> QED BY <2>1, FS_Interval
<1>2. g \in Surjection(1 .. n, S)
  BY DEF Surjection
<1> HIDE DEF g, S
<1>3. IsFiniteSet(S)
  BY <1>1, <1>2, FS_Surjection
<1> QED BY <1>1, <1>3 DEF S

\* The indices of a list, its places, and its blocks at one place.
LEMMA BlocksOfAList ==
    ASSUME NEW L, IsBlockList(L)
    PROVE  /\ Len(L) \in Nat /\ DOMAIN L = 1 .. Len(L) /\ L = [i \in 1 .. Len(L) |-> L[i]]
           /\ \A i \in DOMAIN L : /\ IsBlock(L[i]) /\ Position(L[i]) \in Places(4)
                                  /\ L[i].num_stmts \in Nat /\ L[i].count \in Nat
           /\ \A i, j \in DOMAIN L :
                Position(L[i]) = Position(L[j]) => (Statement(L[i]) <=> Statement(L[j]))
<1>1. Len(L) \in Nat /\ DOMAIN L = 1 .. Len(L) /\ L = [i \in 1 .. Len(L) |-> L[i]]
  BY DEF IsBlockList, IsSeq
<1>2. \A i \in DOMAIN L : L[i] \in Range(L)
  BY DEF Range
<1>3. \A b : IsBlock(b) => Position(b) \in Places(4) /\ b.num_stmts \in Nat /\ b.count \in Nat
  BY TuplesArePlaces DEF IsBlock, Position
<1> QED BY <1>1, <1>2, <1>3 DEF IsBlockList

\* The block at one place: its statements, and hits if any block there has some.
LEMMA BlockAtPosition ==
    ASSUME NEW L, IsBlockList(L), NEW k \in DOMAIN L
    PROVE  LET p == Position(L[k])
               b == AtPosition(L, p)
           IN  /\ Position(b) = p /\ b.start_line = L[k].start_line /\ b.end_line = L[k].end_line
               /\ Statement(b) <=> Statement(L[k])
               /\ b.count > 0 <=> \E i \in DOMAIN L : Position(L[i]) = p /\ L[i].count > 0
               /\ (\A i \in DOMAIN L : Position(L[i]) = p => i = k) => b = L[k]
<1> DEFINE p == Position(L[k])
           b == AtPosition(L, p)
           same == {i \in DOMAIN L : Position(L[i]) = p}
<1>1. /\ \A i \in DOMAIN L : L[i].num_stmts \in Nat /\ L[i].count \in Nat /\ IsBlock(L[i])
      /\ \A i \in same : Statement(L[i]) <=> Statement(L[k])
      /\ k \in same
  BY BlocksOfAList
<1>2. IsFiniteSet(same)
  <2>1. IsFiniteSet(1 .. Len(L))
    BY BlocksOfAList, ItemsAreFinite
  <2>2. same \in SUBSET (1 .. Len(L))
    BY BlocksOfAList
  <2> HIDE DEF same
  <2> QED BY <2>1, <2>2, FS_Subset
<1> DEFINE largest == Max({L[i].num_stmts : i \in same})
<1>3. largest \in {L[i].num_stmts : i \in same}
  <2> DEFINE counts == {L[i].num_stmts : i \in same}
             f == [i \in same |-> L[i].num_stmts]
  <2>1. counts \in SUBSET Nat /\ counts # {}
    BY <1>1
  <2>2. f \in Surjection(same, counts)
    BY DEF Surjection
  <2>3. IsFiniteSet(counts)
    <3> HIDE DEF f, counts, same
    <3> QED BY <1>2, <2>2, FS_Surjection
  <2> HIDE DEF counts
  <2>4. PICK n \in Nat : \A m \in counts : m <= n
    BY <2>1, <2>3, FiniteIsBounded
  <2>5. Max(counts) \in counts
    BY <2>1, <2>4, LargestIsLargest
  <2> QED BY <2>5 DEF counts
<1>4. b = Block(p[1], p[2], p[3], p[4], largest, SumOver(same, LAMBDA i : L[i].count))
  BY DEF AtPosition
<1>5. /\ p[1] = L[k].start_line /\ p[2] = L[k].start_col
      /\ p[3] = L[k].end_line /\ p[4] = L[k].end_col
  BY DEF Position
<1>6. b.count > 0 <=> \E i \in same : L[i].count > 0
  <2>1. b.count = SumOver(same, LAMBDA i : L[i].count)
    BY <1>4 DEF Block
  <2>2. \A i \in same : L[i].count \in Nat
    BY <1>1
  <2> HIDE DEF same, b
  <2> QED BY <1>2, <2>1, <2>2, HitsAddUp
<1>7. ASSUME \A i \in DOMAIN L : Position(L[i]) = p => i = k PROVE b = L[k]
  <2>1. same = {k}
    BY <1>1, <1>7
  <2>2. \A i \in same : L[i].count \in Nat
    BY <1>1
  <2>3. SumOver(same, LAMBDA i : L[i].count) = L[k].count
    <3> HIDE DEF same
    <3> QED BY <1>2, <2>1, <2>2, HitsAddUp
  <2>4. b = Block(L[k].start_line, L[k].start_col, L[k].end_line, L[k].end_col,
                  L[k].num_stmts, L[k].count)
    <3>1. largest = L[k].num_stmts
      BY <1>3, <2>1
    <3> QED BY <1>4, <1>5, <2>3, <3>1
  <2>5. IsBlock(L[k])
    BY <1>1
  <2> QED BY <2>4, <2>5 DEF Block, IsBlock
<1>8. /\ b.num_stmts = largest /\ b.start_line = p[1] /\ b.end_line = p[3]
      /\ Position(b) = <<p[1], p[2], p[3], p[4]>>
  BY <1>4 DEF Block, Position
<1>10. Statement(b) <=> Statement(L[k])
  <2> HIDE DEF largest, b, same
  <2>1. PICK i \in same : largest = L[i].num_stmts
    BY <1>3
  <2> QED BY <1>1, <1>8, <2>1 DEF Statement
<1>9. p = <<p[1], p[2], p[3], p[4]>>
  BY DEF Position
<1> HIDE DEF b, p
<1> QED BY <1>5, <1>6, <1>7, <1>8, <1>9, <1>10 DEF b, p

\* The merged list has one block at each place, in order.
LEMMA MergedIsOrdered ==
    ASSUME NEW L, IsBlockList(L)
    PROVE  LET M == MergedBlocks(L)
           IN  /\ Canonical(M)
               /\ \A m \in DOMAIN M : \E k \in DOMAIN L : M[m] = AtPosition(L, Position(L[k]))
               /\ \A k \in DOMAIN L : \E m \in DOMAIN M : M[m] = AtPosition(L, Position(L[k]))
<1> DEFINE P == {Position(L[i]) : i \in DOMAIN L}
           order == Ordered(P)
           M == MergedBlocks(L)
<1>1. P \in SUBSET Places(4) /\ IsFiniteSet(P)
  <2>1. P \in SUBSET Places(4)
    BY BlocksOfAList
  <2> DEFINE f == [i \in 1 .. Len(L) |-> Position(L[i])]
  <2>2. P = {f[i] : i \in 1 .. Len(L)}
    BY BlocksOfAList
  <2>3. DOMAIN f = 1 .. Len(L) /\ Len(L) \in Nat
    BY BlocksOfAList
  <2> HIDE DEF f, P
  <2> QED BY <2>1, <2>2, <2>3, ItemsAreFinite
<1>2. M = [i \in DOMAIN order |-> AtPosition(L, order[i])]
  BY DEF MergedBlocks
<1>3. /\ DOMAIN order = 1 .. Cardinality(P) /\ Cardinality(P) \in Nat
      /\ \A i \in DOMAIN order : order[i] \in P /\ Rank(P, order[i]) = i - 1
      /\ \A p \in P : \E i \in DOMAIN order : order[i] = p
  <2> HIDE DEF P
  <2> QED BY <1>1, OrderedIsSorted, FS_CardinalityType
<1>4. ASSUME NEW i \in DOMAIN M PROVE Position(M[i]) = order[i]
  <2>1. PICK k \in DOMAIN L : order[i] = Position(L[k])
    BY <1>2, <1>3
  <2>2. M[i] = AtPosition(L, Position(L[k]))
    BY <1>2, <2>1
  <2> QED BY <2>1, <2>2, BlockAtPosition
<1>5. Canonical(M)
  <2> SUFFICES ASSUME NEW i \in DOMAIN M \ {1} PROVE Before(Position(M[i - 1]), Position(M[i]))
    BY DEF Canonical
  <2>1. i \in DOMAIN order /\ i - 1 \in DOMAIN order /\ i \in Nat
    BY <1>2, <1>3
  <2>2. order[i - 1] \in P /\ order[i] \in P /\ Rank(P, order[i - 1]) < Rank(P, order[i])
    <3>1. order[i] \in P /\ Rank(P, order[i]) = i - 1
      BY <1>3, <2>1
    <3>2. order[i - 1] \in P /\ Rank(P, order[i - 1]) = (i - 1) - 1
      BY <1>3, <2>1
    <3> HIDE DEF P, order
    <3> QED BY <2>1, <3>1, <3>2
  <2>3. Before(order[i - 1], order[i])
    <3> HIDE DEF P
    <3> QED BY <1>1, <2>2, RanksGoUp
  <2> QED BY <1>2, <1>4, <2>1, <2>3
<1>6. \A m \in DOMAIN M : \E k \in DOMAIN L : M[m] = AtPosition(L, Position(L[k]))
  <2> HIDE DEF M, order
  <2>1. \A m \in DOMAIN M : M[m] = AtPosition(L, order[m]) /\ order[m] \in P
    BY <1>2, <1>3
  <2> QED BY <2>1
<1>7. \A k \in DOMAIN L : \E m \in DOMAIN M : M[m] = AtPosition(L, Position(L[k]))
  <2> HIDE DEF M, order
  <2>1. \A k \in DOMAIN L : \E m \in DOMAIN M : order[m] = Position(L[k])
    BY <1>2, <1>3
  <2> QED BY <1>2, <2>1
<1> HIDE DEF M
<1> QED BY <1>5, <1>6, <1>7 DEF M

\* A line is executable in the merged list if it is in the list, and ran in it
\* if some block of the list ran over it.
LEMMA MergedKeepsLines ==
    ASSUME NEW L, IsBlockList(L)
    PROVE  /\ LinesWhere(MergedBlocks(L), Statement) = LinesWhere(L, Statement)
           /\ LinesWhere(MergedBlocks(L), Ran) = LinesWhere(L, Ran)
<1> DEFINE M == MergedBlocks(L)
<1>1. \A k \in DOMAIN L :
        LET b == AtPosition(L, Position(L[k]))
        IN  /\ b.start_line = L[k].start_line /\ b.end_line = L[k].end_line
            /\ Statement(b) <=> Statement(L[k])
            /\ b.count > 0 <=> \E i \in DOMAIN L : Position(L[i]) = Position(L[k]) /\ L[i].count > 0
  BY BlockAtPosition
<1>2. \A i, k \in DOMAIN L : Position(L[i]) = Position(L[k]) =>
        /\ L[i].start_line = L[k].start_line /\ L[i].end_line = L[k].end_line
        /\ Statement(L[i]) <=> Statement(L[k])
  <2>1. \A a, b : Position(a) = Position(b) => a.start_line = b.start_line /\ a.end_line = b.end_line
    BY DEF Position
  <2> QED BY <2>1, BlocksOfAList
<1>3. /\ \A m \in DOMAIN M : \E k \in DOMAIN L : M[m] = AtPosition(L, Position(L[k]))
      /\ \A k \in DOMAIN L : \E m \in DOMAIN M : M[m] = AtPosition(L, Position(L[k]))
  BY MergedIsOrdered
<1> HIDE DEF M
<1> DEFINE Over1(b, l) == l \in b.start_line .. b.end_line /\ Statement(b)
<1>4. \A l : l \in LinesWhere(M, Statement) <=> \E m \in DOMAIN M : Over1(M[m], l)
  BY DEF LinesWhere, Statement
<1>5. \A l : l \in LinesWhere(L, Statement) <=> \E k \in DOMAIN L : Over1(L[k], l)
  BY DEF LinesWhere, Statement
<1>6. \A l : l \in LinesWhere(M, Ran) <=> \E m \in DOMAIN M : Over1(M[m], l) /\ M[m].count > 0
  BY DEF LinesWhere, Ran, Statement
<1>7. \A l : l \in LinesWhere(L, Ran) <=> \E k \in DOMAIN L : Over1(L[k], l) /\ L[k].count > 0
  BY DEF LinesWhere, Ran, Statement
<1>8. \A k \in DOMAIN L : \A l : Over1(AtPosition(L, Position(L[k])), l) <=> Over1(L[k], l)
  BY <1>1
<1>9. \A i, k \in DOMAIN L : \A l : Position(L[i]) = Position(L[k]) => (Over1(L[i], l) <=> Over1(L[k], l))
  BY <1>2
<1> HIDE DEF Over1
<1>10. LinesWhere(M, Statement) = LinesWhere(L, Statement)
  <2>1. \A l : l \in LinesWhere(M, Statement) <=> l \in LinesWhere(L, Statement)
    BY <1>3, <1>4, <1>5, <1>8
  <2> QED BY <2>1
<1>11. LinesWhere(M, Ran) = LinesWhere(L, Ran)
  <2>1. ASSUME NEW l \in LinesWhere(M, Ran) PROVE l \in LinesWhere(L, Ran)
    <3>1. PICK m \in DOMAIN M : Over1(M[m], l) /\ M[m].count > 0
      BY <1>6
    <3>2. PICK k \in DOMAIN L : M[m] = AtPosition(L, Position(L[k]))
      BY <1>3
    <3>3. PICK i \in DOMAIN L : Position(L[i]) = Position(L[k]) /\ L[i].count > 0
      BY <1>1, <3>1, <3>2
    <3>4. Over1(L[i], l)
      BY <1>8, <1>9, <3>1, <3>2, <3>3
    <3> QED BY <1>7, <3>3, <3>4
  <2>2. ASSUME NEW l \in LinesWhere(L, Ran) PROVE l \in LinesWhere(M, Ran)
    <3>1. PICK k \in DOMAIN L : Over1(L[k], l) /\ L[k].count > 0
      BY <1>7
    <3>2. PICK m \in DOMAIN M : M[m] = AtPosition(L, Position(L[k]))
      BY <1>3
    <3>3. M[m].count > 0 /\ Over1(M[m], l)
      BY <1>1, <1>8, <3>1, <3>2
    <3> QED BY <1>6, <3>3
  <2>3. \A l : l \in LinesWhere(M, Ran) <=> l \in LinesWhere(L, Ran)
    BY <2>1, <2>2
  <2> QED BY <2>3
<1> QED BY <1>10, <1>11 DEF M

\* Merging a list that is as Merge leaves it changes nothing.
LEMMA CanonicalStays ==
    ASSUME NEW L, IsBlockList(L), Canonical(L)
    PROVE  MergedBlocks(L) = L
<1> DEFINE n == Len(L)
           s == [i \in 1 .. n |-> Position(L[i])]
<1>1. /\ n \in Nat /\ DOMAIN L = 1 .. n /\ L = [i \in 1 .. n |-> L[i]]
      /\ \A i \in 1 .. n : Position(L[i]) \in Places(4)
  BY BlocksOfAList
<1>2. s \in [1 .. n -> Places(4)] /\ \A i \in 2 .. n : Before(s[i - 1], s[i])
  <2>1. \A i \in 2 .. n : i - 1 \in 1 .. n /\ i \in 1 .. n /\ i \in DOMAIN L \ {1}
    BY <1>1
  <2> QED BY <1>1, <2>1 DEF Canonical
<1>3. {Position(L[i]) : i \in DOMAIN L} = {s[i] : i \in 1 .. n}
  BY <1>1
<1> HIDE DEF n
<1>4. Ordered({Position(L[i]) : i \in DOMAIN L}) = s
  <2> HIDE DEF s
  <2> QED BY <1>1, <1>2, <1>3, SortedStays
<1>5. MergedBlocks(L) = [i \in 1 .. n |-> AtPosition(L, Position(L[i]))]
  BY <1>4 DEF MergedBlocks
<1>6. ASSUME NEW i \in 1 .. n, NEW j \in 1 .. n, Position(L[j]) = Position(L[i]) PROVE j = i
  <2>1. Rank({s[k] : k \in 1 .. n}, s[i]) = i - 1 /\ Rank({s[k] : k \in 1 .. n}, s[j]) = j - 1
    <3> DEFINE P == {s[k] : k \in 1 .. n}
    <3>1. P \in SUBSET Places(4)
      BY <1>2
    <3>2. IsFiniteSet(P)
      <4>1. DOMAIN s = 1 .. n
        OBVIOUS
      <4> HIDE DEF s
      <4> QED BY <1>1, <4>1, ItemsAreFinite
    <3>3. Ordered(P) = s
      BY <1>3, <1>4
    <3>4. DOMAIN s = 1 .. n
      OBVIOUS
    <3> HIDE DEF P, s
    <3>5. Rank(P, s[i]) = i - 1 /\ Rank(P, s[j]) = j - 1
      BY <3>1, <3>2, <3>3, <3>4, OrderedIsSorted
    <3> QED BY <3>5 DEF P
  <2>2. s[i] = s[j]
    BY <1>6
  <2> HIDE DEF s
  <2> QED BY <2>1, <2>2
<1>7. \A i \in 1 .. n : AtPosition(L, Position(L[i])) = L[i]
  BY <1>1, <1>6, BlockAtPosition
<1> QED BY <1>1, <1>5, <1>7

----------------------------------------------------------------------------
(* The merge of a commit's rows (MergeParts, mergeAll).                       *)

\* What CommitsAssumption says of one input.
IsCommit(c) ==
    /\ IsSeq(c) /\ \A i \in DOMAIN c : IsFiniteSet(DOMAIN c[i])
    /\ \A i \in DOMAIN c : \A path \in DOMAIN c[i] :
         /\ IsSeq(c[i][path]) /\ \A b \in Range(c[i][path]) : IsBlock(b)
         /\ \A j \in {k \in DOMAIN c : path \in DOMAIN c[k]} :
              \A a \in Range(c[i][path]), b \in Range(c[j][path]) :
                Position(a) = Position(b) => (Statement(a) <=> Statement(b))

\* What a set of rows has to be for the merge: finitely many rows of blocks,
\* and at one place of one file the same statements.
IsRows(rows) ==
    /\ IsFiniteSet(rows)
    /\ \A r \in rows : /\ r = newUploadFile(r.upload, r.path, r.blocks) /\ r.upload \in Nat
                       /\ IsSeq(r.blocks) /\ \A b \in Range(r.blocks) : IsBlock(b)
    /\ \A r, s \in rows : r.path = s.path =>
         \A a \in Range(r.blocks), b \in Range(s.blocks) :
           Position(a) = Position(b) => (Statement(a) <=> Statement(b))

\* The rows of a commit are such.
LEMMA RowsOfACommit ==
    ASSUME NEW c, IsCommit(c)
    PROVE  IsRows(CommitRows(c))
<1> DEFINE n == Len(c)
<1>1. n \in Nat /\ DOMAIN c = 1 .. n
  BY DEF IsCommit, IsSeq
<1>2. \A i \in 1 .. n : IsFiniteSet(Rows(i, c[i]))
  <2> SUFFICES ASSUME NEW i \in 1 .. n PROVE IsFiniteSet(Rows(i, c[i]))
    OBVIOUS
  <2> DEFINE f == [path \in DOMAIN c[i] |-> newUploadFile(i, path, c[i][path])]
  <2>1. f \in Surjection(DOMAIN c[i], Rows(i, c[i]))
    BY DEF Surjection, Rows
  <2>2. IsFiniteSet(DOMAIN c[i])
    BY <1>1 DEF IsCommit
  <2> HIDE DEF f
  <2> QED BY <2>1, <2>2, FS_Surjection
<1>3. IsFiniteSet(CommitRows(c))
  <2> DEFINE f == [i \in 1 .. n |-> Rows(i, c[i])]
  <2>1. DOMAIN f = 1 .. n /\ \A i \in 1 .. n : f[i] = Rows(i, c[i])
    OBVIOUS
  <2>2. CommitRows(c) = UNION {f[i] : i \in 1 .. n}
    BY <1>1 DEF CommitRows
  <2> HIDE DEF f, n
  <2>3. IsFiniteSet({f[i] : i \in 1 .. n})
    BY <1>1, <2>1, ItemsAreFinite
  <2>4. \A T \in {f[i] : i \in 1 .. n} : IsFiniteSet(T)
    BY <1>2, <2>1
  <2> QED BY <2>2, <2>3, <2>4, FS_UNION
<1>4. \A r \in CommitRows(c) : \E i \in DOMAIN c : \E path \in DOMAIN c[i] :
        r = newUploadFile(i, path, c[i][path])
  BY DEF CommitRows, Rows
<1>5. \A i, path, blocks : /\ newUploadFile(i, path, blocks).upload = i
                           /\ newUploadFile(i, path, blocks).path = path
                           /\ newUploadFile(i, path, blocks).blocks = blocks
  BY DEF newUploadFile
<1>6. \A r \in CommitRows(c) : /\ r.upload \in DOMAIN c /\ r.path \in DOMAIN c[r.upload]
                               /\ r.blocks = c[r.upload][r.path]
                               /\ r = newUploadFile(r.upload, r.path, r.blocks)
  BY <1>4, <1>5
<1>7. \A r \in CommitRows(c) : r.upload \in Nat
  BY <1>1, <1>6
<1>8. \A r \in CommitRows(c) : IsSeq(r.blocks) /\ \A b \in Range(r.blocks) : IsBlock(b)
  BY <1>6 DEF IsCommit
<1>9. \A r, s \in CommitRows(c) : r.path = s.path =>
        \A a \in Range(r.blocks), b \in Range(s.blocks) :
          Position(a) = Position(b) => (Statement(a) <=> Statement(b))
  BY <1>6 DEF IsCommit
<1> QED BY <1>3, <1>6, <1>7, <1>8, <1>9 DEF IsRows

\* A set of rows in some order.
LEMMA RowsInAList ==
    ASSUME NEW rows, IsFiniteSet(rows)
    PROVE  LET list == SetToSeq(rows)
               n == Cardinality(rows)
           IN  /\ n \in Nat /\ DOMAIN list = 1 .. n
               /\ \A i \in 1 .. n : list[i] \in rows
               /\ \A r \in rows : \E i \in 1 .. n : list[i] = r
               /\ \A i, j \in 1 .. n : list[i] = list[j] => i = j
<1> DEFINE n == Cardinality(rows)
           list == SetToSeq(rows)
<1>1. n \in Nat /\ ExistsBijection(1 .. n, rows)
  BY FS_CardinalityType
<1>2. \E f \in [1 .. n -> rows] : IsInjective(f)
  BY <1>1 DEF ExistsBijection, Bijection, Injection, IsInjective
<1>3. list \in [1 .. n -> rows] /\ IsInjective(list)
  BY <1>2 DEF SetToSeq
<1> HIDE DEF list
<1>4. list \in Injection(1 .. n, rows)
  BY <1>3 DEF Injection, IsInjective
<1>5. IsFiniteSet(1 .. n) /\ Cardinality(1 .. n) = n
  <2>1. 1 \in Int /\ n \in Int
    BY <1>1
  <2>2. IsFiniteSet(1 .. n) /\ Cardinality(1 .. n) = IF 1 > n THEN 0 ELSE n - 1 + 1
    BY <2>1, FS_Interval
  <2> QED BY <1>1, <2>2
<1>6. list \in Surjection(1 .. n, rows)
  <2> HIDE DEF n
  <2> QED BY <1>4, <1>5, FS_Injection DEF n
<1>7. \A r \in rows : \E i \in 1 .. n : list[i] = r
  BY <1>6 DEF Surjection
<1>8. \A i, j \in 1 .. n : list[i] = list[j] => i = j
  BY <1>4 DEF Injection, IsInjective
<1> QED BY <1>1, <1>3, <1>7, <1>8 DEF list

\* The blocks that the rows of one path bring to the merge.
Brought(rows, path) ==
    LET list == SetToSeq(rows)
    IN  [i \in 1 .. Cardinality(rows) |-> IF list[i].path = path THEN list[i].blocks ELSE <<>>]

\* mergeAll: for each path its rows' blocks, joined and merged, under the
\* newest upload.
LEMMA MergeAllMeans ==
    ASSUME NEW rows, IsRows(rows)
    PROVE  mergeAll(rows)
             = {newUploadFile(Max({r.upload : r \in {s \in rows : s.path = path}}), path,
                              MergedBlocks(FlattenSeq(Brought(rows, path)))) :
                  path \in {r.path : r \in rows}}
<1> DEFINE n == Cardinality(rows)
           list == SetToSeq(rows)
           prof == [i \in DOMAIN list |-> [path \in {list[i].path} |-> list[i].blocks]]
           merged == Merge(prof)
           owner(path) == Max({r.upload : r \in {s \in rows : s.path = path}})
           paths == {r.path : r \in rows}
<1>1. /\ n \in Nat /\ DOMAIN list = 1 .. n
      /\ \A i \in 1 .. n : list[i] \in rows
      /\ \A r \in rows : \E i \in 1 .. n : list[i] = r
  BY RowsInAList DEF IsRows
<1>2. mergeAll(rows) = {newUploadFile(owner(path), path, merged[path]) : path \in DOMAIN merged}
  BY DEF mergeAll
<1>3. DOMAIN merged = paths
  <2>1. DOMAIN merged = UNION {DOMAIN prof[i] : i \in DOMAIN prof}
    BY DEF Merge
  <2>2. DOMAIN prof = 1 .. n /\ \A i \in 1 .. n : DOMAIN prof[i] = {list[i].path}
    BY <1>1
  <2> HIDE DEF merged, prof, list
  <2> QED BY <1>1, <2>1, <2>2
<1>4. ASSUME NEW path \in paths
      PROVE  merged[path] = MergedBlocks(FlattenSeq(Brought(rows, path)))
  <2>1. merged[path]
          = MergedBlocks(FlattenSeq([i \in DOMAIN prof |->
                                       IF path \in DOMAIN prof[i] THEN prof[i][path] ELSE <<>>]))
    BY <1>3 DEF Merge
  <2>2. [i \in DOMAIN prof |-> IF path \in DOMAIN prof[i] THEN prof[i][path] ELSE <<>>]
          = [i \in 1 .. n |-> IF list[i].path = path THEN list[i].blocks ELSE <<>>]
    <3>1. DOMAIN prof = 1 .. n
      BY <1>1
    <3>2. \A i \in 1 .. n : /\ path \in DOMAIN prof[i] <=> list[i].path = path
                            /\ list[i].path = path => prof[i][path] = list[i].blocks
      BY <1>1
    <3> HIDE DEF prof, list
    <3> QED BY <3>1, <3>2
  <2> HIDE DEF merged, prof
  <2> QED BY <2>1, <2>2 DEF Brought
<1> HIDE DEF merged
<1> QED BY <1>2, <1>3, <1>4

\* What is joined for one path: a list of blocks, those of its rows; one row's
\* own list if no other has the path.
LEMMA JoinedIsTheRows ==
    ASSUME NEW rows, IsRows(rows), NEW path
    PROVE  LET L == FlattenSeq(Brought(rows, path))
               same == {r \in rows : r.path = path}
           IN  /\ IsBlockList(L)
               /\ Range(L) = UNION {Range(r.blocks) : r \in same}
               /\ \A r \in rows : same = {r} => L = r.blocks
<1> DEFINE n == Cardinality(rows)
           list == SetToSeq(rows)
           ss == Brought(rows, path)
           L == FlattenSeq(ss)
           same == {r \in rows : r.path = path}
           B == UNION {Range(r.blocks) : r \in rows}
<1>1. /\ n \in Nat /\ DOMAIN list = 1 .. n
      /\ \A i \in 1 .. n : list[i] \in rows
      /\ \A r \in rows : \E i \in 1 .. n : list[i] = r
      /\ \A i, j \in 1 .. n : list[i] = list[j] => i = j
  BY RowsInAList DEF IsRows
<1>2. ss = [i \in 1 .. n |-> IF list[i].path = path THEN list[i].blocks ELSE <<>>]
  BY DEF Brought
<1>3. \A r \in rows : r.blocks \in Seq(B)
  <2> SUFFICES ASSUME NEW r \in rows PROVE r.blocks \in Seq(B)
    OBVIOUS
  <2>1. r.blocks \in Seq(Range(r.blocks)) /\ Range(r.blocks) \subseteq B
    BY DEF IsRows, IsSeq
  <2> HIDE DEF B
  <2> QED BY <2>1
<1>4. ss \in [1 .. n -> Seq(B)]
  <2>1. <<>> \in Seq(B)
    OBVIOUS
  <2> HIDE DEF B, ss, list
  <2> QED BY <1>1, <1>2, <1>3, <2>1
<1>5. /\ L \in Seq(B)
      /\ Range(L) = UNION {Range(ss[i]) : i \in 1 .. n}
      /\ \A k \in 1 .. n : (\A i \in 1 .. n : i # k => ss[i] = <<>>) => L = ss[k]
  <2> HIDE DEF B, ss, n
  <2> QED BY <1>1, <1>4, FlattenJoins
<1>6. Range(L) = UNION {Range(r.blocks) : r \in same}
  <2>1. Range(<<>>) = {}
    BY DEF Range
  <2> HIDE DEF L, list
  <2>2. \A i \in 1 .. n : ss[i] = IF list[i].path = path THEN list[i].blocks ELSE <<>>
    BY <1>2
  <2> HIDE DEF ss
  <2>3. \A b : b \in Range(L) <=> \E i \in 1 .. n : b \in Range(ss[i])
    BY <1>5
  <2>4. \A b : b \in Range(L) <=> \E r \in same : b \in Range(r.blocks)
    BY <1>1, <2>1, <2>2, <2>3
  <2> QED BY <2>4
<1>7. IsBlockList(L)
  <2>1. IsSeq(L)
    <3> HIDE DEF L, B
    <3>1. DOMAIN L = 1 .. Len(L) /\ Len(L) \in Nat /\ L = [i \in 1 .. Len(L) |-> L[i]]
      BY <1>5
    <3>2. \A i \in 1 .. Len(L) : L[i] \in Range(L)
      BY <3>1 DEF Range
    <3> QED BY <3>1, <3>2 DEF IsSeq
  <2>2. \A b \in Range(L) : IsBlock(b)
    BY <1>6 DEF IsRows
  <2>3. \A a, b \in Range(L) : Position(a) = Position(b) => (Statement(a) <=> Statement(b))
    BY <1>6 DEF IsRows
  <2> QED BY <2>1, <2>2, <2>3 DEF IsBlockList
<1>8. ASSUME NEW r \in rows, same = {r} PROVE L = r.blocks
  <2>1. PICK k \in 1 .. n : list[k] = r
    BY <1>1
  <2>2. \A i \in 1 .. n : i # k => list[i].path # path
    BY <1>1, <1>8, <2>1
  <2>3. r.path = path
    BY <1>8
  <2>4. ss[k] = r.blocks /\ \A i \in 1 .. n : i # k => ss[i] = <<>>
    BY <1>2, <2>1, <2>2, <2>3
  <2> HIDE DEF L, ss
  <2> QED BY <1>5, <2>4
<1> QED BY <1>6, <1>7, <1>8

\* The lines of a list are those of its blocks.
LEMMA LinesOfBlocks ==
    ASSUME NEW L
    PROVE  /\ \A l : l \in LinesWhere(L, Statement)
                       <=> \E b \in Range(L) : Statement(b) /\ l \in b.start_line .. b.end_line
           /\ \A l : l \in LinesWhere(L, Ran)
                       <=> \E b \in Range(L) : Ran(b) /\ l \in b.start_line .. b.end_line
BY DEF LinesWhere, Range

\* The rows of one upload that are as Merge leaves them need no merge.
LEMMA ShortcutChangesNothing ==
    ASSUME NEW rows, IsRows(rows), canonicalFiles(rows)
    PROVE  mergeAll(rows) = rows
<1> DEFINE row(path) ==
             newUploadFile(Max({r.upload : r \in {s \in rows : s.path = path}}), path,
                           MergedBlocks(FlattenSeq(Brought(rows, path))))
<1>1. mergeAll(rows) = {row(path) : path \in {r.path : r \in rows}}
  BY MergeAllMeans
<1>2. ASSUME NEW r \in rows PROVE row(r.path) = r
  <2>1. {s \in rows : s.path = r.path} = {r}
    BY DEF canonicalFiles
  <2>2. FlattenSeq(Brought(rows, r.path)) = r.blocks /\ IsBlockList(r.blocks)
    BY <2>1, JoinedIsTheRows
  <2>3. MergedBlocks(r.blocks) = r.blocks
    BY <2>2, CanonicalStays DEF canonicalFiles
  <2>4. Max({s.upload : s \in {r}}) = r.upload
    <3>1. {s.upload : s \in {r}} = {r.upload} /\ r.upload \in Nat
      BY DEF IsRows
    <3>2. \A m \in Nat : Max({m}) = m
      BY DEF Max
    <3> QED BY <3>1, <3>2
  <2>5. r = newUploadFile(r.upload, r.path, r.blocks)
    BY DEF IsRows
  <2> QED BY <2>1, <2>2, <2>3, <2>4, <2>5
<1> HIDE DEF row
<1> QED BY <1>1, <1>2

\* Of any commit: the merge has each file once, in order, under the newest
\* upload of it, and its lines are those of the parts.
LEMMA MergeIsUnion ==
    ASSUME NEW rows, IsRows(rows)
    PROVE  LET same(path) == {r \in rows : r.path = path}
               got == MergeParts(rows)
           IN  /\ got = mergeAll(rows)
               /\ {m.path : m \in got} = {r.path : r \in rows}
               /\ \A m \in got :
                    /\ Canonical(m.blocks)
                    /\ m.upload = Max({r.upload : r \in same(m.path)})
                    /\ LinesWhere(m.blocks, Statement)
                         = UNION {LinesWhere(r.blocks, Statement) : r \in same(m.path)}
                    /\ LinesWhere(m.blocks, Ran)
                         = UNION {LinesWhere(r.blocks, Ran) : r \in same(m.path)}
<1> DEFINE same(path) == {r \in rows : r.path = path}
           joined(path) == FlattenSeq(Brought(rows, path))
           row(path) == newUploadFile(Max({r.upload : r \in same(path)}), path,
                                      MergedBlocks(joined(path)))
<1>1. MergeParts(rows) = mergeAll(rows)
  BY ShortcutChangesNothing DEF MergeParts
<1>2. mergeAll(rows) = {row(path) : path \in {r.path : r \in rows}}
  BY MergeAllMeans
<1>3. \A path : /\ row(path).path = path /\ row(path).blocks = MergedBlocks(joined(path))
                /\ row(path).upload = Max({r.upload : r \in same(path)})
  BY DEF newUploadFile
<1>4. ASSUME NEW path
      PROVE  /\ Canonical(MergedBlocks(joined(path)))
             /\ LinesWhere(MergedBlocks(joined(path)), Statement)
                  = UNION {LinesWhere(r.blocks, Statement) : r \in same(path)}
             /\ LinesWhere(MergedBlocks(joined(path)), Ran)
                  = UNION {LinesWhere(r.blocks, Ran) : r \in same(path)}
  <2> DEFINE L == joined(path)
  <2>1. IsBlockList(L) /\ Range(L) = UNION {Range(r.blocks) : r \in same(path)}
    BY JoinedIsTheRows
  <2> HIDE DEF L
  <2>2. /\ Canonical(MergedBlocks(L))
        /\ LinesWhere(MergedBlocks(L), Statement) = LinesWhere(L, Statement)
        /\ LinesWhere(MergedBlocks(L), Ran) = LinesWhere(L, Ran)
    BY <2>1, MergedIsOrdered, MergedKeepsLines
  <2>3. LinesWhere(L, Statement) = UNION {LinesWhere(r.blocks, Statement) : r \in same(path)}
    <3> HIDE DEF same
    <3> DEFINE in(b, l) == Statement(b) /\ l \in b.start_line .. b.end_line
    <3>1. \A N : \A l : l \in LinesWhere(N, Statement) <=> \E b \in Range(N) : in(b, l)
      BY LinesOfBlocks
    <3>2. \A b : b \in Range(L) <=> \E r \in same(path) : b \in Range(r.blocks)
      BY <2>1
    <3>3. \A l : l \in LinesWhere(L, Statement) <=> \E b \in Range(L) : in(b, l)
      BY <3>1
    <3>4. \A r, l : l \in LinesWhere(r.blocks, Statement) <=> \E b \in Range(r.blocks) : in(b, l)
      BY <3>1
    <3> HIDE DEF in
    <3>5. \A l : l \in LinesWhere(L, Statement)
                   <=> \E r \in same(path) : l \in LinesWhere(r.blocks, Statement)
      BY <3>2, <3>3, <3>4
    <3> QED BY <3>5
  <2>4. LinesWhere(L, Ran) = UNION {LinesWhere(r.blocks, Ran) : r \in same(path)}
    <3> HIDE DEF same
    <3> DEFINE in(b, l) == Ran(b) /\ l \in b.start_line .. b.end_line
    <3>1. \A N : \A l : l \in LinesWhere(N, Ran) <=> \E b \in Range(N) : in(b, l)
      BY LinesOfBlocks
    <3>2. \A b : b \in Range(L) <=> \E r \in same(path) : b \in Range(r.blocks)
      BY <2>1
    <3>3. \A l : l \in LinesWhere(L, Ran) <=> \E b \in Range(L) : in(b, l)
      BY <3>1
    <3>4. \A r, l : l \in LinesWhere(r.blocks, Ran) <=> \E b \in Range(r.blocks) : in(b, l)
      BY <3>1
    <3> HIDE DEF in
    <3>5. \A l : l \in LinesWhere(L, Ran)
                   <=> \E r \in same(path) : l \in LinesWhere(r.blocks, Ran)
      BY <3>2, <3>3, <3>4
    <3> QED BY <3>5
  <2> QED BY <2>2, <2>3, <2>4 DEF L
<1> HIDE DEF row, joined
<1>5. {m.path : m \in mergeAll(rows)} = {r.path : r \in rows}
  <2> DEFINE paths == {r.path : r \in rows}
  <2>1. mergeAll(rows) = {row(path) : path \in paths}
    BY <1>2
  <2>2. \A path : row(path).path = path
    BY <1>3
  <2> HIDE DEF paths, row
  <2>3. \A q : q \in {m.path : m \in mergeAll(rows)} <=> \E path \in paths : q = row(path).path
    BY <2>1
  <2>4. {m.path : m \in mergeAll(rows)} = paths
    BY <2>2, <2>3
  <2> QED BY <2>4 DEF paths
<1>6. ASSUME NEW m \in mergeAll(rows)
      PROVE  /\ Canonical(m.blocks)
             /\ m.upload = Max({r.upload : r \in same(m.path)})
             /\ LinesWhere(m.blocks, Statement)
                  = UNION {LinesWhere(r.blocks, Statement) : r \in same(m.path)}
             /\ LinesWhere(m.blocks, Ran)
                  = UNION {LinesWhere(r.blocks, Ran) : r \in same(m.path)}
  <2>1. PICK path \in {r.path : r \in rows} : m = row(path)
    BY <1>2
  <2>2. m.path = path /\ m.blocks = MergedBlocks(joined(path))
        /\ m.upload = Max({r.upload : r \in same(path)})
    BY <1>3, <2>1
  <2> HIDE DEF same
  <2> QED BY <1>4, <2>2
<1> HIDE DEF same
<1> QED BY <1>1, <1>5, <1>6 DEF same

----------------------------------------------------------------------------
(* Lists of spans: sorted and apart, they stand for a set of lines.           *)

SpanSet == [start : Int, end : Int]
SpanList(s) == s \in Seq(SpanSet) /\ Separate(s)

\* Does a span of the list hold the line?
On(s, l) == \E i \in 1 .. Len(s) : s[i].start <= l /\ l <= s[i].end

\* A list's lines are those its spans hold.
LEMMA LinesAreOn ==
    ASSUME NEW s \in Seq(SpanSet)
    PROVE  LinesOf(s) = {l \in Int : On(s, l)}
<1>1. DOMAIN s = 1 .. Len(s) /\ \A i \in 1 .. Len(s) : s[i].start \in Int /\ s[i].end \in Int
  <2>1. \A i \in 1 .. Len(s) : s[i] \in SpanSet
    OBVIOUS
  <2> QED BY <2>1 DEF SpanSet
<1> QED BY <1>1 DEF LinesOf, On

\* A span is added behind the last one.
LEMMA AppendSpan ==
    ASSUME NEW w, SpanList(w), NEW sp \in SpanSet, sp.start <= sp.end,
           w # <<>> => Last(w).end + 1 < sp.start
    PROVE  /\ SpanList(Append(w, sp)) /\ Append(w, sp) # <<>> /\ Last(Append(w, sp)) = sp
           /\ \A l \in Int : On(Append(w, sp), l) <=> On(w, l) \/ (sp.start <= l /\ l <= sp.end)
<1> DEFINE v == Append(w, sp)
           n == Len(w)
<1>1. w \in Seq(SpanSet) /\ n \in Nat /\ DOMAIN w = 1 .. n /\ (w = <<>> <=> n = 0)
  BY DEF SpanList
<1>2. /\ v \in Seq(SpanSet) /\ Len(v) = n + 1 /\ DOMAIN v = 1 .. n + 1 /\ v # <<>>
      /\ v[n + 1] = sp /\ \A i \in 1 .. n : v[i] = w[i]
  <2>1. v \in Seq(SpanSet) /\ Len(v) = n + 1 /\ v[n + 1] = sp /\ \A i \in 1 .. n : v[i] = w[i]
    BY <1>1, AppendProperties
  <2> HIDE DEF v
  <2> QED BY <1>1, <2>1
<1> HIDE DEF v
<1>3. Last(v) = sp
  BY <1>2 DEF Last
<1>4. Separate(v)
  <2> SUFFICES ASSUME NEW i \in 1 .. n + 1
               PROVE  v[i].start <= v[i].end /\ (i > 1 => v[i - 1].end + 1 < v[i].start)
    BY <1>2 DEF Separate
  <2>1. CASE i = n + 1
    <3>1. i > 1 => v[i - 1] = Last(w) /\ w # <<>>
      BY <1>1, <1>2, <2>1 DEF Last
    <3> QED BY <1>2, <2>1, <3>1
  <2>2. CASE i \in 1 .. n
    <3>1. v[i] = w[i] /\ (i > 1 => v[i - 1] = w[i - 1])
      BY <1>1, <1>2, <2>2
    <3> QED BY <1>1, <2>2, <3>1 DEF SpanList, Separate
  <2> QED BY <1>1, <2>1, <2>2
<1>5. ASSUME NEW l \in Int PROVE On(v, l) <=> On(w, l) \/ (sp.start <= l /\ l <= sp.end)
  <2>1. 1 .. n + 1 = (1 .. n) \cup {n + 1}
    BY <1>1
  <2> HIDE DEF n
  <2>2. On(v, l) <=> \E i \in (1 .. n) \cup {n + 1} : v[i].start <= l /\ l <= v[i].end
    BY <1>2, <2>1 DEF On
  <2>3. On(w, l) <=> \E i \in 1 .. n : w[i].start <= l /\ l <= w[i].end
    BY DEF On, n
  <2> QED BY <1>2, <2>2, <2>3
<1> QED BY <1>2, <1>3, <1>4, <1>5 DEF SpanList, v

\* The last span is stretched to a later end.
LEMMA StretchLast ==
    ASSUME NEW w, SpanList(w), w # <<>>, NEW e \in Int, Last(w).end <= e
    PROVE  LET v == [w EXCEPT ![Len(w)].end = e]
           IN  /\ SpanList(v) /\ v # <<>> /\ Last(v).start = Last(w).start /\ Last(v).end = e
               /\ \A l \in Int : On(v, l) <=> On(w, l) \/ (Last(w).start <= l /\ l <= e)
<1> DEFINE v == [w EXCEPT ![Len(w)].end = e]
           n == Len(w)
<1>1. w \in Seq(SpanSet) /\ n \in Nat \ {0} /\ DOMAIN w = 1 .. n
  BY DEF SpanList
<1>2. \A i \in 1 .. n : w[i] \in SpanSet /\ w[i].start \in Int /\ w[i].end \in Int
  <2>1. \A i \in 1 .. n : w[i] \in SpanSet
    BY <1>1
  <2> QED BY <2>1 DEF SpanSet
<1>3. /\ DOMAIN v = 1 .. n /\ \A i \in 1 .. n \ {n} : v[i] = w[i]
      /\ v = [i \in 1 .. n |-> v[i]]
      /\ v[n] = [w[n] EXCEPT !.end = e]
  <2>1. v = [w EXCEPT ![n] = [w[n] EXCEPT !.end = e]]
    OBVIOUS
  <2>2. n \in DOMAIN w
    BY <1>1
  <2> HIDE DEF v, n
  <2>3. v = [i \in DOMAIN w |-> IF i = n THEN [w[n] EXCEPT !.end = e] ELSE w[i]]
    BY <2>1
  <2> QED BY <1>1, <2>2, <2>3
<1>4. v[n] \in SpanSet /\ v[n].start = w[n].start /\ v[n].end = e
  BY <1>1, <1>2, <1>3 DEF SpanSet
<1>5. v \in Seq(SpanSet) /\ Len(v) = n /\ v # <<>>
  <2>1. \A i \in 1 .. n : v[i] \in SpanSet
    BY <1>2, <1>3, <1>4
  <2> HIDE DEF v, n
  <2>2. v \in [1 .. n -> SpanSet]
    BY <1>3, <2>1
  <2> QED BY <1>1, <2>2
<1> HIDE DEF v
<1>6. Last(v) = v[n] /\ Last(w) = w[n]
  BY <1>5 DEF Last
<1>7. Separate(v)
  <2> SUFFICES ASSUME NEW i \in 1 .. n
               PROVE  v[i].start <= v[i].end /\ (i > 1 => v[i - 1].end + 1 < v[i].start)
    BY <1>3 DEF Separate
  <2>1. w[i].start <= w[i].end /\ (i > 1 => w[i - 1].end + 1 < w[i].start)
    BY <1>1 DEF SpanList, Separate
  <2>2. v[i].start = w[i].start /\ (i > 1 => v[i - 1] = w[i - 1])
    BY <1>1, <1>3, <1>4
  <2>3. w[i].end <= v[i].end
    BY <1>2, <1>3, <1>4, <1>6
  <2>4. w[i].start \in Int /\ w[i].end \in Int /\ v[i].end \in Int
    BY <1>2, <1>3, <1>4
  <2> QED BY <2>1, <2>2, <2>3, <2>4
<1>8. ASSUME NEW l \in Int PROVE On(v, l) <=> On(w, l) \/ (Last(w).start <= l /\ l <= e)
  <2> HIDE DEF n
  <2>1. On(v, l) <=> \E i \in 1 .. n : v[i].start <= l /\ l <= v[i].end
    BY <1>5 DEF On
  <2>2. On(w, l) <=> \E i \in 1 .. n : w[i].start <= l /\ l <= w[i].end
    BY DEF On, n
  <2>3. n \in 1 .. n
    BY <1>1
  <2>4. l <= w[n].end => l <= e
    BY <1>2, <1>6, <2>3
  <2> QED BY <1>3, <1>4, <1>6, <2>1, <2>2, <2>3, <2>4
<1> QED BY <1>4, <1>5, <1>6, <1>7, <1>8 DEF SpanList, v

\* The larger of two.
LEMMA AtLeastIsLarger ==
    ASSUME NEW m \in Int, NEW n \in Int
    PROVE  AtLeast(m, n) \in {m, n} /\ m <= AtLeast(m, n) /\ n <= AtLeast(m, n)
BY DEF AtLeast

\* A span that starts no earlier than the last one is joined (JoinSpan).
LEMMA JoinSpanJoins ==
    ASSUME NEW w, SpanList(w), NEW sp \in SpanSet, sp.start <= sp.end,
           w # <<>> => Last(w).start <= sp.start
    PROVE  LET v == JoinSpan(w, sp)
           IN  /\ SpanList(v) /\ v # <<>> /\ Last(v).start <= sp.start
               /\ \A l \in Int : On(v, l) <=> On(w, l) \/ (sp.start <= l /\ l <= sp.end)
<1> DEFINE joins == w # <<>> /\ sp.start <= Last(w).end + 1
<1>1. sp.start \in Int /\ sp.end \in Int
  BY DEF SpanSet
<1>2. w # <<>> => /\ Last(w).start \in Int /\ Last(w).end \in Int
                  /\ Last(w).start <= Last(w).end
                  /\ \A l \in Int : Last(w).start <= l /\ l <= Last(w).end => On(w, l)
  <2> SUFFICES ASSUME w # <<>>
               PROVE  /\ Last(w).start \in Int /\ Last(w).end \in Int
                      /\ Last(w).start <= Last(w).end
                      /\ \A l \in Int : Last(w).start <= l /\ l <= Last(w).end => On(w, l)
    OBVIOUS
  <2>1. w \in Seq(SpanSet) /\ Len(w) \in 1 .. Len(w) /\ DOMAIN w = 1 .. Len(w) /\ Last(w) = w[Len(w)]
    BY DEF SpanList, Last
  <2>2. w[Len(w)] \in SpanSet
    BY <2>1
  <2>3. Last(w).start <= Last(w).end
    BY <2>1 DEF SpanList, Separate
  <2> QED BY <2>1, <2>2, <2>3 DEF SpanSet, On
<1>3. CASE ~ joins
  <2>1. JoinSpan(w, sp) = Append(w, sp)
    BY <1>3 DEF JoinSpan
  <2>2. w # <<>> => Last(w).end + 1 < sp.start
    BY <1>1, <1>2, <1>3
  <2> HIDE DEF joins
  <2>3. sp.start <= sp.start
    BY <1>1
  <2> QED BY <2>1, <2>2, <2>3, AppendSpan
<1>4. CASE joins
  <2> DEFINE e == AtLeast(Last(w).end, sp.end)
  <2>1. JoinSpan(w, sp) = [w EXCEPT ![Len(w)].end = e]
    <3>1. JoinSpan(w, sp) = [w EXCEPT ![Len(w)].end = AtLeast(@, sp.end)]
      BY <1>4 DEF JoinSpan
    <3>2. Last(w) = w[Len(w)] /\ w \in Seq(SpanSet) /\ Len(w) \in DOMAIN w
      BY <1>4 DEF Last, SpanList
    <3> QED BY <3>1, <3>2
  <2>2. e \in {Last(w).end, sp.end} /\ Last(w).end <= e /\ sp.end <= e
    BY <1>1, <1>2, <1>4, AtLeastIsLarger
  <2>3. e \in Int
    BY <1>1, <1>2, <1>4, <2>2
  <2> HIDE DEF e
  <2> DEFINE v == [w EXCEPT ![Len(w)].end = e]
  <2>4. /\ SpanList(v) /\ v # <<>> /\ Last(v).start = Last(w).start
        /\ \A l \in Int : On(v, l) <=> On(w, l) \/ (Last(w).start <= l /\ l <= e)
    BY <1>4, <2>2, <2>3, StretchLast
  <2> HIDE DEF v
  <2>5. ASSUME NEW l \in Int
        PROVE  On(w, l) \/ (Last(w).start <= l /\ l <= e)
                 <=> On(w, l) \/ (sp.start <= l /\ l <= sp.end)
    <3>1. CASE Last(w).start <= l /\ l <= Last(w).end
      BY <1>2, <1>4, <3>1
    <3>2. CASE l < Last(w).start
      BY <1>1, <1>2, <1>4, <3>2
    <3>3. CASE Last(w).end < l
      BY <1>1, <1>2, <1>4, <2>2, <2>3, <3>3
    <3> QED BY <1>2, <1>4, <3>1, <3>2, <3>3
  <2> QED BY <1>4, <2>1, <2>4, <2>5 DEF v
<1> QED BY <1>3, <1>4

\* The walk that joins spans, as its definition has it.
Joins(order, n, f) ==
    f = [i \in 0 .. n |-> IF i = 0 THEN <<>> ELSE JoinSpan(f[i - 1], Span(order[i][1], order[i][2]))]

\* It has a value.
LEMMA JoinWalkHasAValue ==
    ASSUME NEW order, NEW n \in Nat
    PROVE  \E f : Joins(order, n, f)
<1> DEFINE One(v, i) == JoinSpan(v, Span(order[i][1], order[i][2]))
           Zero == <<>>
<1> HIDE DEF One, Zero
<1> DEFINE Solves(f, k) == f = [i \in 0 .. k |-> IF i = 0 THEN Zero ELSE One(f[i - 1], i)]
           bad == {k \in Nat : ~ \E f : Solves(f, k)}
<1>1. ASSUME bad # {} PROVE FALSE
  <2> DEFINE m == Min(bad)
  <2> HIDE DEF Solves
  <2>1. bad \in SUBSET Nat
    OBVIOUS
  <2>2. m \in bad /\ \A k \in bad : m <= k
    BY <1>1, <2>1, LeastIsLeast
  <2> HIDE DEF m
  <2>3. m \in Nat /\ ~ \E f : Solves(f, m)
    BY <2>2
  <2>4. m # 0
    <3> DEFINE e == [i \in 0 .. 0 |-> Zero]
    <3>1. Solves(e, 0)
      BY DEF Solves
    <3> QED BY <2>3, <3>1
  <2>5. m - 1 \in Nat /\ m - 1 \notin bad
    BY <2>2, <2>3, <2>4
  <2>6. PICK f : Solves(f, m - 1)
    BY <2>5
  <2> DEFINE g == [i \in 0 .. m |-> IF i = 0 THEN Zero ELSE One(f[i - 1], i)]
  <2>7. \A i \in 0 .. m - 1 : g[i] = f[i]
    <3>1. \A i \in 0 .. m - 1 : i \in 0 .. m
      BY <2>3, <2>5
    <3>2. \A i \in 0 .. m - 1 : f[i] = IF i = 0 THEN Zero ELSE One(f[i - 1], i)
      BY <2>6 DEF Solves
    <3>3. \A i \in 0 .. m : g[i] = IF i = 0 THEN Zero ELSE One(f[i - 1], i)
      OBVIOUS
    <3> HIDE DEF g
    <3> QED BY <3>1, <3>2, <3>3
  <2>8. \A i \in 0 .. m : i # 0 => g[i - 1] = f[i - 1]
    <3> HIDE DEF g
    <3>1. \A i \in 0 .. m : i # 0 => i - 1 \in 0 .. m - 1
      BY <2>3
    <3> QED BY <2>7, <3>1
  <2>9. Solves(g, m)
    BY <2>3, <2>8 DEF Solves
  <2> QED BY <2>3, <2>9
<1>2. \E f : Solves(f, n)
  <2> HIDE DEF Solves
  <2> QED BY <1>1
<1> QED BY <1>2 DEF One, Zero, Joins

\* The walk that cuts a span, as its definition has it.
Cuts(sp, b, n, f) ==
    f = [i \in 0 .. n |-> IF i = 0 THEN [start |-> sp.start, out |-> <<>>] ELSE Cut(sp, f[i - 1], b[i])]

\* It has a value.
LEMMA CutWalkHasAValue ==
    ASSUME NEW sp, NEW b, NEW n \in Nat
    PROVE  \E f : Cuts(sp, b, n, f)
<1> DEFINE One(v, i) == Cut(sp, v, b[i])
           Zero == [start |-> sp.start, out |-> <<>>]
<1> HIDE DEF One, Zero
<1> DEFINE Solves(f, k) == f = [i \in 0 .. k |-> IF i = 0 THEN Zero ELSE One(f[i - 1], i)]
           bad == {k \in Nat : ~ \E f : Solves(f, k)}
<1>1. ASSUME bad # {} PROVE FALSE
  <2> DEFINE m == Min(bad)
  <2> HIDE DEF Solves
  <2>1. bad \in SUBSET Nat
    OBVIOUS
  <2>2. m \in bad /\ \A k \in bad : m <= k
    BY <1>1, <2>1, LeastIsLeast
  <2> HIDE DEF m
  <2>3. m \in Nat /\ ~ \E f : Solves(f, m)
    BY <2>2
  <2>4. m # 0
    <3> DEFINE e == [i \in 0 .. 0 |-> Zero]
    <3>1. Solves(e, 0)
      BY DEF Solves
    <3> QED BY <2>3, <3>1
  <2>5. m - 1 \in Nat /\ m - 1 \notin bad
    BY <2>2, <2>3, <2>4
  <2>6. PICK f : Solves(f, m - 1)
    BY <2>5
  <2> DEFINE g == [i \in 0 .. m |-> IF i = 0 THEN Zero ELSE One(f[i - 1], i)]
  <2>7. \A i \in 0 .. m - 1 : g[i] = f[i]
    <3>1. \A i \in 0 .. m - 1 : i \in 0 .. m
      BY <2>3, <2>5
    <3>2. \A i \in 0 .. m - 1 : f[i] = IF i = 0 THEN Zero ELSE One(f[i - 1], i)
      BY <2>6 DEF Solves
    <3>3. \A i \in 0 .. m : g[i] = IF i = 0 THEN Zero ELSE One(f[i - 1], i)
      OBVIOUS
    <3> HIDE DEF g
    <3> QED BY <3>1, <3>2, <3>3
  <2>8. \A i \in 0 .. m : i # 0 => g[i - 1] = f[i - 1]
    <3> HIDE DEF g
    <3>1. \A i \in 0 .. m : i # 0 => i - 1 \in 0 .. m - 1
      BY <2>3
    <3> QED BY <2>7, <3>1
  <2>9. Solves(g, m)
    BY <2>3, <2>8 DEF Solves
  <2> QED BY <2>3, <2>9
<1>2. \E f : Solves(f, n)
  <2> HIDE DEF Solves
  <2> QED BY <1>1
<1> QED BY <1>2 DEF One, Zero, Cuts

\* The walk of the two cursors, as its definition has it.
Met(a, b, n, f) ==
    f = [i \in 0 .. n |-> IF i = 0 THEN [i |-> 1, j |-> 1, out |-> <<>>] ELSE Meet(a, b, f[i - 1])]

\* It has a value.
LEMMA MeetWalkHasAValue ==
    ASSUME NEW a, NEW b, NEW n \in Nat
    PROVE  \E f : Met(a, b, n, f)
<1> DEFINE One(v, i) == Meet(a, b, v)
           Zero == [i |-> 1, j |-> 1, out |-> <<>>]
<1> HIDE DEF One, Zero
<1> DEFINE Solves(f, k) == f = [i \in 0 .. k |-> IF i = 0 THEN Zero ELSE One(f[i - 1], i)]
           bad == {k \in Nat : ~ \E f : Solves(f, k)}
<1>1. ASSUME bad # {} PROVE FALSE
  <2> DEFINE m == Min(bad)
  <2> HIDE DEF Solves
  <2>1. bad \in SUBSET Nat
    OBVIOUS
  <2>2. m \in bad /\ \A k \in bad : m <= k
    BY <1>1, <2>1, LeastIsLeast
  <2> HIDE DEF m
  <2>3. m \in Nat /\ ~ \E f : Solves(f, m)
    BY <2>2
  <2>4. m # 0
    <3> DEFINE e == [i \in 0 .. 0 |-> Zero]
    <3>1. Solves(e, 0)
      BY DEF Solves
    <3> QED BY <2>3, <3>1
  <2>5. m - 1 \in Nat /\ m - 1 \notin bad
    BY <2>2, <2>3, <2>4
  <2>6. PICK f : Solves(f, m - 1)
    BY <2>5
  <2> DEFINE g == [i \in 0 .. m |-> IF i = 0 THEN Zero ELSE One(f[i - 1], i)]
  <2>7. \A i \in 0 .. m - 1 : g[i] = f[i]
    <3>1. \A i \in 0 .. m - 1 : i \in 0 .. m
      BY <2>3, <2>5
    <3>2. \A i \in 0 .. m - 1 : f[i] = IF i = 0 THEN Zero ELSE One(f[i - 1], i)
      BY <2>6 DEF Solves
    <3>3. \A i \in 0 .. m : g[i] = IF i = 0 THEN Zero ELSE One(f[i - 1], i)
      OBVIOUS
    <3> HIDE DEF g
    <3> QED BY <3>1, <3>2, <3>3
  <2>8. \A i \in 0 .. m : i # 0 => g[i - 1] = f[i - 1]
    <3> HIDE DEF g
    <3>1. \A i \in 0 .. m : i # 0 => i - 1 \in 0 .. m - 1
      BY <2>3
    <3> QED BY <2>7, <3>1
  <2>9. Solves(g, m)
    BY <2>3, <2>8 DEF Solves
  <2> QED BY <2>3, <2>9
<1>2. \E f : Solves(f, n)
  <2> HIDE DEF Solves
  <2> QED BY <1>1
<1> QED BY <1>2 DEF One, Zero, Met

\* The walk that joins lines, as its definition has it.
Runs(lines, n, f) ==
    f = [i \in 0 .. n |-> IF i = 0 THEN <<>> ELSE JoinLine(f[i - 1], lines[i])]

\* It has a value.
LEMMA LineWalkHasAValue ==
    ASSUME NEW lines, NEW n \in Nat
    PROVE  \E f : Runs(lines, n, f)
<1> DEFINE One(v, i) == JoinLine(v, lines[i])
           Zero == <<>>
<1> HIDE DEF One, Zero
<1> DEFINE Solves(f, k) == f = [i \in 0 .. k |-> IF i = 0 THEN Zero ELSE One(f[i - 1], i)]
           bad == {k \in Nat : ~ \E f : Solves(f, k)}
<1>1. ASSUME bad # {} PROVE FALSE
  <2> DEFINE m == Min(bad)
  <2> HIDE DEF Solves
  <2>1. bad \in SUBSET Nat
    OBVIOUS
  <2>2. m \in bad /\ \A k \in bad : m <= k
    BY <1>1, <2>1, LeastIsLeast
  <2> HIDE DEF m
  <2>3. m \in Nat /\ ~ \E f : Solves(f, m)
    BY <2>2
  <2>4. m # 0
    <3> DEFINE e == [i \in 0 .. 0 |-> Zero]
    <3>1. Solves(e, 0)
      BY DEF Solves
    <3> QED BY <2>3, <3>1
  <2>5. m - 1 \in Nat /\ m - 1 \notin bad
    BY <2>2, <2>3, <2>4
  <2>6. PICK f : Solves(f, m - 1)
    BY <2>5
  <2> DEFINE g == [i \in 0 .. m |-> IF i = 0 THEN Zero ELSE One(f[i - 1], i)]
  <2>7. \A i \in 0 .. m - 1 : g[i] = f[i]
    <3>1. \A i \in 0 .. m - 1 : i \in 0 .. m
      BY <2>3, <2>5
    <3>2. \A i \in 0 .. m - 1 : f[i] = IF i = 0 THEN Zero ELSE One(f[i - 1], i)
      BY <2>6 DEF Solves
    <3>3. \A i \in 0 .. m : g[i] = IF i = 0 THEN Zero ELSE One(f[i - 1], i)
      OBVIOUS
    <3> HIDE DEF g
    <3> QED BY <3>1, <3>2, <3>3
  <2>8. \A i \in 0 .. m : i # 0 => g[i - 1] = f[i - 1]
    <3> HIDE DEF g
    <3>1. \A i \in 0 .. m : i # 0 => i - 1 \in 0 .. m - 1
      BY <2>3
    <3> QED BY <2>7, <3>1
  <2>9. Solves(g, m)
    BY <2>3, <2>8 DEF Solves
  <2> QED BY <2>3, <2>9
<1>2. \E f : Solves(f, n)
  <2> HIDE DEF Solves
  <2> QED BY <1>1
<1> QED BY <1>2 DEF One, Zero, Runs

\* Joining a set of spans keeps its lines, sorted and apart (MergedSpans).
LEMMA JoinSpansMeans ==
    ASSUME NEW P \in SUBSET Places(2), IsFiniteSet(P), \A p \in P : p[1] <= p[2]
    PROVE  /\ SpanList(JoinSpans(P))
           /\ \A l \in Int : On(JoinSpans(P), l) <=> \E p \in P : p[1] <= l /\ l <= p[2]
<1> DEFINE n == Cardinality(P)
           order == Ordered(P)
           walk == CHOOSE f : Joins(order, n, f)
           Covers(i, l) == \E j \in 1 .. i : order[j][1] <= l /\ l <= order[j][2]
<1>1. /\ n \in Nat /\ DOMAIN order = 1 .. n
      /\ \A i \in 1 .. n : order[i] \in P /\ Rank(P, order[i]) = i - 1
      /\ \A p \in P : \E i \in 1 .. n : order[i] = p
  BY OrderedIsSorted, FS_CardinalityType
<1>2. \A i \in 1 .. n : order[i][1] \in Int /\ order[i][2] \in Int /\ order[i][1] <= order[i][2]
  <2>1. \A p \in P : p[1] \in Int /\ p[2] \in Int /\ p[1] <= p[2]
    BY DEF Places
  <2> HIDE DEF order
  <2> QED BY <1>1, <2>1
<1>3. \A i \in 1 .. n : i - 1 \in 1 .. n => order[i - 1][1] <= order[i][1]
  <2> SUFFICES ASSUME NEW i \in 1 .. n, i - 1 \in 1 .. n PROVE order[i - 1][1] <= order[i][1]
    OBVIOUS
  <2> HIDE DEF order, n
  <2>1. order[i] \in P /\ order[i - 1] \in P
    BY <1>1
  <2>2. Rank(P, order[i]) = i - 1 /\ Rank(P, order[i - 1]) = (i - 1) - 1
    BY <1>1
  <2>3. Rank(P, order[i - 1]) < Rank(P, order[i])
    BY <1>1, <2>2
  <2>4. Before(order[i - 1], order[i])
    BY <2>1, <2>3, RanksGoUp
  <2>5. DOMAIN order[i - 1] = {1, 2}
    BY <2>1 DEF Places
  <2>6. order[i - 1][1] < order[i][1] \/ order[i - 1][1] = order[i][1]
    <3>1. PICK m \in {1, 2} : /\ order[i - 1][m] < order[i][m]
                              /\ \A j \in 1 .. m - 1 : order[i - 1][j] = order[i][j]
      BY <2>4, <2>5 DEF Before
    <3>2. 1 \in 1 .. 2 - 1
      OBVIOUS
    <3> QED BY <3>1, <3>2
  <2> QED BY <1>2, <2>6
<1>4. JoinSpans(P) = walk[n]
  BY DEF JoinSpans, Joins
<1>5. Joins(order, n, walk)
  <2>1. \E f : Joins(order, n, f)
    <3> HIDE DEF order, n
    <3> QED BY <1>1, JoinWalkHasAValue
  <2> QED BY <2>1
<1> HIDE DEF walk, order
<1>6. /\ walk[0] = <<>>
      /\ \A i \in 1 .. n : walk[i] = JoinSpan(walk[i - 1], Span(order[i][1], order[i][2]))
  <2> HIDE DEF n
  <2>1. walk = [i \in 0 .. n |-> IF i = 0 THEN <<>>
                  ELSE JoinSpan(walk[i - 1], Span(order[i][1], order[i][2]))]
    BY <1>5 DEF Joins
  <2>2. 0 \in 0 .. n /\ \A i \in 1 .. n : i \in 0 .. n /\ i # 0
    BY <1>1
  <2> QED BY <2>1, <2>2
<1> HIDE DEF n
<1> DEFINE Good(i) == /\ SpanList(walk[i])
                      /\ \A l \in Int : On(walk[i], l) <=> Covers(i, l)
                      /\ walk[i] # <<>> => i \in 1 .. n /\ Last(walk[i]).start <= order[i][1]
           bad == {i \in 0 .. n : ~ Good(i)}
<1> HIDE DEF Covers
<1>7. Good(0)
  <2>1. SpanList(<<>>)
    <3>1. <<>> \in Seq(SpanSet) /\ DOMAIN <<>> = {}
      OBVIOUS
    <3> QED BY <3>1 DEF SpanList, Separate
  <2>2. \A l \in Int : ~ On(<<>>, l) /\ ~ Covers(0, l)
    <3>1. Len(<<>>) = 0 /\ 1 .. 0 = {}
      OBVIOUS
    <3> QED BY <3>1 DEF On, Covers
  <2> QED BY <1>6, <2>1, <2>2
<1>8. ASSUME NEW i \in 1 .. n, Good(i - 1) PROVE Good(i)
  <2> DEFINE w == walk[i - 1]
             sp == Span(order[i][1], order[i][2])
  <2>1. /\ sp \in SpanSet /\ sp.start = order[i][1] /\ sp.end = order[i][2] /\ sp.start <= sp.end
    BY <1>2 DEF Span, SpanSet
  <2>2. w # <<>> => Last(w).start <= sp.start
    <3> SUFFICES ASSUME w # <<>> PROVE Last(w).start <= sp.start
      OBVIOUS
    <3>1. i - 1 \in 1 .. n /\ Last(w).start <= order[i - 1][1]
      BY <1>8
    <3>2. w \in Seq(SpanSet) /\ Len(w) \in 1 .. Len(w) /\ Last(w) = w[Len(w)]
      BY <1>8 DEF SpanList, Last
    <3>3. Last(w) \in SpanSet
      BY <3>2
    <3>4. Last(w).start \in Int
      BY <3>3 DEF SpanSet
    <3> HIDE DEF w, sp
    <3> QED BY <1>2, <1>3, <2>1, <3>1, <3>4
  <2>3. SpanList(w) /\ \A l \in Int : On(w, l) <=> Covers(i - 1, l)
    BY <1>8
  <2>4. walk[i] = JoinSpan(w, sp)
    BY <1>6
  <2> HIDE DEF w, sp
  <2>5. /\ SpanList(walk[i]) /\ walk[i] # <<>> /\ Last(walk[i]).start <= sp.start
        /\ \A l \in Int : On(walk[i], l) <=> On(w, l) \/ (sp.start <= l /\ l <= sp.end)
    BY <2>1, <2>2, <2>3, <2>4, JoinSpanJoins
  <2>6. \A l \in Int : Covers(i, l) <=> Covers(i - 1, l) \/ (order[i][1] <= l /\ l <= order[i][2])
    <3>1. 1 .. i = (1 .. i - 1) \cup {i}
      BY <1>1
    <3> QED BY <3>1 DEF Covers
  <2> QED BY <2>1, <2>3, <2>5, <2>6
<1>9. Good(n)
  <2> HIDE DEF Good
  <2>1. ASSUME bad # {} PROVE FALSE
    <3> DEFINE m == Min(bad)
    <3>1. bad \in SUBSET Nat
      BY <1>1
    <3>2. m \in bad /\ \A k \in bad : m <= k
      <4> HIDE DEF bad
      <4> QED BY <2>1, <3>1, LeastIsLeast
    <3> HIDE DEF m
    <3>3. m \in 1 .. n
      BY <1>1, <1>7, <3>2
    <3>4. m - 1 \in 0 .. n /\ m - 1 \notin bad
      BY <1>1, <3>2, <3>3
    <3> QED BY <1>8, <3>2, <3>3, <3>4
  <2>2. n \in 0 .. n
    BY <1>1
  <2> QED BY <2>1, <2>2
<1>10. \A l \in Int : Covers(n, l) <=> \E p \in P : p[1] <= l /\ l <= p[2]
  BY <1>1 DEF Covers
<1> QED BY <1>4, <1>9, <1>10

\* The blocks of a file that claim no line below 1.
IsSpanned(L) == IsSeq(L) /\ \A b \in Range(L) : IsBlock(b) /\ b.start_line >= 1

\* The lines that blocks span: those the statement blocks do, and those that ran.
LEMMA MergedSpansMean ==
    ASSUME NEW L, IsSpanned(L)
    PROVE  /\ SpanList(StatementSpans(L)) /\ LinesOf(StatementSpans(L)) = LinesWhere(L, Statement)
           /\ SpanList(RanSpans(L)) /\ LinesOf(RanSpans(L)) = LinesWhere(L, Ran)
<1> DEFINE from(b) == AtLeast(b.start_line, 1)
           whole == {c \in {b \in Range(L) : Statement(b)} : from(c) <= c.end_line}
           ran == {c \in {b \in Range(L) : Ran(b)} : from(c) <= c.end_line}
           pairs(K) == {<<from(b), b.end_line>> : b \in K}
<1>1. StatementSpans(L) = JoinSpans(pairs(whole)) /\ RanSpans(L) = JoinSpans(pairs(ran))
  BY DEF StatementSpans, RanSpans, MergedSpans
<1>2. \A b \in Range(L) : from(b) = b.start_line /\ b.start_line \in Int /\ b.end_line \in Int
  BY DEF IsSpanned, IsBlock, AtLeast
<1>3. IsFiniteSet(Range(L))
  <2>1. DOMAIN L = 1 .. Len(L) /\ Len(L) \in Nat
    BY DEF IsSpanned, IsSeq
  <2>2. Range(L) = {L[i] : i \in 1 .. Len(L)}
    BY <2>1 DEF Range
  <2> QED BY <2>1, <2>2, ItemsAreFinite
<1>4. ASSUME NEW K \in SUBSET Range(L), \A b \in K : from(b) <= b.end_line
      PROVE  /\ SpanList(JoinSpans(pairs(K)))
             /\ LinesOf(JoinSpans(pairs(K))) = {l \in Int : \E b \in K : l \in b.start_line .. b.end_line}
  <2> DEFINE P == pairs(K)
             f == [b \in K |-> <<from(b), b.end_line>>]
  <2>1. P \in SUBSET Places(2)
    BY <1>2, TuplesArePlaces
  <2>2. IsFiniteSet(P)
    <3>1. IsFiniteSet(K)
      BY <1>3, FS_Subset
    <3>2. f \in Surjection(K, P)
      BY DEF Surjection
    <3> HIDE DEF f, P
    <3> QED BY <3>1, <3>2, FS_Surjection
  <2>3. \A p \in P : \E b \in K : p[1] = b.start_line /\ p[2] = b.end_line /\ p[1] <= p[2]
    BY <1>2, <1>4
  <2>4. ASSUME NEW b \in K PROVE \E p \in P : p[1] = b.start_line /\ p[2] = b.end_line
    <3>1. <<from(b), b.end_line>> \in P
      OBVIOUS
    <3>2. from(b) = b.start_line
      BY <1>2
    <3> QED BY <3>1, <3>2
  <2> HIDE DEF P
  <2>5. /\ SpanList(JoinSpans(P))
        /\ \A l \in Int : On(JoinSpans(P), l) <=> \E p \in P : p[1] <= l /\ l <= p[2]
    BY <2>1, <2>2, <2>3, JoinSpansMeans
  <2>6. LinesOf(JoinSpans(P)) = {l \in Int : On(JoinSpans(P), l)}
    BY <2>5, LinesAreOn DEF SpanList
  <2>7. \A l \in Int : On(JoinSpans(P), l) <=> \E b \in K : l \in b.start_line .. b.end_line
    BY <1>2, <2>3, <2>4, <2>5
  <2> QED BY <2>5, <2>6, <2>7 DEF P
<1> HIDE DEF pairs
<1>5. /\ SpanList(StatementSpans(L))
      /\ LinesOf(StatementSpans(L)) = {l \in Int : \E b \in whole : l \in b.start_line .. b.end_line}
  <2>1. whole \in SUBSET Range(L) /\ \A b \in whole : from(b) <= b.end_line
    OBVIOUS
  <2> HIDE DEF whole
  <2> QED BY <1>1, <1>4, <2>1
<1>6. /\ SpanList(RanSpans(L))
      /\ LinesOf(RanSpans(L)) = {l \in Int : \E b \in ran : l \in b.start_line .. b.end_line}
  <2>1. ran \in SUBSET Range(L) /\ \A b \in ran : from(b) <= b.end_line
    OBVIOUS
  <2> HIDE DEF ran
  <2> QED BY <1>1, <1>4, <2>1
<1>7. \A b \in Range(L) : \A l : l \in b.start_line .. b.end_line => l \in Int /\ from(b) <= b.end_line
  BY <1>2
<1>8. LinesWhere(L, Statement) = {l \in Int : \E b \in whole : l \in b.start_line .. b.end_line}
  <2>1. \A l : l \in LinesWhere(L, Statement)
                 <=> \E b \in Range(L) : Statement(b) /\ l \in b.start_line .. b.end_line
    BY LinesOfBlocks
  <2> HIDE DEF from
  <2> QED BY <1>7, <2>1
<1>9. LinesWhere(L, Ran) = {l \in Int : \E b \in ran : l \in b.start_line .. b.end_line}
  <2>1. \A l : l \in LinesWhere(L, Ran)
                 <=> \E b \in Range(L) : Ran(b) /\ l \in b.start_line .. b.end_line
    BY LinesOfBlocks
  <2> HIDE DEF from
  <2> QED BY <1>7, <2>1
<1> QED BY <1>5, <1>6, <1>8, <1>9

\* The spans of a list are spans of integers, not empty.
LEMMA SpansOfAList ==
    ASSUME NEW s, SpanList(s)
    PROVE  /\ s \in Seq(SpanSet) /\ Len(s) \in Nat /\ DOMAIN s = 1 .. Len(s)
           /\ \A i \in 1 .. Len(s) : /\ s[i] \in SpanSet /\ s[i].start \in Int /\ s[i].end \in Int
                                     /\ s[i].start <= s[i].end /\ On(s, s[i].start) /\ On(s, s[i].end)
           /\ \A i \in 2 .. Len(s) : s[i - 1].end + 1 < s[i].start
           /\ s # <<>> => Len(s) \in 1 .. Len(s) /\ Last(s) = s[Len(s)]
<1>1. s \in Seq(SpanSet) /\ Len(s) \in Nat /\ DOMAIN s = 1 .. Len(s)
  BY DEF SpanList
<1>2. \A i \in 1 .. Len(s) : s[i] \in SpanSet /\ s[i].start \in Int /\ s[i].end \in Int
  <2>1. \A i \in 1 .. Len(s) : s[i] \in SpanSet
    BY <1>1
  <2> QED BY <2>1 DEF SpanSet
<1>3. \A i \in 1 .. Len(s) : s[i].start <= s[i].end
  BY <1>1 DEF SpanList, Separate
<1>4. \A i \in 1 .. Len(s) : On(s, s[i].start) /\ On(s, s[i].end)
  <2> SUFFICES ASSUME NEW i \in 1 .. Len(s) PROVE On(s, s[i].start) /\ On(s, s[i].end)
    OBVIOUS
  <2>1. /\ s[i].start <= s[i].start /\ s[i].start <= s[i].end
        /\ s[i].end <= s[i].end
    BY <1>2, <1>3
  <2> QED BY <2>1 DEF On
<1>5. \A i \in 2 .. Len(s) : s[i - 1].end + 1 < s[i].start
  <2>1. \A i \in 2 .. Len(s) : i \in DOMAIN s /\ i > 1
    BY <1>1
  <2> QED BY <2>1 DEF SpanList, Separate
<1>6. s # <<>> => Len(s) \in 1 .. Len(s) /\ Last(s) = s[Len(s)]
  BY <1>1 DEF Last
<1> QED BY <1>1, <1>2, <1>3, <1>4, <1>5, <1>6

\* A span is cut by the spans of a list to its lines that are not on the list.
LEMMA CutSpanCuts ==
    ASSUME NEW sp \in SpanSet, sp.start <= sp.end, NEW b, SpanList(b)
    PROVE  LET v == CutSpan(sp, b)
           IN  /\ SpanList(v)
               /\ \A l \in Int : On(v, l) <=> sp.start <= l /\ l <= sp.end /\ ~ On(b, l)
<1> DEFINE n == Len(b)
           lo == sp.start
           hi == sp.end
           Zero == [start |-> sp.start, out |-> <<>>]
           walk == CHOOSE f : Cuts(sp, b, n, f)
           Meets(k, l) == \E j \in 1 .. k : b[j].start <= l /\ l <= b[j].end
<1>1. /\ n \in Nat /\ lo \in Int /\ hi \in Int /\ lo <= hi
      /\ \A k \in 1 .. n : b[k].start \in Int /\ b[k].end \in Int /\ b[k].start <= b[k].end
      /\ \A k \in 2 .. n : b[k - 1].end + 1 < b[k].start
  BY SpansOfAList DEF SpanSet
<1>2. CutSpan(sp, b) = IF walk[n].start <= hi
                       THEN Append(walk[n].out, Span(walk[n].start, hi)) ELSE walk[n].out
  BY DEF CutSpan, Cuts
<1>3. Cuts(sp, b, n, walk)
  <2>1. \E f : Cuts(sp, b, n, f)
    <3> HIDE DEF n
    <3> QED BY <1>1, CutWalkHasAValue
  <2> QED BY <2>1
<1> HIDE DEF walk
<1>4. walk[0] = Zero /\ \A k \in 1 .. n : walk[k] = Cut(sp, walk[k - 1], b[k])
  <2> HIDE DEF n
  <2>1. walk = [k \in 0 .. n |-> IF k = 0 THEN Zero ELSE Cut(sp, walk[k - 1], b[k])]
    BY <1>3 DEF Cuts
  <2>2. 0 \in 0 .. n /\ \A k \in 1 .. n : k \in 0 .. n /\ k # 0
    BY <1>1
  <2> HIDE DEF Zero
  <2> QED BY <2>1, <2>2
<1> DEFINE Apart(k) == walk[k].out # <<>> => Last(walk[k].out).end + 1 < walk[k].start
           Reached(k) == walk[k].start = lo \/ (k \in 1 .. n /\ walk[k].start <= b[k].end + 1)
           Behind(k) == \A l \in Int : lo <= l /\ l <= hi /\ Meets(k, l) => l < walk[k].start
           Remains(k) == \A l \in Int : On(walk[k].out, l)
                        <=> lo <= l /\ l < walk[k].start /\ l <= hi /\ ~ Meets(k, l)
           Good(k) == /\ walk[k].start \in Int /\ lo <= walk[k].start /\ SpanList(walk[k].out)
                      /\ Apart(k) /\ Reached(k) /\ Behind(k) /\ Remains(k)
           bad == {k \in 0 .. n : ~ Good(k)}
<1> HIDE DEF n, lo, hi
<1>5. Good(0)
  <2>1. walk[0].start = lo /\ walk[0].out = <<>>
    BY <1>4 DEF lo
  <2>2. SpanList(<<>>)
    <3>1. <<>> \in Seq(SpanSet) /\ DOMAIN <<>> = {}
      OBVIOUS
    <3> QED BY <3>1 DEF SpanList, Separate
  <2>3. \A l \in Int : ~ On(<<>>, l) /\ ~ Meets(0, l)
    <3>1. Len(<<>>) = 0 /\ 1 .. 0 = {}
      OBVIOUS
    <3> QED BY <3>1 DEF On
  <2> HIDE DEF Meets
  <2> QED BY <1>1, <2>1, <2>2, <2>3
<1>6. ASSUME NEW k \in 1 .. n, Good(k - 1) PROVE Good(k)
  <2> DEFINE c == b[k]
             left == walk[k - 1]
  <2>1. /\ c.start \in Int /\ c.end \in Int /\ c.start <= c.end
        /\ walk[k] = Cut(sp, left, c)
    BY <1>1, <1>4
  <2>2. \A l \in Int : Meets(k, l) <=> Meets(k - 1, l) \/ (c.start <= l /\ l <= c.end)
    <3>1. 1 .. k = (1 .. k - 1) \cup {k}
      BY <1>1
    <3> QED BY <3>1
  <2>3. left.start = lo \/ left.start < c.start
    <3> SUFFICES ASSUME left.start # lo PROVE left.start < c.start
      OBVIOUS
    <3>1. k - 1 \in 1 .. n /\ left.start <= b[k - 1].end + 1
      BY <1>6
    <3>2. k \in 2 .. n /\ b[k - 1].end + 1 < b[k].start
      BY <1>1, <3>1
    <3>3. b[k - 1].end \in Int /\ left.start \in Int
      BY <1>1, <1>6, <3>1
    <3> HIDE DEF left
    <3> QED BY <2>1, <3>1, <3>2, <3>3
  <2>4. /\ left.start \in Int /\ lo <= left.start /\ SpanList(left.out)
        /\ left.out # <<>> => Last(left.out).end + 1 < left.start
        /\ \A l \in Int : lo <= l /\ l <= hi /\ Meets(k - 1, l) => l < left.start
        /\ \A l \in Int : On(left.out, l)
             <=> lo <= l /\ l < left.start /\ l <= hi /\ ~ Meets(k - 1, l)
    BY <1>6
  <2> HIDE DEF Meets, left
  <2>5. left.out # <<>> => Last(left.out).end \in Int
    <3>1. left.out # <<>> => /\ Len(left.out) \in 1 .. Len(left.out)
                             /\ Last(left.out) = left.out[Len(left.out)]
      BY <2>4, SpansOfAList
    <3>2. \A i \in 1 .. Len(left.out) : left.out[i].end \in Int
      BY <2>4, SpansOfAList
    <3> QED BY <3>1, <3>2
  <2>6. CASE c.end < lo \/ c.start > hi
    <3>1. walk[k] = left
      BY <2>1, <2>6 DEF Cut, lo, hi
    <3>2. \A l \in Int : lo <= l /\ l <= hi => (Meets(k, l) <=> Meets(k - 1, l))
      BY <1>1, <2>1, <2>2, <2>6
    <3>3. Reached(k)
      <4>1. left.start < c.start => left.start <= c.end + 1
        BY <2>1, <2>4
      <4> QED BY <2>3, <3>1, <4>1
    <3> QED BY <2>4, <3>1, <3>2, <3>3
  <2>7. CASE ~ (c.end < lo \/ c.start > hi)
    <3> DEFINE next == AtLeast(left.start, c.end + 1)
               sq == Span(left.start, c.start - 1)
    <3>1. lo <= c.end /\ c.start <= hi
      BY <1>1, <2>1, <2>7
    <3>2. walk[k].start = next
          /\ walk[k].out = IF c.start > left.start THEN Append(left.out, sq) ELSE left.out
      BY <2>1, <2>7 DEF Cut, lo, hi
    <3>3. next \in Int /\ next \in {left.start, c.end + 1} /\ left.start <= next /\ c.end + 1 <= next
      <4>1. c.end + 1 \in Int
        BY <2>1
      <4>2. next \in {left.start, c.end + 1} /\ left.start <= next /\ c.end + 1 <= next
        BY <2>4, <4>1, AtLeastIsLarger
      <4> HIDE DEF next
      <4> QED BY <2>4, <4>1, <4>2
    <3> HIDE DEF next
    <3>4. Reached(k)
      <4>1. next = left.start => next = lo \/ next <= c.end + 1
        BY <2>1, <2>3, <2>4
      <4>2. next = c.end + 1 => next <= c.end + 1
        BY <3>3
      <4> QED BY <3>2, <3>3, <4>1, <4>2
    <3>5. Behind(k)
      <4> SUFFICES ASSUME NEW l \in Int, lo <= l, l <= hi, Meets(k, l) PROVE l < next
        BY <3>2
      <4>1. CASE Meets(k - 1, l)
        <5>1. l < left.start
          BY <2>4, <4>1
        <5> QED BY <2>4, <3>3, <5>1
      <4>2. CASE c.start <= l /\ l <= c.end
        BY <2>1, <3>3, <4>2
      <4> QED BY <2>2, <4>1, <4>2
    <3>6. CASE c.start > left.start
      <4>1. sq \in SpanSet /\ sq.start = left.start /\ sq.end = c.start - 1 /\ sq.start <= sq.end
        BY <2>1, <2>4, <3>6 DEF Span, SpanSet
      <4> HIDE DEF sq
      <4>2. /\ SpanList(walk[k].out) /\ walk[k].out # <<>> /\ Last(walk[k].out) = sq
            /\ \A l \in Int : On(walk[k].out, l)
                 <=> On(left.out, l) \/ (sq.start <= l /\ l <= sq.end)
        BY <2>4, <3>2, <3>6, <4>1, AppendSpan
      <4>3. Apart(k)
        BY <2>1, <3>2, <3>3, <4>1, <4>2
      <4>4. Remains(k)
        <5> SUFFICES ASSUME NEW l \in Int
                     PROVE  On(walk[k].out, l) <=> lo <= l /\ l < next /\ l <= hi /\ ~ Meets(k, l)
          BY <3>2
        <5>1. On(walk[k].out, l) <=> On(left.out, l) \/ (left.start <= l /\ l < c.start)
          BY <2>1, <4>1, <4>2
        <5>2. CASE l < left.start
          <6>1. l < next /\ ~ (c.start <= l /\ l <= c.end) /\ ~ (left.start <= l)
            BY <2>1, <2>4, <3>3, <3>6, <5>2
          <6> QED BY <2>2, <2>4, <5>1, <5>2, <6>1
        <5>3. CASE left.start <= l
          <6>1. ~ On(left.out, l)
            BY <2>4, <5>3
          <6>2. l <= hi => ~ Meets(k - 1, l)
            BY <1>1, <2>4, <5>3
          <6>3. l < c.start => /\ lo <= l /\ l < next /\ l <= hi /\ ~ (c.start <= l)
            <7>1. /\ lo \in Int /\ hi \in Int /\ next \in Int /\ lo <= left.start
                  /\ left.start \in Int /\ c.start \in Int /\ c.end \in Int
                  /\ c.start <= c.end /\ c.end < next /\ c.start <= hi /\ left.start <= l
              BY <1>1, <2>1, <2>4, <3>1, <3>3, <5>3
            <7> QED BY <7>1
          <6>4. ~ (l < c.start) /\ l < next => c.start <= l /\ l <= c.end
            BY <2>1, <2>4, <3>3, <3>6, <5>3
          <6> QED BY <2>2, <5>1, <5>3, <6>1, <6>2, <6>3, <6>4
        <5> QED BY <2>4, <5>2, <5>3
      <4>5. walk[k].start \in Int /\ lo <= walk[k].start
        BY <1>1, <2>4, <3>2, <3>3
      <4> QED BY <3>4, <3>5, <4>2, <4>3, <4>4, <4>5
    <3>7. CASE ~ (c.start > left.start)
      <4>1. walk[k].out = left.out /\ left.start = lo
        BY <2>1, <2>3, <2>4, <3>2, <3>7
      <4>2. Apart(k)
        <5>1. walk[k].start = next
          BY <3>2
        <5>2. left.out # <<>> => Last(left.out).end + 1 < next
          <6>1. \A x, y, z \in Int : x + 1 < y /\ y <= z => x + 1 < z
            OBVIOUS
          <6> QED BY <2>4, <2>5, <3>3, <6>1
        <5> QED BY <4>1, <5>1, <5>2
      <4>3. Remains(k)
        <5> SUFFICES ASSUME NEW l \in Int
                     PROVE  On(left.out, l) <=> lo <= l /\ l < next /\ l <= hi /\ ~ Meets(k, l)
          BY <3>2, <4>1
        <5>1. ~ On(left.out, l)
          BY <1>1, <2>4, <4>1
        <5>2. lo <= l /\ l < next => c.start <= l /\ l <= c.end
          BY <1>1, <2>1, <3>3, <3>7, <4>1
        <5> QED BY <2>2, <5>1, <5>2
      <4>4. walk[k].start \in Int /\ lo <= walk[k].start
        BY <1>1, <2>4, <3>2, <3>3
      <4> QED BY <2>4, <3>4, <3>5, <4>1, <4>2, <4>3, <4>4
    <3> QED BY <3>6, <3>7
  <2> QED BY <2>6, <2>7
<1>7. Good(n)
  <2> HIDE DEF Good
  <2>1. ASSUME bad # {} PROVE FALSE
    <3> DEFINE m == Min(bad)
    <3>1. bad \in SUBSET Nat
      BY <1>1
    <3>2. m \in bad /\ \A k \in bad : m <= k
      <4> HIDE DEF bad
      <4> QED BY <2>1, <3>1, LeastIsLeast
    <3> HIDE DEF m
    <3>3. m \in 1 .. n
      BY <1>1, <1>5, <3>2
    <3>4. m - 1 \in 0 .. n /\ m - 1 \notin bad
      BY <1>1, <3>2, <3>3
    <3> QED BY <1>6, <3>2, <3>3, <3>4
  <2>2. n \in 0 .. n
    BY <1>1
  <2> QED BY <2>1, <2>2
<1>8. \A l \in Int : Meets(n, l) <=> On(b, l)
  BY DEF On, n
<1> HIDE DEF Meets
<1> DEFINE end == walk[n]
<1>9. /\ end.start \in Int /\ SpanList(end.out) /\ lo <= end.start
      /\ end.out # <<>> => Last(end.out).end + 1 < end.start
      /\ \A l \in Int : lo <= l /\ l <= hi /\ On(b, l) => l < end.start
      /\ \A l \in Int : On(end.out, l) <=> lo <= l /\ l < end.start /\ l <= hi /\ ~ On(b, l)
  BY <1>7, <1>8
<1> HIDE DEF end
<1>10. CASE end.start <= hi
  <2> DEFINE sq == Span(end.start, hi)
  <2>1. sq \in SpanSet /\ sq.start = end.start /\ sq.end = hi /\ sq.start <= sq.end
    BY <1>1, <1>9, <1>10 DEF Span, SpanSet
  <2>2. CutSpan(sp, b) = Append(end.out, sq)
    BY <1>2, <1>10 DEF end, hi
  <2> HIDE DEF sq
  <2>3. /\ SpanList(Append(end.out, sq))
        /\ \A l \in Int : On(Append(end.out, sq), l)
             <=> On(end.out, l) \/ (sq.start <= l /\ l <= sq.end)
    BY <1>9, <2>1, AppendSpan
  <2>4. ASSUME NEW l \in Int
        PROVE  On(end.out, l) \/ (end.start <= l /\ l <= hi) <=> lo <= l /\ l <= hi /\ ~ On(b, l)
    <3>1. CASE l < end.start
      <4>1. ~ (end.start <= l)
        BY <1>9, <3>1
      <4> QED BY <1>9, <3>1, <4>1
    <3>2. CASE end.start <= l
      <4>1. ~ (l < end.start) /\ lo <= l
        BY <1>1, <1>9, <3>2
      <4> QED BY <1>9, <3>2, <4>1
    <3> QED BY <1>9, <3>1, <3>2
  <2> QED BY <2>1, <2>2, <2>3, <2>4 DEF lo, hi
<1>11. CASE ~ (end.start <= hi)
  <2>1. CutSpan(sp, b) = end.out
    BY <1>2, <1>11 DEF end, hi
  <2>2. \A l \in Int : l <= hi => l < end.start
    BY <1>1, <1>9, <1>11
  <2>3. \A l \in Int : On(end.out, l) <=> lo <= l /\ l <= hi /\ ~ On(b, l)
    BY <1>9, <2>2
  <2> QED BY <1>9, <2>1, <2>3 DEF lo, hi
<1> QED BY <1>10, <1>11

\* Any span ends before a later one starts.
LEMMA SpansGoUp ==
    ASSUME NEW s, SpanList(s)
    PROVE  \A i \in 1 .. Len(s) : \A j \in 1 .. i - 1 : s[j].end + 1 < s[i].start
<1> DEFINE n == Len(s)
           Good(i) == \A j \in 1 .. i - 1 : s[j].end + 1 < s[i].start
           bad == {i \in 1 .. n : ~ Good(i)}
<1>1. /\ n \in Nat
      /\ \A i \in 1 .. n : s[i].start \in Int /\ s[i].end \in Int /\ s[i].start <= s[i].end
      /\ \A i \in 2 .. n : s[i - 1].end + 1 < s[i].start
  BY SpansOfAList
<1> HIDE DEF n
<1>2. ASSUME bad # {} PROVE FALSE
  <2> DEFINE m == Min(bad)
  <2>1. bad \in SUBSET Nat
    OBVIOUS
  <2>2. m \in bad /\ \A k \in bad : m <= k
    <3> HIDE DEF bad
    <3> QED BY <1>2, <2>1, LeastIsLeast
  <2> HIDE DEF m
  <2>3. PICK j \in 1 .. m - 1 : ~ (s[j].end + 1 < s[m].start)
    BY <2>2
  <2>4. m \in 2 .. n /\ m - 1 \in 1 .. n /\ m - 1 \notin bad
    BY <1>1, <2>2, <2>3
  <2>5. Good(m - 1)
    <3> HIDE DEF Good
    <3> QED BY <2>4
  <2>6. j \in 1 .. (m - 1) - 1 \/ j = m - 1
    BY <2>3, <2>4
  <2>7. s[m - 1].end + 1 < s[m].start
    BY <1>1, <2>4
  <2>8. j \in 1 .. (m - 1) - 1 => s[j].end + 1 < s[m - 1].start
    BY <2>5
  <2>9. /\ s[j].end \in Int /\ s[m - 1].start \in Int /\ s[m - 1].end \in Int /\ s[m].start \in Int
        /\ s[m - 1].start <= s[m - 1].end
    <3>1. j \in 1 .. n /\ m \in 1 .. n
      BY <1>1, <2>3, <2>4
    <3> QED BY <1>1, <2>4, <3>1
  <2> QED BY <2>3, <2>6, <2>7, <2>8, <2>9
<1> QED BY <1>2 DEF n

\* A list of later spans is joined to one.
LEMMA ConcatSpans ==
    ASSUME NEW x, SpanList(x), NEW y, SpanList(y),
           x # <<>> /\ y # <<>> => Last(x).end + 1 < y[1].start
    PROVE  /\ SpanList(x \o y)
           /\ \A l \in Int : On(x \o y, l) <=> On(x, l) \/ On(y, l)
<1> DEFINE v == x \o y
           m == Len(x)
           n == Len(y)
<1>1. /\ x \in Seq(SpanSet) /\ y \in Seq(SpanSet) /\ m \in Nat /\ n \in Nat
      /\ DOMAIN x = 1 .. m /\ DOMAIN y = 1 .. n
      /\ x # <<>> => Last(x) = x[m]
      /\ x = <<>> <=> m = 0
      /\ y = <<>> <=> n = 0
  BY SpansOfAList
<1>2. /\ v \in Seq(SpanSet) /\ Len(v) = m + n /\ DOMAIN v = 1 .. m + n
      /\ \A i \in 1 .. m + n : v[i] = IF i <= m THEN x[i] ELSE y[i - m]
  <2>1. /\ v \in Seq(SpanSet) /\ Len(v) = m + n
        /\ \A i \in 1 .. m + n : v[i] = IF i <= m THEN x[i] ELSE y[i - m]
    BY <1>1, ConcatProperties
  <2> HIDE DEF v
  <2> QED BY <2>1
<1> HIDE DEF v, m, n
<1>3. Separate(v)
  <2> SUFFICES ASSUME NEW i \in 1 .. m + n
               PROVE  v[i].start <= v[i].end /\ (i > 1 => v[i - 1].end + 1 < v[i].start)
    BY <1>2 DEF Separate
  <2>1. CASE i <= m
    <3>1. v[i] = x[i] /\ (i > 1 => v[i - 1] = x[i - 1]) /\ i \in DOMAIN x
      BY <1>1, <1>2, <2>1
    <3> QED BY <3>1 DEF SpanList, Separate
  <2>2. CASE i = m + 1
    <3>1. v[i] = y[1] /\ (i > 1 => v[i - 1] = x[m] /\ x # <<>>) /\ 1 \in DOMAIN y /\ y # <<>>
      BY <1>1, <1>2, <2>2
    <3>2. y[1].start <= y[1].end
      BY <3>1 DEF SpanList, Separate
    <3> QED BY <1>1, <3>1, <3>2
  <2>3. CASE i > m + 1
    <3>1. v[i] = y[i - m] /\ v[i - 1] = y[(i - m) - 1] /\ i - m \in DOMAIN y /\ i - m > 1
      BY <1>1, <1>2, <2>3
    <3> QED BY <3>1 DEF SpanList, Separate
  <2> QED BY <1>1, <2>1, <2>2, <2>3
<1>4. ASSUME NEW l \in Int PROVE On(v, l) <=> On(x, l) \/ On(y, l)
  <2> DEFINE holds(s) == s.start <= l /\ l <= s.end
  <2>1. /\ On(v, l) <=> \E i \in 1 .. m + n : holds(v[i])
        /\ On(x, l) <=> \E i \in 1 .. m : holds(x[i])
        /\ On(y, l) <=> \E i \in 1 .. n : holds(y[i])
    BY <1>2 DEF On, m, n
  <2> HIDE DEF holds
  <2>2. ASSUME NEW i \in 1 .. m + n, holds(v[i]) PROVE On(x, l) \/ On(y, l)
    <3>1. CASE i <= m
      <4>1. i \in 1 .. m /\ v[i] = x[i]
        BY <1>1, <1>2, <3>1
      <4> QED BY <2>1, <2>2, <4>1
    <3>2. CASE ~ (i <= m)
      <4>1. i - m \in 1 .. n /\ v[i] = y[i - m]
        BY <1>1, <1>2, <3>2
      <4> QED BY <2>1, <2>2, <4>1
    <3> QED BY <3>1, <3>2
  <2>3. ASSUME NEW i \in 1 .. m, holds(x[i]) PROVE On(v, l)
    <3>1. i \in 1 .. m + n /\ v[i] = x[i]
      BY <1>1, <1>2
    <3> QED BY <2>1, <2>3, <3>1
  <2>4. ASSUME NEW i \in 1 .. n, holds(y[i]) PROVE On(v, l)
    <3>1. i + m \in 1 .. m + n /\ v[i + m] = y[i]
      BY <1>1, <1>2
    <3> QED BY <2>1, <2>4, <3>1
  <2> QED BY <2>1, <2>2, <2>3, <2>4
<1> QED BY <1>2, <1>3, <1>4 DEF SpanList, v

\* The lines of one list that are not on the other (SubtractSpans).
LEMMA SubtractSpansMeans ==
    ASSUME NEW a, SpanList(a), NEW b, SpanList(b)
    PROVE  /\ SpanList(SubtractSpans(a, b))
           /\ \A l \in Int : On(SubtractSpans(a, b), l) <=> On(a, l) /\ ~ On(b, l)
<1> DEFINE n == Len(a)
           ss == [i \in DOMAIN a |-> CutSpan(a[i], b)]
<1>1. /\ n \in Nat /\ DOMAIN a = 1 .. n
      /\ \A i \in 1 .. n : /\ a[i] \in SpanSet /\ a[i].start \in Int /\ a[i].end \in Int
                           /\ a[i].start <= a[i].end
      /\ \A i \in 1 .. n : \A j \in 1 .. i - 1 : a[j].end + 1 < a[i].start
  BY SpansOfAList, SpansGoUp
<1>2. /\ ss = [i \in 1 .. n |-> ss[i]] /\ DOMAIN ss = 1 .. n
      /\ \A i \in 1 .. n : ss[i] = CutSpan(a[i], b)
  BY <1>1
<1>3. SubtractSpans(a, b) = FlattenSeq(ss)
  BY DEF SubtractSpans
<1> HIDE DEF ss, n
<1>4. ASSUME NEW i \in 1 .. n
      PROVE  /\ SpanList(ss[i])
             /\ \A l \in Int : On(ss[i], l) <=> a[i].start <= l /\ l <= a[i].end /\ ~ On(b, l)
  BY <1>1, <1>2, CutSpanCuts
<1>5. Len(ss) = n
  BY <1>1, <1>2
<1>6. \A l : On(a, l) <=> \E j \in 1 .. n : a[j].start <= l /\ l <= a[j].end
  BY DEF On, n
<1>7. CASE n = 0
  <2>1. FlattenSeq(ss) = ss
    BY <1>5, <1>7 DEF FlattenSeq
  <2>2. SpanList(ss)
    <3>1. ss = <<>>
      BY <1>2, <1>7
    <3>2. <<>> \in Seq(SpanSet) /\ DOMAIN <<>> = {}
      OBVIOUS
    <3> QED BY <3>1, <3>2 DEF SpanList, Separate
  <2>3. 1 .. 0 = {}
    OBVIOUS
  <2> QED BY <1>3, <1>5, <1>6, <1>7, <2>1, <2>2, <2>3 DEF On
<1>8. CASE n # 0
  <2> DEFINE Solves(f) == f = [i \in 1 .. n |-> IF i = 1 THEN ss[i] ELSE f[i - 1] \o ss[i]]
             flat == CHOOSE f : Solves(f)
  <2>1. FlattenSeq(ss) = flat[n]
    BY <1>5, <1>8 DEF FlattenSeq
  <2>2. Solves(flat)
    <3>1. \E f : Solves(f)
      BY <1>1, FlattenHasAValue
    <3> HIDE DEF Solves
    <3> QED BY <3>1
  <2>3. \A i \in 1 .. n : flat[i] = IF i = 1 THEN ss[i] ELSE flat[i - 1] \o ss[i]
    <3> HIDE DEF flat
    <3> QED BY <2>2
  <2> HIDE DEF flat
  <2> DEFINE Upto(i, l) == \E j \in 1 .. i : a[j].start <= l /\ l <= a[j].end
             Good(i) == /\ SpanList(flat[i])
                        /\ \A l \in Int : On(flat[i], l) <=> Upto(i, l) /\ ~ On(b, l)
             bad == {i \in 1 .. n : ~ Good(i)}
  <2>4. \A i \in 1 .. n : \A l \in Int :
          Upto(i, l) <=> (i # 1 /\ Upto(i - 1, l)) \/ (a[i].start <= l /\ l <= a[i].end)
    <3> SUFFICES ASSUME NEW i \in 1 .. n, NEW l \in Int
                 PROVE  Upto(i, l) <=> (i # 1 /\ Upto(i - 1, l)) \/ (a[i].start <= l /\ l <= a[i].end)
      OBVIOUS
    <3>1. CASE i = 1
      <4>1. 1 .. 1 = {1}
        OBVIOUS
      <4> QED BY <3>1, <4>1
    <3>2. CASE i # 1
      <4>1. 1 .. i = (1 .. i - 1) \cup {i}
        BY <1>1
      <4> QED BY <3>2, <4>1
    <3> QED BY <3>1, <3>2
  <2>5. bad = {}
    <3> SUFFICES ASSUME bad # {} PROVE FALSE
      OBVIOUS
    <3> DEFINE m == Min(bad)
    <3>1. bad \in SUBSET Nat
      OBVIOUS
    <3>2. m \in bad /\ \A k \in bad : m <= k
      <4> HIDE DEF bad
      <4> QED BY <3>1, LeastIsLeast
    <3> HIDE DEF m
    <3>3. m \in 1 .. n /\ ~ Good(m)
      BY <3>2
    <3>4. CASE m = 1
      <4>1. flat[m] = ss[m]
        BY <2>3, <3>3, <3>4
      <4>2. \A l \in Int : Upto(m, l) <=> a[m].start <= l /\ l <= a[m].end
        <5> HIDE DEF Upto
        <5> QED BY <2>4, <3>3, <3>4
      <4> HIDE DEF Upto
      <4> QED BY <1>4, <3>3, <4>1, <4>2
    <3>5. CASE m # 1
      <4>1. m - 1 \in 1 .. n /\ m - 1 \notin bad
        <5>1. m - 1 \in 1 .. n /\ ~ (m <= m - 1)
          BY <1>1, <3>3, <3>5
        <5> HIDE DEF bad
        <5> QED BY <3>2, <5>1
      <4>2. Good(m - 1)
        BY <4>1
      <4> DEFINE x == flat[m - 1]
                 y == ss[m]
      <4>3. flat[m] = x \o y /\ SpanList(x) /\ SpanList(y)
        BY <1>4, <2>3, <3>3, <3>5, <4>2
      <4>4. /\ \A l \in Int : On(x, l) <=> Upto(m - 1, l) /\ ~ On(b, l)
            /\ \A l \in Int : On(y, l) <=> a[m].start <= l /\ l <= a[m].end /\ ~ On(b, l)
        <5> HIDE DEF Upto
        <5> QED BY <1>4, <3>3, <4>2
      <4> HIDE DEF x, y
      <4>5. ASSUME x # <<>>, y # <<>> PROVE Last(x).end + 1 < y[1].start
        <5>1. Last(x).end \in Int /\ On(x, Last(x).end)
          BY <4>3, <4>5, SpansOfAList
        <5>2. y[1].start \in Int /\ On(y, y[1].start)
          <6>1. Len(y) \in Nat /\ Len(y) \in 1 .. Len(y)
            BY <4>3, <4>5, SpansOfAList
          <6>2. 1 \in 1 .. Len(y)
            BY <6>1
          <6> QED BY <4>3, <6>2, SpansOfAList
        <5>3. PICK j \in 1 .. m - 1 : Last(x).end <= a[j].end
          BY <4>4, <5>1
        <5>4. a[m].start <= y[1].start
          BY <4>4, <5>2
        <5>5. a[j].end + 1 < a[m].start /\ a[j].end \in Int /\ a[m].start \in Int
          BY <1>1, <3>3, <5>3
        <5> QED BY <5>1, <5>2, <5>3, <5>4, <5>5
      <4>6. /\ SpanList(flat[m])
            /\ \A l \in Int : On(flat[m], l) <=> On(x, l) \/ On(y, l)
        BY <4>3, <4>5, ConcatSpans
      <4>7. \A l \in Int : Upto(m, l) <=> Upto(m - 1, l) \/ (a[m].start <= l /\ l <= a[m].end)
        <5> HIDE DEF Upto
        <5> QED BY <2>4, <3>3, <3>5
      <4> HIDE DEF Upto
      <4> QED BY <3>3, <4>4, <4>6, <4>7
    <3> QED BY <3>4, <3>5
  <2>6. Good(n)
    <3>1. n \in 1 .. n
      BY <1>1, <1>8
    <3> HIDE DEF Good
    <3> QED BY <2>5, <3>1
  <2> QED BY <1>3, <1>6, <2>1, <2>6
<1> QED BY <1>7, <1>8

\* The lines on both of two lists (IntersectSpans).
LEMMA IntersectSpansMeans ==
    ASSUME NEW a, SpanList(a), NEW b, SpanList(b)
    PROVE  /\ SpanList(IntersectSpans(a, b))
           /\ \A l \in Int : On(IntersectSpans(a, b), l) <=> On(a, l) /\ On(b, l)
<1> DEFINE m == Len(a)
           n == Len(b)
           walk == CHOOSE f : Met(a, b, m + n, f)
           In(s, l) == s.start <= l /\ l <= s.end
           Left(i, j, l) == \E p \in 1 .. m : \E q \in 1 .. n :
                              In(a[p], l) /\ In(b[q], l) /\ (p < i \/ q < j)
<1>1. /\ m \in Nat /\ \A i \in 1 .. m : /\ a[i].start \in Int /\ a[i].end \in Int
                                         /\ a[i].start <= a[i].end
      /\ \A i \in 1 .. m : \A p \in 1 .. i - 1 : a[p].end + 1 < a[i].start
  BY SpansOfAList, SpansGoUp
<1>2. /\ n \in Nat /\ \A j \in 1 .. n : /\ b[j].start \in Int /\ b[j].end \in Int
                                         /\ b[j].start <= b[j].end
      /\ \A j \in 1 .. n : \A q \in 1 .. j - 1 : b[q].end + 1 < b[j].start
  BY SpansOfAList, SpansGoUp
<1>3. IntersectSpans(a, b) = walk[m + n].out
  BY DEF IntersectSpans, Met
<1>4. Met(a, b, m + n, walk)
  <2>1. \E f : Met(a, b, m + n, f)
    <3>1. m + n \in Nat
      BY <1>1, <1>2
    <3> HIDE DEF m, n
    <3> QED BY <3>1, MeetWalkHasAValue
  <2> QED BY <2>1
<1>5. \A l \in Int : (On(a, l) <=> \E p \in 1 .. m : In(a[p], l))
                     /\ (On(b, l) <=> \E q \in 1 .. n : In(b[q], l))
  BY DEF On
<1> HIDE DEF walk
<1>6. /\ walk[0] = [i |-> 1, j |-> 1, out |-> <<>>]
      /\ \A k \in 1 .. m + n : walk[k] = Meet(a, b, walk[k - 1])
  <2>1. m + n \in Nat
    BY <1>1, <1>2
  <2> HIDE DEF m, n
  <2>2. walk = [k \in 0 .. m + n |-> IF k = 0 THEN [i |-> 1, j |-> 1, out |-> <<>>]
                                     ELSE Meet(a, b, walk[k - 1])]
    BY <1>4 DEF Met
  <2>3. 0 \in 0 .. m + n /\ \A k \in 1 .. m + n : k \in 0 .. m + n /\ k # 0
    BY <2>1
  <2> QED BY <2>2, <2>3
<1> HIDE DEF m, n
<1> DEFINE Good(k) ==
             LET at == walk[k]
             IN  /\ at.i \in 1 .. m + 1 /\ at.j \in 1 .. n + 1
                 /\ at.i + at.j = k + 2 \/ at.i = m + 1 \/ at.j = n + 1
                 /\ SpanList(at.out)
                 /\ \A l \in Int : On(at.out, l) <=> Left(at.i, at.j, l)
                 /\ at.out # <<>> /\ at.i <= m /\ at.j <= n
                      => Last(at.out).end + 1 < AtLeast(a[at.i].start, b[at.j].start)
           bad == {k \in 0 .. m + n : ~ Good(k)}
<1>7. Good(0)
  <2>1. SpanList(<<>>)
    <3>1. <<>> \in Seq(SpanSet) /\ DOMAIN <<>> = {}
      OBVIOUS
    <3> QED BY <3>1 DEF SpanList, Separate
  <2>2. \A l \in Int : ~ On(<<>>, l) /\ ~ Left(1, 1, l)
    <3>1. Len(<<>>) = 0 /\ 1 .. 0 = {} /\ \A p \in 1 .. m : ~ (p < 1)
      OBVIOUS
    <3>2. \A q \in 1 .. n : ~ (q < 1)
      OBVIOUS
    <3> QED BY <3>1, <3>2 DEF On
  <2>3. walk[0].i = 1 /\ walk[0].j = 1 /\ walk[0].out = <<>>
    BY <1>6
  <2>4. 1 \in 1 .. m + 1 /\ 1 \in 1 .. n + 1 /\ 1 + 1 = 0 + 2
    BY <1>1, <1>2
  <2> HIDE DEF Left
  <2> QED BY <2>1, <2>2, <2>3, <2>4
<1>8. ASSUME NEW k \in 1 .. m + n, Good(k - 1) PROVE Good(k)
  <2> DEFINE at == walk[k - 1]
             i == at.i
             j == at.j
             w == at.out
  <2>1. /\ i \in 1 .. m + 1 /\ j \in 1 .. n + 1
        /\ i + j = k + 1 \/ i = m + 1 \/ j = n + 1
        /\ SpanList(w)
        /\ \A l \in Int : On(w, l) <=> Left(i, j, l)
        /\ w # <<>> /\ i <= m /\ j <= n => Last(w).end + 1 < AtLeast(a[i].start, b[j].start)
    <3>1. (k - 1) + 2 = k + 1
      BY <1>1, <1>2
    <3> HIDE DEF Left
    <3> QED BY <1>8, <3>1
  <2>2. walk[k] = Meet(a, b, at)
    BY <1>6
  <2>5. Meet(a, b, at) =
          IF i > m \/ j > n THEN at
          ELSE [i |-> IF a[i].end < b[j].end THEN i + 1 ELSE i,
                j |-> IF a[i].end < b[j].end THEN j ELSE j + 1,
                out |-> IF AtLeast(a[i].start, b[j].start) <= AtMost(a[i].end, b[j].end)
                        THEN Append(w, Span(AtLeast(a[i].start, b[j].start),
                                            AtMost(a[i].end, b[j].end)))
                        ELSE w]
    BY DEF Meet, m, n
  <2>6. at.i = i /\ at.j = j /\ at.out = w
    OBVIOUS
  <2> HIDE DEF i, j, w, at
  <2>3. CASE i > m \/ j > n
    <3>1. walk[k] = at
      BY <2>2, <2>3, <2>5
    <3>2. i = m + 1 \/ j = n + 1
      BY <1>1, <1>2, <2>1, <2>3
    <3>3. i + j = k + 2 \/ i = m + 1 \/ j = n + 1
      BY <3>2
    <3> HIDE DEF Left
    <3> QED BY <2>1, <2>6, <3>1, <3>2, <3>3
  <2>4. CASE ~ (i > m \/ j > n)
    <3> DEFINE start == AtLeast(a[i].start, b[j].start)
               end == AtMost(a[i].end, b[j].end)
               first == a[i].end < b[j].end
               i2 == IF first THEN i + 1 ELSE i
               j2 == IF first THEN j ELSE j + 1
               sq == Span(start, end)
               v == walk[k].out
    <3>1. i \in 1 .. m /\ j \in 1 .. n /\ i \in Nat /\ j \in Nat
      BY <1>1, <1>2, <2>1, <2>4
    <3>2. walk[k] = [i |-> i2, j |-> j2, out |-> IF start <= end THEN Append(w, sq) ELSE w]
      BY <2>2, <2>4, <2>5
    <3>3. /\ start \in Int /\ start \in {a[i].start, b[j].start}
          /\ a[i].start <= start /\ b[j].start <= start
      BY <1>1, <1>2, <3>1, AtLeastIsLarger
    <3>4. /\ end \in Int /\ end = IF first THEN a[i].end ELSE b[j].end
          /\ end <= a[i].end /\ end <= b[j].end
      BY <1>1, <1>2, <3>1 DEF AtMost
    <3>5. \A l \in Int : In(a[i], l) /\ In(b[j], l) <=> start <= l /\ l <= end
      BY <1>1, <1>2, <3>1, <3>3, <3>4
    <3>6. /\ sq.start = start /\ sq.end = end
          /\ start <= end => sq \in SpanSet
      BY <3>3, <3>4 DEF Span, SpanSet
    <3>7. /\ walk[k].i = i2 /\ walk[k].j = j2
          /\ v = IF start <= end THEN Append(w, sq) ELSE w
      BY <3>2
    <3>8. w # <<>> => Last(w).end + 1 < start
      BY <2>1, <2>4, <3>1
    <3>9. w # <<>> => Last(w).end \in Int
      BY <2>1, SpansOfAList
    <3>10. i2 \in 1 .. m + 1 /\ j2 \in 1 .. n + 1 /\ (i + j = k + 1 => i2 + j2 = k + 2)
      BY <1>1, <1>2, <3>1
    <3>11. i = m + 1 \/ j = n + 1 \/ i + j = k + 1
      BY <2>1
    <3> HIDE DEF start, end, sq
    <3>12. /\ SpanList(v)
           /\ \A l \in Int : On(v, l) <=> On(w, l) \/ (start <= l /\ l <= end)
           /\ v # <<>> => Last(v).end \in Int /\ (Last(v).end + 1 < start \/ Last(v).end = end)
      <4>1. CASE start <= end
        <5>1. /\ SpanList(Append(w, sq)) /\ Last(Append(w, sq)) = sq
              /\ \A l \in Int : On(Append(w, sq), l) <=> On(w, l) \/ (sq.start <= l /\ l <= sq.end)
          BY <2>1, <3>6, <3>8, <4>1, AppendSpan
        <5> QED BY <3>4, <3>6, <3>7, <4>1, <5>1
      <4>2. CASE ~ (start <= end)
        <5>1. \A l \in Int : ~ (start <= l /\ l <= end)
          BY <3>3, <3>4, <4>2
        <5> QED BY <2>1, <3>7, <3>8, <3>9, <4>2, <5>1
      <4> QED BY <4>1, <4>2
    <3>13. \A l \in Int : Left(i2, j2, l) <=> Left(i, j, l) \/ (In(a[i], l) /\ In(b[j], l))
      <4> SUFFICES ASSUME NEW l \in Int
                   PROVE  Left(i2, j2, l) <=> Left(i, j, l) \/ (In(a[i], l) /\ In(b[j], l))
        OBVIOUS
      <4> DEFINE Pair(p, q) == In(a[p], l) /\ In(b[q], l)
      <4>1. CASE first
        <5>1. ASSUME NEW p \in 1 .. m, NEW q \in 1 .. n, Pair(p, q), ~ (p < i \/ q < j), p < i + 1
              PROVE  p = i /\ q = j
          <6>1. p = i /\ (q = j \/ j \in 1 .. q - 1)
            BY <3>1, <5>1
          <6>2. ASSUME j \in 1 .. q - 1 PROVE FALSE
            <7>1. b[j].end + 1 < b[q].start
              BY <1>2, <6>2
            <7> QED BY <1>1, <1>2, <3>1, <4>1, <5>1, <6>1, <7>1
          <6> QED BY <6>1, <6>2
        <5>2. i2 = i + 1 /\ j2 = j
          BY <4>1
        <5>3. \A p \in 1 .. m : p < i => p < i + 1
          BY <3>1
        <5>4. i < i + 1
          BY <3>1
        <5> HIDE DEF Pair, i2, j2, first
        <5> QED BY <3>1, <5>1, <5>2, <5>3, <5>4 DEF Pair
      <4>2. CASE ~ first
        <5>1. ASSUME NEW p \in 1 .. m, NEW q \in 1 .. n, Pair(p, q), ~ (p < i \/ q < j), q < j + 1
              PROVE  p = i /\ q = j
          <6>1. q = j /\ (p = i \/ i \in 1 .. p - 1)
            BY <3>1, <5>1
          <6>2. ASSUME i \in 1 .. p - 1 PROVE FALSE
            <7>1. a[i].end + 1 < a[p].start
              BY <1>1, <6>2
            <7> QED BY <1>1, <1>2, <3>1, <4>2, <5>1, <6>1, <7>1
          <6> QED BY <6>1, <6>2
        <5>2. i2 = i /\ j2 = j + 1
          BY <4>2
        <5>3. \A q \in 1 .. n : q < j => q < j + 1
          BY <3>1
        <5>4. j < j + 1
          BY <3>1
        <5> HIDE DEF Pair, i2, j2, first
        <5> QED BY <3>1, <5>1, <5>2, <5>3, <5>4 DEF Pair
      <4> QED BY <4>1, <4>2
    <3>14. \A l \in Int : On(v, l) <=> Left(i2, j2, l)
      <4> HIDE DEF Left, In, i2, j2, v
      <4> QED BY <2>1, <3>5, <3>12, <3>13
    <3>15. ASSUME v # <<>>, i2 <= m, j2 <= n
           PROVE  Last(v).end + 1 < AtLeast(a[i2].start, b[j2].start)
      <4>1. /\ a[i2].start \in Int /\ b[j2].start \in Int
            /\ a[i].start <= a[i2].start /\ b[j].start <= b[j2].start
            /\ end + 1 < a[i2].start \/ end + 1 < b[j2].start
        <5>1. CASE first
          <6>1. i2 = i + 1 /\ j2 = j /\ i2 \in 1 .. m /\ i \in 1 .. i2 - 1
            BY <3>1, <3>15, <5>1
          <6>2. a[i].end + 1 < a[i2].start /\ end = a[i].end
            BY <1>1, <3>4, <5>1, <6>1
          <6> HIDE DEF i2, j2, first
          <6> QED BY <1>1, <1>2, <3>1, <6>1, <6>2
        <5>2. CASE ~ first
          <6>1. i2 = i /\ j2 = j + 1 /\ j2 \in 1 .. n /\ j \in 1 .. j2 - 1
            BY <3>1, <3>15, <5>2
          <6>2. b[j].end + 1 < b[j2].start /\ end = b[j].end
            BY <1>2, <3>4, <5>2, <6>1
          <6> HIDE DEF i2, j2, first
          <6> QED BY <1>1, <1>2, <3>1, <6>1, <6>2
        <5> QED BY <5>1, <5>2
      <4> HIDE DEF i2, j2, v
      <4>2. /\ AtLeast(a[i2].start, b[j2].start) \in Int
            /\ a[i2].start <= AtLeast(a[i2].start, b[j2].start)
            /\ b[j2].start <= AtLeast(a[i2].start, b[j2].start)
        BY <4>1, AtLeastIsLarger
      <4>3. start <= a[i2].start \/ start <= b[j2].start
        BY <1>1, <1>2, <3>1, <3>3, <4>1
      <4> DEFINE e == Last(v).end
                 x == a[i2].start
                 y == b[j2].start
                 z == AtLeast(x, y)
      <4>4. /\ e \in Int /\ (e + 1 < start \/ e = end)
            /\ x \in Int /\ y \in Int /\ z \in Int /\ x <= z /\ y <= z
            /\ end + 1 < x \/ end + 1 < y
            /\ start <= x \/ start <= y
        BY <3>12, <3>15, <4>1, <4>2, <4>3
      <4> HIDE DEF e, x, y, z
      <4>5. e + 1 < z
        BY <3>3, <3>4, <4>4
      <4> QED BY <4>5 DEF e, x, y, z
    <3>16. walk[k].i + walk[k].j = k + 2
      BY <3>1, <3>7, <3>10, <3>11, <1>1, <1>2
    <3> HIDE DEF Left, In, i2, j2
    <3> QED BY <3>7, <3>10, <3>12, <3>14, <3>15, <3>16
  <2> QED BY <2>3, <2>4
<1>9. Good(m + n)
  <2>1. m + n \in Nat
    BY <1>1, <1>2
  <2> HIDE DEF Good
  <2>2. ASSUME bad # {} PROVE FALSE
    <3> DEFINE least == Min(bad)
    <3>1. bad \in SUBSET Nat
      BY <2>1
    <3>2. least \in bad /\ \A k \in bad : least <= k
      <4> HIDE DEF bad
      <4> QED BY <2>2, <3>1, LeastIsLeast
    <3> HIDE DEF least
    <3>3. least \in 1 .. m + n
      BY <1>7, <2>1, <3>2
    <3>4. least - 1 \in 0 .. m + n /\ least - 1 \notin bad
      BY <2>1, <3>2, <3>3
    <3> QED BY <1>8, <3>2, <3>3, <3>4
  <2>3. m + n \in 0 .. m + n
    BY <2>1
  <2> QED BY <2>2, <2>3
<1> DEFINE end == walk[m + n]
<1>10. /\ SpanList(end.out)
       /\ \A l \in Int : On(end.out, l) <=> Left(end.i, end.j, l)
       /\ end.i = m + 1 \/ end.j = n + 1
  <2>1. /\ end.i \in 1 .. m + 1 /\ end.j \in 1 .. n + 1
        /\ end.i + end.j = (m + n) + 2 \/ end.i = m + 1 \/ end.j = n + 1
        /\ SpanList(end.out)
        /\ \A l \in Int : On(end.out, l) <=> Left(end.i, end.j, l)
    <3> HIDE DEF Left
    <3> QED BY <1>9
  <2> HIDE DEF end, Left
  <2>2. end.i = m + 1 \/ end.j = n + 1
    BY <1>1, <1>2, <2>1
  <2> QED BY <2>1, <2>2
<1>11. ASSUME NEW l \in Int PROVE Left(end.i, end.j, l) <=> On(a, l) /\ On(b, l)
  <2>1. \A p \in 1 .. m : end.i = m + 1 => p < end.i
    BY <1>1
  <2>2. \A q \in 1 .. n : end.j = n + 1 => q < end.j
    BY <1>2
  <2> HIDE DEF end, In, m, n
  <2> QED BY <1>5, <1>10, <2>1, <2>2
<1> QED BY <1>3, <1>10, <1>11

\* Of two lists of the same lines that agree before their i-th spans, the
\* second has an i-th span when the first has, which starts no later.
LEMMA NextSpanIsMatched ==
    ASSUME NEW s, SpanList(s), NEW t, SpanList(t), \A l \in Int : On(s, l) => On(t, l),
           NEW i \in 1 .. Len(s), \A j \in 1 .. i - 1 : j \in 1 .. Len(t) /\ t[j] = s[j]
    PROVE  i \in 1 .. Len(t) /\ t[i].start <= s[i].start
<1> DEFINE m == Len(s)
           n == Len(t)
           l == s[i].start
<1>1. /\ m \in Nat /\ \A k \in 1 .. m : s[k].start \in Int /\ s[k].end \in Int /\ On(s, s[k].start)
      /\ \A k \in 1 .. m : \A j \in 1 .. k - 1 : s[j].end + 1 < s[k].start
  BY SpansOfAList, SpansGoUp
<1>2. /\ n \in Nat /\ \A k \in 1 .. n : t[k].start \in Int /\ t[k].end \in Int /\ t[k].start <= t[k].end
      /\ \A k \in 1 .. n : \A j \in 1 .. k - 1 : t[j].end + 1 < t[k].start
  BY SpansOfAList, SpansGoUp
<1>3. l \in Int /\ On(t, l)
  BY <1>1
<1>4. PICK q \in 1 .. n : t[q].start <= l /\ l <= t[q].end
  BY <1>3 DEF On
<1> HIDE DEF m, n, l
<1>5. i \in 1 .. m
  BY DEF m
<1>6. ~ (q < i)
  <2> SUFFICES ASSUME q < i PROVE FALSE
    OBVIOUS
  <2>1. q \in 1 .. i - 1
    BY <1>1, <1>2, <1>4, <1>5
  <2>2. s[q].end + 1 < s[i].start /\ t[q] = s[q]
    BY <1>1, <1>5, <2>1
  <2> QED BY <1>2, <1>3, <1>4, <2>2 DEF l
<1>7. i \in 1 .. n /\ (q = i \/ i \in 1 .. q - 1)
  BY <1>1, <1>2, <1>4, <1>5, <1>6
<1>8. i \in 1 .. q - 1 => t[i].end + 1 < t[q].start
  BY <1>2, <1>4
<1>9. t[i].start <= l
  <2>1. CASE q = i
    BY <1>4, <2>1
  <2>2. CASE i \in 1 .. q - 1
    <3>1. t[i].start \in Int /\ t[i].end \in Int /\ t[q].start \in Int /\ t[i].start <= t[i].end
      BY <1>2, <1>4, <1>7
    <3>2. t[i].end + 1 < t[q].start /\ t[q].start <= l
      BY <1>4, <1>8, <2>2
    <3> QED BY <1>3, <3>1, <3>2
  <2> QED BY <1>7, <2>1, <2>2
<1> QED BY <1>7, <1>9 DEF n, l

\* Two lists of spans with the same lines are the same list.
LEMMA SpansAreTheirLines ==
    ASSUME NEW s, SpanList(s), NEW t, SpanList(t), \A l \in Int : On(s, l) <=> On(t, l)
    PROVE  s = t
<1> DEFINE m == Len(s)
           n == Len(t)
<1>1. /\ s \in Seq(SpanSet) /\ m \in Nat /\ DOMAIN s = 1 .. m
      /\ \A i \in 1 .. m : /\ s[i] \in SpanSet /\ s[i].start \in Int /\ s[i].end \in Int
                           /\ s[i].start <= s[i].end
      /\ \A i \in 1 .. m : \A j \in 1 .. i - 1 : s[j].end + 1 < s[i].start
  BY SpansOfAList, SpansGoUp
<1>2. /\ t \in Seq(SpanSet) /\ n \in Nat /\ DOMAIN t = 1 .. n
      /\ \A i \in 1 .. n : /\ t[i] \in SpanSet /\ t[i].start \in Int /\ t[i].end \in Int
                           /\ t[i].start <= t[i].end
      /\ \A i \in 1 .. n : \A j \in 1 .. i - 1 : t[j].end + 1 < t[i].start
  BY SpansOfAList, SpansGoUp
<1>3. \A l \in Int : (\E p \in 1 .. m : s[p].start <= l /\ l <= s[p].end)
                       <=> \E q \in 1 .. n : t[q].start <= l /\ l <= t[q].end
  BY DEF On
<1> DEFINE Same(i) == i \in 1 .. m /\ i \in 1 .. n /\ s[i] = t[i]
           bad == {i \in (1 .. m) \cup (1 .. n) : ~ Same(i)}
<1>4. bad = {}
  <2> SUFFICES ASSUME bad # {} PROVE FALSE
    OBVIOUS
  <2> DEFINE i == Min(bad)
  <2>1. bad \in SUBSET Nat
    OBVIOUS
  <2>2. i \in bad /\ \A k \in bad : i <= k
    <3> HIDE DEF bad
    <3> QED BY <2>1, LeastIsLeast
  <2> HIDE DEF i
  <2>3. \A j \in 1 .. i - 1 : Same(j)
    <3> SUFFICES ASSUME NEW j \in 1 .. i - 1 PROVE j \notin bad
      <4>1. \A j \in 1 .. i - 1 : j \in (1 .. m) \cup (1 .. n)
        <5> HIDE DEF m, n
        <5> QED BY <1>1, <1>2, <2>2
      <4> QED BY <4>1
    <3>1. ~ (i <= j)
      <4>1. i \in Nat
        BY <2>2
      <4> QED BY <4>1
    <3> HIDE DEF bad
    <3> QED BY <2>2, <3>1
  <2>4. i \in 1 .. m => i \in 1 .. n /\ t[i].start <= s[i].start
    BY <2>3, NextSpanIsMatched
  <2>5. i \in 1 .. n => i \in 1 .. m /\ s[i].start <= t[i].start
    BY <2>3, NextSpanIsMatched
  <2>6. i \in 1 .. m /\ i \in 1 .. n /\ s[i] # t[i]
    BY <2>2, <2>4, <2>5
  <2> HIDE DEF m, n
  <2>7. s[i].start = t[i].start
    BY <1>1, <1>2, <2>4, <2>5, <2>6
  <2>8. ~ (s[i].end < t[i].end)
    <3> SUFFICES ASSUME s[i].end < t[i].end PROVE FALSE
      OBVIOUS
    <3> DEFINE l == s[i].end + 1
    <3>1. l \in Int /\ t[i].start <= l /\ l <= t[i].end
      BY <1>1, <1>2, <2>6, <2>7
    <3> HIDE DEF l
    <3>2. PICK p \in 1 .. m : s[p].start <= l /\ l <= s[p].end
      BY <1>3, <2>6, <3>1
    <3>3. p = i \/ p \in 1 .. i - 1 \/ i \in 1 .. p - 1
      BY <1>1, <2>6, <3>2
    <3>4. p \in 1 .. i - 1 => s[p].end + 1 < s[i].start
      BY <1>1, <2>6
    <3>5. i \in 1 .. p - 1 => s[i].end + 1 < s[p].start
      BY <1>1, <3>2
    <3>6. /\ s[p].start \in Int /\ s[p].end \in Int
          /\ s[i].start \in Int /\ s[i].end \in Int /\ s[i].start <= s[i].end
      BY <1>1, <2>6, <3>2
    <3> QED BY <3>2, <3>3, <3>4, <3>5, <3>6 DEF l
  <2>9. ~ (t[i].end < s[i].end)
    <3> SUFFICES ASSUME t[i].end < s[i].end PROVE FALSE
      OBVIOUS
    <3> DEFINE l == t[i].end + 1
    <3>1. l \in Int /\ s[i].start <= l /\ l <= s[i].end
      BY <1>1, <1>2, <2>6, <2>7
    <3> HIDE DEF l
    <3>2. PICK p \in 1 .. n : t[p].start <= l /\ l <= t[p].end
      BY <1>3, <2>6, <3>1
    <3>3. p = i \/ p \in 1 .. i - 1 \/ i \in 1 .. p - 1
      BY <1>2, <2>6, <3>2
    <3>4. p \in 1 .. i - 1 => t[p].end + 1 < t[i].start
      BY <1>2, <2>6
    <3>5. i \in 1 .. p - 1 => t[i].end + 1 < t[p].start
      BY <1>2, <3>2
    <3>6. /\ t[p].start \in Int /\ t[p].end \in Int
          /\ t[i].start \in Int /\ t[i].end \in Int /\ t[i].start <= t[i].end
      BY <1>2, <2>6, <3>2
    <3> QED BY <3>2, <3>3, <3>4, <3>5, <3>6 DEF l
  <2>10. s[i].end = t[i].end
    BY <1>1, <1>2, <2>6, <2>8, <2>9
  <2>11. \A x, y \in SpanSet : x.start = y.start /\ x.end = y.end => x = y
    BY DEF SpanSet
  <2> QED BY <1>1, <1>2, <2>6, <2>7, <2>10, <2>11
<1>5. m = n
  <2>1. \A i \in 1 .. m : i \in 1 .. n
    BY <1>4
  <2>2. \A i \in 1 .. n : i \in 1 .. m
    BY <1>4
  <2> HIDE DEF m, n, bad
  <2>3. m # 0 => m \in 1 .. m
    BY <1>1
  <2>4. n # 0 => n \in 1 .. n
    BY <1>2
  <2>5. m \in Nat /\ n \in Nat
    BY <1>1, <1>2
  <2>6. m # 0 => m <= n
    BY <2>1, <2>3, <2>5
  <2>7. n # 0 => n <= m
    BY <2>2, <2>4, <2>5
  <2> QED BY <2>5, <2>6, <2>7
<1>6. \A i \in 1 .. m : s[i] = t[i]
  BY <1>4
<1>7. s = [i \in 1 .. m |-> s[i]] /\ t = [i \in 1 .. n |-> t[i]]
  BY <1>1, <1>2
<1> HIDE DEF m, n, bad
<1> QED BY <1>5, <1>6, <1>7

\* Lines in ascending order: each of them, one after another.
LEMMA AscendingGoesUp ==
    ASSUME NEW L \in SUBSET Int, IsFiniteSet(L)
    PROVE  /\ Ascending(L) \in Seq(Int)
           /\ \A i \in 2 .. Len(Ascending(L)) : Ascending(L)[i - 1] < Ascending(L)[i]
           /\ \A l \in Int : l \in L <=> \E i \in 1 .. Len(Ascending(L)) : Ascending(L)[i] = l
<1> DEFINE P == {<<l>> : l \in L}
           n == Cardinality(P)
           order == Ordered(P)
           lines == [i \in 1 .. n |-> order[i][1]]
<1>1. P \in SUBSET Places(1) /\ IsFiniteSet(P)
  <2> DEFINE f == [l \in L |-> <<l>>]
  <2>1. f \in Surjection(L, P)
    BY DEF Surjection
  <2>2. \A p \in P : p \in Places(1)
    BY TuplesArePlaces
  <2> HIDE DEF f, P
  <2> QED BY <2>1, <2>2, FS_Surjection
<1>2. /\ n \in Nat /\ DOMAIN order = 1 .. n
      /\ \A i \in 1 .. n : order[i] \in P /\ Rank(P, order[i]) = i - 1
      /\ \A p \in P : \E i \in 1 .. n : order[i] = p
  BY <1>1, OrderedIsSorted, FS_CardinalityType
<1>3. Ascending(L) = lines
  BY <1>2 DEF Ascending
<1> HIDE DEF order, n
<1>4. \A i \in 1 .. n : order[i][1] \in L /\ DOMAIN order[i] = {1}
  <2> SUFFICES ASSUME NEW i \in 1 .. n PROVE order[i][1] \in L /\ DOMAIN order[i] = {1}
    OBVIOUS
  <2>1. PICK l \in L : order[i] = <<l>>
    BY <1>2
  <2> QED BY <2>1
<1>5. \A i \in 2 .. n : order[i - 1][1] < order[i][1]
  <2> SUFFICES ASSUME NEW i \in 2 .. n PROVE order[i - 1][1] < order[i][1]
    OBVIOUS
  <2> HIDE DEF P
  <2>1. i \in 1 .. n /\ i - 1 \in 1 .. n
    BY <1>2
  <2>2. order[i] \in P /\ order[i - 1] \in P
    BY <1>2, <2>1
  <2>3. Rank(P, order[i]) = i - 1 /\ Rank(P, order[i - 1]) = (i - 1) - 1
    BY <1>2, <2>1
  <2>4. Rank(P, order[i - 1]) < Rank(P, order[i])
    BY <1>2, <2>1, <2>3
  <2>5. Before(order[i - 1], order[i])
    BY <1>1, <2>2, <2>4, RanksGoUp
  <2> QED BY <1>4, <2>1, <2>5 DEF Before
<1>6. lines \in [1 .. n -> Int] /\ \A i \in 1 .. n : lines[i] = order[i][1]
  BY <1>4
<1>7. lines \in Seq(Int) /\ Len(lines) = n
  <2> HIDE DEF lines
  <2> QED BY <1>2, <1>6
<1>8. \A l \in Int : l \in L <=> \E i \in 1 .. n : order[i][1] = l
  <2>1. ASSUME NEW l \in L PROVE \E i \in 1 .. n : order[i][1] = l
    <3>1. PICK i \in 1 .. n : order[i] = <<l>>
      BY <1>2
    <3> QED BY <3>1
  <2> QED BY <1>4, <2>1
<1> HIDE DEF lines, P
<1>9. \A i \in 2 .. n : i \in 1 .. n /\ i - 1 \in 1 .. n
  BY <1>2
<1>10. \A i \in 2 .. n : lines[i - 1] < lines[i]
  BY <1>5, <1>6, <1>9
<1>11. \A l \in Int : l \in L <=> \E i \in 1 .. n : lines[i] = l
  BY <1>6, <1>8
<1> QED BY <1>3, <1>7, <1>10, <1>11

\* A line behind the last is joined (JoinLine).
LEMMA JoinLineJoins ==
    ASSUME NEW w, SpanList(w), NEW l \in Int, w # <<>> => Last(w).end < l
    PROVE  LET v == JoinLine(w, l)
           IN  /\ SpanList(v) /\ v # <<>> /\ Last(v).end = l
               /\ \A k \in Int : On(v, k) <=> On(w, k) \/ k = l
<1>1. w # <<>> => /\ Last(w).start \in Int /\ Last(w).end \in Int /\ Last(w).start <= Last(w).end
                  /\ \A k \in Int : Last(w).start <= k /\ k <= Last(w).end => On(w, k)
  <2> SUFFICES ASSUME w # <<>>
               PROVE  /\ Last(w).start \in Int /\ Last(w).end \in Int /\ Last(w).start <= Last(w).end
                      /\ \A k \in Int : Last(w).start <= k /\ k <= Last(w).end => On(w, k)
    OBVIOUS
  <2>1. Len(w) \in 1 .. Len(w) /\ Last(w) = w[Len(w)]
    BY SpansOfAList
  <2>2. w[Len(w)].start \in Int /\ w[Len(w)].end \in Int /\ w[Len(w)].start <= w[Len(w)].end
    BY <2>1, SpansOfAList
  <2> QED BY <2>1, <2>2 DEF On
<1>2. CASE w # <<>> /\ l = Last(w).end + 1
  <2> DEFINE v == [w EXCEPT ![Len(w)].end = l]
  <2>1. JoinLine(w, l) = v
    BY <1>2 DEF JoinLine
  <2>2. Last(w).end <= l
    BY <1>1, <1>2
  <2>3. /\ SpanList(v) /\ v # <<>> /\ Last(v).start = Last(w).start /\ Last(v).end = l
        /\ \A k \in Int : On(v, k) <=> On(w, k) \/ (Last(w).start <= k /\ k <= l)
    <3>1. w # <<>>
      BY <1>2
    <3> QED BY <2>2, <3>1, StretchLast
  <2> HIDE DEF v
  <2>4. \A k \in Int : On(w, k) \/ (Last(w).start <= k /\ k <= l) <=> On(w, k) \/ k = l
    <3> SUFFICES ASSUME NEW k \in Int
                 PROVE  On(w, k) \/ (Last(w).start <= k /\ k <= l) <=> On(w, k) \/ k = l
      OBVIOUS
    <3>1. Last(w).start <= k /\ k <= l => k = l \/ (Last(w).start <= k /\ k <= Last(w).end)
      BY <1>1, <1>2
    <3>2. k = l => Last(w).start <= k /\ k <= l
      BY <1>1, <1>2
    <3> QED BY <1>1, <1>2, <3>1, <3>2
  <2> QED BY <2>1, <2>3, <2>4
<1>3. CASE ~ (w # <<>> /\ l = Last(w).end + 1)
  <2> DEFINE sp == Span(l, l)
             v == Append(w, sp)
  <2>1. w # <<>> => l \notin {Last(w).end, Last(w).end + 1} /\ Last(w).end + 1 < l
    BY <1>1, <1>3
  <2>2. JoinLine(w, l) = v
    BY <2>1 DEF JoinLine
  <2>3. sp \in SpanSet /\ sp.start = l /\ sp.end = l /\ sp.start <= sp.end
    BY DEF Span, SpanSet
  <2> HIDE DEF sp
  <2>4. /\ SpanList(v) /\ v # <<>> /\ Last(v) = sp
        /\ \A k \in Int : On(v, k) <=> On(w, k) \/ (sp.start <= k /\ k <= sp.end)
    BY <2>1, <2>3, AppendSpan
  <2> HIDE DEF v
  <2>5. \A k \in Int : sp.start <= k /\ k <= sp.end <=> k = l
    BY <2>3
  <2> QED BY <2>2, <2>3, <2>4, <2>5
<1> QED BY <1>2, <1>3

\* The runs of the lines of a list are its spans (LineSpans).
LEMMA LineSpansMean ==
    ASSUME NEW a, SpanList(a)
    PROVE  LineSpans(Ascending(LinesOf(a))) = a
<1> DEFINE L == LinesOf(a)
           lines == Ascending(L)
           n == Len(lines)
           walk == CHOOSE f : Runs(lines, n, f)
           Upto(i, l) == \E j \in 1 .. i : lines[j] = l
<1>1. L = {l \in Int : On(a, l)}
  BY LinesAreOn DEF SpanList
<1>2. IsFiniteSet(L)
  <2> DEFINE S == {a[i].start .. a[i].end : i \in DOMAIN a}
  <2>1. /\ DOMAIN a = 1 .. Len(a) /\ Len(a) \in Nat
        /\ \A i \in 1 .. Len(a) : a[i].start \in Int /\ a[i].end \in Int
    BY SpansOfAList
  <2> DEFINE f == [i \in 1 .. Len(a) |-> a[i].start .. a[i].end]
  <2>2. IsFiniteSet(1 .. Len(a))
    BY <2>1, FS_Interval
  <2>3. IsFiniteSet(S)
    <3>1. f \in Surjection(1 .. Len(a), S)
      BY <2>1 DEF Surjection
    <3> HIDE DEF f, S
    <3> QED BY <2>2, <3>1, FS_Surjection
  <2>4. \A T \in S : IsFiniteSet(T)
    BY <2>1, FS_Interval
  <2> HIDE DEF S
  <2>5. IsFiniteSet(UNION S)
    BY <2>3, <2>4, FS_UNION
  <2> QED BY <2>5 DEF LinesOf, S
<1> HIDE DEF L
<1>3. /\ lines \in Seq(Int) /\ n \in Nat
      /\ \A i \in 1 .. n : lines[i] \in Int
      /\ \A i \in 2 .. n : lines[i - 1] < lines[i]
      /\ \A l \in Int : l \in L <=> Upto(n, l)
  <2>1. L \in SUBSET Int
    BY <1>1
  <2>2. /\ lines \in Seq(Int)
        /\ \A i \in 2 .. n : lines[i - 1] < lines[i]
        /\ \A l \in Int : l \in L <=> Upto(n, l)
    BY <1>2, <2>1, AscendingGoesUp
  <2> HIDE DEF lines, Upto
  <2> QED BY <2>2
<1>4. LineSpans(lines) = walk[n]
  BY DEF LineSpans, Runs
<1> HIDE DEF lines, n
<1>5. Runs(lines, n, walk)
  <2>1. \E f : Runs(lines, n, f)
    BY <1>3, LineWalkHasAValue
  <2> QED BY <2>1
<1> HIDE DEF walk
<1>6. /\ walk[0] = <<>>
      /\ \A i \in 1 .. n : walk[i] = JoinLine(walk[i - 1], lines[i])
  <2>1. walk = [i \in 0 .. n |-> IF i = 0 THEN <<>> ELSE JoinLine(walk[i - 1], lines[i])]
    BY <1>5 DEF Runs
  <2>2. 0 \in 0 .. n /\ \A i \in 1 .. n : i \in 0 .. n /\ i # 0
    BY <1>3
  <2> QED BY <2>1, <2>2
<1> DEFINE Good(i) == /\ SpanList(walk[i])
                      /\ \A l \in Int : On(walk[i], l) <=> Upto(i, l)
                      /\ walk[i] # <<>> => i \in 1 .. n /\ Last(walk[i]).end = lines[i]
           bad == {i \in 0 .. n : ~ Good(i)}
<1>7. Good(0)
  <2>1. SpanList(<<>>)
    <3>1. <<>> \in Seq(SpanSet) /\ DOMAIN <<>> = {}
      OBVIOUS
    <3> QED BY <3>1 DEF SpanList, Separate
  <2>2. \A l \in Int : ~ On(<<>>, l) /\ ~ Upto(0, l)
    <3>1. Len(<<>>) = 0 /\ 1 .. 0 = {}
      OBVIOUS
    <3> QED BY <3>1 DEF On
  <2> HIDE DEF Upto
  <2> QED BY <1>6, <2>1, <2>2
<1>8. ASSUME NEW i \in 1 .. n, Good(i - 1) PROVE Good(i)
  <2> DEFINE w == walk[i - 1]
  <2>1. SpanList(w) /\ \A l \in Int : On(w, l) <=> Upto(i - 1, l)
    <3> HIDE DEF Upto
    <3> QED BY <1>8
  <2>2. w # <<>> => Last(w).end < lines[i]
    <3> SUFFICES ASSUME w # <<>> PROVE Last(w).end < lines[i]
      OBVIOUS
    <3>1. i - 1 \in 1 .. n /\ Last(w).end = lines[i - 1]
      <4> HIDE DEF Upto
      <4> QED BY <1>8
    <3>2. i \in 2 .. n
      BY <3>1
    <3> QED BY <1>3, <3>1, <3>2
  <2>3. walk[i] = JoinLine(w, lines[i]) /\ lines[i] \in Int
    BY <1>3, <1>6
  <2> HIDE DEF w
  <2>4. /\ SpanList(walk[i]) /\ walk[i] # <<>> /\ Last(walk[i]).end = lines[i]
        /\ \A l \in Int : On(walk[i], l) <=> On(w, l) \/ l = lines[i]
    BY <2>1, <2>2, <2>3, JoinLineJoins
  <2>5. \A l \in Int : Upto(i, l) <=> Upto(i - 1, l) \/ l = lines[i]
    <3>1. 1 .. i = (1 .. i - 1) \cup {i}
      BY <1>3
    <3> QED BY <3>1
  <2> HIDE DEF Upto
  <2> QED BY <2>1, <2>4, <2>5
<1>9. Good(n)
  <2> HIDE DEF Good
  <2>1. ASSUME bad # {} PROVE FALSE
    <3> DEFINE m == Min(bad)
    <3>1. bad \in SUBSET Nat
      BY <1>3
    <3>2. m \in bad /\ \A k \in bad : m <= k
      <4> HIDE DEF bad
      <4> QED BY <2>1, <3>1, LeastIsLeast
    <3> HIDE DEF m
    <3>3. m \in 1 .. n
      BY <1>3, <1>7, <3>2
    <3>4. m - 1 \in 0 .. n /\ m - 1 \notin bad
      BY <1>3, <3>2, <3>3
    <3> QED BY <1>8, <3>2, <3>3, <3>4
  <2>2. n \in 0 .. n
    BY <1>3
  <2> QED BY <2>1, <2>2
<1>10. SpanList(walk[n]) /\ \A l \in Int : On(walk[n], l) <=> On(a, l)
  <2>1. SpanList(walk[n]) /\ \A l \in Int : On(walk[n], l) <=> Upto(n, l)
    <3> HIDE DEF Upto
    <3> QED BY <1>9
  <2> HIDE DEF Upto
  <2> QED BY <1>1, <1>3, <2>1
<1>11. walk[n] = a
  BY <1>10, SpansAreTheirLines
<1> QED BY <1>4, <1>11 DEF lines, L

----------------------------------------------------------------------------
(* Pipeline: the ignore patterns. *)

\* Induction over a count, for a set of numbers.
LEMMA CountsUp ==
    ASSUME NEW n \in Nat, NEW G, 0 \in G, \A i \in 1 .. n : i - 1 \in G => i \in G
    PROVE  \A i \in 0 .. n : i \in G
<1> DEFINE bad == {i \in 0 .. n : i \notin G}
<1>1. ASSUME bad # {} PROVE FALSE
  <2> DEFINE m == Min(bad)
  <2>1. bad \in SUBSET Nat
    OBVIOUS
  <2>2. m \in bad /\ \A i \in bad : m <= i
    <3> HIDE DEF bad
    <3> QED BY <1>1, <2>1, LeastIsLeast
  <2> HIDE DEF m
  <2>3. m \in 0 .. n /\ m \notin G
    BY <2>2
  <2>4. m # 0 /\ m \in 1 .. n
    BY <2>3
  <2>5. m - 1 \in 0 .. n /\ m - 1 \notin bad
    BY <2>2, <2>4
  <2> QED BY <2>3, <2>4, <2>5
<1> QED BY <1>1

\* A segment of a compiled pattern, before the places S of a path.
StepOver(seg, S, path) ==
    IF seg = DoubleStar THEN AnyRun(S, path) ELSE OneMore(seg, S, path)

\* The walk over a written pattern from its last segment, from any places.
Leads(segs, S, path, n, f) ==
    f = [i \in 0 .. n |-> IF i = 0 THEN S
                         ELSE Leading(segs[Len(segs) - i + 1], f[i - 1], path)]

\* It has a value.
LEMMA LeadWalkHasAValue ==
    ASSUME NEW segs, NEW S, NEW path, NEW n \in Nat
    PROVE  /\ \E f : Leads(segs, S, path, n, f)
           /\ \A f : Leads(segs, S, path, n, f) =>
                /\ f[0] = S
                /\ \A i \in 1 .. n : f[i] = Leading(segs[Len(segs) - i + 1], f[i - 1], path)
<1> DEFINE One(v, i) == Leading(segs[Len(segs) - i + 1], v, path)
           Zero == S
<1> HIDE DEF One, Zero
<1> DEFINE Solves(f, k) == f = [i \in 0 .. k |-> IF i = 0 THEN Zero ELSE One(f[i - 1], i)]
           G == {k \in Nat : \E f : Solves(f, k)}
<1>1. 0 \in G
  <2> DEFINE e == [i \in 0 .. 0 |-> Zero]
  <2>1. Solves(e, 0)
    OBVIOUS
  <2> QED BY <2>1
<1>2. ASSUME NEW k \in 1 .. n, k - 1 \in G PROVE k \in G
  <2>1. PICK f : Solves(f, k - 1)
    BY <1>2
  <2>2. PICK g : g = [i \in 0 .. k |-> IF i = 0 THEN Zero ELSE One(f[i - 1], i)]
    OBVIOUS
  <2>3. \A i \in 0 .. k : i # 0 => g[i - 1] = f[i - 1]
    <3>1. \A i \in 0 .. k - 1 : f[i] = IF i = 0 THEN Zero ELSE One(f[i - 1], i)
      BY <2>1
    <3>2. \A i \in 0 .. k : g[i] = IF i = 0 THEN Zero ELSE One(f[i - 1], i)
      BY <2>2
    <3>3. \A i \in 0 .. k : i # 0 => i - 1 \in 0 .. k - 1 /\ i - 1 \in 0 .. k
      OBVIOUS
    <3> QED BY <3>1, <3>2, <3>3
  <2>4. Solves(g, k)
    BY <2>2, <2>3
  <2> QED BY <2>4
<1>3. n \in G
  <2>1. n \in 0 .. n
    OBVIOUS
  <2> HIDE DEF G
  <2> QED BY <1>1, <1>2, <2>1, CountsUp
<1>4. \A f : Solves(f, n) => f[0] = Zero /\ \A i \in 1 .. n : f[i] = One(f[i - 1], i)
  <2> SUFFICES ASSUME NEW f, Solves(f, n)
               PROVE  f[0] = Zero /\ \A i \in 1 .. n : f[i] = One(f[i - 1], i)
    OBVIOUS
  <2>1. \A i \in 0 .. n : f[i] = IF i = 0 THEN Zero ELSE One(f[i - 1], i)
    OBVIOUS
  <2>2. 0 \in 0 .. n /\ \A i \in 1 .. n : i \in 0 .. n /\ i # 0
    OBVIOUS
  <2> HIDE DEF Solves
  <2> QED BY <2>1, <2>2
<1> QED BY <1>3, <1>4 DEF One, Zero, Leads

\* The walk of Compile over the segments of a pattern.
Compiles(p, n, f) ==
    f = [i \in 0 .. n |-> IF i = 0 THEN Compiled(IF p.anchored THEN <<>> ELSE <<DoubleStar>>)
                         ELSE AddSegment(f[i - 1], p.segs[i])]

\* It has a value.
LEMMA CompileWalkHasAValue ==
    ASSUME NEW p, NEW n \in Nat
    PROVE  /\ \E f : Compiles(p, n, f)
           /\ \A f : Compiles(p, n, f) =>
                /\ f[0] = Compiled(IF p.anchored THEN <<>> ELSE <<DoubleStar>>)
                /\ \A i \in 1 .. n : f[i] = AddSegment(f[i - 1], p.segs[i])
<1> DEFINE One(v, i) == AddSegment(v, p.segs[i])
           Zero == Compiled(IF p.anchored THEN <<>> ELSE <<DoubleStar>>)
<1> HIDE DEF One, Zero
<1> DEFINE Solves(f, k) == f = [i \in 0 .. k |-> IF i = 0 THEN Zero ELSE One(f[i - 1], i)]
           G == {k \in Nat : \E f : Solves(f, k)}
<1>1. 0 \in G
  <2> DEFINE e == [i \in 0 .. 0 |-> Zero]
  <2>1. Solves(e, 0)
    OBVIOUS
  <2> QED BY <2>1
<1>2. ASSUME NEW k \in 1 .. n, k - 1 \in G PROVE k \in G
  <2>1. PICK f : Solves(f, k - 1)
    BY <1>2
  <2>2. PICK g : g = [i \in 0 .. k |-> IF i = 0 THEN Zero ELSE One(f[i - 1], i)]
    OBVIOUS
  <2>3. \A i \in 0 .. k : i # 0 => g[i - 1] = f[i - 1]
    <3>1. \A i \in 0 .. k - 1 : f[i] = IF i = 0 THEN Zero ELSE One(f[i - 1], i)
      BY <2>1
    <3>2. \A i \in 0 .. k : g[i] = IF i = 0 THEN Zero ELSE One(f[i - 1], i)
      BY <2>2
    <3>3. \A i \in 0 .. k : i # 0 => i - 1 \in 0 .. k - 1 /\ i - 1 \in 0 .. k
      OBVIOUS
    <3> QED BY <3>1, <3>2, <3>3
  <2>4. Solves(g, k)
    BY <2>2, <2>3
  <2> QED BY <2>4
<1>3. n \in G
  <2>1. n \in 0 .. n
    OBVIOUS
  <2> HIDE DEF G
  <2> QED BY <1>1, <1>2, <2>1, CountsUp
<1>4. \A f : Solves(f, n) => f[0] = Zero /\ \A i \in 1 .. n : f[i] = One(f[i - 1], i)
  <2> SUFFICES ASSUME NEW f, Solves(f, n)
               PROVE  f[0] = Zero /\ \A i \in 1 .. n : f[i] = One(f[i - 1], i)
    OBVIOUS
  <2>1. \A i \in 0 .. n : f[i] = IF i = 0 THEN Zero ELSE One(f[i - 1], i)
    OBVIOUS
  <2>2. 0 \in 0 .. n /\ \A i \in 1 .. n : i \in 0 .. n /\ i # 0
    OBVIOUS
  <2> HIDE DEF Solves
  <2> QED BY <2>1, <2>2
<1> QED BY <1>3, <1>4 DEF One, Zero, Compiles

\* The walk of Compile over the patterns.
Adds(patterns, n, f) ==
    f = [i \in 0 .. n |-> IF i = 0 THEN Rules(<<>>)
                         ELSE AddPattern(f[i - 1], patterns[i])]

\* It has a value.
LEMMA PatternWalkHasAValue ==
    ASSUME NEW patterns, NEW n \in Nat
    PROVE  /\ \E f : Adds(patterns, n, f)
           /\ \A f : Adds(patterns, n, f) =>
                /\ f[0] = Rules(<<>>)
                /\ \A i \in 1 .. n : f[i] = AddPattern(f[i - 1], patterns[i])
<1> DEFINE One(v, i) == AddPattern(v, patterns[i])
           Zero == Rules(<<>>)
<1> HIDE DEF One, Zero
<1> DEFINE Solves(f, k) == f = [i \in 0 .. k |-> IF i = 0 THEN Zero ELSE One(f[i - 1], i)]
           G == {k \in Nat : \E f : Solves(f, k)}
<1>1. 0 \in G
  <2> DEFINE e == [i \in 0 .. 0 |-> Zero]
  <2>1. Solves(e, 0)
    OBVIOUS
  <2> QED BY <2>1
<1>2. ASSUME NEW k \in 1 .. n, k - 1 \in G PROVE k \in G
  <2>1. PICK f : Solves(f, k - 1)
    BY <1>2
  <2>2. PICK g : g = [i \in 0 .. k |-> IF i = 0 THEN Zero ELSE One(f[i - 1], i)]
    OBVIOUS
  <2>3. \A i \in 0 .. k : i # 0 => g[i - 1] = f[i - 1]
    <3>1. \A i \in 0 .. k - 1 : f[i] = IF i = 0 THEN Zero ELSE One(f[i - 1], i)
      BY <2>1
    <3>2. \A i \in 0 .. k : g[i] = IF i = 0 THEN Zero ELSE One(f[i - 1], i)
      BY <2>2
    <3>3. \A i \in 0 .. k : i # 0 => i - 1 \in 0 .. k - 1 /\ i - 1 \in 0 .. k
      OBVIOUS
    <3> QED BY <3>1, <3>2, <3>3
  <2>4. Solves(g, k)
    BY <2>2, <2>3
  <2> QED BY <2>4
<1>3. n \in G
  <2>1. n \in 0 .. n
    OBVIOUS
  <2> HIDE DEF G
  <2> QED BY <1>1, <1>2, <2>1, CountsUp
<1>4. \A f : Solves(f, n) => f[0] = Zero /\ \A i \in 1 .. n : f[i] = One(f[i - 1], i)
  <2> SUFFICES ASSUME NEW f, Solves(f, n)
               PROVE  f[0] = Zero /\ \A i \in 1 .. n : f[i] = One(f[i - 1], i)
    OBVIOUS
  <2>1. \A i \in 0 .. n : f[i] = IF i = 0 THEN Zero ELSE One(f[i - 1], i)
    OBVIOUS
  <2>2. 0 \in 0 .. n /\ \A i \in 1 .. n : i \in 0 .. n /\ i # 0
    OBVIOUS
  <2> HIDE DEF Solves
  <2> QED BY <2>1, <2>2
<1> QED BY <1>3, <1>4 DEF One, Zero, Adds

\* The loop of matchSegments.
Loops(pat, segs, start, n, f) ==
    f = [i \in 0 .. n |-> IF i = 0 THEN start
                         ELSE MatchRound(pat, segs, f[i - 1])]

\* It has a value.
LEMMA LoopHasAValue ==
    ASSUME NEW pat, NEW segs, NEW start, NEW n \in Nat
    PROVE  /\ \E f : Loops(pat, segs, start, n, f)
           /\ \A f : Loops(pat, segs, start, n, f) =>
                /\ f[0] = start
                /\ \A i \in 1 .. n : f[i] = MatchRound(pat, segs, f[i - 1])
<1> DEFINE One(v, i) == MatchRound(pat, segs, v)
           Zero == start
<1> HIDE DEF One, Zero
<1> DEFINE Solves(f, k) == f = [i \in 0 .. k |-> IF i = 0 THEN Zero ELSE One(f[i - 1], i)]
           G == {k \in Nat : \E f : Solves(f, k)}
<1>1. 0 \in G
  <2> DEFINE e == [i \in 0 .. 0 |-> Zero]
  <2>1. Solves(e, 0)
    OBVIOUS
  <2> QED BY <2>1
<1>2. ASSUME NEW k \in 1 .. n, k - 1 \in G PROVE k \in G
  <2>1. PICK f : Solves(f, k - 1)
    BY <1>2
  <2>2. PICK g : g = [i \in 0 .. k |-> IF i = 0 THEN Zero ELSE One(f[i - 1], i)]
    OBVIOUS
  <2>3. \A i \in 0 .. k : i # 0 => g[i - 1] = f[i - 1]
    <3>1. \A i \in 0 .. k - 1 : f[i] = IF i = 0 THEN Zero ELSE One(f[i - 1], i)
      BY <2>1
    <3>2. \A i \in 0 .. k : g[i] = IF i = 0 THEN Zero ELSE One(f[i - 1], i)
      BY <2>2
    <3>3. \A i \in 0 .. k : i # 0 => i - 1 \in 0 .. k - 1 /\ i - 1 \in 0 .. k
      OBVIOUS
    <3> QED BY <3>1, <3>2, <3>3
  <2>4. Solves(g, k)
    BY <2>2, <2>3
  <2> QED BY <2>4
<1>3. n \in G
  <2>1. n \in 0 .. n
    OBVIOUS
  <2> HIDE DEF G
  <2> QED BY <1>1, <1>2, <2>1, CountsUp
<1>4. \A f : Solves(f, n) => f[0] = Zero /\ \A i \in 1 .. n : f[i] = One(f[i - 1], i)
  <2> SUFFICES ASSUME NEW f, Solves(f, n)
               PROVE  f[0] = Zero /\ \A i \in 1 .. n : f[i] = One(f[i - 1], i)
    OBVIOUS
  <2>1. \A i \in 0 .. n : f[i] = IF i = 0 THEN Zero ELSE One(f[i - 1], i)
    OBVIOUS
  <2>2. 0 \in 0 .. n /\ \A i \in 1 .. n : i \in 0 .. n /\ i # 0
    OBVIOUS
  <2> HIDE DEF Solves
  <2> QED BY <2>1, <2>2
<1> QED BY <1>3, <1>4 DEF One, Zero, Loops

\* The walk of Rules.match over the patterns.
Tries(patterns, segs, budget, n, f) ==
    f = [i \in 0 .. n |-> IF i = 0 THEN Answer(FALSE, budget)
                         ELSE Try(f[i - 1], patterns[i], segs)]

\* It has a value.
LEMMA TryWalkHasAValue ==
    ASSUME NEW patterns, NEW segs, NEW budget, NEW n \in Nat
    PROVE  /\ \E f : Tries(patterns, segs, budget, n, f)
           /\ \A f : Tries(patterns, segs, budget, n, f) =>
                /\ f[0] = Answer(FALSE, budget)
                /\ \A i \in 1 .. n : f[i] = Try(f[i - 1], patterns[i], segs)
<1> DEFINE One(v, i) == Try(v, patterns[i], segs)
           Zero == Answer(FALSE, budget)
<1> HIDE DEF One, Zero
<1> DEFINE Solves(f, k) == f = [i \in 0 .. k |-> IF i = 0 THEN Zero ELSE One(f[i - 1], i)]
           G == {k \in Nat : \E f : Solves(f, k)}
<1>1. 0 \in G
  <2> DEFINE e == [i \in 0 .. 0 |-> Zero]
  <2>1. Solves(e, 0)
    OBVIOUS
  <2> QED BY <2>1
<1>2. ASSUME NEW k \in 1 .. n, k - 1 \in G PROVE k \in G
  <2>1. PICK f : Solves(f, k - 1)
    BY <1>2
  <2>2. PICK g : g = [i \in 0 .. k |-> IF i = 0 THEN Zero ELSE One(f[i - 1], i)]
    OBVIOUS
  <2>3. \A i \in 0 .. k : i # 0 => g[i - 1] = f[i - 1]
    <3>1. \A i \in 0 .. k - 1 : f[i] = IF i = 0 THEN Zero ELSE One(f[i - 1], i)
      BY <2>1
    <3>2. \A i \in 0 .. k : g[i] = IF i = 0 THEN Zero ELSE One(f[i - 1], i)
      BY <2>2
    <3>3. \A i \in 0 .. k : i # 0 => i - 1 \in 0 .. k - 1 /\ i - 1 \in 0 .. k
      OBVIOUS
    <3> QED BY <3>1, <3>2, <3>3
  <2>4. Solves(g, k)
    BY <2>2, <2>3
  <2> QED BY <2>4
<1>3. n \in G
  <2>1. n \in 0 .. n
    OBVIOUS
  <2> HIDE DEF G
  <2> QED BY <1>1, <1>2, <2>1, CountsUp
<1>4. \A f : Solves(f, n) => f[0] = Zero /\ \A i \in 1 .. n : f[i] = One(f[i - 1], i)
  <2> SUFFICES ASSUME NEW f, Solves(f, n)
               PROVE  f[0] = Zero /\ \A i \in 1 .. n : f[i] = One(f[i - 1], i)
    OBVIOUS
  <2>1. \A i \in 0 .. n : f[i] = IF i = 0 THEN Zero ELSE One(f[i - 1], i)
    OBVIOUS
  <2>2. 0 \in 0 .. n /\ \A i \in 1 .. n : i \in 0 .. n /\ i # 0
    OBVIOUS
  <2> HIDE DEF Solves
  <2> QED BY <2>1, <2>2
<1> QED BY <1>3, <1>4 DEF One, Zero, Tries

\* The walk over a compiled pattern from its last segment, from any places.
Folds(c, S, path, n, f) ==
    f = [i \in 0 .. n |-> IF i = 0 THEN S
                         ELSE StepOver(c[Len(c) - i + 1], f[i - 1], path)]

\* It has a value.
LEMMA FoldHasAValue ==
    ASSUME NEW c, NEW S, NEW path, NEW n \in Nat
    PROVE  /\ \E f : Folds(c, S, path, n, f)
           /\ \A f : Folds(c, S, path, n, f) =>
                /\ f[0] = S
                /\ \A i \in 1 .. n : f[i] = StepOver(c[Len(c) - i + 1], f[i - 1], path)
<1> DEFINE One(v, i) == StepOver(c[Len(c) - i + 1], v, path)
           Zero == S
<1> HIDE DEF One, Zero
<1> DEFINE Solves(f, k) == f = [i \in 0 .. k |-> IF i = 0 THEN Zero ELSE One(f[i - 1], i)]
           G == {k \in Nat : \E f : Solves(f, k)}
<1>1. 0 \in G
  <2> DEFINE e == [i \in 0 .. 0 |-> Zero]
  <2>1. Solves(e, 0)
    OBVIOUS
  <2> QED BY <2>1
<1>2. ASSUME NEW k \in 1 .. n, k - 1 \in G PROVE k \in G
  <2>1. PICK f : Solves(f, k - 1)
    BY <1>2
  <2>2. PICK g : g = [i \in 0 .. k |-> IF i = 0 THEN Zero ELSE One(f[i - 1], i)]
    OBVIOUS
  <2>3. \A i \in 0 .. k : i # 0 => g[i - 1] = f[i - 1]
    <3>1. \A i \in 0 .. k - 1 : f[i] = IF i = 0 THEN Zero ELSE One(f[i - 1], i)
      BY <2>1
    <3>2. \A i \in 0 .. k : g[i] = IF i = 0 THEN Zero ELSE One(f[i - 1], i)
      BY <2>2
    <3>3. \A i \in 0 .. k : i # 0 => i - 1 \in 0 .. k - 1 /\ i - 1 \in 0 .. k
      OBVIOUS
    <3> QED BY <3>1, <3>2, <3>3
  <2>4. Solves(g, k)
    BY <2>2, <2>3
  <2> QED BY <2>4
<1>3. n \in G
  <2>1. n \in 0 .. n
    OBVIOUS
  <2> HIDE DEF G
  <2> QED BY <1>1, <1>2, <2>1, CountsUp
<1>4. \A f : Solves(f, n) => f[0] = Zero /\ \A i \in 1 .. n : f[i] = One(f[i - 1], i)
  <2> SUFFICES ASSUME NEW f, Solves(f, n)
               PROVE  f[0] = Zero /\ \A i \in 1 .. n : f[i] = One(f[i - 1], i)
    OBVIOUS
  <2>1. \A i \in 0 .. n : f[i] = IF i = 0 THEN Zero ELSE One(f[i - 1], i)
    OBVIOUS
  <2>2. 0 \in 0 .. n /\ \A i \in 1 .. n : i \in 0 .. n /\ i # 0
    OBVIOUS
  <2> HIDE DEF Solves
  <2> QED BY <2>1, <2>2
<1> QED BY <1>3, <1>4 DEF One, Zero, Folds

\* The places of a path from which a compiled pattern leads to the places S.
Folded(c, S, path) == (CHOOSE f : Folds(c, S, path, Len(c), f))[Len(c)]

\* The places from which the rest of a pattern, from each segment on, does.
Tails(c, S, path, M) ==
    /\ M[Len(c) + 1] = S
    /\ \A i \in 1 .. Len(c) : M[i] = StepOver(c[i], M[i + 1], path)

LEMMA FoldedTails ==
    ASSUME NEW c, NEW S, NEW path, Len(c) \in Nat
    PROVE  \E M : Tails(c, S, path, M) /\ M[1] = Folded(c, S, path)
<1> DEFINE m == Len(c)
           f == CHOOSE g : Folds(c, S, path, m, g)
<1>1. f[0] = S /\ \A d \in 1 .. m : f[d] = StepOver(c[m - d + 1], f[d - 1], path)
  <2>1. Folds(c, S, path, m, f)
    <3>1. \E g : Folds(c, S, path, m, g)
      BY FoldHasAValue
    <3> QED BY <3>1
  <2> HIDE DEF f
  <2>2. \A g : Folds(c, S, path, m, g) =>
          g[0] = S /\ \A d \in 1 .. m : g[d] = StepOver(c[m - d + 1], g[d - 1], path)
    BY FoldHasAValue DEF Folds
  <2> QED BY <2>1, <2>2
<1>2. Folded(c, S, path) = f[m]
  BY DEF Folded
<1> HIDE DEF f
<1>3. PICK M : M = [i \in 1 .. m + 1 |-> f[m - i + 1]]
  OBVIOUS
<1>4. \A i \in 1 .. m + 1 : M[i] = f[m - i + 1]
  BY <1>3
<1>5. M[m + 1] = S /\ M[1] = f[m]
  <2>1. m + 1 \in 1 .. m + 1 /\ 1 \in 1 .. m + 1 /\ m - (m + 1) + 1 = 0 /\ m - 1 + 1 = m
    OBVIOUS
  <2> QED BY <1>1, <1>4, <2>1
<1>6. \A i \in 1 .. m : M[i] = StepOver(c[i], M[i + 1], path)
  <2> SUFFICES ASSUME NEW i \in 1 .. m PROVE M[i] = StepOver(c[i], M[i + 1], path)
    OBVIOUS
  <2> DEFINE d == m - i + 1
  <2>1. d \in 1 .. m /\ m - d + 1 = i /\ d - 1 = m - (i + 1) + 1
    OBVIOUS
  <2>2. i \in 1 .. m + 1 /\ i + 1 \in 1 .. m + 1
    OBVIOUS
  <2>3. M[i] = f[d] /\ M[i + 1] = f[d - 1]
    BY <1>4, <2>1, <2>2
  <2> HIDE DEF d
  <2> QED BY <1>1, <2>1, <2>3
<1> QED BY <1>2, <1>5, <1>6 DEF Tails

\* What the tails of a pattern mean, place by place.
LEMMA TailsMean ==
    ASSUME NEW c, NEW path, NEW M, Len(c) \in Nat, Len(path) \in Nat,
           Tails(c, 1 .. Len(path) + 1, path, M)
    PROVE  /\ M[Len(c) + 1] = 1 .. Len(path) + 1
           /\ \A i \in 1 .. Len(c) + 1 : M[i] \subseteq 1 .. Len(path) + 1
           /\ \A i \in 1 .. Len(c) :
                /\ c[i] = DoubleStar => \A j \in 1 .. Len(path) + 1 :
                                          j \in M[i] <=> \E k \in M[i + 1] : j <= k
                /\ c[i] # DoubleStar => \A j \in 1 .. Len(path) :
                                          j \in M[i] <=> GlobMatch(c[i], path[j]) /\ j + 1 \in M[i + 1]
           /\ \A i \in 1 .. Len(c) + 1 :
                Len(path) + 1 \in M[i] <=> \A k \in i .. Len(c) : c[k] = DoubleStar
<1> DEFINE m == Len(c)
           n == Len(path)
<1>1. M[m + 1] = 1 .. n + 1 /\ \A i \in 1 .. m : M[i] = StepOver(c[i], M[i + 1], path)
  BY DEF Tails
<1>3. \A i \in 1 .. m + 1 : M[i] \subseteq 1 .. n + 1
  <2> SUFFICES ASSUME NEW i \in 1 .. m PROVE M[i] \subseteq 1 .. n + 1
    BY <1>1
  <2>1. \A S : AnyRun(S, path) \subseteq 1 .. n + 1
    BY DEF AnyRun
  <2>2. \A S : OneMore(c[i], S, path) \subseteq 1 .. n + 1
    BY DEF OneMore
  <2>3. M[i] = AnyRun(M[i + 1], path) \/ M[i] = OneMore(c[i], M[i + 1], path)
    BY <1>1 DEF StepOver
  <2> QED BY <2>1, <2>2, <2>3
<1>4. ASSUME NEW i \in 1 .. m
      PROVE  /\ c[i] = DoubleStar => \A j \in 1 .. n + 1 : j \in M[i] <=> \E k \in M[i + 1] : j <= k
             /\ c[i] # DoubleStar => /\ \A j \in 1 .. n :
                                          j \in M[i] <=> GlobMatch(c[i], path[j]) /\ j + 1 \in M[i + 1]
                                     /\ n + 1 \notin M[i]
  <2>1. ASSUME c[i] = DoubleStar
        PROVE  \A j \in 1 .. n + 1 : j \in M[i] <=> \E k \in M[i + 1] : j <= k
    <3>1. M[i] = AnyRun(M[i + 1], path)
      BY <1>1, <2>1 DEF StepOver
    <3> QED BY <3>1 DEF AnyRun
  <2>2. ASSUME c[i] # DoubleStar
        PROVE  /\ \A j \in 1 .. n :
                     j \in M[i] <=> GlobMatch(c[i], path[j]) /\ j + 1 \in M[i + 1]
               /\ n + 1 \notin M[i]
    <3>1. M[i] = OneMore(c[i], M[i + 1], path)
      BY <1>1, <2>2 DEF StepOver
    <3> QED BY <3>1 DEF OneMore
  <2> QED BY <2>1, <2>2
<1>5. \A i \in 1 .. m + 1 : n + 1 \in M[i] <=> \A k \in i .. m : c[k] = DoubleStar
  <2> DEFINE Good(i) == n + 1 \in M[i] <=> \A k \in i .. m : c[k] = DoubleStar
             G == {d \in 0 .. m : Good(m + 1 - d)}
  <2>1. 0 \in G
    <3>1. Good(m + 1)
      BY <1>1
    <3> QED BY <3>1
  <2>2. ASSUME NEW d \in 1 .. m, d - 1 \in G PROVE d \in G
    <3> DEFINE i == m + 1 - d
    <3>1. i \in 1 .. m /\ i + 1 = m + 1 - (d - 1) /\ i + 1 \in 1 .. m + 1
      OBVIOUS
    <3>2. Good(i + 1)
      BY <2>2, <3>1
    <3>3. i .. m = {i} \cup (i + 1 .. m)
      BY <3>1
    <3>4. n + 1 \in M[i] <=> c[i] = DoubleStar /\ n + 1 \in M[i + 1]
      <4>1. n + 1 \in 1 .. n + 1 /\ \A k \in 1 .. n + 1 : n + 1 <= k => k = n + 1
        OBVIOUS
      <4> HIDE DEF i
      <4> QED BY <1>3, <1>4, <3>1, <4>1
    <3> HIDE DEF i
    <3>5. Good(i)
      BY <3>2, <3>3, <3>4
    <3> QED BY <3>5 DEF i
  <2>3. \A d \in 0 .. m : d \in G
    <3> HIDE DEF G
    <3> QED BY <2>1, <2>2, CountsUp
  <2> SUFFICES ASSUME NEW i \in 1 .. m + 1 PROVE Good(i)
    OBVIOUS
  <2>4. m + 1 - i \in 0 .. m /\ m + 1 - (m + 1 - i) = i
    OBVIOUS
  <2>5. Good(m + 1 - (m + 1 - i))
    <3> HIDE DEF Good
    <3> QED BY <2>3, <2>4
  <2> QED BY <2>4, <2>5
<1> QED BY <1>1, <1>3, <1>4, <1>5

Budgets == [limited : BOOLEAN, left : Int]

\* Where the loop of matchSegments can be.
Cursors == [pi : Nat, si : Nat, starPi : Nat, starSi : Nat, budget : Budgets,
            done : BOOLEAN, matched : BOOLEAN]

\* The loop has not decided: the pattern leads from the first place of the path
\* exactly when its rest does from here or, once a "**" was met, from a place
\* at or after the one the "**" has absorbed up to.  What lies behind the last
\* "**" matched up to here, so every later way through it leads here as well.
Undecided(pat, segs, M, at) ==
    /\ at.pi \in 1 .. Len(pat) + 1 /\ at.si \in 1 .. Len(segs) + 1
    /\ at.starPi < at.pi /\ at.starSi <= at.si
    /\ at.starPi = 0 => (1 \in M[1] <=> at.si \in M[at.pi])
    /\ at.starPi > 0 =>
         /\ 1 \in M[1] <=> \E k \in M[at.starPi + 1] : at.starSi <= k
         /\ at.si \in M[at.pi] => at.starSi \in M[at.starPi + 1]
         /\ \A k \in M[at.starPi + 1] :
              at.starSi <= k => k + (at.si - at.starSi) \in M[at.pi]

\* What holds at every round, when the match began with this budget.
AtRound(pat, segs, M, budget, at) ==
    /\ at \in Cursors
    /\ Spent(budget) => Spent(at.budget)
    /\ ~ at.done => Undecided(pat, segs, M, at)
    /\ at.done => Spent(at.budget) \/ (at.matched <=> 1 \in M[1])

\* Every comparison of a pattern and a path costs something or nothing.
Costed(pat, segs) == \A i \in 1 .. Len(pat), j \in 1 .. Len(segs) : Cost(pat[i], segs[j]) \in Nat

\* A charge leaves a budget, and a spent one spent.
LEMMA ChargeSpends ==
    ASSUME NEW budget \in Budgets, NEW glob, NEW seg, Cost(glob, seg) \in Nat
    PROVE  /\ charge(budget, glob, seg) \in Budgets
           /\ Spent(budget) => Spent(charge(budget, glob, seg))
<1>1. CASE budget.limited
  BY <1>1 DEF charge, Budgets, Spent
<1>2. CASE ~ budget.limited
  BY <1>2 DEF charge, Spent
<1> QED BY <1>1, <1>2

\* One round keeps it, and unless it ends the loop it makes progress.
LEMMA RoundKeeps ==
    ASSUME NEW pat, NEW segs, NEW M, NEW budget, NEW at, Len(pat) \in Nat, Len(segs) \in Nat,
           Tails(pat, 1 .. Len(segs) + 1, segs, M), Costed(pat, segs),
           AtRound(pat, segs, M, budget, at), ~ at.done
    PROVE  LET next == MatchRound(pat, segs, at)
           IN  /\ AtRound(pat, segs, M, budget, next)
               /\ next.done \/ Len(pat) * next.starSi + next.pi > Len(pat) * at.starSi + at.pi
<1> DEFINE m == Len(pat)
           n == Len(segs)
           next == MatchRound(pat, segs, at)
           spent == charge(at.budget, pat[at.pi], segs[at.si])
           Stop(matched, b) == [at EXCEPT !.done = TRUE, !.matched = matched, !.budget = b]
           want == 1 \in M[1]
<1>1. /\ M[m + 1] = 1 .. n + 1
      /\ \A i \in 1 .. m + 1 : M[i] \subseteq 1 .. n + 1
      /\ \A i \in 1 .. m :
           /\ pat[i] = DoubleStar => \A j \in 1 .. n + 1 : j \in M[i] <=> \E k \in M[i + 1] : j <= k
           /\ pat[i] # DoubleStar => \A j \in 1 .. n :
                                       j \in M[i] <=> GlobMatch(pat[i], segs[j]) /\ j + 1 \in M[i + 1]
      /\ \A i \in 1 .. m + 1 : n + 1 \in M[i] <=> \A k \in i .. m : pat[k] = DoubleStar
  BY TailsMean
<1>2. /\ at \in Cursors /\ ~ at.done /\ (Spent(budget) => Spent(at.budget))
      /\ Undecided(pat, segs, M, at)
  BY DEF AtRound
<1>3. /\ at.pi \in 1 .. m + 1 /\ at.si \in 1 .. n + 1
      /\ at.starPi \in Nat /\ at.starPi < at.pi /\ at.starSi \in Nat /\ at.starSi <= at.si
      /\ at.budget \in Budgets
  BY <1>2 DEF Cursors, Undecided
<1>4. \A b \in Budgets, matched \in BOOLEAN :
        /\ Stop(matched, b) \in Cursors /\ Stop(matched, b).done
        /\ Stop(matched, b).budget = b /\ Stop(matched, b).matched = matched
  BY <1>2 DEF Cursors
<1>5. ASSUME NEW b \in Budgets, NEW matched \in BOOLEAN, next = Stop(matched, b),
             Spent(budget) => Spent(b), Spent(b) \/ (matched <=> want)
      PROVE  AtRound(pat, segs, M, budget, next) /\ next.done
  <2> HIDE DEF next, Stop, want
  <2> QED BY <1>4, <1>5 DEF AtRound, want
\* The rest of the pattern decides: nothing behind the last "**" is left open.
<1>6. (\A k \in M[at.pi] : k <= at.si) => (want <=> at.si \in M[at.pi])
  <2> SUFFICES ASSUME \A k \in M[at.pi] : k <= at.si PROVE want <=> at.si \in M[at.pi]
    OBVIOUS
  <2>1. CASE at.starPi = 0
    BY <1>2, <2>1 DEF Undecided
  <2>2. CASE at.starPi > 0
    <3>1. /\ want <=> \E k \in M[at.starPi + 1] : at.starSi <= k
          /\ at.si \in M[at.pi] => at.starSi \in M[at.starPi + 1]
          /\ \A k \in M[at.starPi + 1] :
               at.starSi <= k => k + (at.si - at.starSi) \in M[at.pi]
      BY <1>2, <2>2 DEF Undecided
    <3>2. at.starPi + 1 \in 1 .. m + 1 /\ M[at.starPi + 1] \subseteq 1 .. n + 1
      BY <1>1, <1>3
    <3> HIDE DEF want
    <3>3. ASSUME NEW k \in M[at.starPi + 1], at.starSi <= k PROVE at.si \in M[at.pi]
      <4>1. k + (at.si - at.starSi) \in M[at.pi] /\ k + (at.si - at.starSi) <= at.si
        BY <3>1, <3>3
      <4>2. k = at.starSi /\ k + (at.si - at.starSi) = at.si
        BY <1>3, <3>2, <3>3, <4>1
      <4> QED BY <4>1, <4>2
    <3> QED BY <1>3, <3>1, <3>3
  <2> QED BY <1>3, <2>1, <2>2

<1>7. at.si \in M[at.pi] => want
  <2>1. CASE at.starPi = 0
    BY <1>2, <2>1 DEF Undecided
  <2>2. CASE at.starPi > 0
    <3>1. /\ want <=> \E k \in M[at.starPi + 1] : at.starSi <= k
          /\ at.si \in M[at.pi] => at.starSi \in M[at.starPi + 1]
      BY <1>2, <2>2 DEF Undecided
    <3> HIDE DEF want
    <3> QED BY <1>3, <3>1
  <2> QED BY <1>3, <2>1, <2>2
<1>8. CASE at.si > n
  <2> DEFINE rest == \A i \in at.pi .. m : pat[i] = DoubleStar
  <2>1. next = Stop(rest, at.budget)
    BY <1>2, <1>8 DEF MatchRound
  <2>2. at.si = n + 1 /\ (rest <=> n + 1 \in M[at.pi]) /\ M[at.pi] \subseteq 1 .. n + 1
    <3>1. at.si = n + 1
      BY <1>3, <1>8
    <3> QED BY <1>1, <1>3, <3>1
  <2>3. rest <=> want
    <3>1. \A k \in M[at.pi] : k <= at.si
      BY <2>2
    <3> HIDE DEF rest, want
    <3> QED BY <1>6, <2>2, <3>1
  <2> HIDE DEF rest, next, Stop, want
  <2>4. rest \in BOOLEAN
    BY DEF rest
  <2>5. AtRound(pat, segs, M, budget, next) /\ next.done
    BY <1>2, <1>3, <1>5, <2>1, <2>3, <2>4
  <2> QED BY <2>5 DEF next
<1>9. CASE at.si <= n /\ at.pi > m
  <2>1. next = Stop(TRUE, at.budget)
    BY <1>2, <1>3, <1>9 DEF MatchRound
  <2>2. at.si \in M[at.pi]
    BY <1>1, <1>3, <1>9
  <2> HIDE DEF next, Stop, want
  <2>3. AtRound(pat, segs, M, budget, next) /\ next.done
    BY <1>2, <1>3, <1>5, <1>7, <2>1, <2>2
  <2> QED BY <2>3 DEF next
<1>10. CASE at.si <= n /\ at.pi <= m /\ pat[at.pi] = DoubleStar
  <2>1. next = [at EXCEPT !.pi = @ + 1, !.starPi = at.pi, !.starSi = at.si]
    BY <1>2, <1>3, <1>10 DEF MatchRound
  <2>2. /\ next \in Cursors /\ ~ next.done /\ next.budget = at.budget
        /\ next.pi = at.pi + 1 /\ next.si = at.si /\ next.starPi = at.pi /\ next.starSi = at.si
    <3>1. at.pi \in Nat /\ at.pi + 1 \in Nat /\ at.si \in Nat
      BY <1>3
    <3> HIDE DEF next
    <3> QED BY <1>2, <2>1, <3>1 DEF Cursors
  <2>3. at.si \in M[at.pi] <=> \E k \in M[at.pi + 1] : at.si <= k
    BY <1>1, <1>3, <1>10
  <2>4. want <=> \E k \in M[at.pi + 1] : at.si <= k
    <3>1. CASE at.starPi = 0
      BY <1>2, <2>3, <3>1 DEF Undecided
    <3>2. CASE at.starPi > 0
      <4>1. /\ want <=> \E k \in M[at.starPi + 1] : at.starSi <= k
            /\ \A k \in M[at.starPi + 1] :
                 at.starSi <= k => k + (at.si - at.starSi) \in M[at.pi]
        BY <1>2, <3>2 DEF Undecided
      <4>2. /\ at.starPi + 1 \in 1 .. m + 1 /\ M[at.starPi + 1] \subseteq 1 .. n + 1
            /\ M[at.pi] \subseteq 1 .. n + 1 /\ M[at.pi + 1] \subseteq 1 .. n + 1
        <5>1. at.starPi + 1 \in 1 .. m + 1 /\ at.pi + 1 \in 1 .. m + 1
          BY <1>3, <1>10
        <5> QED BY <1>1, <1>3, <5>1
      <4> HIDE DEF want
      <4>3. ASSUME want PROVE \E k \in M[at.pi + 1] : at.si <= k
        <5>1. PICK k \in M[at.starPi + 1] : at.starSi <= k
          BY <4>1, <4>3
        <5> DEFINE l == k + (at.si - at.starSi)
        <5>2. l \in M[at.pi] /\ k \in 1 .. n + 1
          BY <4>1, <4>2, <5>1
        <5>3. l \in 1 .. n + 1 /\ at.si <= l
          BY <1>3, <4>2, <5>1, <5>2
        <5> HIDE DEF l
        <5>4. PICK k2 \in M[at.pi + 1] : l <= k2
          BY <1>1, <1>3, <1>10, <5>2, <5>3
        <5>5. at.si <= k2
          BY <1>3, <4>2, <5>3, <5>4
        <5> QED BY <5>5
      <4> QED BY <1>7, <2>3, <4>3
    <3> QED BY <1>3, <3>1, <3>2
  <2>5. Undecided(pat, segs, M, next)
    <3>1. at.pi + 1 \in 1 .. m + 1 /\ at.si \in 1 .. n + 1
      BY <1>3, <1>10
    <3>2. \A k \in M[at.pi + 1] : k + (at.si - at.si) = k
      <4>1. M[at.pi + 1] \subseteq 1 .. n + 1
        BY <1>1, <3>1
      <4> QED BY <1>3, <4>1
    <3>3. at.pi > 0 /\ at.pi < at.pi + 1 /\ at.si <= at.si
      BY <1>3
    <3>4. /\ at.si \in M[at.pi + 1] => at.si \in M[at.pi + 1]
          /\ \A k \in M[at.pi + 1] : at.si <= k => k + (at.si - at.si) \in M[at.pi + 1]
      BY <3>2
    <3> HIDE DEF next
    <3> QED BY <2>2, <2>4, <3>1, <3>3, <3>4 DEF Undecided, want
  <2>6. m * next.starSi + next.pi > m * at.starSi + at.pi
    <3> HIDE DEF next
    <3>1. m * at.si >= m * at.starSi
      BY <1>3
    <3>2. m * at.si \in Nat /\ m * at.starSi \in Nat
      BY <1>3
    <3> QED BY <1>3, <2>2, <3>1, <3>2
  <2>7. AtRound(pat, segs, M, budget, next)
    <3> HIDE DEF next
    <3> QED BY <1>2, <2>2, <2>5 DEF AtRound
  <2> QED BY <2>6, <2>7
\* A segment of each is compared.
<1>11. ASSUME at.si <= n, at.pi <= m, pat[at.pi] # DoubleStar
       PROVE  /\ spent \in Budgets /\ (Spent(budget) => Spent(spent))
              /\ at.si \in M[at.pi] <=> GlobMatch(pat[at.pi], segs[at.si]) /\ at.si + 1 \in M[at.pi + 1]
  <2>1. at.pi \in 1 .. m /\ at.si \in 1 .. n
    BY <1>3, <1>11
  <2>2. Cost(pat[at.pi], segs[at.si]) \in Nat
    BY <2>1 DEF Costed
  <2>3. spent \in Budgets /\ (Spent(at.budget) => Spent(spent))
    BY <1>3, <2>2, ChargeSpends
  <2> QED BY <1>1, <1>2, <1>11, <2>1, <2>3
<1>12. CASE at.si <= n /\ at.pi <= m /\ pat[at.pi] # DoubleStar /\ Spent(spent)
  <2>1. next = Stop(FALSE, spent)
    BY <1>2, <1>3, <1>12 DEF MatchRound
  <2>2. spent \in Budgets
    BY <1>11, <1>12
  <2>3. Spent(spent)
    BY <1>12
  <2> HIDE DEF next, Stop, want, spent
  <2>4. AtRound(pat, segs, M, budget, next) /\ next.done
    BY <1>5, <2>1, <2>2, <2>3
  <2> QED BY <2>4 DEF next
<1>13. CASE /\ at.si <= n /\ at.pi <= m /\ pat[at.pi] # DoubleStar /\ ~ Spent(spent)
            /\ GlobMatch(pat[at.pi], segs[at.si])
  <2>1. next = [at EXCEPT !.pi = @ + 1, !.si = @ + 1, !.budget = spent]
    BY <1>2, <1>3, <1>13 DEF MatchRound
  <2>2. /\ spent \in Budgets /\ (Spent(budget) => Spent(spent))
        /\ at.si \in M[at.pi] <=> at.si + 1 \in M[at.pi + 1]
    BY <1>11, <1>13
  <2> HIDE DEF spent, want
  <2>3. /\ next \in Cursors /\ ~ next.done /\ next.budget = spent
        /\ next.pi = at.pi + 1 /\ next.si = at.si + 1
        /\ next.starPi = at.starPi /\ next.starSi = at.starSi
    <3>1. at.pi + 1 \in Nat /\ at.si + 1 \in Nat
      BY <1>3
    <3> HIDE DEF next
    <3> QED BY <1>2, <2>1, <2>2, <3>1 DEF Cursors
  <2> HIDE DEF next
  <2>4. Undecided(pat, segs, M, next)
    <3>1. /\ at.pi + 1 \in 1 .. m + 1 /\ at.si + 1 \in 1 .. n + 1
          /\ at.starPi < at.pi + 1 /\ at.starSi <= at.si + 1
      BY <1>3, <1>13
    <3>2. at.starPi = 0 => (want <=> at.si + 1 \in M[at.pi + 1])
      BY <1>2, <2>2 DEF Undecided, want
    <3>3. ASSUME at.starPi > 0
          PROVE  /\ want <=> \E k \in M[at.starPi + 1] : at.starSi <= k
                 /\ at.si + 1 \in M[at.pi + 1] => at.starSi \in M[at.starPi + 1]
                 /\ \A k \in M[at.starPi + 1] :
                      at.starSi <= k => k + (at.si + 1 - at.starSi) \in M[at.pi + 1]
      <4>1. /\ want <=> \E k \in M[at.starPi + 1] : at.starSi <= k
            /\ at.si \in M[at.pi] => at.starSi \in M[at.starPi + 1]
            /\ \A k \in M[at.starPi + 1] :
                 at.starSi <= k => k + (at.si - at.starSi) \in M[at.pi]
        BY <1>2, <3>3 DEF Undecided, want
      <4>2. ASSUME NEW k \in M[at.starPi + 1], at.starSi <= k
            PROVE  k + (at.si + 1 - at.starSi) \in M[at.pi + 1]
        <5> DEFINE l == k + (at.si - at.starSi)
        <5>1. l \in M[at.pi]
          BY <4>1, <4>2
        <5>2. k \in 1 .. n + 1 /\ l \in 1 .. n + 1
          <6>1. at.starPi + 1 \in 1 .. m + 1
            BY <1>3
          <6> HIDE DEF l
          <6> QED BY <1>1, <1>3, <5>1, <6>1
        <5>3. l + 1 = k + (at.si + 1 - at.starSi)
          <6>1. at.si \in Int /\ at.starSi \in Int /\ k \in Int
            BY <1>3, <5>2
          <6> QED BY <6>1
        <5> HIDE DEF l
        <5>4. at.pi \in 1 .. m /\ (l \in 1 .. n => l + 1 \in M[at.pi + 1])
          BY <1>1, <1>3, <1>13, <5>1
        <5>5. l # n + 1
          <6>1. n + 1 \in M[at.pi] => pat[at.pi] = DoubleStar
            <7>1. at.pi \in at.pi .. m
              BY <5>4
            <7> QED BY <1>1, <1>3, <7>1
          <6> QED BY <1>13, <5>1, <6>1
        <5> QED BY <5>2, <5>3, <5>4, <5>5
      <4> QED BY <2>2, <4>1, <4>2
    <3>4. /\ next.pi \in 1 .. m + 1 /\ next.si \in 1 .. n + 1
          /\ next.starPi < next.pi /\ next.starSi <= next.si
      BY <2>3, <3>1
    <3>5. next.starPi = 0 => (want <=> next.si \in M[next.pi])
      BY <2>3, <3>2
    <3>6. next.starPi > 0 =>
            /\ want <=> \E k \in M[next.starPi + 1] : next.starSi <= k
            /\ next.si \in M[next.pi] => next.starSi \in M[next.starPi + 1]
            /\ \A k \in M[next.starPi + 1] :
                 next.starSi <= k => k + (next.si - next.starSi) \in M[next.pi]
      BY <1>3, <2>3, <3>3
    <3> QED BY <3>4, <3>5, <3>6 DEF Undecided, want
  <2>5. m * next.starSi + next.pi > m * at.starSi + at.pi
    <3>1. m * at.starSi \in Nat
      BY <1>3
    <3> QED BY <1>3, <2>3, <3>1
  <2>6. AtRound(pat, segs, M, budget, next)
    BY <2>2, <2>3, <2>4 DEF AtRound
  <2> QED BY <2>5, <2>6 DEF next
<1>14. CASE /\ at.si <= n /\ at.pi <= m /\ pat[at.pi] # DoubleStar /\ ~ Spent(spent)
            /\ ~ GlobMatch(pat[at.pi], segs[at.si]) /\ at.starPi > 0
  <2>1. next = [at EXCEPT !.pi = at.starPi + 1, !.si = at.starSi + 1, !.starSi = @ + 1,
                          !.budget = spent]
    BY <1>2, <1>3, <1>14 DEF MatchRound
  <2>2. /\ spent \in Budgets /\ (Spent(budget) => Spent(spent))
        /\ at.si \notin M[at.pi]
    BY <1>11, <1>14
  <2> HIDE DEF spent, want
  <2>3. /\ next \in Cursors /\ ~ next.done /\ next.budget = spent
        /\ next.pi = at.starPi + 1 /\ next.si = at.starSi + 1
        /\ next.starPi = at.starPi /\ next.starSi = at.starSi + 1
    <3>1. at.starPi + 1 \in Nat /\ at.starSi + 1 \in Nat
      BY <1>3
    <3> HIDE DEF next
    <3> QED BY <1>2, <2>1, <2>2, <3>1 DEF Cursors
  <2> HIDE DEF next
  <2>4. Undecided(pat, segs, M, next)
    <3>1. /\ at.starPi + 1 \in 1 .. m + 1 /\ at.starSi + 1 \in 1 .. n + 1
          /\ at.starPi < at.starPi + 1 /\ at.starSi + 1 <= at.starSi + 1
      <4>1. m \in Nat /\ n \in Nat /\ at.starPi \in Nat /\ at.starSi \in Nat
        BY <1>3
      <4>2. at.starPi < m /\ at.starSi <= n
        BY <1>3, <1>14
      <4> HIDE DEF m, n
      <4> QED BY <4>1, <4>2
    <3>2. /\ want <=> \E k \in M[at.starPi + 1] : at.starSi <= k
          /\ \A k \in M[at.starPi + 1] :
               at.starSi <= k => k + (at.si - at.starSi) \in M[at.pi]
      BY <1>2, <1>14 DEF Undecided, want
    <3>3. M[at.starPi + 1] \subseteq 1 .. n + 1
      BY <1>1, <3>1
    <3>4. at.starSi \notin M[at.starPi + 1]
      <4>1. at.starSi + (at.si - at.starSi) = at.si /\ at.starSi <= at.starSi
        BY <1>3
      <4> QED BY <2>2, <3>2, <4>1
    <3>5. want <=> \E k \in M[at.starPi + 1] : at.starSi + 1 <= k
      BY <1>3, <3>2, <3>3, <3>4
    <3>6. \A k \in M[at.starPi + 1] : k + ((at.starSi + 1) - (at.starSi + 1)) = k
      BY <1>3, <3>3
    <3> QED BY <1>14, <2>3, <3>1, <3>5, <3>6 DEF Undecided, want
  <2>5. m * next.starSi + next.pi > m * at.starSi + at.pi
    <3>1. m * (at.starSi + 1) = m * at.starSi + m /\ m * at.starSi \in Nat
      BY <1>3
    <3>2. at.pi <= m /\ at.starPi + 1 > 1 /\ at.pi \in Nat /\ at.starPi \in Nat
      BY <1>3, <1>14
    <3> QED BY <2>3, <3>1, <3>2
  <2>6. AtRound(pat, segs, M, budget, next)
    BY <2>2, <2>3, <2>4 DEF AtRound
  <2> QED BY <2>5, <2>6 DEF next
<1>15. CASE /\ at.si <= n /\ at.pi <= m /\ pat[at.pi] # DoubleStar /\ ~ Spent(spent)
            /\ ~ GlobMatch(pat[at.pi], segs[at.si]) /\ ~ at.starPi > 0
  <2>1. next = Stop(FALSE, spent)
    BY <1>2, <1>3, <1>15 DEF MatchRound
  <2>2. spent \in Budgets /\ (Spent(budget) => Spent(spent)) /\ at.si \notin M[at.pi]
    BY <1>11, <1>15
  <2>3. at.starPi = 0
    BY <1>3, <1>15
  <2>4. ~ want
    BY <1>2, <2>2, <2>3 DEF Undecided
  <2> HIDE DEF next, Stop, want, spent
  <2>5. AtRound(pat, segs, M, budget, next) /\ next.done
    BY <1>5, <2>1, <2>2, <2>4
  <2> QED BY <2>5 DEF next
<1>16. \/ at.si > n \/ (at.si <= n /\ at.pi > m)
       \/ at.si <= n /\ at.pi <= m
  BY <1>3
<1> HIDE DEF spent
<1> QED BY <1>8, <1>9, <1>10, <1>12, <1>13, <1>14, <1>15, <1>16

\* A compiled pattern leads from the first place of a path.
Catches(pat, path) == 1 \in Folded(pat, 1 .. Len(path) + 1, path)

\* An answer for a list of patterns: it is theirs, or the budget is spent.
Decides(got, budget, wanted) ==
    /\ got.matched \in BOOLEAN /\ got.budget \in Budgets
    /\ Spent(budget) => Spent(got.budget)
    /\ Spent(got.budget) \/ (got.matched <=> wanted)

\* The single-backtrack loop finds a way through the path when there is one.
LEMMA LoopMatches ==
    ASSUME NEW pat, NEW segs, NEW budget \in Budgets, Len(pat) \in Nat, Len(segs) \in Nat,
           Costed(pat, segs)
    PROVE  Decides(matchSegments(pat, segs, budget), budget, Catches(pat, segs))
<1> DEFINE m == Len(pat)
           n == Len(segs)
           start == [pi |-> 1, si |-> 1, starPi |-> 0, starSi |-> 0, budget |-> budget,
                     done |-> FALSE, matched |-> FALSE]
           rounds == (m + 1) * (n + 2)
           loop == CHOOSE f : Loops(pat, segs, start, rounds, f)
<1>1. rounds \in Nat
  OBVIOUS
<1>2. PICK M : Tails(pat, 1 .. n + 1, segs, M) /\ M[1] = Folded(pat, 1 .. n + 1, segs)
  BY FoldedTails
<1>3. matchSegments(pat, segs, budget) = Answer(loop[rounds].matched, loop[rounds].budget)
  BY DEF matchSegments, Loops
<1> HIDE DEF rounds
<1>4. loop[0] = start /\ \A k \in 1 .. rounds : loop[k] = MatchRound(pat, segs, loop[k - 1])
  <2>1. Loops(pat, segs, start, rounds, loop)
    <3>1. \E f : Loops(pat, segs, start, rounds, f)
      <4> HIDE DEF start
      <4> QED BY <1>1, LoopHasAValue
    <3> QED BY <3>1
  <2> HIDE DEF loop, start
  <2> QED BY <1>1, <2>1, LoopHasAValue DEF Loops
<1> HIDE DEF loop
<1> DEFINE Good(k) == /\ AtRound(pat, segs, M, budget, loop[k])
                      /\ loop[k].done \/ m * loop[k].starSi + loop[k].pi >= k + 1
<1>5. Good(0)
  <2>1. /\ loop[0] \in Cursors /\ ~ loop[0].done /\ loop[0].budget = budget
        /\ loop[0].pi = 1 /\ loop[0].si = 1 /\ loop[0].starPi = 0 /\ loop[0].starSi = 0
    <3>1. start \in Cursors
      BY DEF Cursors
    <3> QED BY <1>4, <3>1
  <2>2. Undecided(pat, segs, M, loop[0])
    <3>1. 1 \in 1 .. m + 1 /\ 1 \in 1 .. n + 1 /\ 0 < 1 /\ 0 <= 1 /\ ~ (0 > 0)
      OBVIOUS
    <3> QED BY <2>1, <3>1 DEF Undecided
  <2>3. m * 0 + 1 >= 0 + 1
    OBVIOUS
  <2> QED BY <2>1, <2>2, <2>3 DEF AtRound
<1>6. ASSUME NEW k \in 1 .. rounds, Good(k - 1) PROVE Good(k)
  <2> DEFINE at == loop[k - 1]
             next == MatchRound(pat, segs, at)
  <2>1. loop[k] = next
    BY <1>4
  <2>2. AtRound(pat, segs, M, budget, at)
    BY <1>6
  <2>3. CASE at.done
    <3>1. next = at
      BY <2>3 DEF MatchRound
    <3> QED BY <1>6, <2>1, <2>3, <3>1
  <2>4. CASE ~ at.done
    <3>1. m * at.starSi + at.pi >= (k - 1) + 1
      BY <1>6, <2>4
    <3> HIDE DEF at, next
    <3>2. /\ AtRound(pat, segs, M, budget, next)
          /\ next.done \/ m * next.starSi + next.pi > m * at.starSi + at.pi
      BY <1>2, <2>2, <2>4, RoundKeeps DEF next
    <3>3. /\ at.starSi \in Nat /\ at.pi \in Nat /\ next.starSi \in Nat /\ next.pi \in Nat
          /\ k \in Int
      BY <1>1, <2>2, <3>2 DEF AtRound, Cursors
    <3>4. m * at.starSi \in Int /\ m * next.starSi \in Int
      BY <3>3
    <3>5. next.done \/ m * next.starSi + next.pi >= k + 1
      <4> DEFINE p == m * at.starSi + at.pi
                 q == m * next.starSi + next.pi
      <4>1. p \in Int /\ q \in Int /\ p >= (k - 1) + 1 /\ (next.done \/ q > p)
        BY <3>1, <3>2, <3>3, <3>4
      <4> HIDE DEF p, q
      <4>2. next.done \/ q >= k + 1
        BY <3>3, <4>1
      <4> QED BY <4>2 DEF q
    <3> QED BY <2>1, <3>2, <3>5
  <2> QED BY <2>3, <2>4
<1>7. Good(rounds)
  <2> DEFINE G == {k \in 0 .. rounds : Good(k)}
  <2> HIDE DEF Good
  <2>1. 0 \in G
    BY <1>1, <1>5
  <2>2. \A k \in 1 .. rounds : k - 1 \in G => k \in G
    BY <1>1, <1>6
  <2>3. \A k \in 0 .. rounds : k \in G
    <3> HIDE DEF G
    <3> QED BY <1>1, <2>1, <2>2, CountsUp
  <2> QED BY <1>1, <2>3
<1> DEFINE end == loop[rounds]
<1>8. end.done
  <2> SUFFICES ASSUME ~ end.done PROVE FALSE
    OBVIOUS
  <2>1. AtRound(pat, segs, M, budget, end) /\ m * end.starSi + end.pi >= rounds + 1
    BY <1>7
  <2> HIDE DEF end
  <2>2. /\ end.starSi \in Nat /\ end.pi \in Nat /\ end.starSi <= n + 1 /\ end.pi <= m + 1
    BY <2>1 DEF AtRound, Undecided, Cursors
  <2>3. m * end.starSi <= m * (n + 1) /\ m * end.starSi \in Nat
    BY <2>2
  <2>4. rounds = m * (n + 1) + m + n + 2 /\ m * (n + 1) \in Nat
    BY DEF rounds
  <2> QED BY <2>1, <2>2, <2>3, <2>4
<1>9. AtRound(pat, segs, M, budget, end)
  BY <1>7
<1> HIDE DEF end
<1>10. /\ end.matched \in BOOLEAN /\ end.budget \in Budgets /\ (Spent(budget) => Spent(end.budget))
       /\ Spent(end.budget) \/ (end.matched <=> 1 \in M[1])
  BY <1>8, <1>9 DEF AtRound, Cursors
<1> QED BY <1>2, <1>3, <1>10 DEF Decides, Answer, Catches, end

\* Patterns in turn: one of them leads through the path.
LEMMA PathMatches ==
    ASSUME NEW patterns, NEW segs, NEW budget \in Budgets, Len(patterns) \in Nat, Len(segs) \in Nat,
           \A i \in 1 .. Len(patterns) : Len(patterns[i]) \in Nat /\ Costed(patterns[i], segs)
    PROVE  Decides(MatchPath(patterns, segs, budget), budget,
                   \E i \in 1 .. Len(patterns) : Catches(patterns[i], segs))
<1> DEFINE n == Len(patterns)
           walk == CHOOSE f : Tries(patterns, segs, budget, n, f)
           Upto(k) == \E i \in 1 .. k : Catches(patterns[i], segs)
           Good(k) == Decides(walk[k], budget, Upto(k))
           G == {k \in 0 .. n : Good(k)}
<1>1. MatchPath(patterns, segs, budget) = walk[n]
  BY DEF MatchPath, Tries
<1>2. walk[0] = Answer(FALSE, budget) /\ \A i \in 1 .. n : walk[i] = Try(walk[i - 1], patterns[i], segs)
  <2>1. Tries(patterns, segs, budget, n, walk)
    <3>1. \E f : Tries(patterns, segs, budget, n, f)
      BY TryWalkHasAValue
    <3> QED BY <3>1
  <2>2. \A f : Tries(patterns, segs, budget, n, f) =>
          /\ f[0] = Answer(FALSE, budget)
          /\ \A i \in 1 .. n : f[i] = Try(f[i - 1], patterns[i], segs)
    <3>1. n \in Nat
      OBVIOUS
    <3> HIDE DEF n
    <3> QED BY <3>1, TryWalkHasAValue DEF Tries
  <2> HIDE DEF walk
  <2> QED BY <2>1, <2>2
<1> HIDE DEF walk
<1>3. 0 \in G
  <2>1. ~ Upto(0)
    OBVIOUS
  <2> HIDE DEF Upto
  <2>2. Good(0)
    BY <1>2, <2>1 DEF Decides, Answer
  <2> QED BY <2>2
<1>4. ASSUME NEW k \in 1 .. n, k - 1 \in G PROVE k \in G
  <2> DEFINE was == walk[k - 1]
             got == matchSegments(patterns[k], segs, was.budget)
  <2>1. Decides(was, budget, Upto(k - 1))
    BY <1>4
  <2>2. walk[k] = IF was.matched THEN was ELSE got
    BY <1>2 DEF Try
  <2>3. Upto(k) <=> Upto(k - 1) \/ Catches(patterns[k], segs)
    <3>1. 1 .. k = (1 .. k - 1) \cup {k}
      OBVIOUS
    <3> QED BY <3>1
  <2> HIDE DEF Upto, was
  <2>4. was.matched \in BOOLEAN /\ was.budget \in Budgets
    BY <2>1 DEF Decides
  <2>5. Decides(got, was.budget, Catches(patterns[k], segs))
    BY <2>4, LoopMatches
  <2> HIDE DEF got
  <2>6. Decides(walk[k], budget, Upto(k))
    BY <2>1, <2>2, <2>3, <2>4, <2>5 DEF Decides
  <2> QED BY <2>6
<1>5. n \in G
  <2>1. \A k \in 0 .. n : k \in G
    <3> HIDE DEF G
    <3> QED BY <1>3, <1>4, CountsUp
  <2> HIDE DEF G
  <2> QED BY <2>1
<1> HIDE DEF Decides
<1> QED BY <1>1, <1>5

\* The tails of a pattern are determined, so their first is the pattern's.
LEMMA TailsAreFolded ==
    ASSUME NEW c, NEW S, NEW path, NEW M, Len(c) \in Nat, Tails(c, S, path, M)
    PROVE  M[1] = Folded(c, S, path)
<1> DEFINE m == Len(c)
<1>1. PICK N : Tails(c, S, path, N) /\ N[1] = Folded(c, S, path)
  BY FoldedTails
<1> DEFINE G == {d \in 0 .. m : M[m + 1 - d] = N[m + 1 - d]}
<1>2. 0 \in G
  BY <1>1 DEF Tails
<1>3. ASSUME NEW d \in 1 .. m, d - 1 \in G PROVE d \in G
  <2> DEFINE i == m + 1 - d
  <2>1. i \in 1 .. m /\ i + 1 = m + 1 - (d - 1)
    OBVIOUS
  <2>2. M[i + 1] = N[i + 1]
    BY <1>3, <2>1
  <2>3. M[i] = StepOver(c[i], M[i + 1], path) /\ N[i] = StepOver(c[i], N[i + 1], path)
    <3> HIDE DEF i
    <3> QED BY <1>1, <2>1 DEF Tails
  <2> QED BY <2>2, <2>3
<1>4. m \in G
  <2>1. \A d \in 0 .. m : d \in G
    <3> HIDE DEF G
    <3> QED BY <1>2, <1>3, CountsUp
  <2> HIDE DEF G
  <2> QED BY <2>1
<1>5. m + 1 - m = 1
  OBVIOUS
<1> QED BY <1>1, <1>4, <1>5

\* No segments lead nowhere else.
LEMMA FoldedEmpty == ASSUME NEW S, NEW path PROVE Folded(<<>>, S, path) = S
<1>1. Len(<<>>) = 0
  OBVIOUS
<1>2. PICK M : Tails(<<>>, S, path, M) /\ M[1] = Folded(<<>>, S, path)
  BY <1>1, FoldedTails
<1> QED BY <1>1, <1>2 DEF Tails

\* A segment at the end of a pattern is the first to lead to the places S.
LEMMA FoldedAppend ==
    ASSUME NEW X, NEW c \in Seq(X), NEW x \in X, NEW S, NEW path
    PROVE  Folded(Append(c, x), S, path) = Folded(c, StepOver(x, S, path), path)
<1> DEFINE a == Append(c, x)
           m == Len(c)
<1>1. /\ m \in Nat /\ Len(a) = m + 1 /\ a[m + 1] = x
      /\ \A i \in 1 .. m : a[i] = c[i]
  OBVIOUS
<1> HIDE DEF a
<1>2. PICK M : Tails(a, S, path, M) /\ M[1] = Folded(a, S, path)
  BY <1>1, FoldedTails
<1>3. M[m + 1] = StepOver(x, S, path)
  <2>1. m + 1 \in 1 .. Len(a) /\ M[Len(a) + 1] = S
    BY <1>1, <1>2 DEF Tails
  <2>2. M[m + 1] = StepOver(a[m + 1], M[(m + 1) + 1], path)
    BY <1>2, <2>1 DEF Tails
  <2> QED BY <1>1, <2>1, <2>2
<1>4. Tails(c, StepOver(x, S, path), path, M)
  <2>1. \A i \in 1 .. m : i \in 1 .. Len(a)
    BY <1>1
  <2>2. \A i \in 1 .. m : M[i] = StepOver(c[i], M[i + 1], path)
    BY <1>1, <1>2, <2>1 DEF Tails
  <2> QED BY <1>3, <2>2 DEF Tails
<1> QED BY <1>1, <1>2, <1>4, TailsAreFolded DEF a

\* Any run after any run is any run.
LEMMA RunsRun ==
    ASSUME NEW S \in SUBSET Int, NEW path, Len(path) \in Nat
    PROVE  AnyRun(AnyRun(S, path), path) = AnyRun(S, path)
<1>1. \A j \in 1 .. Len(path) + 1 :
        (\E k \in AnyRun(S, path) : j <= k) <=> (\E k \in S : j <= k)
  BY DEF AnyRun
<1> QED BY <1>1 DEF AnyRun

\* So a "**" after a "**" adds nothing.
LEMMA FoldedRuns ==
    ASSUME NEW X, NEW c \in Seq(X), c # <<>>, Last(c) = DoubleStar,
           NEW S \in SUBSET Int, NEW path, Len(path) \in Nat
    PROVE  Folded(c, S, path) = Folded(c, AnyRun(S, path), path)
<1> DEFINE m == Len(c)
           T == AnyRun(S, path)
<1>1. m \in Nat \ {0} /\ c[m] = DoubleStar
  BY DEF Last
<1>2. PICK M : Tails(c, S, path, M) /\ M[1] = Folded(c, S, path)
  BY <1>1, FoldedTails
<1>3. PICK N : N = [i \in 1 .. m + 1 |-> IF i = m + 1 THEN T ELSE M[i]]
  OBVIOUS
<1>4. N[m + 1] = T /\ \A i \in 1 .. m : N[i] = M[i]
  BY <1>1, <1>3
<1>5. M[m] = T /\ StepOver(c[m], T, path) = T
  BY <1>1, <1>2, RunsRun DEF Tails, StepOver
<1>6. \A i \in 1 .. m : N[i] = StepOver(c[i], N[i + 1], path)
  <2> SUFFICES ASSUME NEW i \in 1 .. m PROVE N[i] = StepOver(c[i], N[i + 1], path)
    OBVIOUS
  <2>1. CASE i = m
    BY <1>1, <1>4, <1>5, <2>1
  <2>2. CASE i # m
    <3>1. i + 1 \in 1 .. m
      BY <1>1, <2>2
    <3>2. N[i] = M[i] /\ N[i + 1] = M[i + 1]
      BY <1>4, <3>1
    <3> QED BY <1>2, <3>2 DEF Tails
  <2> QED BY <2>1, <2>2
<1>7. Tails(c, T, path, N)
  BY <1>4, <1>6 DEF Tails
<1>8. N[1] = M[1]
  <2>1. 1 \in 1 .. m
    BY <1>1
  <2> QED BY <1>4, <2>1
<1>9. N[1] = Folded(c, T, path)
  <2> HIDE DEF T
  <2> QED BY <1>1, <1>7, TailsAreFolded
<1> QED BY <1>2, <1>8, <1>9

\* What a written segment adds to a compiled pattern leads as the segment does.
LEMMA SegmentAdds ==
    ASSUME NEW X, NEW acc, NEW seg, NEW S \in SUBSET Int, NEW path, Len(path) \in Nat,
           acc.kind = "compiled", acc.segs \in Seq(X), Spread(seg) \in X, DoubleStar \in X,
           AddSegment(acc, seg).kind = "compiled"
    PROVE  /\ AddSegment(acc, seg).segs \in Seq(X)
           /\ Folded(AddSegment(acc, seg).segs, S, path)
                = Folded(acc.segs, Leading(seg, S, path), path)
<1> DEFINE c == acc.segs
           glob == Spread(seg)
           before == IF Doubled(seg) THEN Append(c, DoubleStar) ELSE c
           next == AddSegment(acc, seg)
<1>1. \A segs : Compiled(segs).kind = "compiled" /\ Compiled(segs).segs = segs
  BY DEF Compiled
<1>2. Refused.kind # "compiled" /\ Crashed.kind # "compiled"
  BY DEF Refused, Crashed
<1>3. before \in Seq(X)
  OBVIOUS
<1>4. \A T : Folded(Append(c, DoubleStar), T, path) = Folded(c, AnyRun(T, path), path)
  BY FoldedAppend DEF StepOver
<1>5. CASE glob = DoubleStar /\ Doubled(seg)
  <2>1. before = Append(c, DoubleStar) /\ before # <<>> /\ Last(before) = DoubleStar
    <3>1. c \in Seq(X)
      OBVIOUS
    <3> HIDE DEF c
    <3>2. /\ Append(c, DoubleStar) # <<>>
          /\ Append(c, DoubleStar)[Len(Append(c, DoubleStar))] = DoubleStar
      BY <3>1
    <3> QED BY <1>5, <3>2 DEF Last
  <2> HIDE DEF before
  <2>2. next = Compiled(before)
    BY <1>2, <1>5, <2>1 DEF AddSegment, before
  <2>3. Leading(seg, S, path) = AnyRun(S, path)
    BY <1>5 DEF Leading
  <2> QED BY <1>1, <1>3, <1>4, <2>1, <2>2, <2>3
<1>6. CASE glob = DoubleStar /\ ~ Doubled(seg)
  <2>1. before = c
    BY <1>6
  <2>2. Leading(seg, S, path) = AnyRun(S, path)
    BY <1>6 DEF Leading
  <2>3. c # <<>>
    BY <1>2, <1>6 DEF AddSegment
  <2>4. CASE Last(c) = DoubleStar
    <3>1. next = Compiled(c)
      BY <1>2, <1>6, <2>3, <2>4 DEF AddSegment
    <3>2. Folded(c, S, path) = Folded(c, AnyRun(S, path), path)
      BY <2>3, <2>4, FoldedRuns
    <3> QED BY <1>1, <2>2, <3>1, <3>2
  <2>5. CASE Last(c) # DoubleStar
    <3>1. next = Compiled(Append(c, DoubleStar))
      BY <1>2, <1>6, <2>3, <2>5 DEF AddSegment
    <3>2. Append(c, DoubleStar) \in Seq(X)
      OBVIOUS
    <3> HIDE DEF next
    <3>3. next.segs = Append(c, DoubleStar)
      BY <1>1, <3>1, Zenon
    <3> QED BY <1>4, <2>2, <3>2, <3>3 DEF next
  <2> QED BY <2>4, <2>5
<1>7. CASE glob # DoubleStar
  <2>1. next = Compiled(Append(before, glob))
    BY <1>2, <1>7 DEF AddSegment
  <2>2. Append(before, glob) \in Seq(X)
    BY <1>3
  <2>3. Folded(Append(before, glob), S, path) = Folded(before, OneMore(glob, S, path), path)
    <3> HIDE DEF before
    <3> QED BY <1>3, <1>7, FoldedAppend DEF StepOver
  <2>4. Folded(before, OneMore(glob, S, path), path) = Folded(c, Leading(seg, S, path), path)
    <3>1. CASE Doubled(seg)
      BY <1>4, <1>7, <3>1 DEF Leading
    <3>2. CASE ~ Doubled(seg)
      <4>1. glob = seg
        BY <3>2 DEF Doubled
      <4> QED BY <1>7, <3>2, <4>1 DEF Leading
    <3> QED BY <3>1, <3>2
  <2> HIDE DEF before, next
  <2>5. next.segs = Append(before, glob)
    BY <1>1, <2>1
  <2> QED BY <2>2, <2>3, <2>4, <2>5 DEF next
<1> QED BY <1>5, <1>6, <1>7

\* The places from which the rest of a written pattern leads, from each segment.
LEMMA MeansTails ==
    ASSUME NEW segs, NEW path, Len(segs) \in Nat, Len(path) \in Nat
    PROVE  \E R : /\ R[Len(segs) + 1] = 1 .. Len(path) + 1 /\ R[1] = Means(segs, path)
                  /\ \A i \in 1 .. Len(segs) : R[i] = Leading(segs[i], R[i + 1], path)
                  /\ \A i \in 1 .. Len(segs) + 1 : R[i] \subseteq 1 .. Len(path) + 1
<1> DEFINE m == Len(segs)
           places == 1 .. Len(path) + 1
           f == CHOOSE g : Leads(segs, places, path, m, g)
<1>1. f[0] = places /\ \A d \in 1 .. m : f[d] = Leading(segs[m - d + 1], f[d - 1], path)
  <2>1. Leads(segs, places, path, m, f)
    <3>1. \E g : Leads(segs, places, path, m, g)
      BY LeadWalkHasAValue
    <3> QED BY <3>1
  <2>2. \A S, g : Leads(segs, S, path, m, g) =>
          g[0] = S /\ \A d \in 1 .. m : g[d] = Leading(segs[m - d + 1], g[d - 1], path)
    BY LeadWalkHasAValue DEF Leads
  <2> HIDE DEF f
  <2> QED BY <2>1, <2>2
<1>2. Means(segs, path) = f[m]
  BY DEF Means, Leads
<1> HIDE DEF f
<1>3. PICK R : R = [i \in 1 .. m + 1 |-> f[m - i + 1]]
  OBVIOUS
<1>4. \A i \in 1 .. m + 1 : R[i] = f[m - i + 1]
  BY <1>3
<1>5. R[m + 1] = places /\ R[1] = f[m]
  <2>1. m + 1 \in 1 .. m + 1 /\ 1 \in 1 .. m + 1 /\ m - (m + 1) + 1 = 0 /\ m - 1 + 1 = m
    OBVIOUS
  <2> QED BY <1>1, <1>4, <2>1
<1>6. ASSUME NEW i \in 1 .. m PROVE R[i] = Leading(segs[i], R[i + 1], path)
  <2> DEFINE d == m - i + 1
  <2>1. d \in 1 .. m /\ m - d + 1 = i /\ d - 1 = m - (i + 1) + 1
    OBVIOUS
  <2>2. i \in 1 .. m + 1 /\ i + 1 \in 1 .. m + 1
    OBVIOUS
  <2>3. R[i] = f[d] /\ R[i + 1] = f[d - 1]
    BY <1>4, <2>1, <2>2
  <2> HIDE DEF d
  <2> QED BY <1>1, <2>1, <2>3
<1>7. \A i \in 1 .. m + 1 : R[i] \subseteq places
  <2> SUFFICES ASSUME NEW i \in 1 .. m PROVE R[i] \subseteq places
    BY <1>5
  <2>1. \A S : AnyRun(S, path) \subseteq places
    BY DEF AnyRun
  <2>2. \A S, glob : OneMore(glob, S, path) \subseteq places
    BY DEF OneMore
  <2>3. \/ \E S : R[i] = AnyRun(S, path)
        \/ \E S, glob : R[i] = OneMore(glob, S, path)
    BY <1>6 DEF Leading
  <2> QED BY <2>1, <2>2, <2>3
<1> QED BY <1>2, <1>5, <1>6, <1>7

\* The kinds of a compiled pattern; only one with no segments is dropped.
LEMMA CompiledKinds ==
    ASSUME NEW p, Len(p.segs) \in Nat
    PROVE  /\ CompileOne(p).kind \in {"compiled", "dropped", "refused", "crashed"}
           /\ CompileOne(p).kind = "dropped" => p.segs = <<>>
<1> DEFINE m == Len(p.segs)
           walk == CHOOSE f : Compiles(p, m, f)
           Kinds == {"compiled", "refused", "crashed"}
           G == {k \in 0 .. m : walk[k].kind \in Kinds}
<1>1. CompileOne(p) = IF p.long THEN Refused ELSE IF p.segs = <<>> THEN Dropped ELSE walk[m]
  BY DEF CompileOne, Compiles
<1>2. /\ walk[0] = Compiled(IF p.anchored THEN <<>> ELSE <<DoubleStar>>)
      /\ \A i \in 1 .. m : walk[i] = AddSegment(walk[i - 1], p.segs[i])
  <2>1. Compiles(p, m, walk)
    <3>1. \E f : Compiles(p, m, f)
      BY CompileWalkHasAValue
    <3> QED BY <3>1
  <2>2. \A f : Compiles(p, m, f) =>
          /\ f[0] = Compiled(IF p.anchored THEN <<>> ELSE <<DoubleStar>>)
          /\ \A i \in 1 .. m : f[i] = AddSegment(f[i - 1], p.segs[i])
    <3>1. m \in Nat
      OBVIOUS
    <3> HIDE DEF m
    <3> QED BY <3>1, CompileWalkHasAValue DEF Compiles
  <2> HIDE DEF walk
  <2> QED BY <2>1, <2>2
<1> HIDE DEF walk
<1>3. 0 \in G
  BY <1>2 DEF Compiled
<1>4. ASSUME NEW k \in 1 .. m, k - 1 \in G PROVE k \in G
  <2>1. walk[k - 1].kind \in Kinds
    BY <1>4
  <2>2. \A acc, seg : acc.kind \in Kinds => AddSegment(acc, seg).kind \in Kinds
    BY DEF AddSegment, Compiled, Refused, Crashed
  <2>3. walk[k].kind \in Kinds
    BY <1>2, <2>1, <2>2
  <2> QED BY <2>3
<1>5. m \in G
  <2>1. \A k \in 0 .. m : k \in G
    <3> HIDE DEF G
    <3> QED BY <1>3, <1>4, CountsUp
  <2> HIDE DEF G
  <2> QED BY <2>1
<1> QED BY <1>1, <1>5 DEF Refused, Dropped

\* What the compiled form of a pattern has.
Globs(p) == {DoubleStar} \cup {Spread(seg) : seg \in Range(p.segs)}

\* A compiled pattern catches the paths that the written one means.
LEMMA CompiledCatches ==
    ASSUME NEW p, IsSeq(p.segs), p.anchored \in BOOLEAN, NEW path, Len(path) \in Nat,
           CompileOne(p).kind = "compiled"
    PROVE  /\ CompileOne(p).segs \in Seq(Globs(p))
           /\ Catches(CompileOne(p).segs, path) <=> Wanted(p, path)
<1> DEFINE m == Len(p.segs)
           X == Globs(p)
           places == 1 .. Len(path) + 1
           walk == CHOOSE f : Compiles(p, m, f)
           first == IF p.anchored THEN <<>> ELSE <<DoubleStar>>
<1>0. m \in Nat /\ \A i \in 1 .. m : p.segs[i] \in Range(p.segs)
  BY DEF IsSeq, Range
<1>1. CompileOne(p) = walk[m] /\ p.segs # <<>>
  BY DEF CompileOne, Compiles, Refused, Dropped
<1>2. walk[0] = Compiled(first) /\ \A i \in 1 .. m : walk[i] = AddSegment(walk[i - 1], p.segs[i])
  <2>1. Compiles(p, m, walk)
    <3>1. \E f : Compiles(p, m, f)
      BY <1>0, CompileWalkHasAValue
    <3> QED BY <3>1
  <2>2. \A f : Compiles(p, m, f) =>
          /\ f[0] = Compiled(first)
          /\ \A i \in 1 .. m : f[i] = AddSegment(f[i - 1], p.segs[i])
    <3> HIDE DEF m
    <3> QED BY <1>0, CompileWalkHasAValue DEF Compiles
  <2> HIDE DEF walk
  <2> QED BY <2>1, <2>2
<1> HIDE DEF walk
<1>3. PICK R : /\ R[m + 1] = places /\ R[1] = Means(p.segs, path)
               /\ \A i \in 1 .. m : R[i] = Leading(p.segs[i], R[i + 1], path)
               /\ \A i \in 1 .. m + 1 : R[i] \subseteq places
  BY <1>0, MeansTails
<1>4. DoubleStar \in X /\ \A i \in 1 .. m : Spread(p.segs[i]) \in X
  BY <1>0 DEF Globs
<1> HIDE DEF X
<1> DEFINE Good(k) == walk[k].kind = "compiled" =>
                        /\ walk[k].segs \in Seq(X)
                        /\ Folded(walk[k].segs, R[k + 1], path) = Folded(first, R[1], path)
           G == {k \in 0 .. m : Good(k)}
<1>5. 0 \in G
  <2>1. first \in Seq(X)
    BY <1>4
  <2>2. walk[0].segs = first
    BY <1>2 DEF Compiled
  <2> HIDE DEF first
  <2>3. Good(0)
    BY <2>1, <2>2
  <2> HIDE DEF Good
  <2> QED BY <1>0, <2>3
<1> HIDE DEF first
<1>6. ASSUME NEW k \in 1 .. m, k - 1 \in G PROVE k \in G
  <2> SUFFICES ASSUME walk[k].kind = "compiled"
               PROVE  /\ walk[k].segs \in Seq(X)
                      /\ Folded(walk[k].segs, R[k + 1], path) = Folded(first, R[1], path)
    BY <1>0
  <2> DEFINE acc == walk[k - 1]
             seg == p.segs[k]
  <2>1. walk[k] = AddSegment(acc, seg)
    BY <1>2
  <2>2. acc.kind = "compiled"
    <3> HIDE DEF acc, seg
    <3> QED BY <2>1 DEF AddSegment
  <2>3. acc.segs \in Seq(X) /\ Folded(acc.segs, R[k], path) = Folded(first, R[1], path)
    <3>1. (k - 1) + 1 = k
      BY <1>0
    <3> QED BY <1>6, <2>2, <3>1
  <2>4. R[k + 1] \in SUBSET Int /\ R[k] = Leading(seg, R[k + 1], path)
    <3>1. k \in 1 .. m /\ k + 1 \in 1 .. m + 1
      BY <1>0
    <3>2. places \subseteq Int
      OBVIOUS
    <3> HIDE DEF places
    <3> QED BY <1>3, <3>1, <3>2
  <2>5. Spread(seg) \in X
    BY <1>4
  <2> HIDE DEF acc, seg
  <2>6. AddSegment(acc, seg).kind = "compiled" /\ Len(path) \in Nat
    BY <2>1
  <2>7. /\ AddSegment(acc, seg).segs \in Seq(X)
        /\ Folded(AddSegment(acc, seg).segs, R[k + 1], path)
             = Folded(acc.segs, Leading(seg, R[k + 1], path), path)
    BY <1>4, <2>2, <2>3, <2>4, <2>5, <2>6, SegmentAdds
  <2> QED BY <2>1, <2>3, <2>4, <2>7
<1>7. m \in G
  <2>1. \A k \in 0 .. m : k \in G
    <3> HIDE DEF G, m
    <3> QED BY <1>0, <1>5, <1>6, CountsUp
  <2> HIDE DEF G
  <2> QED BY <1>0, <2>1
<1>8. walk[m].segs \in Seq(X) /\ Folded(walk[m].segs, places, path) = Folded(first, R[1], path)
  BY <1>1, <1>3, <1>7
<1>9. 1 \in Folded(first, R[1], path) <=> Wanted(p, path)
  <2>0. R[1] = Means(p.segs, path) /\ R[1] \subseteq places
    <3>1. 1 \in 1 .. m + 1
      BY <1>0
    <3> QED BY <1>3, <3>1
  <2>1. CASE p.anchored
    <3>1. Folded(first, R[1], path) = R[1]
      BY <2>1, FoldedEmpty DEF first
    <3> QED BY <1>1, <2>0, <2>1, <3>1 DEF Wanted
  <2>2. CASE ~ p.anchored
    <3>1. first = Append(<<>>, DoubleStar) /\ <<>> \in Seq(X)
      BY <2>2 DEF first
    <3>2. Folded(first, R[1], path) = AnyRun(R[1], path)
      <4>0. PICK none : none = <<>>
        OBVIOUS
      <4>1. none \in Seq(X) /\ first = Append(none, DoubleStar)
        BY <3>1, <4>0
      <4>2. Folded(first, R[1], path) = Folded(none, StepOver(DoubleStar, R[1], path), path)
        BY <1>4, <4>1, FoldedAppend
      <4>3. StepOver(DoubleStar, R[1], path) = AnyRun(R[1], path)
        BY DEF StepOver
      <4> QED BY <4>0, <4>2, <4>3, FoldedEmpty
    <3>3. 1 \in AnyRun(R[1], path) <=> R[1] # {}
      BY <2>0 DEF AnyRun
    <3> QED BY <1>1, <2>0, <2>2, <3>2, <3>3 DEF Wanted
  <2> QED BY <2>1, <2>2
<1> QED BY <1>1, <1>8, <1>9 DEF Catches, X

\* Some pattern of a written list means a path.
AnyWanted(patterns, path) == \E i \in DOMAIN patterns : Wanted(patterns[i], path)

\* A compiled list, each pattern a sequence of globs.
IsRules(rules) ==
    Len(rules) \in Nat /\ \A i \in 1 .. Len(rules) : Len(rules[i]) \in Nat

\* The rules of a list of patterns catch the paths that one of them means.
LEMMA CompiledRules ==
    ASSUME NEW patterns, IsPatternList(patterns), Compile(patterns).kind = "rules"
    PROVE  LET rules == Compile(patterns).patterns
           IN  /\ IsRules(rules)
               /\ \A path : Len(path) \in Nat =>
                    ((\E i \in 1 .. Len(rules) : Catches(rules[i], path))
                      <=> AnyWanted(patterns, path))
<1> DEFINE n == Len(patterns)
           Y == {CompileOne(p).segs : p \in {q \in Range(patterns) : CompileOne(q).kind = "compiled"}}
           walk == CHOOSE f : Adds(patterns, n, f)
           Caught(rules, path) == \E i \in 1 .. Len(rules) : Catches(rules[i], path)
           Upto(k, path) == \E i \in 1 .. k : Wanted(patterns[i], path)
<1>1. /\ n \in Nat /\ DOMAIN patterns = 1 .. n
      /\ \A i \in 1 .. n : patterns[i] \in Range(patterns)
  BY DEF IsPatternList, IsSeq, Range
<1>2. \A p \in Range(patterns) : IsSeq(p.segs) /\ p.anchored \in BOOLEAN /\ Len(p.segs) \in Nat
  BY DEF IsPatternList, IsSeq
<1>3. Compile(patterns) = walk[n]
  BY DEF Compile, Adds
<1>4. walk[0] = Rules(<<>>) /\ \A i \in 1 .. n : walk[i] = AddPattern(walk[i - 1], patterns[i])
  <2>1. Adds(patterns, n, walk)
    <3>1. \E f : Adds(patterns, n, f)
      BY <1>1, PatternWalkHasAValue
    <3> QED BY <3>1
  <2>2. \A f : Adds(patterns, n, f) =>
          f[0] = Rules(<<>>) /\ \A i \in 1 .. n : f[i] = AddPattern(f[i - 1], patterns[i])
    <3> HIDE DEF n
    <3> QED BY <1>1, PatternWalkHasAValue DEF Adds
  <2> HIDE DEF walk
  <2> QED BY <2>1, <2>2
<1> HIDE DEF walk, n
<1> DEFINE Good(k) == walk[k].kind = "rules" =>
                        /\ walk[k].patterns \in Seq(Y)
                        /\ \A path : Len(path) \in Nat =>
                             (Caught(walk[k].patterns, path) <=> Upto(k, path))
           G == {k \in 0 .. n : Good(k)}
<1>5. Good(0)
  <2>1. walk[0].patterns = <<>> /\ <<>> \in Seq(Y) /\ Len(<<>>) = 0
    BY <1>4 DEF Rules
  <2>2. \A path : ~ Caught(<<>>, path) /\ ~ Upto(0, path)
    BY <2>1
  <2> HIDE DEF Caught, Upto, Y
  <2> QED BY <2>1, <2>2
<1>6. ASSUME NEW k \in 1 .. n, Good(k - 1) PROVE Good(k)
  <2> DEFINE was == walk[k - 1]
             p == patterns[k]
             one == CompileOne(p)
             now == walk[k]
  <2> SUFFICES ASSUME now.kind = "rules"
               PROVE  /\ now.patterns \in Seq(Y)
                      /\ \A path : Len(path) \in Nat => (Caught(now.patterns, path) <=> Upto(k, path))
    OBVIOUS
  <2>1. Good(k - 1)
    BY <1>6
  <2>2. now = AddPattern(was, p)
    BY <1>4
  <2>3. p \in Range(patterns) /\ IsSeq(p.segs) /\ p.anchored \in BOOLEAN /\ Len(p.segs) \in Nat
    BY <1>1, <1>2
  <2> HIDE DEF was, p, now, one
  <2>4. /\ one.kind \in {"compiled", "dropped", "refused", "crashed"}
        /\ one.kind = "dropped" => p.segs = <<>>
    BY <2>3, CompiledKinds DEF one
  <2>5. was.kind = "rules"
    BY <2>2 DEF AddPattern
  <2>6. /\ was.patterns \in Seq(Y)
        /\ \A path : Len(path) \in Nat => (Caught(was.patterns, path) <=> Upto(k - 1, path))
    BY <2>1, <2>5 DEF was
  <2>7. \A path : Upto(k, path) <=> Upto(k - 1, path) \/ Wanted(p, path)
    <3>1. 1 .. k = (1 .. k - 1) \cup {k}
      BY <1>1
    <3> QED BY <3>1 DEF p
  <2>8. CASE one.kind = "dropped"
    <3>1. now = was
      BY <2>2, <2>8 DEF AddPattern, one
    <3>2. \A path : ~ Wanted(p, path)
      BY <2>4, <2>8 DEF Wanted
    <3> HIDE DEF Caught, Upto, Y
    <3> QED BY <2>6, <2>7, <3>1, <3>2
  <2>9. CASE one.kind = "compiled"
    <3>1. now.patterns = Append(was.patterns, one.segs)
      BY <2>2, <2>5, <2>9 DEF AddPattern, one, Rules
    <3>2. one.segs \in Y
      BY <2>3, <2>9 DEF one
    <3>3. now.patterns \in Seq(Y)
      <4> HIDE DEF Y
      <4> QED BY <2>6, <3>1, <3>2
    <3>4. ASSUME NEW path, Len(path) \in Nat
          PROVE  Caught(now.patterns, path) <=> Caught(was.patterns, path) \/ Catches(one.segs, path)
      <4> DEFINE a == Append(was.patterns, one.segs)
                 l == Len(was.patterns)
      <4>1. /\ l \in Nat /\ Len(a) = l + 1 /\ a[l + 1] = one.segs
            /\ \A i \in 1 .. l : a[i] = was.patterns[i]
        <5> HIDE DEF Y
        <5> QED BY <2>6, <3>2
      <4> HIDE DEF a
      <4>2. 1 .. l + 1 = (1 .. l) \cup {l + 1}
        BY <4>1
      <4> QED BY <3>1, <4>1, <4>2 DEF a
    <3>5. \A path : Len(path) \in Nat => (Catches(one.segs, path) <=> Wanted(p, path))
      BY <2>3, <2>9, CompiledCatches DEF one
    <3> HIDE DEF Caught, Upto, Y
    <3> QED BY <2>6, <2>7, <3>3, <3>4, <3>5
  <2>10. CASE one.kind \in {"refused", "crashed"}
    <3>1. now = one
      BY <2>2, <2>5, <2>10 DEF AddPattern, one
    <3> QED BY <2>10, <3>1
  <2> QED BY <2>4, <2>8, <2>9, <2>10
<1>7. Good(n)
  <2> HIDE DEF Good
  <2>1. 0 \in G /\ \A k \in 1 .. n : k - 1 \in G => k \in G
    BY <1>1, <1>5, <1>6
  <2>2. \A k \in 0 .. n : k \in G
    <3> HIDE DEF G
    <3> QED BY <1>1, <2>1, CountsUp
  <2> QED BY <1>1, <2>2
<1> DEFINE rules == Compile(patterns).patterns
<1>8. /\ rules \in Seq(Y)
      /\ \A path : Len(path) \in Nat => (Caught(rules, path) <=> Upto(n, path))
  <2> HIDE DEF Caught, Upto, Y
  <2> QED BY <1>3, <1>7
<1>9. \A c \in Y : Len(c) \in Nat
  BY <1>2, CompiledCatches, EmptySeq
<1>10. IsRules(rules)
  <2> HIDE DEF Y, rules
  <2> QED BY <1>8, <1>9 DEF IsRules
<1>11. \A path : Upto(n, path) <=> AnyWanted(patterns, path)
  BY <1>1 DEF AnyWanted
<1> HIDE DEF Upto
<1> QED BY <1>8, <1>10, <1>11

\* Rules.Match answers for the path and for what the prefix leaves of it.
LEMMA MatchMeans ==
    ASSUME NEW patterns, IsPatternList(patterns), Compile(patterns).kind = "rules",
           NEW path, NEW prefix, IsSeq(path), IsSeq(prefix), Priced(patterns, path),
           NEW budget \in Budgets
    PROVE  Decides(Match(Compile(patterns).patterns, path, prefix, budget), budget,
                   WantedUnder(patterns, path, prefix))
<1> DEFINE rules == Compile(patterns).patterns
           rest == SubSeq(path, Len(prefix) + 1, Len(path))
           cut == prefix # <<>> /\ IsStrictPrefix(prefix, path)
           whole == MatchPath(rules, path, budget)
           below == MatchPath(rules, rest, whole.budget)
           got == Match(rules, path, prefix, budget)
<1>1. /\ IsRules(rules)
      /\ \A p : Len(p) \in Nat =>
           ((\E i \in 1 .. Len(rules) : Catches(rules[i], p)) <=> AnyWanted(patterns, p))
  BY CompiledRules
<1>2. /\ path \in Seq(Range(path)) /\ Len(path) \in Nat /\ Len(prefix) \in Nat
      /\ \A j \in 1 .. Len(path) : path[j] \in Range(path)
  BY DEF IsSeq, Range
<1>3. \A i \in 1 .. Len(rules) : \A j \in 1 .. Len(rules[i]), seg \in Range(path) :
        Cost(rules[i][j], seg) \in Nat
  BY DEF Priced
<1>4. \A i \in 1 .. Len(rules) : Costed(rules[i], path)
  BY <1>2, <1>3 DEF Costed
<1>5. Decides(whole, budget, AnyWanted(patterns, path))
  <2> HIDE DEF rules
  <2>1. Decides(whole, budget, \E i \in 1 .. Len(rules) : Catches(rules[i], path))
    BY <1>1, <1>2, <1>4, PathMatches DEF IsRules
  <2> QED BY <1>1, <1>2, <2>1 DEF Decides
<1>6. WantedUnder(patterns, path, prefix)
        <=> AnyWanted(patterns, path) \/ (cut /\ AnyWanted(patterns, rest))
  BY DEF WantedUnder, AnyWanted
<1>7. ASSUME cut PROVE Decides(below, whole.budget, AnyWanted(patterns, rest))
  <2>1. Len(prefix) + 1 \in 1 .. Len(path) + 1
    BY <1>2, <1>7 DEF IsStrictPrefix, IsPrefix
  <2>2. /\ Len(rest) \in Nat
        /\ \A j \in 1 .. Len(rest) : rest[j] \in Range(path)
    BY <1>2, <2>1
  <2> HIDE DEF rest, rules
  <2>3. \A i \in 1 .. Len(rules) : Costed(rules[i], rest)
    BY <1>3, <2>2 DEF Costed
  <2>4. whole.budget \in Budgets
    BY <1>5 DEF Decides
  <2>5. Decides(below, whole.budget, \E i \in 1 .. Len(rules) : Catches(rules[i], rest))
    BY <1>1, <2>2, <2>3, <2>4, PathMatches DEF IsRules
  <2> QED BY <1>1, <2>2, <2>5 DEF Decides
<1>8. got = IF whole.matched \/ ~ cut THEN whole ELSE below
  BY DEF Match
<1> HIDE DEF got, whole, below, cut, rest, rules
<1>9. Decides(got, budget, WantedUnder(patterns, path, prefix))
  BY <1>5, <1>6, <1>7, <1>8 DEF Decides
<1> QED BY <1>9 DEF got, rules

----------------------------------------------------------------------------
(* Pipeline: the changed files a pull request is blamed for. *)

\* The walk of Sift over the paths, in some order.
Sifts(order, patterns, prefix, budget, n, f) ==
    f = [i \in 0 .. n |-> IF i = 0 THEN [kept |-> {}, budget |-> budget]
                         ELSE SiftPath(f[i - 1], order[i], patterns, prefix)]

\* It has a value.
LEMMA SiftWalkHasAValue ==
    ASSUME NEW order, NEW patterns, NEW prefix, NEW budget, NEW n \in Nat
    PROVE  /\ \E f : Sifts(order, patterns, prefix, budget, n, f)
           /\ \A f : Sifts(order, patterns, prefix, budget, n, f) =>
                /\ f[0] = [kept |-> {}, budget |-> budget]
                /\ \A i \in 1 .. n : f[i] = SiftPath(f[i - 1], order[i], patterns, prefix)
<1> DEFINE One(v, i) == SiftPath(v, order[i], patterns, prefix)
           Zero == [kept |-> {}, budget |-> budget]
<1> HIDE DEF One, Zero
<1> DEFINE Solves(f, k) == f = [i \in 0 .. k |-> IF i = 0 THEN Zero ELSE One(f[i - 1], i)]
           G == {k \in Nat : \E f : Solves(f, k)}
<1>1. 0 \in G
  <2> DEFINE e == [i \in 0 .. 0 |-> Zero]
  <2>1. Solves(e, 0)
    OBVIOUS
  <2> QED BY <2>1
<1>2. ASSUME NEW k \in 1 .. n, k - 1 \in G PROVE k \in G
  <2>1. PICK f : Solves(f, k - 1)
    BY <1>2
  <2>2. PICK g : g = [i \in 0 .. k |-> IF i = 0 THEN Zero ELSE One(f[i - 1], i)]
    OBVIOUS
  <2>3. \A i \in 0 .. k : i # 0 => g[i - 1] = f[i - 1]
    <3>1. \A i \in 0 .. k - 1 : f[i] = IF i = 0 THEN Zero ELSE One(f[i - 1], i)
      BY <2>1
    <3>2. \A i \in 0 .. k : g[i] = IF i = 0 THEN Zero ELSE One(f[i - 1], i)
      BY <2>2
    <3>3. \A i \in 0 .. k : i # 0 => i - 1 \in 0 .. k - 1 /\ i - 1 \in 0 .. k
      OBVIOUS
    <3> QED BY <3>1, <3>2, <3>3
  <2>4. Solves(g, k)
    BY <2>2, <2>3
  <2> QED BY <2>4
<1>3. n \in G
  <2>1. n \in 0 .. n
    OBVIOUS
  <2> HIDE DEF G
  <2> QED BY <1>1, <1>2, <2>1, CountsUp
<1>4. \A f : Solves(f, n) => f[0] = Zero /\ \A i \in 1 .. n : f[i] = One(f[i - 1], i)
  <2> SUFFICES ASSUME NEW f, Solves(f, n)
               PROVE  f[0] = Zero /\ \A i \in 1 .. n : f[i] = One(f[i - 1], i)
    OBVIOUS
  <2>1. \A i \in 0 .. n : f[i] = IF i = 0 THEN Zero ELSE One(f[i - 1], i)
    OBVIOUS
  <2>2. 0 \in 0 .. n /\ \A i \in 1 .. n : i \in 0 .. n /\ i # 0
    OBVIOUS
  <2> HIDE DEF Solves
  <2> QED BY <2>1, <2>2
<1> QED BY <1>3, <1>4 DEF One, Zero, Sifts

\* A finite set in some order, each of its items once or more.
LEMMA ListHasAll ==
    ASSUME NEW S, IsFiniteSet(S)
    PROVE  LET order == SetToSeq(S)
               n == Cardinality(S)
           IN  /\ n \in Nat
               /\ \A i \in 1 .. n : order[i] \in S
               /\ \A x \in S : \E i \in 1 .. n : order[i] = x
<1> DEFINE n == Cardinality(S)
           order == SetToSeq(S)
<1>1. n \in Nat /\ ExistsBijection(1 .. n, S)
  BY FS_CardinalityType
<1>2. PICK f \in Bijection(1 .. n, S) : TRUE
  BY <1>1 DEF ExistsBijection
<1>3. f \in [1 .. n -> S] /\ IsInjective(f)
  BY <1>2 DEF Bijection, Injection, IsInjective
<1>4. order = CHOOSE g \in [1 .. n -> S] : IsInjective(g)
  BY DEF SetToSeq
<1> HIDE DEF order
<1>5. order \in [1 .. n -> S] /\ IsInjective(order)
  BY <1>3, <1>4
<1>6. order \in Injection(1 .. n, S)
  BY <1>5 DEF Injection, IsInjective
<1>7. Cardinality(1 .. n) = n
  BY <1>1, FS_Interval
<1>8. order \in Surjection(1 .. n, S)
  BY <1>6, <1>7, FS_Injection
<1> QED BY <1>1, <1>5, <1>8 DEF Surjection, order

\* The paths the code matches: sequences, at a cost.
Matchable(patterns, paths) ==
    /\ IsPatternList(patterns) /\ Compile(patterns).kind = "rules"
    /\ IsFiniteSet(paths) /\ \A path \in paths : IsSeq(path) /\ Priced(patterns, path)

\* Sifted paths are those that no pattern means, or the budget is spent.
LEMMA SiftKeeps ==
    ASSUME NEW patterns, NEW paths, Matchable(patterns, paths), NEW prefix, IsSeq(prefix),
           NEW budget \in Budgets
    PROVE  LET got == Sift(Compile(patterns).patterns, paths, prefix, budget)
           IN  /\ got.budget \in Budgets /\ (Spent(budget) => Spent(got.budget))
               /\ got.kept \subseteq paths
               /\ \/ Spent(got.budget)
                  \/ got.kept = {p \in paths : ~ WantedUnder(patterns, p, prefix)}
<1> DEFINE n == Cardinality(paths)
           order == SetToSeq(paths)
           rules == Compile(patterns).patterns
           walk == CHOOSE f : Sifts(order, rules, prefix, budget, n, f)
           Left(k) == {p \in {order[i] : i \in 1 .. k} : ~ WantedUnder(patterns, p, prefix)}
           Good(k) == /\ walk[k].budget \in Budgets /\ (Spent(budget) => Spent(walk[k].budget))
                      /\ walk[k].kept \subseteq paths
                      /\ Spent(walk[k].budget) \/ walk[k].kept = Left(k)
           G == {k \in 0 .. n : Good(k)}
<1>1. /\ n \in Nat /\ \A i \in 1 .. n : order[i] \in paths
      /\ \A p \in paths : \E i \in 1 .. n : order[i] = p
  BY ListHasAll DEF Matchable
<1>2. Sift(rules, paths, prefix, budget) = walk[n]
  BY DEF Sift, Sifts
<1>3. /\ walk[0] = [kept |-> {}, budget |-> budget]
      /\ \A i \in 1 .. n : walk[i] = SiftPath(walk[i - 1], order[i], rules, prefix)
  <2>1. Sifts(order, rules, prefix, budget, n, walk)
    <3>1. \E f : Sifts(order, rules, prefix, budget, n, f)
      BY <1>1, SiftWalkHasAValue
    <3> QED BY <3>1
  <2>2. \A f : Sifts(order, rules, prefix, budget, n, f) =>
          /\ f[0] = [kept |-> {}, budget |-> budget]
          /\ \A i \in 1 .. n : f[i] = SiftPath(f[i - 1], order[i], rules, prefix)
    <3> HIDE DEF n, order, rules
    <3> SUFFICES ASSUME NEW f, Sifts(order, rules, prefix, budget, n, f)
                 PROVE  /\ f[0] = [kept |-> {}, budget |-> budget]
                        /\ \A i \in 1 .. n : f[i] = SiftPath(f[i - 1], order[i], rules, prefix)
      OBVIOUS
    <3>1. 0 \in 0 .. n /\ \A i \in 1 .. n : i \in 0 .. n /\ i # 0
      BY <1>1
    <3>2. \A i \in 0 .. n : f[i] = IF i = 0 THEN [kept |-> {}, budget |-> budget]
                                  ELSE SiftPath(f[i - 1], order[i], rules, prefix)
      BY DEF Sifts
    <3> QED BY <3>1, <3>2
  <2> HIDE DEF walk
  <2> QED BY <2>1, <2>2
<1> HIDE DEF walk, order, n
<1>4. Good(0)
  <2>1. Left(0) = {}
    OBVIOUS
  <2> HIDE DEF Left
  <2> QED BY <1>3, <2>1
<1>5. ASSUME NEW k \in 1 .. n, Good(k - 1) PROVE Good(k)
  <2> DEFINE was == walk[k - 1]
             p == order[k]
             m == Match(rules, p, prefix, was.budget)
  <2>1. walk[k] = [kept |-> IF m.matched THEN was.kept ELSE was.kept \cup {p}, budget |-> m.budget]
    BY <1>3 DEF SiftPath
  <2>2. /\ was.budget \in Budgets /\ (Spent(budget) => Spent(was.budget))
        /\ was.kept \subseteq paths /\ (Spent(was.budget) \/ was.kept = Left(k - 1))
    BY <1>5
  <2>3. p \in paths
    BY <1>1
  <2> HIDE DEF was, p, rules
  <2>4. Decides(m, was.budget, WantedUnder(patterns, p, prefix))
    BY <2>2, <2>3, MatchMeans DEF Matchable, rules
  <2>5. Left(k) = IF WantedUnder(patterns, p, prefix) THEN Left(k - 1) ELSE Left(k - 1) \cup {p}
    <3>1. 1 .. k = (1 .. k - 1) \cup {k}
      BY <1>1
    <3> QED BY <3>1 DEF p
  <2> DEFINE now == walk[k]
             wanted == WantedUnder(patterns, p, prefix)
  <2> HIDE DEF Left, m, now, wanted
  <2>6. now.budget = m.budget /\ now.kept = IF m.matched THEN was.kept ELSE was.kept \cup {p}
    BY <2>1 DEF now
  <2>7. /\ m.budget \in Budgets /\ (Spent(was.budget) => Spent(m.budget))
        /\ Spent(m.budget) \/ (m.matched <=> wanted)
    BY <2>4 DEF Decides, wanted
  <2>8. Spent(m.budget) \/ was.kept = Left(k - 1)
    BY <2>2, <2>7
  <2>9. Spent(now.budget) \/ now.kept = Left(k)
    BY <2>5, <2>6, <2>7, <2>8 DEF wanted
  <2>10. now.kept \subseteq paths
    BY <2>2, <2>3, <2>6
  <2> QED BY <2>2, <2>6, <2>7, <2>9, <2>10 DEF now
<1>6. Good(n)
  <2> HIDE DEF Good
  <2>1. 0 \in G /\ \A k \in 1 .. n : k - 1 \in G => k \in G
    BY <1>1, <1>4, <1>5
  <2>2. \A k \in 0 .. n : k \in G
    <3> HIDE DEF G
    <3> QED BY <1>1, <2>1, CountsUp
  <2> QED BY <1>1, <2>2
<1>7. Left(n) = {p \in paths : ~ WantedUnder(patterns, p, prefix)}
  BY <1>1
<1> HIDE DEF Left, rules
<1> QED BY <1>2, <1>6, <1>7 DEF rules

\* No patterns compile to rules that match nothing.
LEMMA CompileNone == Compile(<<>>) = Rules(<<>>)
<1> DEFINE walk == CHOOSE f : Adds(<<>>, 0, f)
<1>1. Compile(<<>>) = walk[0]
  BY DEF Compile, Adds
<1>2. \E f : Adds(<<>>, 0, f)
  BY PatternWalkHasAValue
<1>3. Adds(<<>>, 0, walk)
  BY <1>2
<1>4. \A f : Adds(<<>>, 0, f) => f[0] = Rules(<<>>)
  BY DEF Adds
<1> HIDE DEF walk
<1> QED BY <1>1, <1>3, <1>4

\* What is asked of a part: its files and the changed paths can be matched.
IsPart(sub, added) ==
    /\ Matchable(sub.repo \o sub.upload, DOMAIN sub.profile) /\ IsSeq(sub.prefix)
    /\ Matchable(sub.repo \o sub.upload, {a.path : a \in added})

\* Of a part that is taken no ignored file is kept, and something is left.
LEMMA FilterKeeps ==
    ASSUME NEW sub, NEW added, IsPart(sub, added), NEW units \in Int,
           applyIgnore(sub, units).error = "none"
    PROVE  LET got == applyIgnore(sub, units)
               patterns == sub.repo \o sub.upload
           IN  /\ got.patterns = Compile(patterns).patterns /\ got.budget \in Budgets
               /\ DOMAIN got.profile
                    = {p \in DOMAIN sub.profile : ~ WantedUnder(patterns, p, sub.prefix)}
               /\ DOMAIN got.profile # {} \/ DOMAIN sub.profile = {}
<1> DEFINE patterns == sub.repo \o sub.upload
           rules == Compile(patterns).patterns
           got == applyIgnore(sub, units)
           sifted == Sift(rules, DOMAIN sub.profile, sub.prefix, Limit(units))
           kept == {p \in DOMAIN sub.profile : ~ WantedUnder(patterns, p, sub.prefix)}
<1>1. CASE patterns = <<>>
  <2>1. got = [error |-> "none", profile |-> sub.profile, patterns |-> <<>>, budget |-> Unlimited]
    BY <1>1 DEF applyIgnore
  <2>2. rules = <<>>
    BY <1>1, CompileNone DEF Rules
  <2>3. Unlimited \in Budgets
    BY DEF Unlimited, Budgets
  <2>4. kept = DOMAIN sub.profile
    <3>1. \A p : ~ WantedUnder(patterns, p, sub.prefix)
      BY <1>1 DEF WantedUnder
    <3> QED BY <3>1
  <2> HIDE DEF patterns, rules, got, kept
  <2>5. /\ got.patterns = rules /\ got.budget \in Budgets /\ DOMAIN got.profile = kept
        /\ DOMAIN got.profile # {} \/ DOMAIN sub.profile = {}
    BY <2>1, <2>2, <2>3, <2>4
  <2> QED BY <2>5 DEF patterns, rules, got, kept
<1>2. CASE patterns # <<>>
  <2>1. got = [error |-> IF Spent(sifted.budget) THEN "costly"
                         ELSE IF sifted.kept = {} /\ DOMAIN sub.profile # {} THEN "ignored"
                         ELSE "none",
               profile |-> Restrict(sub.profile, sifted.kept),
               patterns |-> rules, budget |-> sifted.budget]
    BY <1>2 DEF applyIgnore
  <2>2. Limit(units) \in Budgets
    BY DEF Limit, Budgets
  <2>3. /\ sifted.budget \in Budgets /\ sifted.kept \subseteq DOMAIN sub.profile
        /\ Spent(sifted.budget) \/ sifted.kept = kept
    BY <2>2, SiftKeeps DEF IsPart
  <2>4. DOMAIN Restrict(sub.profile, sifted.kept) = sifted.kept
    BY DEF Restrict
  <2>5. got.error = "none"
    OBVIOUS
  <2> HIDE DEF patterns, rules, got, kept, sifted
  <2>6. ~ Spent(sifted.budget) /\ ~ (sifted.kept = {} /\ DOMAIN sub.profile # {})
    BY <2>1, <2>5
  <2>7. /\ got.patterns = rules /\ got.budget \in Budgets /\ DOMAIN got.profile = kept
        /\ DOMAIN got.profile # {} \/ DOMAIN sub.profile = {}
    BY <2>1, <2>3, <2>4, <2>6
  <2> QED BY <2>7 DEF patterns, rules, got, kept
<1> QED BY <1>1, <1>2

\* A part blames only changed paths it is bound to no file for, which it does
\* not ignore, unless the budget is spent, and expects coverage of.
LEMMA DiffBlames ==
    ASSUME NEW sub, NEW added, IsPart(sub, added), NEW taken,
           taken.patterns = Compile(sub.repo \o sub.upload).patterns, taken.budget \in Budgets,
           NEW format, NEW prefix,
           NEW p \in diffCoverage(taken, format, added, prefix).result.unmatched
    PROVE  /\ p \in {a.path : a \in added}
           /\ match(FilesOf(taken.profile), p, prefix) = 0
           /\ ExpectsCoverage(format, taken.profile, p)
           /\ \/ Spent(diffCoverage(taken, format, added, prefix).budget)
              \/ ~ WantedUnder(sub.repo \o sub.upload, p, NoPath)
<1> DEFINE patterns == sub.repo \o sub.upload
           rules == Compile(patterns).patterns
           files == FilesOf(taken.profile)
           changed == {a.path : a \in added}
           res == Compute(files, added, prefix)
           sifted == Sift(rules, res.unmatched, NoPath, taken.budget)
           got == diffCoverage(taken, format, added, prefix)
<1>1. res.unmatched = changed \ {q \in changed : match(files, q, prefix) # 0}
  BY DEF Compute, Result
<1>2. got.result.unmatched = {q \in sifted.kept : ExpectsCoverage(format, taken.profile, q)}
  BY DEF diffCoverage, Compute, Result
<1>3. got.budget = sifted.budget
  BY DEF diffCoverage
<1> HIDE DEF res, files
<1>4. Matchable(patterns, res.unmatched)
  <2>1. res.unmatched \subseteq changed
    BY <1>1
  <2>2. Matchable(patterns, changed)
    BY DEF IsPart
  <2> HIDE DEF changed, patterns
  <2> QED BY <2>1, <2>2, FS_Subset DEF Matchable
<1>5. IsSeq(NoPath)
  BY DEF IsSeq, NoPath
<1>6. /\ sifted.kept \subseteq res.unmatched
      /\ \/ Spent(sifted.budget)
         \/ sifted.kept = {q \in res.unmatched : ~ WantedUnder(patterns, q, NoPath)}
  BY <1>4, <1>5, SiftKeeps
<1>7. p \in got.result.unmatched
  OBVIOUS
<1> HIDE DEF got, sifted, changed, patterns
<1>8. /\ p \in changed /\ match(files, p, prefix) = 0 /\ ExpectsCoverage(format, taken.profile, p)
      /\ Spent(got.budget) \/ ~ WantedUnder(patterns, p, NoPath)
  BY <1>1, <1>2, <1>3, <1>6, <1>7
<1> QED BY <1>8 DEF got, changed, patterns, files

\* The merge blames no path that some part counted changed lines of.
LEMMA MergeBlames ==
    ASSUME NEW results
    PROVE  LET merged == MergeDiffs(results).result
           IN  /\ \A p \in merged.unmatched : \E i \in DOMAIN results : p \in results[i].unmatched
               /\ \A p \in merged.unmatched : p \notin {f.path : f \in merged.files}
<1> DEFINE paths == {f.path : f \in UNION {results[i].files : i \in DOMAIN results}}
           merged == MergeDiffs(results).result
<1>1. /\ merged.files = {mergeFile(p, PartsWith(results, p)) : p \in paths}
      /\ merged.unmatched = (UNION {results[i].unmatched : i \in DOMAIN results}) \ paths
  BY DEF MergeDiffs, Result
<1>2. \A p : mergeFile(p, PartsWith(results, p)).path = p
  BY DEF mergeFile, FileCoverage
<1> HIDE DEF paths, merged
<1>3. {f.path : f \in merged.files} = paths
  BY <1>1, <1>2
<1> QED BY <1>1, <1>3 DEF merged

----------------------------------------------------------------------------
(* The calls.  An answer is its call's: the invariant of six kinds of them.   *)

\* A call is one the constants allow.
CallInv ==
    /\ call.kind = "pair" => call.of \in Pairings
    /\ call.kind = "diffs" => call.of \in Measurements
    /\ call.kind = "merge" => call.of \in Commits
    /\ call.kind = "spans" => call.of \in BlockLists
    /\ call.kind = "ignore" => call.of \in Matchings
    /\ call.kind = "accept" => call.of \in Submissions

\* What the span walks answer for two lists of blocks.
Walked(blocks, others) ==
    LET a == StatementSpans(blocks)
        b == StatementSpans(others)
    IN  [merged |-> a, minus |-> SubtractSpans(a, b), both |-> IntersectSpans(a, b),
         missed |-> MissedSpans(blocks), runs |-> LineSpans(Ascending(LinesOf(a)))]

\* What rules answer for a path.
Ignored(m) ==
    LET rules == Compile(m.patterns)
    IN  IF rules.kind # "rules" THEN rules
        ELSE Match(rules.patterns, m.path, m.prefix, Limit(m.units))

\* An answer is what the operators give for the input.
AnswerInv ==
    answer # <<>> =>
        /\ call.kind = "pair" =>
             answer[1] = [p \in call.of.paths |-> match(call.of.files, p, call.of.prefix)]
        /\ call.kind = "diffs" => answer[1] = MergedOf(call.of)
        /\ call.kind = "merge" => answer[1] = MergeParts(CommitRows(call.of))
        /\ call.kind = "spans" => answer[1] = Walked(call.of[1], call.of[2])
        /\ call.kind = "ignore" => answer[1] = Ignored(call.of)
        /\ call.kind = "accept" => answer[1] = Accepted(call.of)

CallIndInv == CallInv /\ AnswerInv

\* Init draws its input from the constants.
LEMMA CallInitInv == CallInit => CallIndInv
<1> SUFFICES ASSUME CallInit PROVE CallIndInv
  OBVIOUS
<1>1. answer = <<>>
  BY DEF CallInit
<1>2. CallInv
  <2>1. CASE \E r \in Reports : call = [kind |-> "parse", of |-> r]
    BY <2>1 DEF CallInv
  <2>2. CASE \E c \in Commits : call = [kind |-> "merge", of |-> c]
    BY <2>2 DEF CallInv
  <2>3. CASE \E e \in Edits : call = [kind |-> "diff", of |-> e]
    BY <2>3 DEF CallInv
  <2>4. CASE \E b \in BlockLists : call = [kind |-> "spans", of |-> b]
    BY <2>4 DEF CallInv
  <2>5. CASE \E p \in Pairings : call = [kind |-> "pair", of |-> p]
    BY <2>5 DEF CallInv
  <2>6. CASE \E m \in Measurements : call = [kind |-> "diffs", of |-> m]
    BY <2>6 DEF CallInv
  <2>7. CASE \E m \in Matchings : call = [kind |-> "ignore", of |-> m]
    BY <2>7 DEF CallInv
  <2>8. CASE \E s \in Submissions : call = [kind |-> "accept", of |-> s]
    BY <2>8 DEF CallInv
  <2> QED BY <2>1, <2>2, <2>3, <2>4, <2>5, <2>6, <2>7, <2>8 DEF CallInit
<1> QED BY <1>1, <1>2 DEF CallIndInv, AnswerInv

\* A call keeps its input and stores its answer.
LEMMA CallStep == CallIndInv /\ [CallNext]_callVars => CallIndInv'
<1> SUFFICES ASSUME CallIndInv, [CallNext]_callVars PROVE CallIndInv'
  OBVIOUS
<1>1. CASE UNCHANGED callVars
  BY <1>1 DEF callVars, CallIndInv, CallInv, AnswerInv
<1>2. CASE PairPaths
  BY <1>2 DEF PairPaths, Call, CallIndInv, CallInv, AnswerInv
<1>3. CASE MergeDiffResults
  BY <1>3 DEF MergeDiffResults, Call, CallIndInv, CallInv, AnswerInv, MergedOf
<1>4. CASE MergeCommit
  BY <1>4 DEF MergeCommit, Call, CallIndInv, CallInv, AnswerInv
<1>5. CASE WalkSpans
  BY <1>5 DEF WalkSpans, Walked, Call, CallIndInv, CallInv, AnswerInv
<1>6. CASE MatchIgnore
  BY <1>6 DEF MatchIgnore, Ignored, Call, CallIndInv, CallInv, AnswerInv
<1>7. CASE AcceptParts
  BY <1>7 DEF AcceptParts, Call, CallIndInv, CallInv, AnswerInv
<1>8. CASE UNCHANGED call /\ call.kind \in {"parse", "diff"}
  BY <1>8 DEF CallIndInv, CallInv, AnswerInv
<1> QED BY <1>1, <1>2, <1>3, <1>4, <1>5, <1>6, <1>7, <1>8 DEF CallNext, ParseReport, ParseDiff, Call

\* Every answer is that of its own call.
THEOREM Calls == CallSpec => []CallIndInv
<1> QED BY CallInitInv, CallStep, PTL DEF CallSpec

\* In every state of an answered call the pairing and the flags agree.
LEMMA PairingHolds == CallIndInv => BoundIsTouched
<1> SUFFICES ASSUME CallIndInv, Is("pair") PROVE BoundIsTouched
  BY DEF BoundIsTouched
<1> DEFINE files == call.of.files
           prefix == call.of.prefix
           paths == call.of.paths
<1>1. IsPairing(files, paths, prefix)
  BY PairingsAssumption DEF IsPairing, CallIndInv, CallInv, Is
<1>2. answer[1] = [p \in paths |-> match(files, p, prefix)]
  BY DEF CallIndInv, AnswerInv, Is
<1>3. ASSUME NEW p \in paths
      PROVE  IF answer[1][p] = 0
             THEN \A i \in DOMAIN files : ~ Touches({p}, files[i].path, prefix)
             ELSE Touches(paths, files[answer[1][p]].path, prefix)
  <2> HIDE DEF files, prefix, paths
  <2>1. answer[1][p] = match(files, p, prefix)
    BY <1>2
  <2>2. CASE match(files, p, prefix) = 0
    BY <1>1, <2>1, <2>2, UnboundTouchesNothing
  <2>3. CASE match(files, p, prefix) # 0
    BY <1>1, <2>1, <2>3, BoundTouches
  <2> QED BY <2>1, <2>2, <2>3
<1> QED BY <1>3 DEF BoundIsTouched

\* For any files, changed paths and prefix: a path bound to a file flags it on
\* the pages, and a path bound to none flags no file (match, Touches).
THEOREM PagesFlagWhatIsBound == CallSpec => []BoundIsTouched
<1> QED BY Calls, PairingHolds, PTL

\* In every state of an answered merge its counts bound what the parts measured.
LEMMA MergeHolds == CallIndInv => MergeNeverOverstates
<1> SUFFICES ASSUME CallIndInv, Is("diffs") PROVE MergeNeverOverstates
  BY DEF MergeNeverOverstates
<1> DEFINE m == call.of
           C == Coverages(m)
           F == mergeFile(<<"f">>, C)
           f == CHOOSE g \in answer[1].result.files : TRUE
<1>1. IsMeasurement(m)
  BY MeasurementsAssumption DEF IsMeasurement, CallIndInv, CallInv, Is
<1>2. answer[1] = MergedOf(m)
  BY DEF CallIndInv, AnswerInv, Is
<1>3. f = F /\ (F.path \in answer[1].conflicts <=> ~ Agree(C))
  <2>1. f \in {F}
    BY <1>1, <1>2, MergedIsOneFile
  <2>2. F.path = <<"f">>
    BY DEF mergeFile, FileCoverage
  <2> QED BY <1>1, <1>2, <2>1, <2>2, MergedIsOneFile
<1>4. /\ F.covered_lines = MergedTotal(C) - Cardinality(Uncovered(C))
      /\ F.total_lines = MergedTotal(C)
      /\ F.uncovered_lines = Uncovered(C)
  BY DEF mergeFile, FileCoverage
<1>5. /\ MergedTotal(C) \in Nat /\ Cardinality(Uncovered(C)) \in Nat
      /\ Cardinality(Uncovered(C)) <= MergedTotal(C)
  BY <1>1, TotalIsLargest
<1> HIDE DEF F, C
<1>6. /\ 0 <= F.covered_lines /\ F.covered_lines <= F.total_lines
      /\ F.total_lines = F.covered_lines + Cardinality(F.uncovered_lines)
  BY <1>4, <1>5
<1>7. ~ Agree(C) =>
        /\ F.covered_lines <= Cardinality(RanIn(m))
        /\ F.covered_lines * Cardinality(ExecutableIn(m)) <= Cardinality(RanIn(m)) * F.total_lines
  BY <1>1, <1>4, ConflictNeverOverstates DEF C
<1>8. (\A i \in DOMAIN m : m[i].executable = ExecutableIn(m)) =>
        /\ F.total_lines = Cardinality(ExecutableIn(m))
        /\ F.uncovered_lines = ExecutableIn(m) \ RanIn(m)
  BY <1>1, <1>4, SameLinesMerge DEF C
<1> HIDE DEF f, m
<1> QED BY <1>3, <1>6, <1>7, <1>8 DEF MergeNeverOverstates, f, m, ExecutableIn, RanIn

\* For any number of parts and any lines: parts that counted a file differently
\* merge to no more covered lines and no higher rate than they ran, parts that
\* counted alike merge line by line, and no count is negative (mergeFile).
THEOREM MergedDiffsNeverOverstate == CallSpec => []MergeNeverOverstates
<1> QED BY Calls, MergeHolds, PTL

\* In every state of an answered merge it is the parts, line by line.
LEMMA MergeUnionHolds == CallIndInv => MergeIsTheUnion
<1> SUFFICES ASSUME CallIndInv, Is("merge") PROVE MergeIsTheUnion
  BY DEF MergeIsTheUnion
<1> DEFINE rows == CommitRows(call.of)
<1>1. IsCommit(call.of)
  BY CommitsAssumption DEF IsCommit, CallIndInv, CallInv, Is
<1>2. answer[1] = MergeParts(rows)
  BY DEF CallIndInv, AnswerInv, Is
<1>3. IsRows(rows)
  BY <1>1, RowsOfACommit
<1> HIDE DEF rows
<1> DEFINE same(path) == {r \in rows : r.path = path}
<1>4. /\ MergeParts(rows) = mergeAll(rows)
      /\ {m.path : m \in MergeParts(rows)} = {r.path : r \in rows}
      /\ \A m \in MergeParts(rows) :
           /\ Canonical(m.blocks)
           /\ m.upload = Max({r.upload : r \in same(m.path)})
           /\ LinesWhere(m.blocks, Statement)
                = UNION {LinesWhere(r.blocks, Statement) : r \in same(m.path)}
           /\ LinesWhere(m.blocks, Ran)
                = UNION {LinesWhere(r.blocks, Ran) : r \in same(m.path)}
  BY <1>3, MergeIsUnion
<1> QED BY <1>2, <1>4 DEF MergeIsTheUnion, rows

\* For any parts of a commit: the merge has every file once, its blocks in
\* order, under the newest upload of it, a line is executable in it when it is
\* in some part and ran when it ran in some part, and the shortcut for one part
\* gives the same rows (MergeParts, mergeAll, profile.Merge).
THEOREM MergedPartsAreTheUnion == CallSpec => []MergeIsTheUnion
<1> QED BY Calls, MergeUnionHolds, PTL

\* In every state of an answered walk its spans are the lines of the blocks.
LEMMA SpansHold == CallIndInv => SpansAreLines
<1> SUFFICES ASSUME CallIndInv, Is("spans") PROVE SpansAreLines
  BY DEF SpansAreLines
<1> DEFINE blocks == call.of[1]
           others == call.of[2]
           a == StatementSpans(blocks)
           b == StatementSpans(others)
           ran == RanSpans(blocks)
<1>1. IsSpanned(blocks) /\ IsSpanned(others)
  BY BlockListsAssumption DEF IsSpanned, CallIndInv, CallInv, Is
<1>2. answer[1] = Walked(blocks, others)
  BY DEF CallIndInv, AnswerInv, Is
<1> HIDE DEF blocks, others
<1>3. /\ answer[1].merged = a /\ answer[1].minus = SubtractSpans(a, b)
      /\ answer[1].both = IntersectSpans(a, b) /\ answer[1].missed = SubtractSpans(a, ran)
      /\ answer[1].runs = LineSpans(Ascending(LinesOf(a)))
  BY <1>2 DEF Walked, MissedSpans
<1>4. /\ SpanList(a) /\ LinesOf(a) = LinesWhere(blocks, Statement)
      /\ SpanList(b) /\ LinesOf(b) = LinesWhere(others, Statement)
      /\ SpanList(ran) /\ LinesOf(ran) = LinesWhere(blocks, Ran)
  BY <1>1, MergedSpansMean
<1> HIDE DEF a, b, ran
<1>5. \A s : SpanList(s) => LinesOf(s) = {l \in Int : On(s, l)} /\ Separate(s)
  BY LinesAreOn DEF SpanList
<1>6. /\ SpanList(SubtractSpans(a, b)) /\ LinesOf(SubtractSpans(a, b)) = LinesOf(a) \ LinesOf(b)
  <2>1. /\ SpanList(SubtractSpans(a, b))
        /\ \A l \in Int : On(SubtractSpans(a, b), l) <=> On(a, l) /\ ~ On(b, l)
    BY <1>4, SubtractSpansMeans
  <2> QED BY <1>4, <1>5, <2>1
<1>7. /\ SpanList(SubtractSpans(a, ran))
      /\ LinesOf(SubtractSpans(a, ran)) = LinesOf(a) \ LinesOf(ran)
  <2>1. /\ SpanList(SubtractSpans(a, ran))
        /\ \A l \in Int : On(SubtractSpans(a, ran), l) <=> On(a, l) /\ ~ On(ran, l)
    BY <1>4, SubtractSpansMeans
  <2> QED BY <1>4, <1>5, <2>1
<1>8. /\ SpanList(IntersectSpans(a, b))
      /\ LinesOf(IntersectSpans(a, b)) = LinesOf(a) \cap LinesOf(b)
  <2>1. /\ SpanList(IntersectSpans(a, b))
        /\ \A l \in Int : On(IntersectSpans(a, b), l) <=> On(a, l) /\ On(b, l)
    BY <1>4, IntersectSpansMeans
  <2> QED BY <1>4, <1>5, <2>1
<1>9. LineSpans(Ascending(LinesOf(a))) = a
  BY <1>4, LineSpansMean
<1>10. \A s \in {a, SubtractSpans(a, b), IntersectSpans(a, b), SubtractSpans(a, ran)} : Separate(s)
  BY <1>4, <1>5, <1>6, <1>7, <1>8
<1> QED BY <1>3, <1>4, <1>6, <1>7, <1>8, <1>9, <1>10 DEF SpansAreLines, blocks, others

\* For any lists of blocks: the spans of the statements, of those that ran or
\* did not, and of what two lists share or only the first has, are the lines of
\* the blocks, sorted and apart, and the runs of the lines are the spans again
\* (MergedSpans, SubtractSpans, IntersectSpans, MissedSpans, LineSpans).
THEOREM SpanWalksAreLines == CallSpec => []SpansAreLines
<1> QED BY Calls, SpansHold, PTL

\* In every state of an answered match it is the patterns', or the budget's end.
LEMMA IgnoreHolds == CallIndInv => IgnoresWhatIsMeant
<1> SUFFICES ASSUME CallIndInv, Is("ignore"), Compile(call.of.patterns).kind = "rules"
             PROVE  IgnoresWhatIsMeant
  BY DEF IgnoresWhatIsMeant
<1> DEFINE m == call.of
           wanted == WantedUnder(m.patterns, m.path, m.prefix)
<1>1. /\ IsPatternList(m.patterns) /\ IsSeq(m.path) /\ IsSeq(m.prefix) /\ m.units \in Int
      /\ Priced(m.patterns, m.path)
  BY MatchingsAssumption DEF CallIndInv, CallInv, Is
<1>2. Limit(m.units) \in Budgets
  BY <1>1 DEF Limit, Budgets
<1>3. answer[1] = Match(Compile(m.patterns).patterns, m.path, m.prefix, Limit(m.units))
  BY DEF CallIndInv, AnswerInv, Is, Ignored
<1>4. Decides(answer[1], Limit(m.units), wanted)
  <2> HIDE DEF m, wanted
  <2>1. Compile(m.patterns).kind = "rules"
    BY DEF m
  <2> QED BY <1>1, <1>2, <1>3, <2>1, MatchMeans DEF wanted
<1>5. Spent(answer[1].budget) \/ answer[1].matched = wanted
  <2>1. answer[1].matched \in BOOLEAN /\ wanted \in BOOLEAN
    BY <1>4 DEF Decides, WantedUnder
  <2> HIDE DEF wanted
  <2> QED BY <1>4, <2>1 DEF Decides
<1> QED BY <1>5 DEF IgnoresWhatIsMeant

\* For any patterns that compile, any path, prefix and budget: the loop with
\* its single place to go back to ignores exactly the paths the patterns mean,
\* or the budget is spent and Err says so (Compile, matchSegments, Rules.Match).
THEOREM PatternsIgnoreWhatTheyMean == CallSpec => []IgnoresWhatIsMeant
<1> QED BY Calls, IgnoreHolds, PTL

\* Every part of a submission can be matched.
LEMMA PartsAreMatchable ==
    ASSUME NEW s \in Submissions
    PROVE  s.units \in Int /\ \A i \in DOMAIN s.parts : IsPart(s.parts[i], s.added)
<1> DEFINE changed == {a.path : a \in s.added}
<1>1. IsFiniteSet(s.added) /\ s.units \in Int
  BY SubmissionsAssumption
<1>2. IsFiniteSet(changed)
  <2> DEFINE g == [a \in s.added |-> a.path]
  <2>1. g \in Surjection(s.added, changed)
    BY DEF Surjection
  <2> HIDE DEF g, changed
  <2> QED BY <1>1, <2>1, FS_Surjection
<1>3. ASSUME NEW i \in DOMAIN s.parts PROVE IsPart(s.parts[i], s.added)
  <2> DEFINE sub == s.parts[i]
             patterns == sub.repo \o sub.upload
  <2>1. /\ IsPatternList(patterns) /\ Compile(patterns).kind = "rules"
        /\ IsFiniteSet(DOMAIN sub.profile) /\ IsSeq(sub.prefix)
        /\ \A path \in DOMAIN sub.profile \cup changed : IsSeq(path) /\ Priced(patterns, path)
    BY SubmissionsAssumption
  <2> QED BY <1>2, <2>1 DEF IsPart, Matchable
<1> QED BY <1>1, <1>3

\* What is left of the parts, those that are taken, and what they measured.
Filtered(s) == [i \in DOMAIN s.parts |-> applyIgnore(s.parts[i], s.units)]
Taken(s) == {i \in DOMAIN s.parts : Filtered(s)[i].error = "none"}
MeasuredOf(s) ==
    [i \in Taken(s) |->
       diffCoverage(Filtered(s)[i], s.parts[i].format, s.added, s.parts[i].prefix)]

\* In every state of an answered acceptance the blame is earned.
LEMMA BlameHolds == CallIndInv => BlameIsEarned
<1> SUFFICES ASSUME CallIndInv, Is("accept") PROVE BlameIsEarned
  BY DEF BlameIsEarned
<1> DEFINE s == call.of
           filtered == Filtered(s)
           taken == Taken(s)
           measured == MeasuredOf(s)
           merged == MergeDiffs([i \in taken |-> measured[i].result]).result
           ignores(i, path, prefix) ==
             WantedUnder(s.parts[i].repo \o s.parts[i].upload, path, prefix)
<1>1. s.units \in Int /\ \A i \in DOMAIN s.parts : IsPart(s.parts[i], s.added)
  BY PartsAreMatchable DEF CallIndInv, CallInv, Is
<1>2. answer[1] = Accepted(s)
  BY DEF CallIndInv, AnswerInv, Is
<1>3. /\ answer[1].filtered = filtered /\ answer[1].measured = measured
      /\ answer[1].diff = merged
  <2>1. Accepted(s) = [filtered |-> Filtered(s), measured |-> MeasuredOf(s),
                       diff |-> MergeDiffs([i \in DOMAIN MeasuredOf(s) |->
                                              MeasuredOf(s)[i].result]).result]
    BY Zenon DEF Accepted, Measure, Merged, Filtered, Taken, MeasuredOf
  <2>2. DOMAIN MeasuredOf(s) = Taken(s)
    BY DEF MeasuredOf
  <2> HIDE DEF s
  <2> QED BY <1>2, <2>1, <2>2
<1>4. taken = {i \in DOMAIN s.parts : answer[1].filtered[i].error = "none"}
  BY <1>3 DEF Taken
<1> HIDE DEF s
<1>5. \A i \in taken : /\ i \in DOMAIN s.parts
                       /\ filtered[i] = applyIgnore(s.parts[i], s.units)
                       /\ filtered[i].error = "none"
  BY DEF Filtered, Taken
<1>6. \A i \in taken :
        measured[i] = diffCoverage(filtered[i], s.parts[i].format, s.added, s.parts[i].prefix)
  BY DEF MeasuredOf
<1> HIDE DEF filtered, taken, measured
<1>7. ASSUME NEW i \in taken
      PROVE  /\ filtered[i].patterns = Compile(s.parts[i].repo \o s.parts[i].upload).patterns
             /\ filtered[i].budget \in Budgets
             /\ DOMAIN filtered[i].profile
                  = {p \in DOMAIN s.parts[i].profile : ~ ignores(i, p, s.parts[i].prefix)}
             /\ DOMAIN filtered[i].profile # {} \/ DOMAIN s.parts[i].profile = {}
  BY <1>1, <1>5, FilterKeeps
<1>8. ASSUME NEW p \in merged.unmatched
      PROVE  /\ AddedTo(s.added, p) # {} /\ p \notin {f.path : f \in merged.files}
             /\ \E i \in taken :
                  /\ Spent(measured[i].budget) \/ ~ ignores(i, p, NoPath)
                  /\ ~ IsTestFile(s.parts[i].format, p)
                  /\ \E q \in DOMAIN filtered[i].profile : familyOf(q) = familyOf(p)
                  /\ match(FilesOf(filtered[i].profile), p, s.parts[i].prefix) = 0
  <2>1. /\ p \notin {f.path : f \in merged.files}
        /\ \E i \in taken : p \in measured[i].result.unmatched
    <3> DEFINE results == [i \in taken |-> measured[i].result]
    <3>1. DOMAIN results = taken /\ \A i \in taken : results[i] = measured[i].result
      OBVIOUS
    <3> HIDE DEF results
    <3> QED BY <1>8, <3>1, MergeBlames DEF results
  <2>2. PICK i \in taken : p \in measured[i].result.unmatched
    BY <2>1
  <2> HIDE DEF merged
  <2>3. /\ IsPart(s.parts[i], s.added) /\ filtered[i].budget \in Budgets
        /\ filtered[i].patterns = Compile(s.parts[i].repo \o s.parts[i].upload).patterns
        /\ p \in diffCoverage(filtered[i], s.parts[i].format, s.added,
                              s.parts[i].prefix).result.unmatched
    BY <1>1, <1>5, <1>6, <1>7, <2>2
  <2>4. /\ p \in {a.path : a \in s.added}
        /\ match(FilesOf(filtered[i].profile), p, s.parts[i].prefix) = 0
        /\ ExpectsCoverage(s.parts[i].format, filtered[i].profile, p)
        /\ Spent(measured[i].budget) \/ ~ ignores(i, p, NoPath)
    <3> DEFINE sub == s.parts[i]
               part == filtered[i]
               got == diffCoverage(part, sub.format, s.added, sub.prefix)
    <3>1. measured[i] = got
      BY <1>6
    <3> HIDE DEF sub, part
    <3>2. /\ IsPart(sub, s.added) /\ part.budget \in Budgets
          /\ part.patterns = Compile(sub.repo \o sub.upload).patterns
          /\ p \in got.result.unmatched
      BY <2>3 DEF sub, part
    <3>3. /\ p \in {a.path : a \in s.added}
          /\ match(FilesOf(part.profile), p, sub.prefix) = 0
          /\ ExpectsCoverage(sub.format, part.profile, p)
          /\ Spent(got.budget) \/ ~ WantedUnder(sub.repo \o sub.upload, p, NoPath)
      BY <3>2, DiffBlames
    <3> QED BY <3>1, <3>3 DEF sub, part
  <2>5. /\ ~ IsTestFile(s.parts[i].format, p)
        /\ \E q \in DOMAIN filtered[i].profile : familyOf(q) = familyOf(p)
    BY <2>4 DEF ExpectsCoverage
  <2>6. AddedTo(s.added, p) # {}
    BY <2>4 DEF AddedTo
  <2> HIDE DEF ignores
  <2> QED BY <2>1, <2>4, <2>5, <2>6
<1> HIDE DEF merged
<1>9. answer[1].diff.unmatched = merged.unmatched /\ answer[1].diff.files = merged.files
  BY <1>3
<1>10. \A i \in {j \in DOMAIN s.parts : answer[1].filtered[j].error = "none"} :
         /\ DOMAIN answer[1].filtered[i].profile
              = {p \in DOMAIN s.parts[i].profile : ~ ignores(i, p, s.parts[i].prefix)}
         /\ \/ DOMAIN answer[1].filtered[i].profile # {}
            \/ DOMAIN s.parts[i].profile = {}
  BY <1>3, <1>4, <1>7
<1>11. \A p \in answer[1].diff.unmatched :
         /\ AddedTo(s.added, p) # {} /\ p \notin {f.path : f \in answer[1].diff.files}
         /\ \E i \in {j \in DOMAIN s.parts : answer[1].filtered[j].error = "none"} :
              /\ Spent(answer[1].measured[i].budget) \/ ~ ignores(i, p, NoPath)
              /\ ~ IsTestFile(s.parts[i].format, p)
              /\ \E q \in DOMAIN answer[1].filtered[i].profile : familyOf(q) = familyOf(p)
              /\ match(FilesOf(answer[1].filtered[i].profile), p, s.parts[i].prefix) = 0
  <2> HIDE DEF ignores
  <2> QED BY <1>3, <1>4, <1>8, <1>9
<1> QED BY <1>10, <1>11, Zenon DEF BlameIsEarned, s

\* For any parts, changed lines and budget: a part that is taken keeps no file
\* its patterns mean and some file unless it reported none, and a changed file
\* is blamed only when some part taken measures its language, binds it to no
\* file and does not ignore it, or spent its budget on the diff, and none
\* counted changed lines of it (applyIgnore, diffCoverage, diffcov.Merge).
THEOREM BlamedAreUncovered == CallSpec => []BlameIsEarned
<1> QED BY Calls, BlameHolds, PTL
=============================================================================
