---------------------------- MODULE GateBaseline ----------------------------
(***************************************************************************)
(* The coverage gate of one repo over the reports of its commits: which    *)
(* earlier report a commit's drop is measured against                      *)
(* (internal/core/baseline.go), the verdict (internal/core/gate.go) and    *)
(* the stored report (Recompute, internal/core/merge.go).                  *)
(*                                                                         *)
(* A commit's coverage arrives in parts. Every part has PartSize           *)
(* statements in files of its own, so merging is adding; percentages are   *)
(* kept as exact fractions, which is what gateEpsilon is for. Recomputes   *)
(* of one commit are serialized (CommitPush); what they read of other      *)
(* commits, without a lock and in several queries, is read in one step.    *)
(***************************************************************************)
EXTENDS Integers, FiniteSets, FiniteSetsExt

CONSTANTS
    Commit,
    Part,
    PartSize,          \* statements in a part
    MinCoverage,       \* the gate, in percent
    MaxCoverageDrop,
    Depth,             \* baselineSearchDepth
    MaxUploads         \* bound of the model: the uploads sent

ASSUME GateAssumption ==
    /\ PartSize \in Nat \ {0}
    /\ MinCoverage \in 0 .. 100 /\ MaxCoverageDrop \in 0 .. 100
    /\ Depth \in Nat \ {0} /\ MaxUploads \in Nat
    /\ IsFiniteSet(Commit) /\ IsFiniteSet(Part)

\* A push to the default branch; a push to another one or a pull request's build
\* of whatever branch name, a fork's default branch included.
Origin == {"default", "other"}
Missing == -1          \* a part not uploaded; a report not stored

VARIABLES
    covered,   \* [Commit -> [Part -> statements its latest upload covers]]
    report,    \* table commit_reports
    pending,   \* <<commit, origin>> of the uploads stored and not yet merged
    sent,
    newest,    \* [Commit -> origin of its newest upload]
    diffed,    \* <<commit, part>> whose latest upload may have a diff
    \* History, for the properties only.
    stale      \* the commits with an upload no recompute has seen

vars == <<covered, report, pending, sent, newest, diffed, stale>>

NoReport == [id |-> Missing, origin |-> "default", covered |-> 0, total |-> 0,
             failed |-> FALSE]

HasReport(c) == report[c].id /= Missing
PartsOf(c) == {p \in Part : covered[c][p] /= Missing}
NextId == Cardinality({c \in Commit : HasReport(c)}) + 1

\* A fraction: covered statements of total ones.
Fraction(n, d) == [covered |-> n, total |-> d]
SumOf(row, parts) == MapThenSumSet(LAMBDA p : row[p], parts)
Over(c, parts) ==
    Fraction(SumOf(covered[c], parts), PartSize * Cardinality(parts))

----------------------------------------------------------------------------
Init ==
    /\ covered = [c \in Commit |-> [p \in Part |-> Missing]]
    /\ report = [c \in Commit |-> NoReport]
    /\ pending = {}
    /\ sent = 0
    /\ newest = [c \in Commit |-> "default"]
    /\ diffed = {}
    /\ stale = {}

----------------------------------------------------------------------------
(* The baseline of the gate's drop rule. *)

\* Mutant: a build of a pull request serves too.
Passed_AnyOrigin(c) ==
    {b \in Commit \ {c} : HasReport(b) /\ ~report[b].failed}

\* What latestPassedCommitReport selects from: the gate-passing reports of the
\* default branch, builds of pull requests and the commit itself left out.
Passed(c) ==
    {b \in Commit \ {c} :
        HasReport(b) /\ report[b].origin = "default" /\ ~report[b].failed}

\* What LIMIT 1 takes of the rows in descending order of id.
Newest(S) == CHOOSE b \in S : \A d \in S : report[d].id <= report[b].id

\* Mutant: a report lacking a part is compared all the same.
ComparableReport_AnyParts(c, parts) ==
    IF Passed(c) = {} THEN {}
    ELSE {Newest(Passed(c))}

\* comparableReport: newest first, at most Depth of them, the first that
\* carries every one of the parts. At most one commit.
ComparableReport(c, parts) ==
    LET search[n \in 0 .. Depth] ==
            [before \in 1 .. NextId |->
                LET older == {b \in Passed(c) : report[b].id < before}
                IN  IF n = 0 \/ older = {} THEN {}
                    ELSE IF parts \subseteq PartsOf(Newest(older))
                    THEN {Newest(older)}
                    ELSE search[n - 1][report[Newest(older)].id]]
    IN  search[Depth][NextId]

\* Mutant: the whole report, whatever parts the commit has.
TotalOver_Whole(b, parts) == Fraction(report[b].covered, report[b].total)

\* totalOver: the stored total if the base has no other parts, else the parts
\* alone are counted.
TotalOver(b, parts) ==
    IF Cardinality(PartsOf(b)) = Cardinality(parts)
    THEN Fraction(report[b].covered, report[b].total)
    ELSE Over(b, parts)

----------------------------------------------------------------------------
(* The verdict. *)

BelowMin(t) == 100 * t.covered < MinCoverage * t.total

DropOver(base, t) ==
    100 * (base.covered * t.total - t.covered * base.total)
        > MaxCoverageDrop * base.total * t.total

\* EvaluateGate: the drop rule is off without a baseline, the diff rule without
\* measured changes (diffFails is then FALSE).
GateFails(c, diffFails) ==
    LET parts == PartsOf(c)
    IN  \/ BelowMin(Over(c, parts))
        \/ \E b \in ComparableReport(c, parts) :
                DropOver(TotalOver(b, parts), Over(c, parts))
        \/ diffFails

----------------------------------------------------------------------------
\* CreateUpload commits: the part's newest upload is the one that counts.
CreateUpload(c, p, n, origin) ==
    /\ sent < MaxUploads
    /\ sent' = sent + 1
    /\ covered' = [covered EXCEPT ![c][p] = n]
    /\ newest' = [newest EXCEPT ![c] = origin]
    /\ diffed' = IF origin = "other" THEN diffed \cup {<<c, p>>}
                                  ELSE diffed \ {<<c, p>>}
    /\ pending' = pending \cup {<<c, origin>>}
    /\ stale' = stale \cup {c}
    /\ UNCHANGED report

\* Merge the parts, judge, and upsert: the row keeps its id and takes the
\* upload's branch and pull request. Only parts with a diff have a diff rule.
Upsert(c, origin, diffFails) ==
    LET total == Over(c, PartsOf(c))
    IN  report' = [report EXCEPT ![c] =
                      [id |-> IF HasReport(c) THEN @.id ELSE NextId,
                       origin |-> origin,
                       covered |-> total.covered, total |-> total.total,
                       failed |-> GateFails(c, diffFails)]]

Diffs(c) == {FALSE} \cup {TRUE : p \in {q \in Part : <<c, q>> \in diffed}}

\* An upload recomputes its commit's report once it is stored.
Recompute(c, origin) ==
    /\ <<c, origin>> \in pending
    /\ \E diffFails \in Diffs(c) : Upsert(c, origin, diffFails)
    /\ pending' = pending \ {<<c, origin>>}
    /\ stale' = stale \ {c}
    /\ UNCHANGED <<covered, sent, newest, diffed>>

\* The recompute times out: the upload stays, and the report waits for the next.
RecomputeFails(c, origin) ==
    /\ <<c, origin>> \in pending
    /\ pending' = pending \ {<<c, origin>>}
    /\ UNCHANGED <<covered, report, sent, newest, diffed, stale>>

\* A push round finds uploads queued behind it: once more, for the newest.
LatestMerged(c) ==
    /\ HasReport(c)
    /\ \E diffFails \in Diffs(c) : Upsert(c, newest[c], diffFails)
    /\ stale' = stale \ {c}
    /\ UNCHANGED <<covered, pending, sent, newest, diffed>>

Next ==
    \E c \in Commit :
        \/ \E p \in Part, n \in 0 .. PartSize, origin \in Origin :
               CreateUpload(c, p, n, origin)
        \/ \E origin \in Origin :
               \/ Recompute(c, origin)
               \/ RecomputeFails(c, origin)
        \/ LatestMerged(c)

Spec == Init /\ [][Next]_vars

----------------------------------------------------------------------------
(* Properties. *)

Due == {c \in Commit : \E origin \in Origin : <<c, origin>> \in pending}
SameRate(s, t) == s.covered * t.total = t.covered * s.total

\* "Either side of a comparison may be missing some ... compare like with like"
\* (baseline.go): a recompute due now measures the commit's drop against its
\* baseline's coverage of exactly the commit's parts, if that baseline's report
\* has seen all its uploads (totalOver).
SettledLikeWithLike ==
    \A c \in Due : \A b \in ComparableReport(c, PartsOf(c)) \ stale :
        SameRate(TotalOver(b, PartsOf(c)), Over(b, PartsOf(c)))

\* What comparableReport looks for, without the search: a build of the default
\* branch that passed, other than the commit, with all its parts; none newer,
\* and fewer than Depth passing builds in between.
Suits(b, c) ==
    /\ b /= c /\ HasReport(b)
    /\ report[b].origin = "default" /\ ~report[b].failed
    /\ PartsOf(c) \subseteq PartsOf(b)

BaselineIsNewest ==
    \A c \in Due :
        ComparableReport(c, PartsOf(c)) =
            {b \in Commit :
                /\ Suits(b, c)
                /\ \A d \in Commit : Suits(d, c) => report[d].id <= report[b].id
                /\ Cardinality({d \in Commit \ {c} :
                       /\ report[d].id > report[b].id
                       /\ report[d].origin = "default" /\ ~report[d].failed})
                   < Depth}

\* "a PR cannot ratchet coverage down within tolerance push by push"
\* (EvaluateGate): what pull requests and other branches send moves nobody's
\* baseline, as long as their commits are not on the default branch.
BranchesMoveNoBaseline ==
    [][(\A c \in Commit :
            report'[c] /= report[c] =>
                report'[c].origin /= "default" /\ report[c].origin /= "default")
        /\ covered' = covered
       => \A c \in Commit :
            ComparableReport(c, PartsOf(c))' = ComparableReport(c, PartsOf(c))]_vars

=============================================================================
