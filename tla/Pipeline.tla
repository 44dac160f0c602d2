------------------------------ MODULE Pipeline ------------------------------
(* The sequential part of an upload: read the report, leave out ignored       *)
(* files, measure the pull request's changed lines, and merge the parts of    *)
(* the commit.  Each behaviour is one call: CallInit draws its input, one step *)
(* computes its answer with the operators of CoverageProfile, DiffCoverage    *)
(* and IgnoreRules, and the properties compare the answer with what the call  *)
(* promises, defined line by line.                                            *)
EXTENDS DiffCoverage, IgnoreRules

CONSTANTS
  Reports,      \* [head, report, lines, bad]: a report, the hits it was written
                \*   from, and whether it holds a bad record
  Commits,      \* sequences of profiles: what the parts of a commit reported
  Edits,        \* [diff, added]: a unified diff and the lines its edit added
  BlockLists,   \* pairs of block lists
  Pairings,     \* [files, paths, prefix]: profile files and a diff's paths
  Measurements, \* per part: [executable, ran], the changed lines of one file
  Matchings,    \* [patterns, path, prefix, units]
  Submissions   \* [parts, added, units]: parts of a pull request's commit, each
                \*   [profile, format, prefix, repo, upload]

\* The inputs are sequences where the code has lists, no block starts below
\* line 1, which every reader refuses, and a part runs only lines it has.
IsSeq(s) == s \in Seq(Range(s))
IsBlock(b) ==
  b \in [start_line : Int, start_col : Int, end_line : Int, end_col : Int,
         num_stmts : Nat, count : Nat]
ASSUME CommitsAssumption ==
  \A c \in Commits :
    /\ IsSeq(c) /\ \A i \in DOMAIN c : IsFiniteSet(DOMAIN c[i])
    /\ \A i \in DOMAIN c : \A path \in DOMAIN c[i] :
         /\ IsSeq(c[i][path]) /\ \A b \in Range(c[i][path]) : IsBlock(b)
         /\ \A j \in {k \in DOMAIN c : path \in DOMAIN c[k]} :
              \A a \in Range(c[i][path]), b \in Range(c[j][path]) :
                Position(a) = Position(b) => (Statement(a) <=> Statement(b))
ASSUME BlockListsAssumption ==
  \A p \in BlockLists : \A L \in {p[1], p[2]} :
    IsSeq(L) /\ \A b \in Range(L) : IsBlock(b) /\ b.start_line >= 1
ASSUME PairingsAssumption ==
  \A p \in Pairings :
    /\ IsSeq(p.files) /\ IsSeq(p.prefix)
    /\ \A i \in DOMAIN p.files : IsSeq(p.files[i].path)
    /\ \A q \in p.paths : IsSeq(q)
ASSUME MeasurementsAssumption ==
  \A m \in Measurements :
    /\ IsSeq(m) /\ m # <<>>
    /\ \A i \in DOMAIN m : IsFiniteSet(m[i].executable) /\ m[i].ran \subseteq m[i].executable

\* Patterns are lists of segments, and what a comparison costs is a count.
IsPatternList(patterns) ==
  IsSeq(patterns) /\ \A p \in Range(patterns) : IsSeq(p.segs) /\ p.anchored \in BOOLEAN
Priced(patterns, path) ==
  LET rules == Compile(patterns)
  IN  rules.kind = "rules" =>
        \A i \in 1 .. Len(rules.patterns) :
          \A j \in 1 .. Len(rules.patterns[i]), seg \in Range(path) :
            Cost(rules.patterns[i][j], seg) \in Nat
ASSUME MatchingsAssumption ==
  \A m \in Matchings :
    /\ IsPatternList(m.patterns) /\ IsSeq(m.path) /\ IsSeq(m.prefix) /\ m.units \in Int
    /\ Priced(m.patterns, m.path)

\* Both pattern lists of a part were validated where they came in.
ASSUME SubmissionsAssumption ==
  \A s \in Submissions :
    /\ IsFiniteSet(s.added) /\ s.units \in Int
    /\ \A i \in DOMAIN s.parts :
         LET sub == s.parts[i]
             patterns == sub.repo \o sub.upload
         IN  /\ IsPatternList(patterns) /\ Compile(patterns).kind = "rules"
             /\ IsFiniteSet(DOMAIN sub.profile) /\ IsSeq(sub.prefix)
             /\ \A path \in DOMAIN sub.profile \cup {a.path : a \in s.added} :
                  IsSeq(path) /\ Priced(patterns, path)

VARIABLES call, answer
callVars == <<call, answer>>

-----------------------------------------------------------------------------
(* core/accept.go                                                             *)

\* The paths no pattern matches, and what is left of the rules' budget.
SiftPath(acc, path, patterns, prefix) ==
  LET m == Match(patterns, path, prefix, acc.budget)
  IN  [kept |-> IF m.matched THEN acc.kept ELSE acc.kept \cup {path}, budget |-> m.budget]

Sift(patterns, paths, prefix, budget) ==
  LET order == SetToSeq(paths)
      walk[i \in 0 .. Cardinality(paths)] ==
        IF i = 0 THEN [kept |-> {}, budget |-> budget]
        ELSE SiftPath(walk[i - 1], order[i], patterns, prefix)
  IN  walk[Cardinality(paths)]

\* applyIgnore: the profile without the files the repo's and the upload's
\* patterns match; an error when none is left or the budget ran out.
applyIgnore(sub, units) ==
  LET patterns == Compile(sub.repo \o sub.upload).patterns
      sifted == Sift(patterns, DOMAIN sub.profile, sub.prefix, Limit(units))
  IN  IF sub.repo \o sub.upload = <<>>
      THEN [error |-> "none", profile |-> sub.profile, patterns |-> <<>>, budget |-> Unlimited]
      ELSE [error |-> IF Spent(sifted.budget) THEN "costly"
                      ELSE IF sifted.kept = {} /\ DOMAIN sub.profile # {} THEN "ignored"
                      ELSE "none",
            profile |-> Restrict(sub.profile, sifted.kept),
            patterns |-> patterns, budget |-> sifted.budget]

\* A profile's files as diffcov takes them.
FilesOf(profile) ==
  LET paths == SetToSeq(DOMAIN profile)
  IN  [i \in DOMAIN paths |-> [path |-> paths[i], blocks |-> profile[paths[i]]]]

\* A mutant: ignored files are not taken off the list.
diffCoverage_Ignored(taken, format, added, prefix) ==
  LET res == Compute(FilesOf(taken.profile), added, prefix)
  IN  [result |-> [res EXCEPT !.unmatched =
                     {p \in @ : ExpectsCoverage(format, taken.profile, p)}],
       budget |-> taken.budget]

\* diffCoverage once the diff is parsed: of the changed files without data
\* only those stay that are not ignored and that the report should have
\* measured.  It matches on what applyIgnore left of the budget and does not
\* ask whether that ran out.
diffCoverage(taken, format, added, prefix) ==
  LET res == Compute(FilesOf(taken.profile), added, prefix)
      sifted == Sift(taken.patterns, res.unmatched, NoPath, taken.budget)
  IN  [result |-> [res EXCEPT !.unmatched =
                     {p \in sifted.kept : ExpectsCoverage(format, taken.profile, p)}],
       budget |-> sifted.budget]

-----------------------------------------------------------------------------
(* One action per call                                                        *)

CallInit ==
  /\ answer = <<>>
  /\ \/ \E r \in Reports : call = [kind |-> "parse", of |-> r]
     \/ \E c \in Commits : call = [kind |-> "merge", of |-> c]
     \/ \E e \in Edits : call = [kind |-> "diff", of |-> e]
     \/ \E b \in BlockLists : call = [kind |-> "spans", of |-> b]
     \/ \E p \in Pairings : call = [kind |-> "pair", of |-> p]
     \/ \E m \in Measurements : call = [kind |-> "diffs", of |-> m]
     \/ \E m \in Matchings : call = [kind |-> "ignore", of |-> m]
     \/ \E s \in Submissions : call = [kind |-> "accept", of |-> s]

\* A call of one kind answers once.
Call(kind) == answer = <<>> /\ call.kind = kind /\ UNCHANGED call
Is(kind) == answer # <<>> /\ call.kind = kind

ParseReport ==
  /\ Call("parse")
  /\ \E profile \in Parses(Detect(call.of.head), call.of.report) : answer' = <<profile>>

\* The rows of each part, its upload's id its place in the sequence.
CommitRows(commit) == UNION {Rows(i, commit[i]) : i \in DOMAIN commit}

MergeCommit ==
  /\ Call("merge")
  /\ answer' = <<MergeParts(CommitRows(call.of))>>

ParseDiff ==
  /\ Call("diff")
  /\ answer' = <<ParseUnifiedDiff(call.of.diff)>>

LinesOf(spans) == UNION {spans[i].start .. spans[i].end : i \in DOMAIN spans}
Ascending(lines) ==
  LET order == Ordered({<<l>> : l \in lines})
  IN  [i \in DOMAIN order |-> order[i][1]]

WalkSpans ==
  /\ Call("spans")
  /\ LET a == StatementSpans(call.of[1])
         b == StatementSpans(call.of[2])
     IN  answer' = <<[merged |-> a, minus |-> SubtractSpans(a, b),
                      both |-> IntersectSpans(a, b), missed |-> MissedSpans(call.of[1]),
                      runs |-> LineSpans(Ascending(LinesOf(a)))]>>

PairPaths ==
  /\ Call("pair")
  /\ answer' = <<[p \in call.of.paths |-> match(call.of.files, p, call.of.prefix)]>>

\* What a part's Compute found for one changed file.
Measured(m) ==
  Result({FileCoverage(<<"f">>, Cardinality(m.ran), Cardinality(m.executable),
                       m.executable \ m.ran)}, {})

MergeDiffResults ==
  /\ Call("diffs")
  /\ answer' = <<MergeDiffs([i \in DOMAIN call.of |-> Measured(call.of[i])])>>

MatchIgnore ==
  /\ Call("ignore")
  /\ LET rules == Compile(call.of.patterns)
     IN  answer' = <<IF rules.kind # "rules" THEN rules
                     ELSE Match(rules.patterns, call.of.path, call.of.prefix,
                                Limit(call.of.units))>>

\* Each part is filtered, those that are taken are measured, and what they
\* measured is merged.
Merged(filtered, measured) ==
  [filtered |-> filtered, measured |-> measured,
   diff |-> MergeDiffs([i \in DOMAIN measured |-> measured[i].result]).result]

Measure(subs, added, filtered) ==
  LET taken == {i \in DOMAIN subs : filtered[i].error = "none"}
  IN  Merged(filtered, [i \in taken |-> diffCoverage(filtered[i], subs[i].format, added,
                                                   subs[i].prefix)])

Accepted(submission) ==
  LET subs == submission.parts
  IN  Measure(subs, submission.added,
              [i \in DOMAIN subs |-> applyIgnore(subs[i], submission.units)])

AcceptParts ==
  /\ Call("accept")
  /\ answer' = <<Accepted(call.of)>>

CallNext ==
  \/ ParseReport
  \/ MergeCommit
  \/ ParseDiff
  \/ WalkSpans
  \/ PairPaths
  \/ MergeDiffResults
  \/ MatchIgnore
  \/ AcceptParts

CallSpec == CallInit /\ [][CallNext]_callVars

-----------------------------------------------------------------------------
(* Properties.  The meaning of each call, line by line.                       *)

LinesWhere(blocks, keep(_)) ==
  UNION {blocks[i].start_line .. blocks[i].end_line : i \in {j \in DOMAIN blocks : keep(blocks[j])}}

\* The hits of every line of a profile.
HitsOf(profile) ==
  [path \in DOMAIN profile |->
     [l \in LinesWhere(profile[path], LAMBDA b : TRUE) |->
        SumOver({i \in DOMAIN profile[path] :
                   l \in profile[path][i].start_line .. profile[path][i].end_line},
                LAMBDA i : profile[path][i].count)]]

\* Whatever format a test run is reported in, however its writer splits it
\* into suites, classes or modules and spells its paths, the report is taken
\* for the format it is in and its lines and hits are read alike; a report
\* with one bad record is refused (Detect, Parser.Parse).
FormatsAgree ==
  Is("parse") => /\ answer[1].ok = ~ call.of.bad
                 /\ answer[1].ok => HitsOf(answer[1].profile) = call.of.lines

\* "A line covered by any part counts as covered" (docs/parts.md), and one is
\* executable when it is in any part; a merged file belongs to the newest
\* upload that reported it, and the answer never depends on the shortcut for
\* a single part (MergeParts).
MergeIsTheUnion ==
  Is("merge") =>
    LET rows == CommitRows(call.of)
        same(path) == {r \in rows : r.path = path}
        lines(path, keep(_)) == UNION {LinesWhere(r.blocks, keep) : r \in same(path)}
    IN  /\ answer[1] = mergeAll(rows)
        /\ {m.path : m \in answer[1]} = {r.path : r \in rows}
        /\ \A m \in answer[1] :
             /\ Canonical(m.blocks)
             /\ m.upload = Max({r.upload : r \in same(m.path)})
             /\ LinesWhere(m.blocks, Statement) = lines(m.path, Statement)
             /\ LinesWhere(m.blocks, Ran) = lines(m.path, Ran)

\* Coverage is "every statement in every file of the merged report, counted
\* once" (docs/coverage-changed.md): for parts read from line formats, where a
\* line is a statement, the totals are the lines.  Does NOT hold (README, "What
\* does not hold"), so no run lists it.
StatementsCountedOnce ==
  Is("merge") =>
    LET totals == mergedCoverage({Rows(i, call.of[i]) : i \in DOMAIN call.of})
        lines(keep(_)) ==
          SumOver(answer[1], LAMBDA m : Cardinality(LinesWhere(m.blocks, keep)))
    IN  totals = [covered |-> lines(Ran), total |-> lines(Statement)]

\* The lines read from a unified diff are those the edit added, with their
\* numbers in the new file, also when added or removed text "looks like diff
\* syntax" and when the file was deleted (ParseUnifiedDiff).
ParsedDiffIsTheEdit == Is("diff") => answer[1] = Diff(call.of.added)

Separate(spans) ==
  \A i \in DOMAIN spans : /\ spans[i].start <= spans[i].end
                          /\ i > 1 => spans[i - 1].end + 1 < spans[i].start

\* The span walks are the sets of lines they stand for, and leave their spans
\* sorted and apart, which the next walk needs (diffcov's "one rule").
SpansAreLines ==
  Is("spans") =>
    LET a == LinesWhere(call.of[1], Statement)
        b == LinesWhere(call.of[2], Statement)
        got == answer[1]
    IN  /\ LinesOf(got.merged) = a
        /\ LinesOf(got.minus) = a \ b
        /\ LinesOf(got.both) = a \cap b
        /\ LinesOf(got.missed) = a \ LinesWhere(call.of[1], Ran)
        /\ got.runs = got.merged
        /\ \A spans \in {got.merged, got.minus, got.both, got.missed} : Separate(spans)

\* Pages flag a file as changed by the rule diff coverage binds it by: a bound
\* file is flagged, and a changed path bound to no file flags none (Touches,
\* match).
BoundIsTouched ==
  Is("pair") =>
    LET files == call.of.files
        prefix == call.of.prefix
    IN  \A p \in call.of.paths :
          IF answer[1][p] = 0
          THEN \A i \in DOMAIN files : ~ Touches({p}, files[i].path, prefix)
          ELSE Touches(call.of.paths, files[answer[1][p]].path, prefix)

\* Parts that measured the same changed lines merge line by line; parts that
\* counted differently merge so that it "never overstates coverage", neither
\* in lines nor as a percentage, and never to a negative count (mergeFile).
MergeNeverOverstates ==
  Is("diffs") =>
    LET parts == call.of
        executable == UNION {parts[i].executable : i \in DOMAIN parts}
        ran == UNION {parts[i].ran : i \in DOMAIN parts}
        f == CHOOSE g \in answer[1].result.files : TRUE
    IN  /\ 0 <= f.covered_lines /\ f.covered_lines <= f.total_lines
        /\ f.total_lines = f.covered_lines + Cardinality(f.uncovered_lines)
        /\ f.path \in answer[1].conflicts =>
             /\ f.covered_lines <= Cardinality(ran)
             /\ f.covered_lines * Cardinality(executable) <= Cardinality(ran) * f.total_lines
        /\ (\A i \in DOMAIN parts : parts[i].executable = executable) =>
             /\ f.total_lines = Cardinality(executable)
             /\ f.uncovered_lines = executable \ ran

\* The places of a path, its end one of them, from which any run of segments
\* leads to a place of S; and those from which one segment that matches does.
AnyRun(S, path) == {j \in 1 .. Len(path) + 1 : \E k \in S : j <= k}
OneMore(glob, S, path) == {j \in 1 .. Len(path) : GlobMatch(glob, path[j]) /\ j + 1 \in S}

\* A "**" stands for any run, a doubled star in a segment for any run and then
\* the segment.
Leading(seg, S, path) ==
  IF Spread(seg) = DoubleStar THEN AnyRun(S, path)
  ELSE IF Doubled(seg) THEN AnyRun(OneMore(Spread(seg), S, path), path)
  ELSE OneMore(seg, S, path)

\* The places from which a written pattern matches, its last segment first;
\* the rest of the path is below a match.
Means(segs, path) ==
  LET from[n \in 0 .. Len(segs)] ==
        IF n = 0 THEN 1 .. Len(path) + 1
        ELSE Leading(segs[Len(segs) - n + 1], from[n - 1], path)
  IN  from[Len(segs)]

\* A pattern that is nothing but slashes is none.
Wanted(p, path) ==
  /\ p.segs # <<>>
  /\ IF p.anchored THEN 1 \in Means(p.segs, path) ELSE Means(p.segs, path) # {}

WantedUnder(patterns, path, prefix) ==
  \E i \in DOMAIN patterns :
    \/ Wanted(patterns[i], path)
    \/ /\ prefix # <<>> /\ IsStrictPrefix(prefix, path)
       /\ Wanted(patterns[i], SubSeq(path, Len(prefix) + 1, Len(path)))

\* The single-backtrack loop ignores exactly the paths the patterns mean, or
\* the budget ran out and Err says so (matchSegments, charge).
IgnoresWhatIsMeant ==
  Is("ignore") /\ Compile(call.of.patterns).kind = "rules" =>
    \/ Spent(answer[1].budget)
    \/ answer[1].matched = WantedUnder(call.of.patterns, call.of.path, call.of.prefix)

\* A pull request is blamed for a changed file without coverage data only if
\* a part that was taken measures its language and does not ignore it, or ran
\* out of budget on the changed files, and no part counted changed lines of it;
\* no ignored file is kept, and no part is taken that ignores all it measured
\* (diffCoverage, Merge, applyIgnore).
BlameIsEarned ==
  Is("accept") =>
    LET subs == call.of.parts
        got == answer[1]
        taken == {i \in DOMAIN subs : got.filtered[i].error = "none"}
        ignores(i, path, prefix) == WantedUnder(subs[i].repo \o subs[i].upload, path, prefix)
    IN  /\ \A i \in taken :
             LET kept == DOMAIN got.filtered[i].profile
             IN  /\ kept = {p \in DOMAIN subs[i].profile : ~ ignores(i, p, subs[i].prefix)}
                 /\ kept # {} \/ DOMAIN subs[i].profile = {}
        /\ \A p \in got.diff.unmatched :
             /\ AddedTo(call.of.added, p) # {}
             /\ p \notin {f.path : f \in got.diff.files}
             /\ \E i \in taken :
                  /\ Spent(got.measured[i].budget) \/ ~ ignores(i, p, NoPath)
                  /\ ~ IsTestFile(subs[i].format, p)
                  /\ \E q \in DOMAIN got.filtered[i].profile : familyOf(q) = familyOf(p)
                  /\ match(FilesOf(got.filtered[i].profile), p, subs[i].prefix) = 0

\* "flagging them as untested would count them against the PR after all"
\* (diffCoverage): no part's ignored file is among those it blames.  Does NOT
\* hold once the budget runs out on the diff (README, "What does not hold"), so
\* no run lists it.
IgnoredIsNeverBlamed ==
  Is("accept") =>
    LET subs == call.of.parts
        measured == answer[1].measured
    IN  \A i \in DOMAIN measured : \A p \in measured[i].result.unmatched :
          ~ WantedUnder(subs[i].repo \o subs[i].upload, p, NoPath)
=============================================================================
