---------------------------- MODULE DiffCoverage ----------------------------
(* internal/diffcov: which changed lines of a pull request the tests ran.     *)
(*                                                                            *)
(* A path is the sequence of its segments.  The lines a diff adds are a set   *)
(* of [path, line]: the code's sorted list per path, asked only whether it    *)
(* has a line.  A result keeps its files as a function from repo paths.       *)
EXTENDS CoverageProfile

NotADiff == [ok |-> FALSE]
Diff(added) == [ok |-> TRUE, added |-> added]

-----------------------------------------------------------------------------
(* ParseUnifiedDiff.  A line of a diff has its first character, what it would *)
(* be outside a hunk ("diff", "+++", "@@", "bad" or "meta"), and a header's   *)
(* fields: path (NoPath for /dev/null), start, and the lengths, None when the *)
(* header leaves them out.                                                    *)

hunkCount(n) == IF n = None THEN 1 ELSE n

DiffStart == [file |-> NoPath, line |-> 0, oldRem |-> 0, newRem |-> 0,
              added |-> {}, bad |-> FALSE]

InHunk(st) == st.oldRem > 0 \/ st.newRem > 0

\* Inside a hunk every line is content, whatever it looks like.
HunkLine(st, l) ==
  CASE l.first = "+" ->
         [st EXCEPT !.line = @ + 1, !.newRem = @ - 1,
                    !.added = IF st.file = NoPath THEN @
                              ELSE @ \cup {[path |-> st.file, line |-> st.line]}]
    [] l.first = "-" -> [st EXCEPT !.oldRem = @ - 1]
    [] l.first = "\\" -> st
    [] OTHER -> [st EXCEPT !.line = @ + 1, !.oldRem = @ - 1, !.newRem = @ - 1]

HeaderLine(st, l) ==
  CASE l.header = "diff"  -> [st EXCEPT !.file = NoPath]
    [] l.header = "+++"   -> [st EXCEPT !.file = l.path]
    [] l.header = "@@"    -> [st EXCEPT !.line = l.start, !.oldRem = hunkCount(l.old),
                                        !.newRem = hunkCount(l.new)]
    [] l.header = "bad" -> [st EXCEPT !.bad = TRUE]
    [] OTHER              -> st

\* A mutant: a header is one inside a hunk, too.
DiffStep_Header(st, l) ==
  IF st.bad THEN st
  ELSE IF InHunk(st) /\ l.header = "meta" THEN HunkLine(st, l) ELSE HeaderLine(st, l)

DiffStep(st, l) ==
  IF st.bad THEN st ELSE IF InHunk(st) THEN HunkLine(st, l) ELSE HeaderLine(st, l)

ParseUnifiedDiff(lines) ==
  LET end == FoldLeft(DiffStep, DiffStart, lines)
  IN  IF end.bad THEN NotADiff ELSE Diff(end.added)

-----------------------------------------------------------------------------
(* Spans                                                                      *)

Span(start, end) == [start |-> start, end |-> end]
AtLeast(m, n) == IF m > n THEN m ELSE n
AtMost(m, n) == IF m < n THEN m ELSE n

Statement(b) == b.num_stmts > 0
Ran(b) == b.num_stmts > 0 /\ b.count > 0

\* A mutant: a span inside the last one shortens it.
JoinSpan_Shorten(merged, sp) ==
  IF merged # <<>> /\ sp.start <= Last(merged).end + 1
  THEN [merged EXCEPT ![Len(merged)].end = sp.end]
  ELSE Append(merged, sp)

\* The next span joins the last one when they overlap or touch.
JoinSpan(merged, sp) ==
  IF merged # <<>> /\ sp.start <= Last(merged).end + 1
  THEN [merged EXCEPT ![Len(merged)].end = AtLeast(@, sp.end)]
  ELSE Append(merged, sp)

\* The walk over spans, given as <<start, end>>, in their order.
JoinSpans(spans) ==
  LET order == Ordered(spans)
      walk[i \in 0 .. Cardinality(spans)] ==
        IF i = 0 THEN <<>> ELSE JoinSpan(walk[i - 1], Span(order[i][1], order[i][2]))
  IN  walk[Cardinality(spans)]

\* MergedSpans, of the blocks that keep accepts.
MergedSpans(kept) ==
  LET from(b) == AtLeast(b.start_line, 1)
  IN  JoinSpans({<<from(b), b.end_line>> : b \in {c \in kept : from(c) <= c.end_line}})

StatementSpans(blocks) == MergedSpans({b \in Range(blocks) : Statement(b)})
RanSpans(blocks) == MergedSpans({b \in Range(blocks) : Ran(b)})

\* One span of b cuts what is left of a span, from "start" on, if they meet.
Cut(sp, left, c) ==
  IF c.end < sp.start \/ c.start > sp.end THEN left
  ELSE [start |-> AtLeast(left.start, c.end + 1),
        out |-> IF c.start > left.start
                THEN Append(left.out, Span(left.start, c.start - 1)) ELSE left.out]

\* What one span leaves after the spans of b, first to last.
CutSpan(sp, b) ==
  LET walk[k \in 0 .. Len(b)] ==
        IF k = 0 THEN [start |-> sp.start, out |-> <<>>] ELSE Cut(sp, walk[k - 1], b[k])
      end == walk[Len(b)]
  IN  IF end.start <= sp.end THEN Append(end.out, Span(end.start, sp.end)) ELSE end.out

SubtractSpans(a, b) == FlattenSeq([i \in DOMAIN a |-> CutSpan(a[i], b)])

\* Two cursors over a and b; the span that ends first is left behind.
Meet(a, b, at) ==
  IF at.i > Len(a) \/ at.j > Len(b) THEN at
  ELSE LET start == AtLeast(a[at.i].start, b[at.j].start)
           end == AtMost(a[at.i].end, b[at.j].end)
           first == a[at.i].end < b[at.j].end
       IN  [i |-> IF first THEN at.i + 1 ELSE at.i, j |-> IF first THEN at.j ELSE at.j + 1,
            out |-> IF start <= end THEN Append(at.out, Span(start, end)) ELSE at.out]

IntersectSpans(a, b) ==
  LET walk[k \in 0 .. Len(a) + Len(b)] ==
        IF k = 0 THEN [i |-> 1, j |-> 1, out |-> <<>>] ELSE Meet(a, b, walk[k - 1])
  IN  walk[Len(a) + Len(b)].out

MissedSpans(blocks) == SubtractSpans(StatementSpans(blocks), RanSpans(blocks))

\* The binary search finds the first span that does not end before the line.
inSpans(spans, l) ==
  LET later == {i \in DOMAIN spans : spans[i].end >= l}
  IN  later # {} /\ spans[Min(later)].start <= l

\* Runs of consecutive lines in a sorted list, repeats kept in their run.
JoinLine(spans, l) ==
  IF spans # <<>> /\ l \in {Last(spans).end, Last(spans).end + 1}
  THEN [spans EXCEPT ![Len(spans)].end = l]
  ELSE Append(spans, Span(l, l))

LineSpans(lines) ==
  LET walk[i \in 0 .. Len(lines)] == IF i = 0 THEN <<>> ELSE JoinLine(walk[i - 1], lines[i])
  IN  walk[Len(lines)]

-----------------------------------------------------------------------------
(* Pairing diff paths with profile paths.  files is the profile's sequence of *)
(* [path, blocks]; prefix is NoPath when the upload names none.               *)

dirSuffixes(p) == {SubSeq(p, i, Len(p)) : i \in 2 .. Len(p)}
BareName(p) == Len(p) = 1

Named(files, p) == {i \in DOMAIN files : files[i].path = p}

\* The forward rule: the shortest profile path that ends with the diff path,
\* the first listed of those.
Forward(files, p) ==
  {i \in DOMAIN files : p \in dirSuffixes(files[i].path) /\ ~ BareName(p)}
ShortestOf(files, I) ==
  Min({i \in I : \A j \in I : Len(files[i].path) <= Len(files[j].path)})

\* The reverse rule: profile paths a diff path ends with.
Backward(files, p) ==
  {i \in DOMAIN files : files[i].path \in dirSuffixes(p) /\ ~ BareName(files[i].path)}
LongestOf(files, I) ==
  Min({i \in I : \A j \in I : Len(files[i].path) >= Len(files[j].path)})

\* match: the index of the file a diff path is bound to, 0 for none.
match(files, p, prefix) ==
  LET exact == Named(files, p)
      whole == Named(files, prefix \o p)
  IN  IF prefix # NoPath
      THEN IF exact \cup whole # {} THEN Min(exact \cup whole) ELSE 0
      ELSE IF exact # {} THEN Min(exact)
      ELSE IF Forward(files, p) # {} THEN ShortestOf(files, Forward(files, p))
      ELSE IF Backward(files, p) # {} THEN LongestOf(files, Backward(files, p))
      ELSE 0

\* A mutant: a bare name matches by suffix.
Touches_Bare(paths, profilePath, prefix) ==
  \/ profilePath \in paths
  \/ prefix # NoPath /\ IsPrefix(prefix, profilePath)
       /\ SubSeq(profilePath, Len(prefix) + 1, Len(profilePath)) \in paths
  \/ prefix = NoPath
       /\ \/ \E s \in dirSuffixes(profilePath) : s \in paths
          \/ \E p \in paths : profilePath \in dirSuffixes(p)

\* DiffPaths.Touches: is the file at a profile path one the diff changes?
Touches(paths, profilePath, prefix) ==
  \/ profilePath \in paths
  \/ prefix # NoPath /\ IsPrefix(prefix, profilePath)
       /\ SubSeq(profilePath, Len(prefix) + 1, Len(profilePath)) \in paths
  \/ prefix = NoPath
       /\ \/ \E s \in dirSuffixes(profilePath) : ~ BareName(s) /\ s \in paths
          \/ ~ BareName(profilePath)
             /\ \E p \in paths : profilePath \in dirSuffixes(p)

-----------------------------------------------------------------------------
(* Compute, and the merge of the results of a commit's parts.                 *)

FileCoverage(path, covered, total, uncovered) ==
  [path |-> path, covered_lines |-> covered, total_lines |-> total,
   uncovered_lines |-> uncovered]

\* A result's files and totals; unmatched lists paths without coverage data.
Result(coverages, unmatched) ==
  [files |-> coverages,
   covered_lines |-> SumOver(coverages, LAMBDA f : f.covered_lines),
   total_lines |-> SumOver(coverages, LAMBDA f : f.total_lines),
   unmatched |-> unmatched]

AddedTo(added, path) == {a.line : a \in {x \in added : x.path = path}}

\* The changed lines of one file, by the blocks of the profile it is bound to.
CoverageOf(path, lines, blocks) ==
  LET all == StatementSpans(blocks)
      ran == RanSpans(blocks)
      executable == {l \in lines : inSpans(all, l)}
      covered == {l \in executable : inSpans(ran, l)}
  IN  FileCoverage(path, Cardinality(covered), Cardinality(executable), executable \ covered)

Compute(files, added, prefix) ==
  LET paths == {a.path : a \in added}
      bound == {p \in paths : match(files, p, prefix) # 0}
      each == {CoverageOf(p, AddedTo(added, p), files[match(files, p, prefix)].blocks) :
                 p \in bound}
  IN  Result({f \in each : f.total_lines > 0}, paths \ bound)

\* mergeFile: parts that counted the same lines agree, and a line is uncovered
\* when all of them say so; otherwise when any of them does.
Agree(parts) == \A f, g \in parts : f.total_lines = g.total_lines

Uncovered(parts) ==
  LET sets == {f.uncovered_lines : f \in parts}
  IN  IF Agree(parts)
      THEN {l \in UNION sets : \A s \in sets : l \in s}
      ELSE UNION sets

\* A mutant: the largest part's total stays.
MergedTotal_Largest(parts) == Max({f.total_lines : f \in parts})

MergedTotal(parts) ==
  Max({f.total_lines : f \in parts} \cup {Cardinality(Uncovered(parts))})

mergeFile(path, parts) ==
  FileCoverage(path, MergedTotal(parts) - Cardinality(Uncovered(parts)),
               MergedTotal(parts), Uncovered(parts))

\* The coverages the parts have of one path: each part has at most one.
PartsWith(results, path) ==
  {f \in UNION {results[i].files : i \in DOMAIN results} : f.path = path}

\* Merge, over the results of the parts that have one.
MergeDiffs(results) ==
  LET paths == {f.path : f \in UNION {results[i].files : i \in DOMAIN results}}
      unmatched == UNION {results[i].unmatched : i \in DOMAIN results}
  IN  [result |-> Result({mergeFile(p, PartsWith(results, p)) : p \in paths},
                         unmatched \ paths),
       conflicts |-> {p \in paths : ~ Agree(PartsWith(results, p))}]
=============================================================================
