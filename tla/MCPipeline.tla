----------------------------- MODULE MCPipeline -----------------------------
(* Inputs for the calls of Pipeline: every small case of each call.           *)
EXTENDS Pipeline

-----------------------------------------------------------------------------
(* Names                                                                      *)

MCExt(name) == CASE name \in {"x.go", "x_test.go"} -> ".go"
                 [] name \in {"y.ts", "y.test.ts"} -> ".ts"
                 [] OTHER -> ""
MCSuffix(name) == CASE name = "x_test.go" -> "_test" [] name = "y.test.ts" -> ".test"
                    [] OTHER -> ""
MCGlobMatch(glob, seg) == glob = seg \/ glob = "*" \/ (glob = "*a" /\ seg \in {"a", "ba"})
                            \/ (glob = "*.go" /\ seg \in {"x.go", "x_test.go"})
MCBadGlob(glob) == FALSE
MCSpread(glob) == IF glob = "**a" THEN "*a" ELSE IF glob = "***" THEN "**" ELSE glob
MCCost(glob, seg) == IF glob \in {"*", "*a"} THEN 2 ELSE 1

SeqsOf(S, m, n) == UNION {[1 .. k -> S] : k \in m .. n}

-----------------------------------------------------------------------------
(* Reports: two suites that ran file a/x.go and one that ran b/y.ts, written  *)
(* in every format.  Lines: the hits of each line, None when not executable.  *)

PA == <<"a", "x.go">>
PB == <<"b", "y.ts">>
Spelled(path, how) == [segs |-> path, spelled |-> how, name |-> "a name"]
Lines == [1 .. 3 -> {None, 0, 1}]
Executable(h) == {l \in DOMAIN h : h[l] # None}
InOrder(S) == SetToSortSeq(S, <)
LinesIn(h, rec(_)) == LET o == InOrder(Executable(h)) IN [i \in DOMAIN o |-> rec(o[i])]

\* The lines two suites ran, added up.
Added(h1, h2) ==
  [l \in Executable(h1) \cup Executable(h2) |->
     (IF h1[l] = None THEN 0 ELSE h1[l]) + (IF h2[l] = None THEN 0 ELSE h2[l])]

Counted(h) == [l \in Executable(h) |-> h[l]]

\* What a bad record holds instead of a line number and of a count.
BadLine(l, flaw) == IF flaw = "line" THEN MaxLine + 1 ELSE IF flaw = "zero" THEN 0 ELSE l
BadCount(c, flaw) == IF flaw = "count" THEN -5 ELSE c

GoLines(path, h, flaw) ==
  LinesIn(h, LAMBDA l : [kind |-> "block", path |-> path,
                         block |-> Block(BadLine(l, flaw), 1, l, 9, 1, BadCount(h[l], flaw))])
LCOVLines(path, h, flaw, how) ==
  <<[kind |-> "TN"], [kind |-> "SF", path |-> Spelled(path, how)]>>
    \o LinesIn(h, LAMBDA l : [kind |-> "DA", line |-> BadLine(l, flaw),
                              count |-> BadCount(h[l], flaw)])
    \o <<[kind |-> "end_of_record"]>>
Uncounted == [i \in 1 .. 2 |-> [sl |-> IF i = 1 THEN HiddenLine ELSE 1, el |-> 1, vc |-> 1,
                                fileid |-> IF i = 1 THEN 1 ELSE 9, ref |-> 1]]
\* Two lines run alike are one sequence point; a point may go by its method.
Points(h, flaw) ==
  LET point(l, el) == [sl |-> BadLine(l, flaw), el |-> IF el = l THEN 0 ELSE el,
                       vc |-> BadCount(h[l], flaw), fileid |-> IF l = 2 THEN None ELSE 1, ref |-> 1]
  IN  IF h[1] # None /\ h[2] = h[1]
      THEN <<point(1, IF flaw = "marks" THEN MaxMarks ELSE 2)>> \o (IF h[3] = None THEN <<>> ELSE <<point(3, 3)>>)
      ELSE LinesIn(h, LAMBDA l : point(l, l))

\* One suite's part of a report about one file.
Written(format, path, h, flaw, how) ==
  CASE format = "go" -> GoLines(path, h, flaw)
    [] format = "lcov" -> LCOVLines(path, h, flaw, IF how = "windows" THEN "dot" ELSE how)
    [] format = "cobertura" ->
         <<[filename |-> Spelled(path, how),
            lines |-> LinesIn(h, LAMBDA l : [number |-> BadLine(l, flaw), hits |-> BadCount(h[l], flaw)])]>>
    [] format = "clover" ->
         <<[path |-> Spelled(IF how = "plain" THEN NoPath ELSE path, how), name |-> Spelled(path, how),
            lines |-> <<[num |-> 2, type |-> "method", count |-> 7]>>
                      \o LinesIn(h, LAMBDA l : [num |-> BadLine(l, flaw), type |-> "stmt",
                                                count |-> BadCount(h[l], flaw)])]>>
    [] format = "jacoco" ->
         <<[package |-> Front(path), name |-> <<Last(path)>>,
            lines |-> [l \in 1 .. 3 |-> [nr |-> BadLine(l, flaw),
                         mi |-> IF h[l] = 0 THEN 1 ELSE 0, ci |-> IF h[l] = None THEN 0 ELSE h[l]]]]>>
    [] format = "simplecov" ->
         <<[name |-> Spelled(path, how), unrecognized |-> flaw = "line",
            counts |-> [l \in 1 .. 3 |-> BadCount(h[l], flaw)]]>>
    [] format = "opencover" ->
         <<[files |-> <<[uid |-> 1, path |-> Spelled(path, how)]>>,
            points |-> Uncounted \o Points(h, flaw)]>>
    [] format = "xccov" ->
         <<[key |-> IF flaw = "zero" THEN Spelled(<<"targets">>, how) ELSE Spelled(path, how),
            entries |-> <<[line |-> 3, isExecutable |-> FALSE, executionCount |-> 0]>>
                        \o LinesIn(h, LAMBDA l : [line |-> BadLine(l, flaw), isExecutable |-> TRUE,
                                                  executionCount |-> BadCount(h[l], flaw)])]>>

MCHeads(format) ==
  CASE format = "go" -> {<<{"^mode:"}, {"<report"}>>}
    [] format = "lcov" -> {<<{"^TN:"}, {"^SF:"}>>, <<{"^SF:", "<project"}>>}
    [] format = "cobertura" -> {<<{"^<?xml"}, {"<coverage"}, {"<sources"}>>, <<{"<coverage"}>>,
                                <<{"<coverage"}>> \o [i \in 1 .. 10 |-> {}] \o <<{"<project"}>>,
                                <<{"cobertura"}, {"<coverage"}, {"<project"}>>}
    [] format = "clover" -> {<<{"<coverage"}, {"<project"}>>, <<{"<coverage", "clover="}>>,
                             <<{"<coverage", "<project", "<packages"}>>}
    [] format = "jacoco" -> {<<{"^<?xml", "<report"}>>, <<{"JACOCO"}, {"<report", "<sources"}>>}
    [] format = "simplecov" -> {<<{"^{"}, {}, {"coverage:"}>>}
    [] format = "opencover" -> {<<{"^<?xml", "<CoverageSession", "<report"}>>}
    [] format = "xccov" -> {<<{"^{", "isExecutable", "coverage:"}>>,
                            <<{"^{"}, {"coverage:"}>> \o [i \in 1 .. 10 |-> {}] \o <<{"isExecutable"}>>}

Formats == {"go", "lcov", "cobertura", "clover", "jacoco", "simplecov", "opencover", "xccov"}
Ran1 == [l \in 1 .. 3 |-> IF l = 3 THEN None ELSE 1]
FlawsOf(format) ==
  CASE format = "jacoco" -> {"line", "zero"}
    [] format = "simplecov" -> {"line", "count"}
    [] format = "opencover" -> {"line", "count", "zero", "marks"}
    [] OTHER -> {"line", "count", "zero"}

ReportOf(format, h1, h2, flaw, head, how) ==
  [head |-> head, bad |-> flaw # "none",
   report |-> (IF format = "go" THEN <<[kind |-> "mode"]>> ELSE <<>>)
              \o Written(format, PB, Ran1, "none", "plain")
              \o Written(format, PA, h1, "none", "plain") \o Written(format, PA, h2, flaw, how),
   lines |-> (PB :> Counted(Ran1))
             @@ (IF format # "lcov" /\ DOMAIN Added(h1, h2) = {} THEN <<>> ELSE PA :> Added(h1, h2))]

FirstHead(format) == CHOOSE head \in MCHeads(format) : TRUE
MCReports ==
  UNION {
    {ReportOf(f, h1, h2, "none", FirstHead(f), how) :
       h1 \in Lines, h2 \in Lines, how \in {"windows"}}
    \cup {ReportOf(f, Ran1, Ran1, "none", head, how) :
            head \in MCHeads(f), how \in {"plain", "dot", "windows"}}
    \cup {ReportOf(f, Ran1, Ran1, flaw, FirstHead(f), "plain") : flaw \in FlawsOf(f)}
    : f \in Formats}

-----------------------------------------------------------------------------
(* Commits: the blocks one or two parts reported for a file, in any order.    *)

Pool ==
  {Block(1, 1, 2, 9, 2, c) : c \in {0, 1}} \cup {Block(2, 1, 3, 1, 1, c) : c \in {0, 1}}
    \cup {Block(1, 1, 3, 1, 1, c) : c \in {0, 2}} \cup {Block(2, 5, 2, 9, 0, 1)}
Lists == {s \in SeqsOf(Pool, 0, 2) : Len(s) = 2 => Position(s[1]) # Position(s[2])}
MCCommits ==
  {<<PA :> l>> : l \in Lists}
    \cup {<<PA :> l, PA :> m>> : l \in Lists, m \in Lists}
    \cup {<<PA :> l, (PA :> m) @@ (PB :> l), PB :> m>> : l \in Lists, m \in {<<b>> : b \in Pool}}

\* Parts read from line formats.
LineCommits ==
  {<<PA :> BlocksFromLineHits(Counted(h1)), PA :> BlocksFromLineHits(Counted(h2))>> :
     h1 \in Lines, h2 \in Lines}

-----------------------------------------------------------------------------
(* Edits: scripts of kept, deleted and added lines, some of which look like   *)
(* headers, in one hunk or two, with a second file after them.                *)

LineKinds == {"keep", "del", "add", "add++", "del--"}
Content(k) ==
  CASE k = "keep" -> [first |-> " ", header |-> "meta"]
    [] k = "del" -> [first |-> "-", header |-> "meta"]
    [] k = "add" -> [first |-> "+", header |-> "meta"]
    [] k = "add++" -> [first |-> "+", header |-> "+++", path |-> PB]
    [] k = "del--" -> [first |-> "-", header |-> "meta"]
Count(script, kinds) == Cardinality({i \in DOMAIN script : script[i] \in kinds})
OldLen(script) == Count(script, {"keep", "del", "del--"})
NewLen(script) == Count(script, {"keep", "add", "add++"})
Length(n) == IF n = 1 THEN None ELSE n
Hunk(start, script) ==
  IF script = <<>> THEN <<>>
  ELSE <<[first |-> "@", header |-> "@@", start |-> start,
          old |-> Length(OldLen(script)), new |-> Length(NewLen(script))]>>
       \o [i \in DOMAIN script |-> Content(script[i])]
Header(path) ==
  <<[first |-> "d", header |-> "diff"], [first |-> "-", header |-> "meta"],
    [first |-> "+", header |-> "+++", path |-> path]>>
NoNewline == <<[first |-> "\\", header |-> "meta"]>>
EditOf(path, s1, s2) ==
  LET all == s1 \o s2
      tail == <<"add", "keep">>
      lineOf(i) == 1 + NewLen(SubSeq(all, 1, i - 1))
      adds == {i \in DOMAIN all : all[i] \in {"add", "add++"}}
  IN  [diff |-> Header(path) \o Hunk(1, s1) \o Hunk(1 + NewLen(s1), s2) \o NoNewline
                \o Header(PB) \o Hunk(4, tail) \o NoNewline,
       added |-> {[path |-> PB, line |-> 4]}
                 \cup (IF path = NoPath THEN {} ELSE {[path |-> path, line |-> lineOf(i)] : i \in adds})]
Scripts(n) == SeqsOf(LineKinds, 0, n)
MCEdits ==
  {EditOf(PA, s1, s2) : s1 \in Scripts(3), s2 \in Scripts(2)}
    \cup {EditOf(NoPath, s1, <<>>) : s1 \in Scripts(3)}

-----------------------------------------------------------------------------
(* Block lists, pairings and measurements                                     *)

\* A block runs when its bounds add up to an even number; one holds nothing.
Spans4 == {[s |-> s, e |-> e] : s \in 1 .. 4, e \in 1 .. 4}
SpanBlocks == {Block(x.s, 1, x.e, 1, 1, IF x.s \in {x.e, x.e - 2} THEN 1 ELSE 0) :
                 x \in {y \in Spans4 : y.s <= y.e}} \cup {Block(2, 1, 3, 1, 0, 1)}
UpTo(S, n) == {SetToSeq(T) : T \in {U \in SUBSET S : Cardinality(U) <= n}}
MCBlockLists == {<<a, b>> : a \in UpTo(SpanBlocks, 3), b \in UpTo(SpanBlocks, 2)}

ProfilePaths == {<<"x">>, <<"a", "x">>, <<"m", "x">>, <<"m", "a", "x">>, <<"a", "m", "x">>,
                 <<"m", "m", "a", "x">>}
FileLists == UNION {{[i \in 1 .. n |-> [path |-> s[i], blocks |-> <<>>]] :
                       s \in {t \in [1 .. n -> ProfilePaths] :
                                \A i, j \in 1 .. n : t[i] = t[j] => i = j}} : n \in 1 .. 3}
MCPairings ==
  {[files |-> f, paths |-> P, prefix |-> pre] :
     f \in FileLists, pre \in {NoPath, <<"m">>},
     P \in {Q \in SUBSET ProfilePaths : Cardinality(Q) \in {1, 2}}}

PartLines == {[executable |-> e, ran |-> r] : e \in (SUBSET (1 .. 3)) \ {{}}, r \in SUBSET (1 .. 3)}
Parts == {m \in PartLines : m.ran \subseteq m.executable}
MCMeasurements == SeqsOf(Parts, 1, 3)

-----------------------------------------------------------------------------
(* Patterns                                                                   *)

Segments == {"**", "a", "*", "**a"}
SegmentLists == SeqsOf(Segments, 1, 3) \cup SeqsOf({"a", "***"}, 1, 3)
Written1(segs, anchored) == [anchored |-> anchored, long |-> FALSE, segs |-> segs]
Patterns == {p \in {Written1(s, a) : s \in SegmentLists, a \in BOOLEAN} :
               CompileOne(p).kind = "compiled"}
TreePaths == SeqsOf({"a", "b"}, 1, 4)
MCMatchings ==
  {[patterns |-> <<p>>, path |-> t, prefix |-> NoPath, units |-> u] :
     p \in Patterns, t \in TreePaths, u \in {3, 100}}
  \cup {[patterns |-> <<Written1(<<"b">>, TRUE), Written1(<<>>, TRUE), p>>, path |-> t, prefix |-> <<"a">>, units |-> 100] :
          p \in Patterns, t \in TreePaths}

-----------------------------------------------------------------------------
(* Submissions: two parts of a pull request that changes Go and TypeScript.   *)

GoPath == <<"a", "x.go">>
TestPath == <<"a", "x_test.go">>
TsPath == <<"b", "y.ts">>
Line(l, c) == Block(l, 1, l, 9, 1, c)
Profiles ==
  {<<>>, GoPath :> <<Line(1, 1), Line(2, 0)>>, (<<"m">> \o GoPath) :> <<Line(1, 0)>>,
   TsPath :> <<Line(1, 0), Line(3, 1)>>,
   (GoPath :> <<Line(2, 1)>>) @@ (TsPath :> <<Line(1, 1)>>)}
IgnoreLists == {<<>>, <<Written1(<<"*.go">>, FALSE)>>, <<Written1(<<"b">>, TRUE)>>,
                <<Written1(<<"a", "**">>, FALSE)>>, <<Written1(<<"c">>, TRUE)>>}
Subs ==
  {[profile |-> q, format |-> f, prefix |-> pre, repo |-> r, upload |-> u] :
     q \in Profiles, f \in {"go", "lcov"}, pre \in {NoPath, <<"m">>},
     r \in {<<>>, <<Written1(<<"b">>, TRUE)>>}, u \in IgnoreLists}
Changed == {{GoPath, TestPath, TsPath} \X {1}, {GoPath, TsPath, <<"c", "x.go">>} \X {1, 2}}
MCSubmissions ==
  {[parts |-> <<s, t>>, units |-> 100,
    added |-> {[path |-> c[1], line |-> c[2]] : c \in ch}] :
     s \in Subs, ch \in Changed,
     t \in {x \in Subs : x.repo = <<>> /\ x.prefix = NoPath /\ (x.upload = <<>> \/ x.format = "lcov")}}
  \* A budget that runs out while the report's files are matched, or after.
  \cup {[parts |-> <<s>>, units |-> u, added |-> {[path |-> c[1], line |-> c[2]] : c \in ch}] :
          s \in Subs, ch \in Changed, u \in 1 .. 4}
=============================================================================
