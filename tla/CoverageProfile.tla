-------------------------- MODULE CoverageProfile --------------------------
(* internal/profile and core/merge.go: the model every coverage format is     *)
(* read into, the readers of the formats, and the merge of a commit's parts.  *)
(*                                                                            *)
(* A profile is a function from paths to sequences of blocks: the code's list *)
(* of files is sorted by path and names each path once.  A report is what a   *)
(* decoder hands the parser: sequences of records with the fields it reads.   *)
(* A parser answers Parsed(profile) or Malformed.                             *)
EXTENDS Integers, Sequences, SequencesExt, FiniteSets, FiniteSetsExt, Functions

CONSTANTS
  MaxLine,     \* maxLineNumber
  HiddenLine,  \* openCoverHiddenLine
  MaxMarks,    \* maxOpenCoverLineMarks
  Ext(_),      \* the extension of a file name
  Suffix(_)    \* the name's ending before the extension: "_test", ".spec", ...

Malformed == [ok |-> FALSE]
Parsed(profile) == [ok |-> TRUE, profile |-> profile]
NoPath == <<>>
None == -1      \* a null of a JSON array, an attribute left out

-----------------------------------------------------------------------------
(* Blocks                                                                     *)

Block(sl, sc, el, ec, n, c) ==
  [start_line |-> sl, start_col |-> sc, end_line |-> el, end_col |-> ec,
   num_stmts |-> n, count |-> c]

Position(b) == <<b.start_line, b.start_col, b.end_line, b.end_col>>

\* The sum of f over the indices of a sequence that satisfy a test.
SumOver(I, f(_)) == MapThenSumSet(f, I)

Covered(blocks) ==
  SumOver({i \in DOMAIN blocks : blocks[i].count > 0}, LAMBDA i : blocks[i].num_stmts)
Total(blocks) == SumOver(DOMAIN blocks, LAMBDA i : blocks[i].num_stmts)

\* Positions in the order of comparePos: the first place they differ decides.
Before(p, q) ==
  \E i \in DOMAIN p : p[i] < q[i] /\ \A j \in 1 .. i - 1 : p[j] = q[j]

Canonical(blocks) ==
  \A i \in DOMAIN blocks \ {1} : Before(Position(blocks[i - 1]), Position(blocks[i]))

\* A mutant: the first part's hits stay.
AtPosition_First(blocks, p) ==
  LET same == {i \in DOMAIN blocks : Position(blocks[i]) = p}
  IN  blocks[Min(same)]

\* The block Merge keeps for one position: hits add up, the larger count of
\* statements wins.
AtPosition(blocks, p) ==
  LET same == {i \in DOMAIN blocks : Position(blocks[i]) = p}
  IN  Block(p[1], p[2], p[3], p[4],
            Max({blocks[i].num_stmts : i \in same}),
            SumOver(same, LAMBDA i : blocks[i].count))

\* The places in their order: each has as many before it as its rank says.
Ordered(places) ==
  [i \in 1 .. Cardinality(places) |->
     CHOOSE p \in places : Cardinality({q \in places : Before(q, p)}) = i - 1]

MergedBlocks(blocks) ==
  LET order == Ordered({Position(blocks[i]) : i \in DOMAIN blocks})
  IN  [i \in DOMAIN order |-> AtPosition(blocks, order[i])]

\* profile.Merge of a sequence of profiles.
Merge(profiles) ==
  [path \in UNION {DOMAIN profiles[i] : i \in DOMAIN profiles} |->
     MergedBlocks(FlattenSeq([i \in DOMAIN profiles |->
                     IF path \in DOMAIN profiles[i] THEN profiles[i][path] ELSE <<>>]))]

-----------------------------------------------------------------------------
(* Line hits: what every format but Go's is read into.  A hit is a record of  *)
(* one line of one file, as often as the report has it.                       *)

Hit(path, line, count) == [path |-> path, line |-> line, count |-> count]

\* A mutant: lines that ran alike collapse across the gaps between them.
BlocksFromLineHits_Gap(lines) ==
  LET counts == {lines[l] : l \in DOMAIN lines}
      order == SetToSortSeq(counts, <)
      at(c) == {l \in DOMAIN lines : lines[l] = c}
  IN  [i \in DOMAIN order |->
         Block(Min(at(order[i])), 1, Max(at(order[i])), 1, Cardinality(at(order[i])), order[i])]

\* blocksFromLineHits: lines is a function from line numbers to hits.
BlocksFromLineHits(lines) ==
  LET starts == {l \in DOMAIN lines :
                   ~ (l - 1 \in DOMAIN lines /\ lines[l - 1] = lines[l])}
      end(l) == Max({m \in DOMAIN lines : m >= l /\ l .. m \subseteq DOMAIN lines
                                            /\ \A k \in l .. m : lines[k] = lines[l]})
      order == SetToSortSeq(starts, <)
  IN  [i \in DOMAIN order |->
         Block(order[i], 1, end(order[i]), 1, end(order[i]) - order[i] + 1, lines[order[i]])]

\* The hits of each line of one path, added up.
LineHits(hits, path) ==
  [l \in {hits[i].line : i \in {j \in DOMAIN hits : hits[j].path = path}} |->
     SumOver({i \in DOMAIN hits : hits[i].path = path /\ hits[i].line = l},
             LAMBDA i : hits[i].count)]

\* fromLineHits: files without lines go, and a report without files is refused.
FromLineHits(hits) ==
  IF hits = <<>> THEN Malformed
  ELSE Parsed([path \in {hits[i].path : i \in DOMAIN hits} |->
                 BlocksFromLineHits(LineHits(hits, path))])

BadHit(h) == h.line <= 0 \/ h.line > MaxLine \/ h.count < 0

\* A path as a report spells it: its segments, whether it is "plain", begins
\* with "./" ("dot") or has backslashes ("windows"), and the whole as one name.
normalizePath(p) == p.segs
\* LCOV's reader trims the "./" only: backslashes make one long name.
LCOVPath(p) == IF p.spelled = "windows" THEN <<p.name>> ELSE p.segs

-----------------------------------------------------------------------------
(* The parsers.  A report is refused whole when one of its records is bad.    *)

\* The hits of a report's entries, each entry a path and its lines.
Entries(es, hits(_)) == FlattenSeq([i \in DOMAIN es |-> hits(es[i])])
Some(s, Test(_)) == \E i \in DOMAIN s : Test(s[i])

\* GoParser: a mode line, then blocks.  Blocks of one position add up their
\* hits, and the first one's count of statements stays.
GoBlockAt(lines, path, p) ==
  LET same == {i \in DOMAIN lines : /\ lines[i].kind = "block" /\ lines[i].path = path
                                    /\ Position(lines[i].block) = p}
      first == lines[Min(same)].block
  IN  [first EXCEPT !.count = SumOver(same, LAMBDA i : lines[i].block.count)]

GoFileBlocks(lines, path) ==
  {GoBlockAt(lines, path, Position(lines[i].block)) :
     i \in {j \in DOMAIN lines : lines[j].kind = "block" /\ lines[j].path = path}}

BadGoLine(l) ==
  /\ l.kind # "mode"
  /\ \/ l.kind = "bad"
     \/ l.block.num_stmts < 0 \/ l.block.count < 0
     \/ l.block.start_line < 1 \/ l.block.end_line < l.block.start_line
     \/ l.block.end_line > MaxLine

GoRefuses(lines) ==
  \/ lines = <<>>
  \/ lines[1].kind # "mode"
  \/ Some(lines, BadGoLine)

\* The sort goes by a block's start alone and is not stable: blocks that share
\* a start come in any order.  So the answer is one of a set.
StartsInOrder(blocks) ==
  \A i \in DOMAIN blocks \ {1} :
    ~ Before(SubSeq(Position(blocks[i]), 1, 2), SubSeq(Position(blocks[i - 1]), 1, 2))

GoParses(lines) ==
  IF GoRefuses(lines) THEN {Malformed}
  ELSE LET paths == {lines[i].path : i \in {j \in DOMAIN lines : lines[j].kind = "block"}}
           orders(path) == {s \in SetToSeqs(GoFileBlocks(lines, path)) : StartsInOrder(s)}
       IN  {Parsed(f) : f \in {g \in [paths -> UNION {orders(path) : path \in paths}] :
                                 \A path \in paths : g[path] \in orders(path)}}

\* LCOVParser: a DA record belongs to the last SF record before it, unless an
\* end_of_record closed that one.
Opener(records, i) ==
  LET marks == {j \in 1 .. i - 1 : records[j].kind \in {"SF", "end_of_record"}}
  IN  IF marks = {} THEN 0
      ELSE IF records[Max(marks)].kind = "SF" THEN Max(marks) ELSE 0

LCOVRefuses(records) ==
  \E i \in DOMAIN records :
    \/ records[i].kind = "SF" /\ LCOVPath(records[i].path) = NoPath
    \/ records[i].kind = "DA" /\ (Opener(records, i) = 0 \/ BadHit(records[i]))

LCOVParse(records) ==
  LET das == SelectSeq([i \in DOMAIN records |-> i], LAMBDA i : records[i].kind = "DA")
      hits == [i \in DOMAIN das |->
                 Hit(LCOVPath(records[Opener(records, das[i])].path),
                     records[das[i]].line, records[das[i]].count)]
      paths == {LCOVPath(records[i].path) : i \in {j \in DOMAIN records : records[j].kind = "SF"}}
  IN  IF LCOVRefuses(records) \/ paths = {} THEN Malformed
      ELSE Parsed([path \in paths |-> BlocksFromLineHits(LineHits(hits, path))])

\* CoberturaParser: classes of one file add up.
CoberturaHits(class) ==
  [i \in DOMAIN class.lines |-> Hit(normalizePath(class.filename),
                                    class.lines[i].number, class.lines[i].hits)]
CoberturaParse(classes) ==
  LET hits == Entries(classes, CoberturaHits)
  IN  IF Some(classes, LAMBDA c : c.filename.segs = NoPath) \/ Some(hits, BadHit)
      THEN Malformed ELSE FromLineHits(hits)

\* CloverParser: the path attribute before the name; method lines do not count.
CloverName(file) == IF file.path.segs # NoPath THEN file.path ELSE file.name
CloverHits(file) ==
  LET lines == SelectSeq(file.lines, LAMBDA l : l.type # "method")
  IN  [i \in DOMAIN lines |-> Hit(normalizePath(CloverName(file)), lines[i].num, lines[i].count)]
CloverParse(files) ==
  LET hits == Entries(files, CloverHits)
  IN  IF Some(files, LAMBDA f : CloverName(f).segs = NoPath) \/ Some(hits, BadHit)
      THEN Malformed ELSE FromLineHits(hits)

\* JaCoCoParser, over the source files its walk of the groups meets: a line
\* without instructions is not executable, and counts are not checked.
JaCoCoHits(sf) ==
  LET lines == SelectSeq(sf.lines, LAMBDA l : l.mi # 0 \/ l.ci # 0)
  IN  [i \in DOMAIN lines |-> Hit(sf.package \o sf.name, lines[i].nr, lines[i].ci)]
JaCoCoParse(sourcefiles) ==
  IF \/ Some(sourcefiles, LAMBDA sf : sf.name = NoPath)
     \/ Some(sourcefiles, LAMBDA sf : Some(sf.lines, LAMBDA l : l.nr <= 0 \/ l.nr > MaxLine))
  THEN Malformed ELSE FromLineHits(Entries(sourcefiles, JaCoCoHits))

\* SimpleCovParser: the files of every suite, counts indexed by line.  counts
\* is simplecovLines' answer, "unrecognized" for an entry of neither layout.
SimpleCovHits(file) ==
  LET lines == SelectSeq([i \in DOMAIN file.counts |-> i], LAMBDA i : file.counts[i] # None)
  IN  [i \in DOMAIN lines |-> Hit(normalizePath(file.name), lines[i], file.counts[lines[i]])]
SimpleCovParse(files) ==
  IF \/ Some(files, LAMBDA f : f.unrecognized)
     \/ Some(files, LAMBDA f : Len(f.counts) > MaxLine)
     \/ Some(files, LAMBDA f : Some(f.counts, LAMBDA c : c < None))
  THEN Malformed ELSE FromLineHits(Entries(files, SimpleCovHits))

\* OpenCoverParser: sequence points, each resolved in its own module by its
\* fileid or its method's FileRef; hidden and unresolved ones are skipped.
Uid(sp) == IF sp.fileid # None THEN sp.fileid ELSE sp.ref
ModuleFiles(m) == {i \in DOMAIN m.files : m.files[i].uid # None /\ m.files[i].path.segs # NoPath}
Resolved(m, sp) == {i \in ModuleFiles(m) : m.files[i].uid = Uid(sp)}
PointEnd(sp) == IF sp.el > sp.sl THEN sp.el ELSE sp.sl
PointsOf(m) ==
  SelectSeq(m.points, LAMBDA sp : /\ sp.sl # HiddenLine /\ sp.el # HiddenLine
                                  /\ Resolved(m, sp) # {})
BadPoint(sp) == sp.sl <= 0 \/ PointEnd(sp) > MaxLine \/ sp.vc < 0
PointHits(m, sp) ==
  [k \in 1 .. PointEnd(sp) - sp.sl + 1 |->
     Hit(normalizePath(m.files[Max(Resolved(m, sp))].path), sp.sl + k - 1, sp.vc)]
OpenCoverHits(m) == Entries(PointsOf(m), LAMBDA sp : PointHits(m, sp))
OpenCoverParse(modules) ==
  IF Some(modules, LAMBDA m : Some(PointsOf(m), BadPoint)) THEN Malformed
  ELSE LET hits == Entries(modules, OpenCoverHits)
       IN  IF Len(hits) > MaxMarks THEN Malformed ELSE FromLineHits(hits)

\* XccovParser: the archive schema; a key of the --report schema refuses it.
isXccovReportKey(key) ==
  key.segs \in {<<"coveredLines">>, <<"executableLines">>, <<"lineCoverage">>, <<"targets">>}
XccovHits(file) ==
  LET lines == SelectSeq(file.entries, LAMBDA e : e.isExecutable)
  IN  [i \in DOMAIN lines |-> Hit(normalizePath(file.key), lines[i].line, lines[i].executionCount)]
XccovParse(files) ==
  LET hits == Entries(files, XccovHits)
  IN  IF Some(files, LAMBDA f : isXccovReportKey(f.key)) \/ Some(hits, BadHit)
      THEN Malformed ELSE FromLineHits(hits)

\* The parser of a format, as a set of possible answers.
Parses(format, report) ==
  CASE format = "go"        -> GoParses(report)
    [] format = "lcov"      -> {LCOVParse(report)}
    [] format = "cobertura" -> {CoberturaParse(report)}
    [] format = "clover"    -> {CloverParse(report)}
    [] format = "jacoco"    -> {JaCoCoParse(report)}
    [] format = "simplecov" -> {SimpleCovParse(report)}
    [] format = "opencover" -> {OpenCoverParse(report)}
    [] format = "xccov"     -> {XccovParse(report)}
    [] OTHER                -> {Malformed}

-----------------------------------------------------------------------------
(* Detection.  A line of a report's head is the set of marks it carries; "^"  *)
(* begins a mark that counts only at the start of a line.  Blank lines are    *)
(* left out.                                                                  *)

HeadLines == 10

\* The cases of Detect's switch, in its order.
DetectRules == <<
  [format |-> "go",        marks |-> {"^mode:"}],
  [format |-> "opencover", marks |-> {"<CoverageSession"}],
  [format |-> "lcov",      marks |-> {"^TN:", "^SF:"}],
  [format |-> "jacoco",    marks |-> {"JACOCO", "<report"}],
  [format |-> "simplecov", marks |-> {"coverage:"}],
  [format |-> "clover",    marks |-> {"clover=", "<project"}],
  [format |-> "cobertura", marks |-> {"cobertura", "<packages", "<sources"}] >>

RulesFor(line) == {i \in DOMAIN DetectRules : line \cap DetectRules[i].marks # {}}
LineFormat(line) == DetectRules[Min(RulesFor(line))].format

detectXccov(head) ==
  LET marks == UNION Range(head)
  IN  /\ head # <<>> /\ "^{" \in head[1]
      /\ "isExecutable" \in marks \/ {"targets", "executableLines"} \subseteq marks

Detect(head) ==
  LET seen == 1 .. (IF Len(head) < HeadLines THEN Len(head) ELSE HeadLines)
      telling == {i \in seen : RulesFor(head[i]) # {}}
  IN  IF detectXccov(head) THEN "xccov"
      ELSE IF telling # {} THEN LineFormat(head[Min(telling)])
      ELSE IF \E i \in seen : "<coverage" \in head[i] THEN "cobertura"
      ELSE ""

-----------------------------------------------------------------------------
(* A commit's parts.  A row is what the store keeps of one file of an upload. *)

newUploadFile(upload, path, blocks) ==
  [upload |-> upload, path |-> path, blocks |-> blocks,
   covered |-> Covered(blocks), total |-> Total(blocks)]

\* The rows of an upload's profile (Submission.rows).
Rows(upload, profile) ==
  {newUploadFile(upload, path, profile[path]) : path \in DOMAIN profile}

canonicalFiles(rows) ==
  /\ \A r, s \in rows : r.path = s.path => r = s
  /\ \A r \in rows : Canonical(r.blocks)

\* Each row a profile of one file, so a path two rows name is merged.
mergeAll(rows) ==
  LET list == SetToSeq(rows)
      merged == Merge([i \in DOMAIN list |-> [path \in {list[i].path} |-> list[i].blocks]])
      owner(path) == Max({r.upload : r \in {s \in rows : s.path = path}})
  IN  {newUploadFile(owner(path), path, merged[path]) : path \in DOMAIN merged}

MergeParts(rows) ==
  IF Cardinality({r.upload : r \in rows}) = 1 /\ canonicalFiles(rows) THEN rows
  ELSE mergeAll(rows)

CoveredIn(rows) == SumOver(rows, LAMBDA r : r.covered)
TotalIn(rows) == SumOver(rows, LAMBDA r : r.total)

\* mergedCoverage: one part keeps the totals of its upload row.
mergedCoverage(parts) ==
  LET rows == IF Cardinality(parts) = 1 THEN UNION parts ELSE MergeParts(UNION parts)
  IN  [covered |-> CoveredIn(rows), total |-> TotalIn(rows)]

-----------------------------------------------------------------------------
(* Formats and languages: which changed files a report should have measured.  *)

jsExts == {".js", ".jsx", ".ts", ".tsx", ".mjs", ".cjs", ".vue", ".svelte"}
jvmExts == {".java", ".kt", ".kts", ".scala", ".groovy"}
dotnetExts == {".cs", ".vb", ".fs"}
rubyExts == {".rb", ".rake"}
elixirExts == {".ex", ".exs"}
nativeExts == {".c", ".cc", ".cpp", ".m", ".mm", ".swift"}

languageFamilies ==
  {{".go"}, jsExts, jvmExts, {".py"}, dotnetExts, {".php"}, rubyExts, {".rs"},
   {".dart"}, elixirExts, nativeExts}

\* A path's family; the files no family has are one more group.
familyOf(path) == UNION {f \in languageFamilies : Ext(Last(path)) \in f}

jsTestSuffixes == {".test", ".spec"} \X jsExts
testDirs == {"tests", "test", "benches"}

\* exts: SourceExts; tests: TestSuffixes; dirs: TestDirs.
formats == [
  go        |-> [exts |-> {".go"}, tests |-> {<<"_test", ".go">>}, dirs |-> {}],
  lcov      |-> [exts |-> jsExts \cup {".rs", ".dart"} \cup elixirExts \cup nativeExts,
                 tests |-> jsTestSuffixes \cup {<<"_test", ".dart">>, <<"_test", ".exs">>},
                 dirs |-> testDirs],
  jacoco    |-> [exts |-> jvmExts, tests |-> {}, dirs |-> {}],
  cobertura |-> [exts |-> {".py", ".cs", ".php", ".rs", ".scala"} \cup nativeExts,
                 tests |-> {}, dirs |-> testDirs],
  clover    |-> [exts |-> {".php", ".java", ".groovy", ".kt"} \cup jsExts,
                 tests |-> jsTestSuffixes, dirs |-> {}],
  simplecov |-> [exts |-> rubyExts,
                 tests |-> {<<"_spec", ".rb">>, <<"_test", ".rb">>}, dirs |-> {}],
  opencover |-> [exts |-> dotnetExts, tests |-> {}, dirs |-> {}],
  xccov     |-> [exts |-> nativeExts,
                 tests |-> {<<"Tests", ".swift">>, <<"Spec", ".swift">>,
                            <<"Tests", ".m">>, <<"Tests", ".mm">>}, dirs |-> {}]]

IsTestFile(format, path) ==
  \/ <<Suffix(Last(path)), Ext(Last(path))>> \in formats[format].tests
  \/ \E i \in 1 .. Len(path) - 1 : path[i] \in formats[format].dirs

\* Should a report have measured a file it has no data for?  No format lacks
\* source extensions today, so the case of "every file" does not arise.
ExpectsCoverage(format, profile, path) ==
  /\ ~ IsTestFile(format, path)
  /\ Ext(Last(path)) \in formats[format].exts
  /\ \E p \in DOMAIN profile : familyOf(p) = familyOf(path)
=============================================================================
