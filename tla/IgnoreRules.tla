----------------------------- MODULE IgnoreRules -----------------------------
(* internal/ignore: the glob patterns that leave files out of the coverage.   *)
(*                                                                            *)
(* A pattern as it is written is [anchored, segs]: whether it begins with a   *)
(* slash, and its segments once outer slashes are trimmed.  A path is the     *)
(* sequence of its segments.  Globs and segments are opaque names.            *)
EXTENDS Integers, Sequences, SequencesExt, FiniteSets, FiniteSetsExt

CONSTANTS
  GlobMatch(_, _), \* path.Match of a glob and a path segment
  BadGlob(_),      \* path.Match refuses the glob
  Spread(_),       \* a glob with "**" inside it: the glob with "*" there
  Cost(_, _)       \* what charge asks for comparing a glob with a segment

DoubleStar == "**"
Doubled(glob) == Spread(glob) # glob
Unlimited == [limited |-> FALSE, left |-> 0]
Limit(units) == [limited |-> TRUE, left |-> units]

-----------------------------------------------------------------------------
(* Compile                                                                    *)

Dropped == [kind |-> "dropped"]
Refused == [kind |-> "refused"]
\* The index of the last segment of no segments: an anchored pattern whose
\* first segment is "**" ends the call with a run-time panic.
Crashed == [kind |-> "crashed"]
Compiled(segs) == [kind |-> "compiled", segs |-> segs]

\* A mutant: a star doubled inside a segment is read as one.
AddSegment_Single(acc, seg) ==
  IF acc.kind # "compiled" THEN acc
  ELSE IF seg = "" THEN Refused
  ELSE IF Spread(seg) # DoubleStar THEN Compiled(Append(acc.segs, Spread(seg)))
  ELSE IF acc.segs = <<>> THEN Crashed
  ELSE IF Last(acc.segs) = DoubleStar THEN acc ELSE Compiled(Append(acc.segs, DoubleStar))

\* One segment: a star doubled inside it means any depth and then the rest;
\* a "**" after a "**" adds nothing.
AddSegment(acc, seg) ==
  LET before == IF Doubled(seg) THEN Append(acc.segs, DoubleStar) ELSE acc.segs
      glob == Spread(seg)
  IN  IF acc.kind # "compiled" THEN acc
      ELSE IF seg = "" THEN Refused
      ELSE IF glob = DoubleStar
           THEN IF before = <<>> THEN Crashed
                ELSE IF Last(before) = DoubleStar THEN Compiled(before)
                ELSE Compiled(Append(before, glob))
      ELSE IF BadGlob(glob) THEN Refused
      ELSE Compiled(Append(before, glob))

CompileOne(p) ==
  LET walk[i \in 0 .. Len(p.segs)] ==
        IF i = 0 THEN Compiled(IF p.anchored THEN <<>> ELSE <<DoubleStar>>)
        ELSE AddSegment(walk[i - 1], p.segs[i])
  IN  IF p.long THEN Refused ELSE IF p.segs = <<>> THEN Dropped ELSE walk[Len(p.segs)]

Rules(patterns) == [kind |-> "rules", patterns |-> patterns]

\* The next pattern: one that does not compile ends the call.
AddPattern(rules, p) ==
  LET one == CompileOne(p)
  IN  IF rules.kind # "rules" \/ one.kind = "dropped" THEN rules
      ELSE IF one.kind = "compiled" THEN Rules(Append(rules.patterns, one.segs))
      ELSE one

Compile(patterns) ==
  LET walk[i \in 0 .. Len(patterns)] ==
        IF i = 0 THEN Rules(<<>>) ELSE AddPattern(walk[i - 1], patterns[i])
  IN  walk[Len(patterns)]

-----------------------------------------------------------------------------
(* Match.  Every comparison is charged to the rules' budget; a spent budget   *)
(* ends the match as a mismatch.                                              *)

charge(budget, glob, seg) ==
  IF budget.limited THEN [budget EXCEPT !.left = @ - Cost(glob, seg)] ELSE budget
Spent(budget) == budget.limited /\ budget.left < 0

Answer(matched, budget) == [matched |-> matched, budget |-> budget]

\* One round of the loop of matchSegments: pi and si are the next segments of
\* pattern and path, starPi (0 for none) the last "**" met and starSi the path
\* segment it has absorbed up to.  A pattern that runs out has matched a
\* directory; on a mismatch the last "**" absorbs one segment more.
MatchRound(pat, segs, at) ==
  LET next == charge(at.budget, pat[at.pi], segs[at.si])
      stop(matched, budget) ==
        [at EXCEPT !.done = TRUE, !.matched = matched, !.budget = budget]
  IN  IF at.done THEN at
      ELSE IF at.si > Len(segs)
           THEN stop(\A i \in at.pi .. Len(pat) : pat[i] = DoubleStar, at.budget)
      ELSE IF at.pi > Len(pat) THEN stop(TRUE, at.budget)
      ELSE IF pat[at.pi] = DoubleStar
           THEN [at EXCEPT !.pi = @ + 1, !.starPi = at.pi, !.starSi = at.si]
      ELSE IF Spent(next) THEN stop(FALSE, next)
      ELSE IF GlobMatch(pat[at.pi], segs[at.si])
           THEN [at EXCEPT !.pi = @ + 1, !.si = @ + 1, !.budget = next]
      ELSE IF at.starPi > 0
           THEN [at EXCEPT !.pi = at.starPi + 1, !.si = at.starSi + 1, !.starSi = @ + 1,
                           !.budget = next]
      ELSE stop(FALSE, next)

\* The loop, which is done after so many rounds whatever the pattern.
matchSegments(pat, segs, budget) ==
  LET start == [pi |-> 1, si |-> 1, starPi |-> 0, starSi |-> 0, budget |-> budget,
                done |-> FALSE, matched |-> FALSE]
      rounds == (Len(pat) + 1) * (Len(segs) + 2)
      loop[k \in 0 .. rounds] == IF k = 0 THEN start ELSE MatchRound(pat, segs, loop[k - 1])
  IN  Answer(loop[rounds].matched, loop[rounds].budget)

\* Rules.match: the patterns in turn, until one matches.
Try(acc, pat, segs) ==
  IF acc.matched THEN acc ELSE matchSegments(pat, segs, acc.budget)

MatchPath(patterns, segs, budget) ==
  LET walk[i \in 0 .. Len(patterns)] ==
        IF i = 0 THEN Answer(FALSE, budget) ELSE Try(walk[i - 1], patterns[i], segs)
  IN  walk[Len(patterns)]

\* Rules.Match: the path, then what the upload's prefix leaves of it.
Match(patterns, path, prefix, budget) ==
  LET whole == MatchPath(patterns, path, budget)
  IN  IF whole.matched \/ prefix = <<>> \/ ~ IsStrictPrefix(prefix, path) THEN whole
      ELSE MatchPath(patterns, SubSeq(path, Len(prefix) + 1, Len(path)), whole.budget)
=============================================================================
