---------------------------- MODULE RouteComments ----------------------------
(***************************************************************************)
(* The writer of generated route comments (src/src/dev/comments.js): above    *)
(* every route of the application it keeps a block in the user's own source   *)
(* file that lists the optimizations of the route.  The writer keeps its own  *)
(* copy of the file and translates the line a route had when it was           *)
(* registered into a line of that copy.                                       *)
(*                                                                         *)
(* A line is a record: its form, the route it registers (or 0), and the       *)
(* statuses when it is the marked line of a generated comment.  Forms: "code",*)
(* "blank", "open" (starts with a doc opener), "oneline" (a whole one-line    *)
(* doc comment), "text" (inside a block), "mark" (holds COMMENT_PREFIX),      *)
(* "close" (only the closer), "single" (a // comment with COMMENT_PREFIX).    *)
(* The field ours is history: no code reads it, it tells the properties which *)
(* lines the writer made.                                                     *)
(***************************************************************************)
EXTENDS Naturals, Sequences, SequencesExt, FiniteSets, FiniteSetsExt

\* The keys of STATUS_DESCRIPTIONS.
Statuses == {"static-fast-path", "native-cache", "bridge-dispatch", "runtime-cache-tracking",
             "runtime-cache-promoted"}

Lines ==
    [form : {"code", "blank", "open", "oneline", "text", "mark", "close", "single"},
     route : Nat, statuses : Seq(Statuses), ours : BOOLEAN]

Line(form) == [form |-> form, route |-> 0, statuses |-> <<>>, ours |-> FALSE]

RouteLine(r) == [Line("code") EXCEPT !.route = r]

OurLine(form) == [Line(form) EXCEPT !.ours = TRUE]

buildOptimizationBlock(statuses) ==
    <<OurLine("open"), [OurLine("mark") EXCEPT !.statuses = statuses], OurLine("text"),
      OurLine("close")>>

mergeStatuses(statuses, status) ==
    IF Contains(statuses, status) THEN statuses ELSE Append(statuses, status)

\* The source lines of the routes registered in a file, and the lines the writer made.
RouteLines(lines) == {i \in DOMAIN lines : lines[i].route # 0}
OurLines(lines) == {i \in DOMAIN lines : lines[i].ours}

-----------------------------------------------------------------------------
(* stripGeneratedOptimizationComments *)

\* The comment that starts at line s reaches to the next closer; a one-line doc
\* comment is taken for the start of one, too.
CommentFrom(lines, s) ==
    IF lines[s].form \in {"open", "oneline"} /\ \E e \in s..Len(lines) : lines[e].form = "close"
    THEN {i \in s..Len(lines) : \A j \in s..(i - 1) : lines[j].form # "close"}
    ELSE {}

\* The lines that are removed: // comments with the prefix, and every comment
\* block that has the prefix in one of its lines.
Generated(lines) ==
    {i \in DOMAIN lines :
        \/ lines[i].form = "single"
        \/ \E s \in 1..i : /\ i \in CommentFrom(lines, s)
                          /\ \E j \in CommentFrom(lines, s) : lines[j].form \in {"mark", "single"}}

\* What is left of a sequence without the places that are gone.
Stripped(lines, gone) ==
    LET upTo[i \in 0..Len(lines)] ==
            IF i = 0 THEN <<>>
            ELSE IF i \in gone THEN upTo[i - 1] ELSE Append(upTo[i - 1], lines[i])
    IN  upTo[Len(lines)]

-----------------------------------------------------------------------------
(* The state a writer keeps of a file *)

NoState == [lines |-> <<>>, baseLines |-> <<>>, removed |-> {}, inserted |-> {}]

\* getFileState: a writer reads the file when it first uses it.
FileState(w, lines, gone) ==
    IF w.read THEN w.fs
    ELSE [lines |-> Stripped(lines, gone), baseLines |-> Stripped(lines, gone),
          removed |-> gone, inserted |-> {}]

AtLeast(n, m) == IF n < m THEN m ELSE n

\* removedBeforeLine[line] is the number of removed lines up to line.
normalizeSourceLine(fs, line) ==
    AtLeast(1, line - Cardinality({i \in fs.removed : i <= line}))

\* Mutant: a block inserted above the same line is not counted.
countInsertedAbove(fs, line) == 4 * Cardinality({n \in fs.inserted : n < line})

\* Every insertion is a block of four lines above a line of its own.
countInsertedBefore(fs, line) == 4 * Cardinality({n \in fs.inserted : n <= line})

\* Mutant: any comment block above the route is taken for a generated one.
AnyBlock(lines, t) ==
    LET above == {i \in 1..(t - 1) : lines[i].form # "blank"}
        end == Max(above)
    IN  IF above = {} THEN <<>>
        ELSE IF lines[end].form # "close" THEN <<>>
        ELSE <<Max({i \in 1..end : lines[i].form \in {"open", "oneline"}}), end>>

\* findExistingOptimizationBlock: <<first, last>> of the generated block above
\* line t with nothing but blank lines between, or <<>>.
ExistingBlock(lines, t) ==
    LET above == {i \in 1..(t - 1) : lines[i].form # "blank"}
        end == Max(above)
        starts == {i \in 1..end : lines[i].form \in {"open", "oneline"}}
    IN  IF above = {} THEN <<>>
        ELSE IF lines[end].form # "close" \/ starts = {} THEN <<>>
        ELSE IF \E i \in Max(starts)..end : lines[i].form = "mark" THEN <<Max(starts), end>>
        ELSE <<>>

StatusesOf(lines, block) ==
    lines[Min({i \in block[1]..block[2] : lines[i].form = "mark"})].statuses

\* Where annotateFile puts the comment of a route: the line the route had after
\* the removals, its line in the copy, and the block that is there already.
Place(fs, sourceLine) ==
    LET line == normalizeSourceLine(fs, sourceLine)
        t == line + countInsertedBefore(fs, line)
    IN  [line |-> line, t |-> t,
         block |-> IF t \in DOMAIN fs.lines THEN ExistingBlock(fs.lines, t) ELSE <<>>]

\* annotateFile.  // comments with the prefix were removed when the file was
\* read, so parseSingleLineComment finds none.
Annotated(fs, at, status, replaceExisting) ==
    LET merged == IF replaceExisting THEN <<status>>
                  ELSE mergeStatuses(StatusesOf(fs.lines, at.block), status)
        before(i) == SubSeq(fs.lines, 1, i - 1)
        from(i)   == SubSeq(fs.lines, i, Len(fs.lines))
    IN  IF at.t \notin DOMAIN fs.lines THEN fs
        ELSE IF at.block # <<>>
        THEN [fs EXCEPT !.lines = before(at.block[1]) \o buildOptimizationBlock(merged)
                                    \o from(at.block[2] + 1)]
        ELSE [fs EXCEPT !.lines = before(at.t) \o buildOptimizationBlock(<<status>>) \o from(at.t),
                        !.inserted = @ \cup {at.line}]

-----------------------------------------------------------------------------
(* createRouteDevCommentWriter *)

NoWriter == [on |-> FALSE, applied |-> {}, fs |-> NoState, read |-> FALSE]

\* Mutant: the writer is made whether or not the process watches its sources.
WriterEvenHot(devComments, hotReload) == [NoWriter EXCEPT !.on = devComments]

\* Comments are not written by a process that restarts when its sources change.
Writer(devComments, hotReload) == [NoWriter EXCEPT !.on = devComments /\ ~hotReload]

Fresh(w, line, status) == w.on /\ <<line, status>> \notin w.applied

\* markRoute, of a mark that was not applied before: fs is the state of the file
\* and at the place of the route in it.
Marked(w, fs, at, line, status) ==
    [w EXCEPT !.applied = @ \cup {<<line, status>>}, !.read = TRUE,
              !.fs = Annotated(fs, at, status, \A a \in w.applied : a[1] # line)]

\* cleanup()
CleanedUp(w) == [w EXCEPT !.fs.lines = w.fs.baseLines]
=============================================================================
