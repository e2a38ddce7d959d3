------------------------------ MODULE XargsGrep -------------------------------
(***************************************************************************)
(* xargs: words of standard input become arguments of commands.  They are  *)
(* collected in one buffer of fixed size, which is used again for every    *)
(* command, so it is modelled byte by byte; p is where the next byte goes, *)
(* argp where the current word began, and args (xp) where the others did.  *)
(*                                                                         *)
(* grep: reading lines through a buffer (grep-file.c), matching a line     *)
(* (procline, litexec), and printing matches with their context            *)
(* (procmatches, with the queue of grep-queue.c).  Patterns are of plain   *)
(* characters.  Lines are counted from 1, the bytes of a line from 0.      *)
(***************************************************************************)
EXTENDS Text

NUL == "\\0"
EndOfInput == "EOF"
SQ == "'"
DQ == "\""
SubstMax == 6         \* the size of what a replacement may give, 255

(* strnsubst.                                                              *)
FoundAt(s, m) == SelectInSeq([i \in 1 .. Len(s) |-> SubSeq(s, i, Smaller(Len(s), i + Len(m) - 1))], LAMBDA x : x = m)
RECURSIVE Substituted(_, _, _, _)
Substituted(done, rest, match, by) ==
  LET k == FoundAt(rest, match)
      more == done \o Upto(rest, k - 1) \o by
      left == From(rest, k + Len(match))
  IN IF k = 0 \/ Len(more) + Len(left) >= SubstMax THEN done \o rest ELSE Substituted(more, left, match, by)
Strnsubst(s, match, by) ==
  IF Len(s) >= SubstMax THEN Upto(s, SubstMax - 1) ELSE Substituted(<<>>, s, match, by)

-----------------------------------------------------------------------------
(* main.  The options o: z (-0), eofstr, I and J, which take replstr, R,   *)
(* L, n, x, r, P, and size, the bytes for a command (-s).                  *)
JPlace(o) == IF o.J THEN SelectInSeq(o.argv, LAMBDA w : w = o.replstr) ELSE 0
BeforeArgs(o) ==
  IF o.argv = <<>> THEN <<<<"e">>>> ELSE IF JPlace(o) = 0 THEN o.argv ELSE Upto(o.argv, JPlace(o) - 1)
AfterArgs(o) == IF JPlace(o) = 0 THEN <<>> ELSE From(o.argv, JPlace(o) + 1)
LengthOf(words) == Sum0([i \in DOMAIN words |-> Len(words[i]) + 1])
Nline(o) == o.size - (IF o.argv = <<>> THEN 1 ELSE LengthOf(BeforeArgs(o)) + LengthOf(AfterArgs(o)))
LFlag(o) == IF o.I THEN 1 ELSE o.L
XFlag(o) == o.x \/ o.I \/ o.L > 0
RFlag(o) == IF ~o.I THEN 0 ELSE IF o.R = 0 THEN 5 ELSE o.R
Ebp(o) == Nline(o) - 1

(* malloc leaves anything in the buffer: o.fresh.                          *)
XargsInit(o) ==
  [buf |-> [i \in 0 .. Nline(o) |-> o.fresh], p |-> 0, argp |-> 0, args |-> <<>>, count |-> 0, insingle |-> FALSE,
   indouble |-> FALSE, wasquoted |-> FALSE, hadblank |-> FALSE, escaped |-> FALSE, runeof |-> ~o.r,
   inpline |-> <<>>, runs |-> <<>>, running |-> {}, most |-> 0, rval |-> 0, exit |-> -1]
Errx(X) == [X EXCEPT !.exit = 1]
StringAt(X, i) ==
  LET ends == {j \in DOMAIN X.buf : j >= i /\ X.buf[j] = NUL}
      end == CHOOSE j \in ends : \A k \in ends : j <= k
  IN [j \in 1 .. end - i |-> X.buf[i + j - 1]]

-----------------------------------------------------------------------------
(* run and waitchildren.  Command k ends with o.ends[k].status, -1 being a *)
(* signal, once o.ends[k].delay commands have been started after it.       *)
CommandStatus(k, o) == IF k \in DOMAIN o.ends THEN o.ends[k].status ELSE 0
EndOf(k, o) == k + (IF k \in DOMAIN o.ends THEN o.ends[k].delay ELSE 0)
FirstToEnd(S, o) == CHOOSE k \in S : \A j \in S : EndOf(k, o) < EndOf(j, o) \/ (EndOf(k, o) = EndOf(j, o) /\ k <= j)
Reaped(X, k, o) ==
  [X EXCEPT !.running = @ \ {k},
            !.rval = IF CommandStatus(k, o) # 0 THEN 123 ELSE @,
            !.exit = CASE CommandStatus(k, o) = -1 -> 125 [] CommandStatus(k, o) = 255 -> 124
                       [] CommandStatus(k, o) \in {126, 127} -> CommandStatus(k, o) [] OTHER -> @]
RECURSIVE WaitChildren(_, _, _)
WaitChildren(X, waitall, o) ==
  LET nohang == ~waitall /\ Cardinality(X.running) < o.P
      ready == IF nohang THEN {k \in X.running : EndOf(k, o) <= Len(X.runs)} ELSE X.running
  IN IF X.exit # -1 \/ ready = {} THEN X ELSE WaitChildren(Reaped(X, FirstToEnd(ready, o), o), waitall, o)
Started(X, command) ==
  LET running == X.running \cup {Len(X.runs) + 1}
  IN [X EXCEPT !.runs = Append(@, command), !.running = running, !.most = Larger(@, Cardinality(running))]
Run(X, command, o) == WaitChildren(Started(X, command), FALSE, o)
ExitWith(X) == IF X.exit = -1 THEN [X EXCEPT !.exit = X.rval] ELSE X

(* prerun: with -I the utility's arguments are changed, R of them at most. *)
RECURSIVE Replaced(_, _, _, _)
Replaced(argv, repls, line, o) ==
  IF argv = <<>> THEN <<>>
  ELSE IF repls # 0 /\ FoundAt(Head(argv), o.replstr) # 0
    THEN <<Strnsubst(Head(argv), o.replstr, line)>>
           \o Replaced(Tail(argv), IF repls > 0 THEN repls - 1 ELSE repls, line, o)
  ELSE <<Head(argv)>> \o Replaced(Tail(argv), repls, line, o)
Prerun(X, argv, after, o) ==
  IF argv = <<>> \/ RFlag(o) = 0
    THEN Run([X EXCEPT !.runeof = FALSE],
             BeforeArgs(o) \o [i \in DOMAIN X.args |-> StringAt(X, X.args[i])] \o after, o)
    ELSE Run([X EXCEPT !.runeof = FALSE, !.inpline = <<>>],
             <<Head(argv)>> \o Replaced(Tail(argv), RFlag(o), X.inpline, o), o)

-----------------------------------------------------------------------------
(* parse_input.  The comparison with eofstr does not end at p: behind the  *)
(* word is what the buffer held before.                                    *)
FoundEof(X, o) ==
  /\ o.eofstr # <<>>
  /\ X.argp + Len(o.eofstr) \in DOMAIN X.buf
  /\ \A i \in DOMAIN o.eofstr : X.buf[X.argp + i - 1] = o.eofstr[i]
  /\ X.buf[X.argp + Len(o.eofstr)] = NUL
PutByte(X, c) == [X EXCEPT !.buf[X.p] = c, !.p = @ + 1]
WithLine(X, o) ==
  IF o.I THEN [X EXCEPT !.inpline = (IF @ = <<>> THEN <<>> ELSE Append(@, SP)) \o StringAt(X, X.argp)]
  ELSE X
(* Variant with a mistake: an empty word in quotes is lost.                *)
StoredNonempty(X, foundeof, o) ==
  IF X.argp # X.p /\ ~foundeof THEN WithLine([PutByte(X, NUL) EXCEPT !.args = Append(@, X.argp)], o) ELSE X
Stored(X, foundeof, o) ==
  IF (X.argp # X.p \/ X.wasquoted) /\ ~foundeof
    THEN WithLine([PutByte(X, NUL) EXCEPT !.args = Append(@, X.argp)], o) ELSE X
NextWord(X) == [X EXCEPT !.argp = X.p, !.wasquoted = FALSE]
AllRun(X) == IF X.exit = -1 THEN [X EXCEPT !.p = 0, !.args = <<>>, !.count = 0] ELSE X
RunWords(X, last, o) ==
  IF XFlag(o) /\ Len(X.args) # o.n /\ X.p > Ebp(o) THEN Errx(X)
  ELSE IF last THEN ExitWith(WaitChildren(Prerun(X, o.argv, AfterArgs(o), o), TRUE, o))
  ELSE NextWord(AllRun(Prerun(X, o.argv, AfterArgs(o), o)))
WordStored(X, c, foundeof, o) ==
  IF Len(X.args) = o.n \/ X.p > Ebp(o) \/ c = EndOfInput \/ (XFlag(o) /\ LFlag(o) <= X.count) \/ foundeof
    THEN RunWords(X, c = EndOfInput \/ foundeof, o) ELSE NextWord(X)
Arg2(X, c, o) == WordStored(Stored(X, FoundEof(X, o), o), c, FoundEof(X, o), o)
Arg1(X, c, o) == IF X.insingle \/ X.indouble THEN Errx(X) ELSE Arg2(X, c, o)

(* The buffer is full: run what is there, and go on with the word in it.   *)
Moved(X, c, o) ==
  IF X.exit # -1 THEN X
  ELSE PutByte([X EXCEPT !.args = <<>>, !.argp = 0, !.p = Ebp(o) - X.argp,
                     !.buf = [i \in DOMAIN X.buf |-> IF i < Ebp(o) - X.argp THEN X.buf[i + X.argp] ELSE X.buf[i]]], c)
AddCh(X, c, o) ==
  IF X.p < Ebp(o) THEN PutByte(X, c)
  ELSE IF X.args = <<>> \/ XFlag(o) THEN Errx(X)
  ELSE Moved(Prerun(X, o.argv, AfterArgs(o), o), c, o)

InputEnds(X, o) ==
  ExitWith(WaitChildren(IF X.runeof THEN Prerun(X, <<>>, <<>>, o) ELSE X, TRUE, o))
Blanked(X, hasblank) == [X EXCEPT !.hadblank = hasblank]
Counted(X) == [X EXCEPT !.count = @ + 1]
ParseChar(X, c, o) ==
  CASE c \in Blank -> IF X.insingle \/ X.indouble THEN Blanked(AddCh(X, c, o), FALSE)
                      ELSE Blanked(IF o.z THEN AddCh(X, c, o) ELSE Arg2(X, c, o), TRUE)
    [] c = EndOfInput -> IF X.p = 0 THEN InputEnds(X, o) ELSE Arg1(X, c, o)
    [] c = NUL -> Blanked(IF o.z THEN Arg2(Counted(X), c, o) ELSE AddCh(X, c, o), FALSE)
    [] c = NL -> IF o.z THEN Blanked(AddCh(X, c, o), FALSE)
                 ELSE Blanked(Arg1(IF X.hadblank THEN X ELSE Counted(X), c, o), TRUE)
    [] c = SQ /\ ~X.indouble /\ ~o.z -> Blanked([X EXCEPT !.insingle = ~@, !.wasquoted = TRUE], FALSE)
    [] c = DQ /\ ~X.insingle /\ ~o.z -> Blanked([X EXCEPT !.indouble = ~@, !.wasquoted = TRUE], FALSE)
    [] c = BS /\ ~X.insingle /\ ~X.indouble /\ ~o.z -> [X EXCEPT !.escaped = TRUE]
    [] OTHER -> Blanked(AddCh(X, c, o), FALSE)
ParseInput(X, c, o) ==
  IF X.exit # -1 THEN X
  ELSE IF X.escaped
    THEN IF c = EndOfInput THEN Errx(X) ELSE Blanked(AddCh([X EXCEPT !.escaped = FALSE], c, o), FALSE)
  ELSE ParseChar(X, c, o)
XargsRun(text, o) ==
  IF Nline(o) <= 0 THEN [runs |-> <<>>, exit |-> 1, running |-> {}, most |-> 0]
  ELSE FoldLeft(LAMBDA X, c : ParseInput(X, c, o), XargsInit(o), Append(text, EndOfInput))

-----------------------------------------------------------------------------
(* grep *)
NUL0 == "\\0"
MAXBUFSIZ == 3
MAX_MATCHES == 3      \* 32
EmptyLine == <<>>

-----------------------------------------------------------------------------
(* grep_open, grep_refill and grep_fgetln: a read returns 1 to MAXBUFSIZ   *)
(* of what is left, and nothing at the end.                                *)
RefillTo(F, n) == [F EXCEPT !.buf = Upto(F.rest, n), !.rest = From(F.rest, n + 1), !.reads = Tail(F.reads)]
Refill(F) ==
  RefillTo(F, Smaller(Len(F.rest), IF F.reads = <<>> THEN MAXBUFSIZ ELSE Smaller(Head(F.reads), MAXBUFSIZ)))
FileOf(text, reads) == [rest |-> text, buf |-> <<>>, binary |-> FALSE,
                        reads |-> reads \o Repeat(MAXBUFSIZ, 2 * Len(text) + 3)]
GrepOpen(text, reads, nul) ==
  LET F == Refill(FileOf(text, reads)) IN [F EXCEPT !.binary = nul \in ToSet(F.buf)]
Line(F, ln) == [file |-> F, ln |-> ln]
TakeTo(F, k, before) == Line([F EXCEPT !.buf = From(@, k + 1)], before \o Upto(F.buf, k))
RECURSIVE GrowLine(_, _, _)
GrowLine(F, ln, eol) ==
  IF F.buf = <<>> THEN Line(F, ln)
  ELSE IF FirstOf(F.buf, {eol}) # 0 THEN TakeTo(F, FirstOf(F.buf, {eol}), ln)
  ELSE GrowLine(Refill(F), ln \o F.buf, eol)
Fgetln(F, eol) == GrowLine(IF F.buf = <<>> THEN Refill(F) ELSE F, EmptyLine, eol)

-----------------------------------------------------------------------------
(* litexec from st, or regexec, which takes no notice of st as eflags is 0.*)
NoMatch == [so |-> -1, eo |-> -1]
Occurs(pat, ln, k) == k + Len(pat) <= Len(ln) /\ SubSeq(ln, k + 1, k + Len(pat)) = pat
Exec(pat, ln, st, fixed) ==
  LET at == {k \in 0 .. Len(ln) : Occurs(pat, ln, k) /\ (fixed => k >= st /\ st < Len(ln))}
      so == CHOOSE k \in at : \A j \in at : k <= j
  IN IF at = {} THEN NoMatch ELSE [so |-> so, eo |-> so + Len(pat)]

(* The parsing context of a line, pc, and the state of procline's loops.   *)
Context(ln) == [ln |-> ln, lnstart |-> 0, matches |-> <<>>, matched |-> FALSE, st |-> 0, nst |-> 0, retry |-> 0,
                startm |-> 0, last |-> FALSE, lastmatch |-> NoMatch, fuel |-> 0]
InWord(c) == c \in {"a", "b", "c", "_"}
WholeWord(m, ln) ==
  /\ m.so = 0 \/ ~InWord(ln[m.so])
  /\ m.eo = Len(ln) \/ ~InWord(ln[m.eo + 1])
Recording(o) == o.o /\ ~o.q /\ ~o.l
Longer(m, n) == m.so < n.so \/ (m.so = n.so /\ m.eo - m.so > n.eo - n.so)
Retry(pc, m) ==
  IF pc.retry = pc.lnstart \/ m.so + 1 < pc.retry THEN [pc EXCEPT !.retry = m.so + 1] ELSE pc
Record(pc, m) ==
  LET n == Len(pc.matches)
      first == [pc EXCEPT !.last = TRUE, !.lastmatch = m, !.matched = @ \/ n = 0]
  IN IF n = pc.startm THEN [first EXCEPT !.matches = Append(@, m), !.nst = m.eo]
     ELSE IF Longer(m, pc.matches[n]) THEN [first EXCEPT !.matches[n] = m, !.nst = m.eo]
     ELSE first
Enough(pc, o) == ~Recording(o) \/ Len(pc.matches) >= MAX_MATCHES
RECURSIVE TryPatterns(_, _, _)
AfterMatch(pc, i, o) ==
  IF Enough(pc, o) THEN [pc EXCEPT !.lnstart = pc.nst, !.last = FALSE] ELSE TryPatterns(pc, i + 1, o)
TryPattern(pc, m, i, o) ==
  IF m = NoMatch \/ (o.x /\ (m.so # 0 \/ m.eo # Len(pc.ln))) THEN TryPatterns(pc, i + 1, o)
  ELSE IF o.w /\ ~WholeWord(m, pc.ln) THEN TryPatterns(Retry(pc, m), i + 1, o)
  ELSE AfterMatch(Record(pc, m), i, o)
TryPatterns(pc, i, o) ==
  IF i > Len(o.patterns) THEN pc ELSE TryPattern(pc, Exec(o.patterns[i], pc.ln, pc.st, o.fixed), i, o)

Fuel == 12            \* passes over a line after which it will have no end
RECURSIVE MatchLoop(_, _)
Advanced(pc) ==
  LET nst == IF pc.st = pc.nst /\ pc.lastmatch.so = pc.lastmatch.eo THEN pc.nst + 1 ELSE pc.nst
  IN [pc EXCEPT !.st = nst, !.nst = nst, !.lnstart = nst]
AfterPatterns(pc, o) ==
  IF ~pc.last /\ pc.retry > pc.lnstart THEN MatchLoop([pc EXCEPT !.st = pc.retry, !.fuel = @ + 1], o)
  ELSE IF (~o.w /\ ~(Recording(o) /\ ~o.L)) \/ ~pc.last THEN pc
  ELSE MatchLoop(Advanced([pc EXCEPT !.fuel = @ + 1]), o)
MatchLoop(pc, o) ==
  IF pc.st > Len(pc.ln) \/ pc.fuel > Fuel THEN pc
  ELSE AfterPatterns(TryPatterns([pc EXCEPT !.last = FALSE, !.startm = Len(pc.matches), !.retry = 0], 1, o), o)
Procline(pc, o) ==
  IF o.matchall /\ ((o.x /\ pc.ln = <<>>) \/ (~o.w /\ ~o.x)) THEN [pc EXCEPT !.matched = TRUE]
  ELSE IF o.patterns = <<>> THEN [pc EXCEPT !.matched = FALSE]
  ELSE MatchLoop([pc EXCEPT !.matched = FALSE, !.st = pc.lnstart, !.nst = 0], o)

(* printline: the parts -o puts out, again as long as the list was full.   *)
EntireLine == [so |-> 0, eo |-> -1]
Printed(pc, o) ==
  IF o.o /\ o.matchall THEN <<>>
  ELSE IF o.o /\ pc.matches # <<>> THEN SelectSeq(pc.matches, LAMBDA m : m.so # m.eo)
  ELSE <<EntireLine>>
RECURSIVE PrintAll(_, _, _)
PrintAgain(pc, out, o) == IF pc.matched = ~o.v THEN PrintAll(pc, out, o) ELSE [out |-> out, fuel |-> pc.fuel]
PrintAll(pc, out, o) ==
  LET more == out \o Printed(pc, o)
  IN IF Len(pc.matches) >= MAX_MATCHES /\ pc.fuel <= Fuel
       THEN PrintAgain(Procline([pc EXCEPT !.matches = <<>>], o), more, o) ELSE [out |-> more, fuel |-> pc.fuel]
MatchLine(ln, o) ==
  LET pc == Procline(Context(ln), o)
  IN [matched |-> pc.matched, fuel |-> pc.fuel,
      printed |-> IF pc.matched = ~o.v THEN PrintAll(pc, <<>>, o) ELSE [out |-> <<>>, fuel |-> pc.fuel]]

-----------------------------------------------------------------------------
(* The queue of -B lines: B places in a circle; qlist is the first line,   *)
(* qnext the place for the next.                                           *)
InitQueue == [pool |-> [i \in 1 .. 9 |-> EmptyLine], qlist |-> 1, qnext |-> 1, filled |-> 0]
AdvQueue(i, B) == IF i = B THEN 1 ELSE i + 1
Rotates(q, B) == q.filled = B
EnqueueLine(q, ln, B) ==
  [q EXCEPT !.pool[q.qnext] = ln, !.qnext = AdvQueue(@, B),
            !.filled = IF @ < B THEN @ + 1 ELSE @,
            !.qlist = IF q.filled = B THEN AdvQueue(@, B) ELSE @]
Circle(q, B) == [k \in 1 .. B |-> q.pool[((q.qlist + k - 2) % B) + 1]]
Queued(q, B) ==
  LET none == SelectInSeq(Circle(q, B), LAMBDA ln : ln = EmptyLine)
  IN IF none = 0 THEN Circle(q, B) ELSE Upto(Circle(q, B), none - 1)
ClearQueue == InitQueue

(* procmatches.  S is what mc, the queue and the output are; what is put   *)
(* out is a line with the sign before it, or "--".                         *)
GapMark == [ln |-> EmptyLine, sep |-> "--"]
Out(S, ln, sep) == [S EXCEPT !.out = Append(@, [ln |-> ln, sep |-> sep])]
OutQueue(S, o) ==
  [S EXCEPT !.out = @ \o [i \in DOMAIN Queued(S.queue, o.B) |-> [ln |-> Queued(S.queue, o.B)[i], sep |-> "-"]],
            !.queue = ClearQueue]
WithGap(S) == IF ~S.first_match /\ (~S.same_file \/ S.last_outed > 0) THEN [S EXCEPT !.out = Append(@, GapMark)] ELSE S
WithQueue(S, o) == IF o.B > 0 THEN OutQueue(S, o) ELSE S
WithContext(S, o) == IF S.doctx THEN [WithQueue(WithGap(S), o) EXCEPT !.tail = o.A] ELSE S
ProcmatchMatch(S, ln, o) ==
  IF S.printmatch
    THEN [Out(WithContext(S, o), ln, ":") EXCEPT !.first_match = FALSE, !.same_file = TRUE, !.last_outed = 0]
    ELSE WithContext(S, o)
ProcmatchNomatch(S, ln, o) ==
  IF S.tail > 0 THEN [Out(S, ln, "-") EXCEPT !.tail = @ - 1, !.queue = IF o.B > 0 THEN ClearQueue ELSE @]
  ELSE IF o.B = 0 THEN [S EXCEPT !.last_outed = @ + 1]
  ELSE [S EXCEPT !.queue = EnqueueLine(@, ln, o.B), !.last_outed = IF Rotates(S.queue, o.B) THEN @ + 1 ELSE @]
Procmatches(S, ln, matched, o) ==
  IF o.m /\ S.mcount <= 0 THEN LET T == Out(S, ln, "-") IN [T EXCEPT !.tail = @ - 1, !.go = S.tail # 1]
  ELSE IF matched
    THEN LET T == [ProcmatchMatch(S, ln, o) EXCEPT !.mcount = IF o.m THEN @ - 1 ELSE @]
         IN [T EXCEPT !.go = ~o.m \/ T.mcount > 0 \/ T.tail # 0]
  ELSE IF S.doctx THEN ProcmatchNomatch(S, ln, o)
  ELSE S

(* procfile: the lines are given as whether they match and what they are.  *)
Quits(S, o) == S.lines > 0 /\ (o.l \/ o.q)
ProcLine(S, ln, o) ==
  IF ~S.go \/ Quits(S, o) THEN S
  ELSE IF o.m /\ S.mcount <= 0 THEN Procmatches(S, ln, FALSE, o)
  ELSE Procmatches([S EXCEPT !.lines = IF ln.matches = ~o.v THEN @ + 1 ELSE @], ln, ln.matches = ~o.v, o)
FileInit(S, binary, o) ==
  LET printmatch == ~((binary /\ o.binary = "binary") \/ o.c \/ o.q \/ o.l \/ o.L)
  IN [S EXCEPT !.tail = 0, !.last_outed = 0, !.same_file = FALSE, !.lines = 0, !.go = TRUE, !.printmatch = printmatch,
               !.doctx = printmatch /\ (o.A # 0 \/ o.B # 0), !.mcount = o.limit]
Names(S, file, what) == [S EXCEPT !.out = Append(@, [ln |-> <<file>>, sep |-> what])]
Counts(S, file, o) == IF o.c /\ ~o.q THEN [S EXCEPT !.out = Append(@, [ln |-> <<file, S.lines>>, sep |-> "count"])] ELSE S
Listed(S, file, o) ==
  IF ~o.q /\ ((o.l /\ S.lines # 0) \/ (o.L /\ S.lines = 0)) THEN Names(S, file, "name") ELSE S
BinaryNote(S, file, binary, o) ==
  IF S.lines # 0 /\ ~o.c /\ ~o.l /\ ~o.L /\ o.binary = "binary" /\ binary /\ ~o.q THEN Names(S, file, "binary") ELSE S
FileDone(S, file, binary, o) ==
  LET T == BinaryNote(Listed(Counts(S, file, o), file, o), file, binary, o)
  IN [T EXCEPT !.queue = IF o.B > 0 THEN ClearQueue ELSE @, !.matched = @ \/ S.lines # 0]
Procfile(S, file, f, o) ==
  CASE f.kind = "dir" /\ o.skipdirs -> S
    [] f.kind \in {"none", "dir"} -> [S EXCEPT !.file_err = TRUE]
    [] f.binary /\ o.binary = "skip" /\ f.lines # <<>> -> S
    [] OTHER -> FileDone(FoldLeft(LAMBDA T, ln : ProcLine(T, ln, o), FileInit(S, f.binary, o), f.lines), file, f.binary, o)

(* main, from the files on.                                                *)
GrepInit == [first_match |-> TRUE, queue |-> InitQueue, tail |-> 0, last_outed |-> 0, same_file |-> FALSE, lines |-> 0,
             go |-> TRUE, printmatch |-> TRUE, doctx |-> FALSE, mcount |-> 0, out |-> <<>>, matched |-> FALSE,
             file_err |-> FALSE, exit |-> 0]
ExitStatus(S, o) ==
  IF o.stdin THEN (IF S.matched THEN 0 ELSE 1)
  ELSE IF S.matched # o.L THEN (IF S.file_err /\ ~o.q THEN 2 ELSE 0) ELSE (IF S.file_err THEN 2 ELSE 1)
GrepFiles(files, o) ==
  LET S == FoldLeftDomain(LAMBDA T, k : Procfile(T, k, files[k], o), GrepInit, files)
  IN [S EXCEPT !.exit = ExitStatus(S, o)]

(* file_matching and dir_matching: the last pattern that matches decides.  *)
Matching(included, patterns) ==
  FoldLeft(LAMBDA ret, p : IF p.matches THEN p.include ELSE ret, ~included, patterns)

-----------------------------------------------------------------------------
(* main, as far as the files.  An option o: its letter or long name c, its *)
(* argument arg (characters, a word or lines) and whether getopt is done   *)
(* with the command line argument it stood in (last).  usage and err end   *)
(* with status 2.                                                          *)
GrepName(prog) ==
  CASE prog = "egrep" -> [behave |-> "extended", dirs |-> "read", H |-> FALSE]
    [] prog = "fgrep" -> [behave |-> "fixed", dirs |-> "read", H |-> FALSE]
    [] prog = "rgrep" -> [behave |-> "basic", dirs |-> "recurse", H |-> TRUE]
    [] prog = "grep" -> [behave |-> "basic", dirs |-> "read", H |-> FALSE]
GrepFlags ==
  [o |-> FALSE, w |-> FALSE, x |-> FALSE, v |-> FALSE, q |-> FALSE, l |-> FALSE, L |-> FALSE, c |-> FALSE, m |-> FALSE,
   n |-> FALSE, b |-> FALSE, h |-> FALSE, i |-> FALSE, s |-> FALSE, null |-> FALSE, color |-> FALSE, linebuf |-> FALSE]
GrepStart(prog) ==
  GrepName(prog) @@ GrepFlags @@
  [patterns |-> <<>>, matchall |-> FALSE, need |-> TRUE, A |-> 0, B |-> 0, limit |-> 0, binary |-> "binary", links |-> "read",
   devices |-> "read", mmap |-> FALSE, eol |-> NL, names |-> <<>>, dirnames |-> <<>>, included |-> FALSE, dirincluded |-> FALSE,
   nosub |-> TRUE, lastc |-> "", newarg |-> TRUE, status |-> 0]
GrepWords(eopts) == SelectSeq(Pieces(eopts, {SP}), LAMBDA w : w # <<>>)
GrepArgs(eopts, args) == GrepWords(eopts) \o args

(* add_pattern: an empty pattern matches everything.                       *)
AddPattern(g, pat) ==
  IF pat = <<>> THEN [g EXCEPT !.matchall = TRUE] ELSE [g EXCEPT !.patterns = Append(@, Chomp(pat))]
PatternArg(g, arg) == FoldLeft(AddPattern, g, Pieces(arg, {NL}))
(* read_patterns: the lines of a file, none of a directory.                *)
ReadPatterns(g, f) ==
  CASE f.kind = "none" -> [g EXCEPT !.status = 2]
    [] f.kind = "dir" -> g
    [] OTHER -> FoldLeft(LAMBDA k, ln : IF ln[1] = NUL0 THEN k ELSE AddPattern(k, IF ln[1] = NL THEN <<>> ELSE ln), g, Lines(f.text))
AddFpattern(g, p, include) ==
  [g EXCEPT !.names = Append(@, [pat |-> p, include |-> include]), !.included = @ \/ include]
AddDpattern(g, p, include) ==
  [g EXCEPT !.dirnames = Append(@, [pat |-> p, include |-> include]), !.dirincluded = @ \/ include]

(* -NUM: its digits may stand in one argument.                             *)
GrepDigits == {"0", "1", "2"}
DigitOption(g, d) ==
  LET so == IF g.newarg \/ g.lastc \notin GrepDigits THEN 0 ELSE g.A
      n == so * 10 + (CASE d = "0" -> 0 [] d = "1" -> 1 [] d = "2" -> 2)
  IN [g EXCEPT !.A = n, !.B = n]
ContextOption(g, c, n) ==
  CASE n < 0 -> [g EXCEPT !.status = 2]
    [] n >= 0 /\ c = "A" -> [g EXCEPT !.A = n]
    [] n >= 0 /\ c = "B" -> [g EXCEPT !.B = n]
    [] n >= 0 /\ c = "C" -> [g EXCEPT !.A = n, !.B = n]
(* The options that set one thing to one value, and those that take a word.*)
GrepSets ==
  [a |-> <<"binary", "text">>, I |-> <<"binary", "skip">>, U |-> <<"binary", "binary">>, E |-> <<"behave", "extended">>,
   F |-> <<"behave", "fixed">>, G |-> <<"behave", "basic">>, O |-> <<"links", "explicit">>, p |-> <<"links", "skip">>,
   S |-> <<"links", "read">>, H |-> <<"H", TRUE>>, b |-> <<"b", TRUE>>, c |-> <<"c", TRUE>>, i |-> <<"i", TRUE>>,
   y |-> <<"i", TRUE>>, n |-> <<"n", TRUE>>, q |-> <<"q", TRUE>>, s |-> <<"s", TRUE>>, v |-> <<"v", TRUE>>,
   u |-> <<"mmap", TRUE>>, z |-> <<"eol", NUL0>>, null |-> <<"null", TRUE>>, linebuf |-> <<"linebuf", TRUE>>]
GrepTakes ==
  [D |-> [skip |-> <<"devices", "skip">>, read |-> <<"devices", "read">>],
   d |-> [skip |-> <<"dirs", "skip">>, read |-> <<"dirs", "read">>, recurse |-> <<"dirs", "recurse">>],
   binary |-> [binary |-> <<"binary", "binary">>, without |-> <<"binary", "skip">>, text |-> <<"binary", "text">>],
   color |-> [always |-> <<"color", TRUE>>, never |-> <<"color", FALSE>>, auto |-> <<"color", FALSE>>]]
GrepSet(g, fv) == [g EXCEPT ![fv[1]] = fv[2]]
WordOption(g, c, word) ==
  IF word \notin DOMAIN GrepTakes[c] THEN [g EXCEPT !.status = 2]
  ELSE LET t == GrepSet(g, GrepTakes[c][word])
       IN [t EXCEPT !.H = @ \/ word = "recurse", !.nosub = @ /\ c # "color"]
GrepOption(g, o) ==
  CASE o.c \in GrepDigits -> DigitOption(g, o.c)
    [] o.c \in {"A", "B", "C"} -> ContextOption(g, o.c, o.arg)
    [] o.c \in DOMAIN GrepSets -> GrepSet(g, GrepSets[o.c])
    [] o.c \in DOMAIN GrepTakes -> WordOption(g, o.c, o.arg)
    [] o.c = "e" -> [PatternArg(g, o.arg) EXCEPT !.need = FALSE]
    [] o.c = "f" -> [ReadPatterns(g, o.arg) EXCEPT !.need = FALSE]
    [] o.c = "h" -> [g EXCEPT !.H = FALSE, !.h = TRUE]
    [] o.c = "l" -> [g EXCEPT !.l = TRUE, !.L = FALSE]
    [] o.c = "L" -> [g EXCEPT !.L = TRUE, !.l = FALSE]
    [] o.c = "m" -> [g EXCEPT !.m = TRUE, !.limit = o.arg]
    [] o.c \in {"o", "w", "x"} -> [g EXCEPT ![o.c] = TRUE, !.nosub = FALSE]
    [] o.c \in {"R", "r"} -> [g EXCEPT !.dirs = "recurse", !.H = TRUE]
    [] o.c \in {"include", "exclude"} -> AddFpattern(g, o.arg, o.c = "include")
    [] o.c \in {"include-dir", "exclude-dir"} -> AddDpattern(g, o.arg, o.c = "include-dir")
    [] OTHER -> [g EXCEPT !.status = 2]
NextOption(g, o) == IF g.status # 0 THEN g ELSE [GrepOption(g, o) EXCEPT !.lastc = o.c, !.newarg = o.last]
(* ... and after them: the pattern, and what else the files depend on.     *)
GrepOperands(g, operands) ==
  IF g.status # 0 \/ (operands = <<>> /\ g.need) THEN [g EXCEPT !.status = 2] @@ [files |-> <<>>]
  ELSE [IF g.need THEN PatternArg(g, operands[1]) ELSE g EXCEPT !.w = @ /\ ~g.x]
       @@ [files |-> IF g.need THEN Tail(operands) ELSE operands]
GrepReady(g) ==
  g @@ [fixed |-> g.behave = "fixed", skipdirs |-> g.dirs = "skip", stdin |-> g.files = <<>> /\ g.dirs # "recurse",
        hidden |-> g.h \/ (Len(g.files) <= 1 /\ ~g.H)]
GrepMain(prog, opts, operands) == GrepReady(GrepOperands(FoldLeft(NextOption, GrepStart(prog), opts), operands))

(* printline_metadata.                                                     *)
Metadata(g, sep) ==
  LET name == IF g.hidden THEN <<>> ELSE <<"file", IF g.null THEN NUL0 ELSE sep>>
  IN name \o (IF g.n THEN <<"line", sep>> ELSE <<>>) \o (IF g.b THEN <<"offset", sep>> ELSE <<>>)

(* grep_tree: what fts_read gives for a tree.  A directory that is not     *)
(* wanted is not entered; names are those the patterns match.              *)
Wanted(g, included, patterns, names) ==
  Matching(included, [k \in DOMAIN patterns |-> [matches |-> patterns[k].pat \in names, include |-> patterns[k].include]])
WantedFile(g, names) == g.names = <<>> \/ Wanted(g, g.included, g.names, names)
WantedDir(g, node) ==
  \/ g.dirnames = <<>>
  \/ Wanted(g, g.dirincluded, g.dirnames, {node.name}) /\ Wanted(g, g.dirincluded, g.dirnames, {node.path})
NoTree == [files |-> <<>>, err |-> FALSE, loops |-> 0]
RECURSIVE GrepTree(_, _, _)
GrepTree(g, t, node) ==
  CASE node.kind = "dir" -> IF WantedDir(g, node) THEN FoldLeft(LAMBDA k, n : GrepTree(g, k, n), t, node.kids) ELSE t
    [] node.kind = "unread" -> [t EXCEPT !.err = TRUE]
    [] node.kind = "loop" -> [t EXCEPT !.loops = @ + 1]
    [] node.kind = "file" -> IF WantedFile(g, {node.name, node.path}) THEN [t EXCEPT !.files = Append(@, node.path)] ELSE t
GrepOperandFiles(g) == SelectSeq(g.files, LAMBDA f : WantedFile(g, {f}))
===============================================================================
