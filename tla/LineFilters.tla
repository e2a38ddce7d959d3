------------------------------ MODULE LineFilters ------------------------------
(***************************************************************************)
(* Programs that work line by line on one or more files                    *)
(* (core/coreutils/src/utils/{uniq,comm,join,paste}), and those that make  *)
(* one file into several (split, csplit).  For each program: the options   *)
(* main accepts, the program as the code computes it, and a definition of  *)
(* what its output promises.                                               *)
(***************************************************************************)
EXTENDS Text

-----------------------------------------------------------------------------
(* uniq.  A line is a sequence of characters without its newline.  The     *)
(* line kept is the first of its run.                                      *)

(* main: -c leaves the lines chosen alone, neither -d nor -u means both.   *)
UniqOptions ==
  LET given == [d : BOOLEAN, u : BOOLEAN, c : BOOLEAN, fields : 0 .. 1, chars : 0 .. 1]
  IN {IF o.d \/ o.u THEN o ELSE [o EXCEPT !.d = TRUE, !.u = TRUE] : o \in given}

(* skip: a field is a run of blanks and the characters up to the next.     *)
AfterField(s) ==
  LET text == SelectInSeq(s, LAMBDA c : c \notin Blank)
      end == IF text = 0 THEN 0 ELSE SelectInSubSeq(s, text, Len(s), LAMBDA c : c \in Blank)
  IN IF end = 0 THEN <<>> ELSE From(s, end)
Skip(s, o) ==
  LET rest == FoldLeft(LAMBDA t, i : AfterField(t), s, [i \in 1 .. o.fields |-> i])
  IN From(rest, Smaller(o.chars, Len(rest)) + 1)
UniqKey(s, o) == IF o.fields > 0 \/ o.chars > 0 THEN Skip(s, o) ELSE s

Show(st, o) ==
  IF (o.d /\ st.repeats > 0) \/ (o.u /\ st.repeats = 0)
    THEN Append(st.out, [count |-> IF o.c THEN st.repeats + 1 ELSE 0, line |-> st.prev])
    ELSE st.out

(* Variant with a mistake: the count is not reset. *)
UniqLineCounting(st, line, o) ==
  IF UniqKey(line, o) = UniqKey(st.prev, o)
    THEN [st EXCEPT !.repeats = @ + 1]
    ELSE [st EXCEPT !.prev = line, !.out = Show(st, o)]
UniqLine(st, line, o) ==
  IF UniqKey(line, o) = UniqKey(st.prev, o)
    THEN [st EXCEPT !.repeats = @ + 1]
    ELSE [prev |-> line, repeats |-> 0, out |-> Show(st, o)]
UniqRun(lines, o) ==
  IF lines = <<>> THEN <<>>
  ELSE Show(FoldLeft(LAMBDA st, line : UniqLine(st, line, o),
                     [prev |-> Head(lines), repeats |-> 0, out |-> <<>>], Tail(lines)), o)

(* Each run of adjacent lines that agree from the compared part on gives   *)
(* its first line, if it is repeated (-d) or not (-u), and with -c its     *)
(* length.                                                                 *)
UniqShowsRuns(lines, o, out) ==
  LET key(i) == UniqKey(lines[i], o)
      starts == {i \in DOMAIN lines : i = 1 \/ key(i) # key(i - 1)}
      length(i) == Min({j \in starts : j > i} \cup {Len(lines) + 1}) - i
      shown == SelectSeq(Increasing(starts), LAMBDA i : IF length(i) > 1 THEN o.d ELSE o.u)
  IN out = [k \in DOMAIN shown |-> [count |-> IF o.c THEN length(shown[k]) ELSE 0,
                                    line |-> lines[shown[k]]]]

-----------------------------------------------------------------------------
(* comm.  A line is a number, its place in the collation order; -1, -2 and *)
(* -3 give the set of columns left out.  What is put is the number of tabs *)
(* and the line.                                                           *)
CommOptions == SUBSET (1 .. 3)

(* The offsets: another tab for each column shown before. *)
Tabs(col, hidden) == Cardinality((1 .. col - 1) \ hidden)
Put(out, col, line, hidden) ==
  IF col \in hidden THEN out ELSE Append(out, <<Tabs(col, hidden), line>>)
(* show: the rest of the one file that is not done. *)
PutAll(out, col, lines, hidden) ==
  FoldLeft(LAMBDA o, line : Put(o, col, line, hidden), out, lines)

RECURSIVE Merge(_, _, _, _)
Merge(f1, f2, hidden, out) ==
  IF f1 = <<>> THEN PutAll(out, 2, f2, hidden)
  ELSE IF f2 = <<>> THEN PutAll(out, 1, f1, hidden)
  ELSE IF Head(f1) = Head(f2)
    THEN Merge(Tail(f1), Tail(f2), hidden, Put(out, 3, Head(f1), hidden))
  ELSE IF Head(f1) < Head(f2)
    THEN Merge(Tail(f1), f2, hidden, Put(out, 1, Head(f1), hidden))
    ELSE Merge(f1, Tail(f2), hidden, Put(out, 2, Head(f2), hidden))
CommRun(f1, f2, hidden) == Merge(f1, f2, hidden, <<>>)

(* Of sorted files, a line that both have n and m times is shown min times *)
(* as common and the rest in the column of its file, in order; a column    *)
(* that is left out takes its lines and its tab with it.                   *)
CommShowsColumns(f1, f2, hidden, out) ==
  LET lines == ToSet(f1) \cup ToSet(f2)
      both(x) == Smaller(Times(x, f1), Times(x, f2))
      wanted(x, col) == CASE col = 1 -> Times(x, f1) - both(x)
                          [] col = 2 -> Times(x, f2) - both(x)
                          [] col = 3 -> both(x)
      shown == (1 .. 3) \ hidden
  IN /\ \A x \in lines, col \in shown : Times(<<Tabs(col, hidden), x>>, out) = wanted(x, col)
     /\ \A i \in DOMAIN out : out[i] \in {Tabs(col, hidden) : col \in shown} \X lines
     /\ \A i \in 1 .. Len(out) - 1 : out[i][2] <= out[i + 1][2]

-----------------------------------------------------------------------------
(* join.  A line is the sequence of its fields, a field a number (its      *)
(* order, as strcmp sees it).  An option record has the join fields j1 and *)
(* j2, the files whose unpairable lines are put out (-a, -v) and whether   *)
(* the matched ones are.                                                   *)
JoinOptions ==
  LET unpaired == SUBSET {1, 2}
  IN [j1 : {1, 2}, j2 : {1, 2}, unpair : unpaired, joinout : {TRUE}] \cup
     [j1 : {1, 2}, j2 : {1, 2}, unpair : unpaired \ {{}}, joinout : {FALSE}]

(* cmp: a line without the field comes before all that have it. *)
NoField == 0
Field(line, j) == IF Len(line) < j THEN NoField ELSE line[j]

(* slurp: the lines at the head of a file that share its join field; the   *)
(* first of the next set is pushed back.                                   *)
JoinSet(lines, j) ==
  LET next == SelectInSubSeq(lines, 2, Len(lines), LAMBDA l : Field(l, j) # Field(lines[1], j))
  IN IF next = 0 THEN lines ELSE Upto(lines, next - 1)
AfterSet(lines, j) == From(lines, Len(JoinSet(lines, j)) + 1)

(* outoneline and outtwoline without -o: the join field, then the others.  *)
Others(line, j) == IF Len(line) < j THEN line ELSE RemoveAt(line, j)
OneLine(line, j) == <<Field(line, j)>> \o Others(line, j)
TwoLines(l1, l2, o) == OneLine(l1, o.j1) \o Others(l2, o.j2)

(* joinlines *)
Pairs(s1, s2, o) ==
  FlattenSeq([i \in DOMAIN s1 |-> [k \in DOMAIN s2 |-> TwoLines(s1[i], s2[k], o)]])
Unpaired(s, j, file, o) ==
  IF file \in o.unpair THEN [i \in DOMAIN s |-> OneLine(s[i], j)] ELSE <<>>

RECURSIVE JoinSets(_, _, _, _)
JoinSets(f1, f2, o, out) ==
  LET s1 == JoinSet(f1, o.j1)  r1 == AfterSet(f1, o.j1)
      s2 == JoinSet(f2, o.j2)  r2 == AfterSet(f2, o.j2)
      c1 == Field(f1[1], o.j1)  c2 == Field(f2[1], o.j2)
  IN IF f1 = <<>> /\ f2 = <<>> THEN out
     ELSE IF f1 # <<>> /\ f2 # <<>> /\ c1 = c2
       THEN JoinSets(r1, r2, o, out \o IF o.joinout THEN Pairs(s1, s2, o) ELSE <<>>)
     ELSE IF f2 = <<>> \/ (f1 # <<>> /\ c1 < c2)
       THEN JoinSets(r1, f2, o, out \o Unpaired(s1, o.j1, 1, o))
       ELSE JoinSets(f1, r2, o, out \o Unpaired(s2, o.j2, 2, o))
JoinRun(f1, f2, o) == JoinSets(f1, f2, o, <<>>)

(* Of files sorted on their join fields: every pair of lines with equal    *)
(* fields once, and every line without a partner once if its file's are    *)
(* asked for; nothing else.                                                *)
JoinIsRelational(f1, f2, o, out) ==
  LET agree(l1, l2) == Field(l1, o.j1) = Field(l2, o.j2)
      pairs == IF o.joinout THEN {p \in (DOMAIN f1) \X (DOMAIN f2) : agree(f1[p[1]], f2[p[2]])} ELSE {}
      lone1 == Unpaired(SelectSeq(f1, LAMBDA l : \A i \in DOMAIN f2 : ~agree(l, f2[i])), o.j1, 1, o)
      lone2 == Unpaired(SelectSeq(f2, LAMBDA l : \A i \in DOMAIN f1 : ~agree(f1[i], l)), o.j2, 2, o)
      paired(line) == Cardinality({p \in pairs : TwoLines(f1[p[1]], f2[p[2]], o) = line})
  IN /\ Len(out) = Cardinality(pairs) + Len(lone1) + Len(lone2)
     /\ \A i \in DOMAIN out :
          Times(out[i], out) = paired(out[i]) + Times(out[i], lone1) + Times(out[i], lone2)

-----------------------------------------------------------------------------
(* paste.  A file is a sequence of lines without newlines; Stdin, named by *)
(* a "-", is one stream however often it is named.  A delimiter is a       *)
(* character, or Nul, which -d spells \0 (tr).                             *)
Nul == "\\0"
Stdin == "-"
PasteDelims == {<<TAB>>, <<",", ";">>, <<Nul, ",">>}

Delim(d, k) == LET c == d[(k % Len(d)) + 1] IN IF c = Nul THEN <<>> ELSE <<c>>
Delims(d, n) == FlattenSeq([k \in 1 .. n |-> Delim(d, k - 1)])

(* parallel: one file's turn in a row.  left has the lines not yet read of *)
(* each stream, open the files that are, row what the row has put out.     *)
Stream(names, i) == IF names[i] = Stdin THEN 0 ELSE i
Streams(files, names) ==
  [i \in {0} \cup DOMAIN names |-> files[IF i = 0 THEN Stdin ELSE names[i]]]
PasteTurn(st, i, names, d) ==
  LET lines == st.left[Stream(names, i)]
  IN IF i \notin st.open
       THEN IF st.output /\ i > 1 THEN [st EXCEPT !.row = @ \o Delim(d, i - 2)] ELSE st
     ELSE IF lines = <<>>
       THEN LET closed == [st EXCEPT !.open = @ \ {i}]
            IN IF closed.open # {} /\ st.output /\ i > 1
                 THEN [closed EXCEPT !.row = @ \o Delim(d, i - 2)] ELSE closed
       ELSE [st EXCEPT !.left[Stream(names, i)] = Tail(lines), !.output = TRUE,
                       !.row = @ \o (IF st.output THEN Delim(d, i - 2) ELSE Delims(d, i - 1))
                                 \o Head(lines)]

RECURSIVE PasteRows(_, _, _, _)
PasteRows(st, names, d, out) ==
  LET end == FoldLeft(LAMBDA s, i : PasteTurn(s, i, names, d), st, [i \in DOMAIN names |-> i])
      put == IF end.output THEN Append(out, end.row) ELSE out
  IN IF st.open = {} THEN out
     ELSE PasteRows([end EXCEPT !.row = <<>>, !.output = FALSE], names, d, put)
PasteParallel(files, names, d) ==
  PasteRows([left |-> Streams(files, names), open |-> DOMAIN names, row |-> <<>>,
             output |-> FALSE], names, d, <<>>)

(* sequential: one row for each file, its lines joined; the delimiters are *)
(* put as they are, Nul included.                                          *)
PasteJoin(lines, d) ==
  FoldLeft(LAMBDA st, line :
             [cnt |-> IF st.cnt + 1 = Len(d) THEN 0 ELSE st.cnt + 1,
              row |-> st.row \o (IF st.cnt >= 0 THEN <<d[st.cnt + 1]>> ELSE <<>>) \o line],
           [cnt |-> -1, row |-> <<>>], lines).row
PasteSequential(files, names, d) ==
  FoldLeft(LAMBDA st, name :
             [left |-> [st.left EXCEPT ![name] = IF name = Stdin THEN <<>> ELSE @],
              out |-> IF st.left[name] = <<>> THEN st.out
                      ELSE Append(st.out, PasteJoin(st.left[name], d))],
           [left |-> files, out |-> <<>>], names).out

(* Row r has line r of each file, nothing for a file that has ended, and   *)
(* the delimiters in turn between them; the "-"s deal out standard input's *)
(* lines.  No row is put out for no line.                                  *)
PasteRowsAlign(files, names, d, out) ==
  LET dashes == {i \in DOMAIN names : names[i] = Stdin}
      nth(r, i) == IF i \in dashes
                     THEN (r - 1) * Cardinality(dashes) + Cardinality({k \in dashes : k <= i})
                     ELSE r
      line(r, i) == IF nth(r, i) \in DOMAIN files[names[i]] THEN files[names[i]][nth(r, i)] ELSE <<>>
      some(r) == \E i \in DOMAIN names : nth(r, i) \in DOMAIN files[names[i]]
  IN /\ \A r \in DOMAIN out :
          out[r] = FlattenSeq([i \in DOMAIN names |->
                                 (IF i > 1 THEN Delim(d, i - 2) ELSE <<>>) \o line(r, i)])
     /\ \A r \in DOMAIN out : some(r)
     /\ ~some(Len(out) + 1)

-----------------------------------------------------------------------------
(* split and csplit (core/coreutils/src/utils/{split,csplit}): one file    *)
(* into several.                                                           *)

-----------------------------------------------------------------------------
(* split.  The input comes in the pieces that read or fgets return; a file *)
(* is a text, and there are at most maxfiles names.                        *)

(* newfile: no name is left after the last one. *)
NewFile(st) == IF Len(st.files) = st.maxfiles THEN [st EXCEPT !.failed = TRUE]
               ELSE [st EXCEPT !.files = Append(@, <<>>), !.open = TRUE]
WriteTo(st, data) ==
  IF st.failed THEN st ELSE [st EXCEPT !.files[Len(st.files)] = @ \o data]

(* split1, for what one read returned: bcnt bytes are in the open file.    *)
RECURSIVE WholeFiles(_, _, _)
WholeFiles(st, data, n) ==
  IF data = <<>> THEN [st EXCEPT !.open = FALSE]
  ELSE IF Len(data) < n THEN WriteTo(NewFile(st), data)
  ELSE WholeFiles(WriteTo(NewFile(st), Upto(data, n)), From(data, n + 1), n)
SplitRead(st, data, n) ==
  LET opened == IF st.open THEN st ELSE NewFile(st)
      dist == n - st.bcnt
  IN IF st.failed THEN st
     ELSE IF Len(data) >= dist
       THEN [WholeFiles(WriteTo(opened, Upto(data, dist)), From(data, dist + 1), n)
               EXCEPT !.bcnt = (Len(data) - dist) % n]
       ELSE [WriteTo(opened, data) EXCEPT !.bcnt = st.bcnt + Len(data)]
SplitStart(maxfiles) ==
  [files |-> <<>>, open |-> FALSE, bcnt |-> 0, lcnt |-> 0, failed |-> FALSE, maxfiles |-> maxfiles]
SplitBytes(reads, n, maxfiles) ==
  FoldLeft(LAMBDA st, data : SplitRead(st, data, n), SplitStart(maxfiles), reads)

(* split2, for one fgets of a buffer: a line, or a part of a line too long *)
(* for it; only the part with the newline counts, or is matched (-p).      *)
Gets(text, size) ==
  FlattenSeq([i \in DOMAIN Lines(text) |->
    LET line == Lines(text)[i]  n == (Len(line) + size - 1) \div size
    IN [k \in 1 .. n |-> SubSeq(line, (k - 1) * size + 1, Smaller(k * size, Len(line)))]])
SplitGet(st, data, o) ==
  LET whole == Last(data) = NL
      next == whole /\ IF o.pattern THEN Contains(data, o.expr) ELSE st.lcnt = o.lines
      counted == [st EXCEPT !.lcnt = IF ~whole \/ o.pattern THEN @ ELSE IF next THEN 1 ELSE @ + 1]
      renewed == IF next THEN NewFile(counted) ELSE counted
  IN IF st.failed THEN st
     ELSE WriteTo(IF renewed.open \/ renewed.failed THEN renewed ELSE NewFile(renewed), data)
SplitLines(text, o, size, maxfiles) ==
  FoldLeft(LAMBDA st, data : SplitGet(st, data, o), SplitStart(maxfiles), Gets(text, size))

(* The files make up the input; each but the last has n bytes, or ends     *)
(* with its n-th line, and no file is empty.  Without enough names split   *)
(* fails, and what it has written is a part of the input from its start.   *)
SplitKeeps(text, end) ==
  LET all == FlattenSeq(end.files)
  IN /\ all = Upto(text, Len(all))
     /\ end.failed \/ all = text
     /\ \A k \in DOMAIN end.files : end.files[k] # <<>>
SplitBytesRight(text, n, end) ==
  /\ SplitKeeps(text, end)
  /\ \A k \in 1 .. Len(end.files) - 1 : Len(end.files[k]) = n
  /\ \A k \in DOMAIN end.files : Len(end.files[k]) <= n
SplitLinesRight(text, n, end) ==
  /\ SplitKeeps(text, end)
  /\ \A k \in DOMAIN end.files : Times(NL, end.files[k]) <= n
  /\ \A k \in 1 .. Len(end.files) - 1 : Times(NL, end.files[k]) = n

-----------------------------------------------------------------------------
(* csplit.  A line is one value; what a regular expression matches is a    *)
(* set of them.  A pattern is [kind, match, ofs, line, reps]: "save" is    *)
(* /re/, "skip" %re% and "line" a line number.  ragged: the last line has  *)
(* no newline, so that reading it raises the end-of-file mark.             *)
(* State: rest has the lines of infile not yet read, over those of the     *)
(* overflow file; spilled is the output file the overflow file is (0: the  *)
(* temporary one of a skip, -1: none), truncofs the length it will get.    *)
CsplitStart(lines, ragged) ==
  [rest |-> lines, ragged |-> ragged, eof |-> FALSE, over |-> <<>>, spilled |-> -1, truncofs |-> 0,
   files |-> <<>>, lineno |-> 0, failed |-> FALSE]

(* get_line: from the overflow file to its end, then from the input.       *)
NoLine(st) == st.over = <<>> /\ st.rest = <<>>
NextLine(st) == IF st.over # <<>> THEN Head(st.over) ELSE Head(st.rest)
GetLine(st) ==
  IF NoLine(st) THEN [st EXCEPT !.eof = TRUE]
  ELSE IF st.over # <<>> THEN [st EXCEPT !.over = Tail(@), !.lineno = @ + 1]
  ELSE [st EXCEPT !.rest = Tail(@), !.lineno = @ + 1, !.eof = @ \/ (st.ragged /\ Len(st.rest) = 1)]

(* toomuch: the old overflow file gets its length and is closed ...        *)
CloseOver(st) ==
  [st EXCEPT !.over = <<>>, !.spilled = -1,
             !.files = IF st.spilled > 0 THEN [@ EXCEPT ![st.spilled] = Upto(@, st.truncofs)] ELSE @]
(* ... and n lines of the current file become the new one, or all of them. *)
TooMuch(st, current, content, n) ==
  LET back == Smaller(n, Len(content))
  IN [CloseOver(st) EXCEPT !.lineno = @ - n, !.spilled = current,
        !.truncofs = Len(content) - back, !.over = From(content, Len(content) - back + 1)]

(* do_rexp: lines up to a match, never the first one, are put into the     *)
(* file; then the offset throws some back, or asks for more.               *)
RECURSIVE UpToMatch(_, _, _)
UpToMatch(st, match, content) ==
  IF NoLine(st) THEN [st |-> GetLine(st), content |-> content, found |-> FALSE]
  ELSE IF content # <<>> /\ NextLine(st) \in match
    THEN [st |-> GetLine(st), content |-> Append(content, NextLine(st)), found |-> TRUE]
    ELSE UpToMatch(GetLine(st), match, Append(content, NextLine(st)))
RECURSIVE Further(_, _, _)
Further(st, n, content) ==
  IF n = 0 THEN [st |-> st, content |-> content]
  ELSE IF NoLine(st) THEN [st |-> GetLine(st), content |-> content]
  ELSE Further(GetLine(st), n - 1, Append(content, NextLine(st)))
DoRexp(st, p) ==
  LET save == p.kind = "save"
      current == IF save THEN Len(st.files) + 1 ELSE 0
      until == UpToMatch([st EXCEPT !.files = IF save THEN Append(@, <<>>) ELSE @], p.match, <<>>)
      PutInto(s, content) == IF save THEN [s EXCEPT !.files[current] = content] ELSE s
      more == Further(until.st, p.ofs - 1, until.content)
  IN IF ~until.found THEN [PutInto(CloseOver(until.st), until.content) EXCEPT !.failed = TRUE]
     ELSE IF p.ofs <= 0 THEN TooMuch(PutInto(until.st, until.content), current, until.content, 1 - p.ofs)
     ELSE PutInto(CloseOver(more.st), more.content)

(* do_lineno: lines up to the one before a number; again from there on.    *)
RECURSIVE ToLine(_, _, _)
ToLine(st, line, content) ==
  IF st.lineno + 1 = line THEN [st |-> st, content |-> content]
  ELSE IF NoLine(st) THEN [st |-> [GetLine(st) EXCEPT !.failed = TRUE], content |-> content]
  ELSE ToLine(GetLine(st), line, Append(content, NextLine(st)))
RECURSIVE DoLineno(_, _, _, _, _)
DoLineno(st, p, line, reps, maxfiles) ==
  LET to == ToLine([st EXCEPT !.files = Append(@, <<>>)], line, <<>>)
      done == [to.st EXCEPT !.files[Len(st.files) + 1] = to.content]
  IN IF Len(st.files) >= maxfiles - 1 \/ st.failed THEN st
     ELSE IF reps = 0 THEN done
     ELSE DoLineno(done, p, line + p.line, reps - 1, maxfiles)

RECURSIVE Rexps(_, _, _, _)
Rexps(st, p, reps, maxfiles) ==
  LET once == DoRexp(st, p)
  IN IF once.failed \/ reps = 0 \/ Len(once.files) >= maxfiles - 1 THEN once
     ELSE Rexps(once, p, reps - 1, maxfiles)

(* main: the patterns in turn while names are left, the rest of the input, *)
(* and the last overflow file; a failure removes the files unless -k.      *)
Pattern(st, p, maxfiles) ==
  IF st.failed \/ Len(st.files) >= maxfiles - 1 THEN st
  ELSE IF p.kind # "line" THEN Rexps(st, p, p.reps, maxfiles)
  ELSE IF p.line <= st.lineno THEN [st EXCEPT !.failed = TRUE]
  ELSE DoLineno(st, p, p.line, p.reps, maxfiles)
Remainder(st) ==
  IF st.eof THEN CloseOver(st)
  ELSE CloseOver([st EXCEPT !.files = Append(@, st.over \o st.rest), !.over = <<>>, !.rest = <<>>])
CsplitRun(lines, ragged, patterns, keep, maxfiles) ==
  LET end == FoldLeft(LAMBDA st, p : Pattern(st, p, maxfiles), CsplitStart(lines, ragged), patterns)
  IN IF ~end.failed THEN Remainder(end)
     ELSE IF keep THEN end ELSE [end EXCEPT !.files = <<>>]

(* Where nothing is skipped the files make up the input, in order.         *)
CsplitKeepsInput(lines, patterns, end) ==
  ~end.failed /\ (\A k \in DOMAIN patterns : patterns[k].kind # "skip") =>
    FlattenSeq(end.files) = lines
(* A save ends its file before the line the offset from its match tells, a *)
(* line number before that line; a failure leaves no file without -k.      *)
CsplitEndsWhereAsked(lines, patterns, keep, end) ==
  LET p == patterns[1]
      m == Min({i \in 2 .. Len(lines) : lines[i] \in p.match} \cup {Len(lines) + 1})
      cut == IF p.kind = "line" THEN p.line ELSE Larger(m + p.ofs, 1)
  IN /\ end.failed /\ ~keep => end.files = <<>>
     /\ ~end.failed /\ p.kind # "skip" => end.files[1] = Upto(lines, Smaller(cut - 1, Len(lines)))
===============================================================================
