---------------------------- MODULE StreamFilters -----------------------------
(***************************************************************************)
(* Programs that pass a stream on, number it or show a part of it          *)
(* (core/coreutils/src/utils/{cat,head,wc,nl,tail}), and pr, which lays it *)
(* out in pages of one or several columns.                                 *)
(***************************************************************************)
EXTENDS Text

-----------------------------------------------------------------------------
(* cat, with any option.  Ctl is a control character, High a character     *)
(* with the eighth bit, HighCtl one with both.                             *)
Ctl == "\\x01"
Del == "\\x7f"
High == "\\xe9"
HighCtl == "\\x81"
HighNL == "\\x8a"     \* what is left of it without the eighth bit is a newline
(* main: -b implies -n, -e and -t imply -v; without options raw_args copies. *)
CatOptions == {o \in [b : BOOLEAN, e : BOOLEAN, n : BOOLEAN, s : BOOLEAN, t : BOOLEAN, v : BOOLEAN] :
                 (o.b => o.n) /\ (o.e \/ o.t => o.v)}

Shown(c, o) ==
  CASE c = NL -> IF o.e THEN <<"$", NL>> ELSE <<NL>>
    [] c = TAB -> IF o.t THEN <<"^", "I">> ELSE <<TAB>>
    [] c = Ctl /\ o.v -> <<"^", "A">>
    [] c = Del /\ o.v -> <<"^", "?">>
    [] c = High /\ o.v -> <<"M", "-", "i">>
    [] c = HighCtl /\ o.v -> <<"M", "-", "^", "A">>
    [] c = HighNL /\ o.v -> <<"M", "-", "^", "J">>
    [] OTHER -> <<c>>

(* cook_buf, one character: what starts a line is decided by the one before. *)
(* Variant with a mistake: a line that is not empty does not end the run. *)
CatCharGobbling(st, c, o) ==
  LET start == st.prev = NL
      number == start /\ o.n /\ (~o.b \/ c # NL)
      prefix == IF number THEN <<ToString(st.line + 1), TAB>>
                ELSE IF start /\ o.n /\ o.e THEN <<"", TAB>> ELSE <<>>
  IN IF o.s /\ start /\ c = NL /\ st.gobble THEN [st EXCEPT !.prev = c]
     ELSE [prev |-> IF c = HighNL /\ o.v THEN NL ELSE c,
           gobble |-> st.gobble \/ (o.s /\ start /\ c = NL),
           line |-> IF number THEN st.line + 1 ELSE st.line,
           out |-> st.out \o prefix \o Shown(c, o)]
CatChar(st, c, o) ==
  LET start == st.prev = NL
      squeeze == o.s /\ start /\ c = NL
      number == start /\ o.n /\ (~o.b \/ c # NL)
      prefix == IF number THEN <<ToString(st.line + 1), TAB>>
                ELSE IF start /\ o.n /\ o.e THEN <<"", TAB>> ELSE <<>>
  IN IF squeeze /\ st.gobble THEN [st EXCEPT !.prev = c]
     ELSE [prev |-> IF c = HighNL /\ o.v THEN NL ELSE c,
           gobble |-> IF start /\ o.s THEN c = NL ELSE st.gobble,
           line |-> IF number THEN st.line + 1 ELSE st.line,
           out |-> st.out \o prefix \o Shown(c, o)]
CatRun(text, o) ==
  FoldLeft(LAMBDA st, c : CatChar(st, c, o),
           [prev |-> NL, gobble |-> FALSE, line |-> 0, out |-> <<>>], text).out

(* Of adjacent empty lines -s keeps the first; lines are numbered in order *)
(* (-b: those that are not empty) and shown character by character.        *)
CatShowsLines(text, o, out) ==
  LET lines == Lines(text)
      empty(i) == lines[i] = <<NL>>
      kept == Increasing({i \in DOMAIN lines : ~(o.s /\ empty(i) /\ i > 1 /\ empty(i - 1))})
      counted(i) == o.n /\ (~o.b \/ ~empty(i))
      number(k) == Cardinality({j \in 1 .. k : counted(kept[j])})
      prefix(k) == IF counted(kept[k]) THEN <<ToString(number(k)), TAB>>
                   ELSE IF o.n /\ o.e THEN <<"", TAB>> ELSE <<>>
      shown(line) == FlattenSeq([i \in DOMAIN line |-> Shown(line[i], o)])
  IN out = FlattenSeq([k \in DOMAIN kept |-> prefix(k) \o shown(lines[kept[k]])])

-----------------------------------------------------------------------------
(* head: a file is [name, text], or has no text if it cannot be opened.    *)
HeadText(text, n) == FlattenSeq(Upto(Lines(text), Smaller(n, Len(Lines(text)))))
HeadRun(files, n) ==
  FoldLeft(LAMBDA st, f :
             IF ~f.there THEN [st EXCEPT !.first = FALSE, !.status = 1]
             ELSE [first |-> FALSE, status |-> st.status,
                   out |-> st.out \o (IF Len(files) = 1 THEN <<>>
                                      ELSE (IF st.first THEN <<>> ELSE <<NL>>) \o <<f.name, NL>>)
                           \o HeadText(f.text, n)],
           [first |-> TRUE, status |-> 0, out |-> <<>>], files)

(* Each file that can be read gives its first n lines, or all of them,     *)
(* under its name when several were named; one that cannot sets the status.*)
HeadShowsFirst(files, n, end) ==
  LET there == SelectSeq(files, LAMBDA f : f.there)
      shown(f) == Upto(f.text, Min({i \in DOMAIN f.text : Times(NL, Upto(f.text, i)) = n}
                                   \cup {Len(f.text)}))
      blank(k) == k > 1 \/ ~files[1].there
      title(k) == (IF blank(k) THEN <<NL>> ELSE <<>>) \o <<there[k].name, NL>>
  IN /\ end.status = IF there = files THEN 0 ELSE 1
     /\ end.out = FlattenSeq([k \in DOMAIN there |->
                     (IF Len(files) > 1 THEN title(k) ELSE <<>>) \o shown(there[k])])

-----------------------------------------------------------------------------
(* wc.  A character of the text has one byte, but Wide has two (Text); Bad is a   *)
(* byte that is no character, counted as one of a word.                    *)
Bad == "\\xff"
WcOptions == {o \in [line : BOOLEAN, word : BOOLEAN, char : BOOLEAN, multibyte : BOOLEAN] :
                /\ o.multibyte => o.char
                /\ o.line \/ o.word \/ o.char}
WcBytes(text) == Len(text) + Times(Wide, text)
WcZero == [line |-> 0, word |-> 0, char |-> 0]

(* cnt: by blocks of bytes, by the size of the file, or word by word.      *)
WcFast(text, o) == [line |-> IF o.line THEN Times(NL, text) ELSE 0, word |-> 0,
                    char |-> IF o.line \/ o.char THEN WcBytes(text) ELSE 0]
WcWords(text, o) ==
  FoldLeft(LAMBDA st, c :
             IF c \in WhiteSpace
               THEN [st EXCEPT !.gotsp = TRUE, !.line = IF c = NL THEN @ + 1 ELSE @]
               ELSE [st EXCEPT !.gotsp = FALSE, !.word = IF st.gotsp THEN @ + 1 ELSE @],
           [gotsp |-> TRUE, line |-> 0, word |-> 0], text)
WcCount(text, o) ==
  IF ~o.word /\ ~o.multibyte THEN WcFast(text, o)
  ELSE LET w == WcWords(text, o)
       IN [line |-> w.line, word |-> w.word,
           char |-> IF o.multibyte THEN Len(text) ELSE WcBytes(text)]
WcAdd(a, b) == [f \in DOMAIN a |-> a[f] + b[f]]
WcShow(count, o) == SelectSeq(<<<<o.line, count.line>>, <<o.word, count.word>>, <<o.char, count.char>>>>,
                              LAMBDA p : p[1])
WcRun(texts, o) ==
  LET counts == [i \in DOMAIN texts |-> WcCount(texts[i], o)]
      total == FoldLeft(WcAdd, WcZero, counts)
      rows == IF Len(texts) > 1 THEN Append(counts, total) ELSE counts
  IN [i \in DOMAIN rows |-> WcShow(rows[i], o)]

(* Each row has the numbers asked for, whichever way they were counted, a  *)
(* word being a maximal run of characters that are not white space; the    *)
(* last row of several is the sum of the others.                           *)
WcCountsRight(texts, o, out) ==
  LET words(t) == Cardinality({i \in DOMAIN t : t[i] \notin WhiteSpace /\ (i = 1 \/ t[i - 1] \in WhiteSpace)})
      value(t, f) == CASE f = 1 -> Times(NL, t)
                       [] f = 2 -> words(t)
                       [] f = 3 -> IF o.multibyte THEN Len(t) ELSE WcBytes(t)
      asked == Increasing({f \in 1 .. 3 : <<o.line, o.word, o.char>>[f]})
      sum(f) == Sum0([i \in DOMAIN texts |-> value(texts[i], f)])
      row(Value(_)) == [k \in DOMAIN asked |-> <<TRUE, Value(asked[k])>>]
      of(i) == LET v(f) == value(texts[i], f) IN row(v)
  IN out = [i \in DOMAIN texts |-> of(i)] \o IF Len(texts) > 1 THEN <<row(sum)>> ELSE <<>>

-----------------------------------------------------------------------------
(* nl.  A line is a sequence over NlDelim, the pair of delimiter characters, *)
(* and other characters.  A section is "footer", "body" or "header", told  *)
(* by one, two or three delimiters; type gives each a kind of numbering.   *)
NlDelim == "\\:"
Sections == <<"footer", "body", "header">>
Numberings == {"all", "nonempty", "none", "regex"}

(* The section that a line starts, 0 for none. *)
SectionOf(line) ==
  LET idx == {i \in 1 .. 3 : line = Append(Repeat(NlDelim, i), NL)}
  IN IF idx = {} THEN 0 ELSE CHOOSE i \in idx : TRUE

NlLine(st, line, o) ==
  LET kind == o.type[Sections[st.section]]
      blank == line[1] = NL
      adj == IF kind = "all" THEN IF blank /\ st.adj + 1 < o.nblank THEN st.adj + 1 ELSE 0 ELSE st.adj
      number == CASE kind = "all" -> ~(blank /\ st.adj + 1 < o.nblank)
                  [] kind = "nonempty" -> ~blank
                  [] kind = "none" -> FALSE
                  [] kind = "regex" -> Contains(line, o.expr)
  IN IF SectionOf(line) # 0
       THEN [st EXCEPT !.section = SectionOf(line), !.adj = 0, !.line = IF o.restart THEN o.start ELSE @]
       ELSE [st EXCEPT !.adj = adj, !.line = IF number THEN @ + o.incr ELSE @,
                       !.out = Append(@, <<IF number THEN <<st.line>> ELSE <<>>, line>>)]
NlRun(lines, o) ==
  FoldLeft(LAMBDA st, line : NlLine(st, line, o),
           [section |-> 2, adj |-> 0, line |-> o.start, out |-> <<>>], lines).out

(* The lines that start sections are left out.  A line is numbered as its  *)
(* section says, with -l only each group of adjacent blank lines, and the  *)
(* numbers count up from the start, and again from each section with -p    *)
(* not given.                                                              *)
NlNumbersSections(lines, o, out) ==
  LET marks == {i \in DOMAIN lines : SectionOf(lines[i]) # 0}
      mark(i) == Max({0} \cup {k \in marks : k < i})
      kind(i) == o.type[Sections[IF mark(i) = 0 THEN 2 ELSE SectionOf(lines[mark(i)])]]
      blank(i) == lines[i] = <<NL>>
      inRow(i) == i - Max({mark(i)} \cup {k \in 1 .. i - 1 : ~blank(k)})
      numbered(i) == CASE kind(i) = "all" -> blank(i) => inRow(i) % Larger(o.nblank, 1) = 0
                       [] kind(i) = "nonempty" -> ~blank(i)
                       [] kind(i) = "none" -> FALSE
                       [] kind(i) = "regex" -> Contains(lines[i], o.expr)
      since(i) == IF o.restart THEN mark(i) ELSE 0
      number(i) == o.start + o.incr * Cardinality({k \in since(i) + 1 .. i - 1 : k \notin marks /\ numbered(k)})
      text == Increasing(DOMAIN lines \ marks)
  IN out = [k \in DOMAIN text |->
              <<IF numbered(text[k]) THEN <<number(text[k])>> ELSE <<>>, lines[text[k]]>>]

-----------------------------------------------------------------------------
(* tail: the last or first part of a file, forward or, with -r, line by    *)
(* line in reverse.  A regular file is read by seeking, anything else      *)
(* through a buffer that wraps around; both must give the same text.       *)
(* Counts are of bytes or lines; units of -b, errors and -f, which needs   *)
(* epoll, are left out.                                                    *)

(* main: "+n" counts from the start and from 1, "n" and "-n" from the end; *)
(* -r turns the styles from the start into those from the end.             *)
Style(units, plus, r) ==
  IF units = "none" THEN IF r THEN "reverse" ELSE "rlines"
  ELSE IF plus /\ ~r THEN "f" \o units ELSE "r" \o units
Offset(units, plus, n, r) ==
  IF units = "none" THEN IF r THEN 0 ELSE 10
  ELSE IF plus /\ n > 0 THEN n - 1 ELSE n

-----------------------------------------------------------------------------
(* read.c: what a buffer that wraps around holds at the end.  It is a      *)
(* function on 0 .. off - 1, p the next place, wrap whether it was filled. *)
(* Variant with a mistake: a buffer just full does not count as wrapped. *)
WrappedLate(items, off) ==
  FoldLeft(LAMBDA st, item :
             [buf |-> [st.buf EXCEPT ![st.p] = item],
              wrap |-> st.wrap \/ st.p + 1 > off,
              p |-> (st.p + 1) % off],
           [buf |-> [i \in 0 .. off - 1 |-> <<>>], p |-> 0, wrap |-> FALSE], items)
Wrapped(items, off) ==
  FoldLeft(LAMBDA st, item :
             [buf |-> [st.buf EXCEPT ![st.p] = item],
              wrap |-> st.wrap \/ st.p + 1 = off,
              p |-> (st.p + 1) % off],
           [buf |-> [i \in 0 .. off - 1 |-> <<>>], p |-> 0, wrap |-> FALSE], items)
Part(st, from, to) == [k \in 1 .. to - from |-> st.buf[from + k - 1]]

(* lines *)
LinesBuffered(text, off, r) ==
  LET st == Wrapped(Lines(text), off)
      new == Part(st, 0, st.p)
      old == IF st.wrap THEN Part(st, st.p, off) ELSE <<>>
  IN FlattenSeq(IF r THEN Reverse(new) \o Reverse(old) ELSE old \o new)

(* bytes with -r: the lines of the newer part from the end, its first one  *)
(* held back for the older part, whose end it continues.                   *)
LastStart(s) == SelectLastInSubSeq(s, 1, Len(s) - 1, LAMBDA c : c = NL)
RECURSIVE LinesBack(_)
LinesBack(s) ==
  IF LastStart(s) = 0 THEN [head |-> s, out |-> <<>>]
  ELSE LET rest == LinesBack(Upto(s, LastStart(s)))
       IN [head |-> rest.head, out |-> From(s, LastStart(s) + 1) \o rest.out]
BytesBack(st, off) ==
  LET new == LinesBack(Part(st, 0, st.p))
      old == Part(st, st.p, off)
      k == SelectLastInSeq(old, LAMBDA c : c = NL)
      older == LinesBack(Upto(old, k))
  IN IF ~st.wrap THEN new.out
     ELSE IF k = 0 THEN new.out \o old \o new.head
     ELSE new.out \o From(old, k + 1) \o new.head \o older.out \o older.head
BytesBuffered(text, off, r) ==
  LET st == Wrapped(text, off)
  IN IF r THEN BytesBack(st, off)
     ELSE (IF st.wrap THEN Part(st, st.p, off) ELSE <<>>) \o Part(st, 0, st.p)

-----------------------------------------------------------------------------
(* forward.c, without -r *)

(* rlines: back from the last character but one to the newline that ends   *)
(* the line before the ones wanted.                                        *)
RLines(text, off) ==
  LET n == Len(text)
      stops == {i \in 1 .. n - 1 : text[i] = NL /\ Times(NL, SubSeq(text, i, n - 1)) = off}
  IN From(text, Max({0} \cup stops) + 1)

(* FLINES: past the newline that ends line off. *)
DropLines(text, off) ==
  LET ends == {i \in DOMAIN text : Times(NL, Upto(text, i)) = off}
  IN IF ends = {} THEN <<>> ELSE From(text, Min(ends) + 1)

Forward(text, regular, style, off) ==
  CASE style = "fbytes" -> From(text, Smaller(off, Len(text)) + 1)
    [] style = "flines" -> IF off = 0 THEN text ELSE DropLines(text, off)
    [] style = "rbytes" ->
         IF regular THEN IF Len(text) >= off THEN From(text, Len(text) - off + 1) ELSE text
         ELSE IF off = 0 THEN <<>> ELSE BytesBuffered(text, off, FALSE)
    [] style = "rlines" ->
         IF off = 0 THEN <<>>
         ELSE IF regular THEN RLines(text, off) ELSE LinesBuffered(text, off, FALSE)

-----------------------------------------------------------------------------
(* reverse.c, with -r *)

(* r_reg: whenever the character at pos is a newline, the line after it is *)
(* put out; end is where that line ends, ch the last character read (Eof   *)
(* before the first), at where the next one would be.  Positions are of    *)
(* the code, from 0.                                                       *)
Eof == "EOF"
RECURSIVE ScanBack(_, _, _)
ScanBack(text, start, st) ==
  LET line == SubSeq(text, st.pos + 2, st.end)
      copied == [st EXCEPT !.pos = @ - 1, !.end = st.pos + 1, !.ch = Last(line), !.at = st.end,
                           !.out = @ \o line, !.off = @ - 1]
  IN IF st.pos < start THEN st
     ELSE IF text[st.pos + 1] # NL
       THEN ScanBack(text, start, [st EXCEPT !.pos = @ - 1, !.ch = text[st.pos + 1], !.at = st.pos + 1])
     ELSE IF st.style = "rlines" /\ st.off = 1 THEN [copied EXCEPT !.done = TRUE]
     ELSE ScanBack(text, start, copied)
(* What is left of the first line is read from where the stream is, after  *)
(* ch has been pushed back.                                                *)
ReverseRegular(text, style, off) ==
  LET size == Len(text)
      start == IF style = "rbytes" /\ off < size THEN size - off ELSE 0
      st == ScanBack(text, start, [pos |-> size - 2, end |-> size, ch |-> Eof, at |-> 0, off |-> off,
                                   style |-> style, done |-> FALSE, out |-> <<>>])
      stream == (IF st.ch = Eof THEN <<>> ELSE <<st.ch>>) \o From(text, st.at + 1)
  IN IF size = 0 THEN <<>>
     ELSE st.out \o IF st.done THEN <<>> ELSE Upto(stream, st.end - start)

(* r_buf: the input in blocks of a size, of which only the newest fit into *)
(* memory, and then from the newest block to the oldest: each line that    *)
(* starts in the block, with what the blocks after it keep of it.          *)
Blocks(text, size, max) ==
  LET n == (Len(text) + size - 1) \div size
      all == [k \in 1 .. n |-> SubSeq(text, (k - 1) * size + 1, Smaller(k * size, Len(text)))]
  IN IF n <= max THEN all ELSE From(all, n - max + 1)
BlocksBack(blocks) ==
  FoldRight(LAMBDA block, st :
              LET k == IF st.kept = <<>> THEN LastStart(block)
                       ELSE SelectLastInSeq(block, LAMBDA c : c = NL)
                  rest == LinesBack(Upto(block, k))
              IN IF k = 0 THEN [st EXCEPT !.kept = block \o @]
                 ELSE [kept |-> rest.head, out |-> st.out \o From(block, k + 1) \o st.kept \o rest.out],
            blocks, [kept |-> <<>>, out |-> <<>>])
ReverseBuffered(text, size, max) ==
  LET st == BlocksBack(Blocks(text, size, max)) IN st.out \o st.kept

Backward(text, regular, style, off, size, max) ==
  IF style # "reverse" /\ off = 0 THEN <<>>
  ELSE IF regular THEN ReverseRegular(text, style, off)
  ELSE CASE style = "rbytes" -> BytesBuffered(text, off, TRUE)
         [] style = "rlines" -> LinesBuffered(text, off, TRUE)
         [] style = "reverse" -> ReverseBuffered(text, size, max)

-----------------------------------------------------------------------------
(* What tail promises *)

TailPart(text, style, off) ==
  LET lines == Lines(text)
      n == Len(lines)
  IN CASE style = "fbytes" -> From(text, off + 1)
       [] style = "rbytes" -> From(text, Larger(Len(text) - off, 0) + 1)
       [] style = "flines" -> FlattenSeq(From(lines, off + 1))
       [] style = "rlines" -> FlattenSeq(From(lines, Larger(n - off, 0) + 1))
       [] style = "reverse" -> text

(* Whether it can seek or not, tail shows the part asked for, and with -r  *)
(* the lines of that part in reverse order.                                *)
TailShowsPart(text, style, off, r, out) ==
  LET part == TailPart(text, style, off)
  IN out = IF r THEN FlattenSeq(Reverse(Lines(part))) ELSE part

-----------------------------------------------------------------------------
(* pr.  What is written is a sequence of lines: a header, blank lines, a   *)
(* form feed, and rows.  A row is a sequence of cells, a cell the number   *)
(* put before it (0: none) and the text read into it.                      *)
FF == "\f"
Stale == <<"stale">>                 \* what the page buffer held before
Nothing == <<"nothing">>
Header(n) == [kind |-> "head", page |-> n, cells |-> <<>>]
BlankLine == [kind |-> "blank", page |-> 0, cells |-> <<>>]
FormFeed == [kind |-> "ff", page |-> 0, cells |-> <<>>]
Row(cells) == [kind |-> "row", page |-> 0, cells |-> cells]
HEADLEN == 5
TAILLEN == 5

(* setup: the length of a page, in lines that hold text, from the options. *)
PrSetup(l, t, d, more) ==
  LET short == l <= HEADLEN + TAILLEN
      lines == IF short \/ t THEN l ELSE l - HEADLEN - TAILLEN
      double == d /\ lines > 1
  IN [nohead |-> t \/ short, dspace |-> double, addone |-> double /\ lines % 2 = 1,
      lines |-> IF double THEN lines \div 2 ELSE lines, l |-> l] @@ more
ColumnWidth(pgwd, clcnt, nmwd) ==
  IF nmwd > 0 THEN (pgwd + 1 - clcnt * (nmwd + 2)) \div clcnt ELSE (pgwd + 1 - clcnt) \div clcnt

(* inln: a line, cut at lim characters (0: never) and the rest of it lost. *)
InLn(text, lim) ==
  LET stop == FirstOf(text, {NL, FF})
      n == IF stop = 0 THEN Len(text) ELSE stop - 1
      lost == SelectInSeq(From(text, lim + 1), LAMBDA c : c = NL)
  IN IF lim > 0 /\ n >= lim
       THEN [cnt |-> lim, data |-> Upto(text, lim), rc |-> "NORMAL",
             rest |-> IF lost = 0 THEN <<>> ELSE From(text, lim + lost + 1)]
     ELSE IF stop = 0
       THEN [cnt |-> IF n = 0 THEN -1 ELSE n, data |-> text, rc |-> "END", rest |-> <<>>]
     ELSE [cnt |-> n, data |-> Upto(text, n), rest |-> From(text, stop + 1),
           rc |-> IF text[stop] = NL THEN "NORMAL" ELSE "FORM"]

(* The lines read for a page: at most max, up to a form feed or the end.   *)
RECURSIVE ReadCells(_, _, _)
ReadCells(text, lim, max) ==
  LET r == InLn(text, lim)
  IN IF max = 1 \/ r.rc # "NORMAL" THEN <<r>> ELSE <<r>> \o ReadCells(r.rest, lim, max - 1)

(* A page of onecol, vertcol or horzcol: its rows, and how many the page   *)
(* is said to have when it is filled up.  Cells are numbered from ln on.   *)
Cell(cells, k, ln, o) ==
  [num |-> IF o.number THEN ln + k ELSE 0,
   data |-> IF cells[k].cnt < 0 THEN Stale ELSE cells[k].data]
Valid(cells) == IF Last(cells).cnt < 0 THEN Len(cells) - 1 ELSE Len(cells)
OneColPage(cells, ln, o) ==
  [rows |-> [k \in 1 .. Valid(cells) |-> <<Cell(cells, k, ln, o)>>], used |-> Valid(cells)]

(* vertcol balances the columns of a last page.  It counts what it read,   *)
(* the failed read included, from 0.  A cell of the last column of which   *)
(* nothing was read leaves only its number; in another column it takes its *)
(* width of what the page buffer holds.                                    *)
Rebalance(cells, o) ==
  LET cvc == Len(cells) - 1
  IN Last(cells).rc # "NORMAL" /\ cvc > 0 /\ o.lines * o.clcnt - cvc >= o.clcnt
VertColPage(cells, ln, o) ==
  LET cvc == Len(cells) - 1
      full == Rebalance(cells, o)
      pln == IF full THEN (cvc + o.clcnt - 1) \div o.clcnt ELSE Smaller(Valid(cells), o.lines)
      top == IF full THEN Len(cells) ELSE Valid(cells)
      cell(i, j) == LET c == Cell(cells, i + (j - 1) * pln, ln, o)
                    IN IF c.data = Stale /\ j = o.clcnt THEN [c EXCEPT !.data = Nothing] ELSE c
      row(i) == SelectSeq([j \in 1 .. Smaller(o.clcnt, (top - i) \div pln + 1) |-> cell(i, j)],
                          LAMBDA c : c.data # Nothing \/ o.number)
  IN [rows |-> [i \in 1 .. pln |-> row(i)], used |-> pln]

HorzColPage(cells, ln, o) ==
  LET n == Valid(cells)
      rows == (n + o.clcnt - 1) \div o.clcnt
  IN [rows |-> [i \in 1 .. rows |->
                 [j \in 1 .. Smaller(o.clcnt, n - (i - 1) * o.clcnt) |->
                    Cell(cells, (i - 1) * o.clcnt + j, ln, o)]],
      used |-> IF Last(cells).rc # "NORMAL" THEN (Len(cells) - 1) \div o.clcnt ELSE rows]
PageOf(cells, ln, o) ==
  CASE o.mode = "one" -> OneColPage(cells, ln, o)
    [] o.mode = "down" -> VertColPage(cells, ln, o)
    [] o.mode = "across" -> HorzColPage(cells, ln, o)

(* prhead and prtail around the rows of a page.                            *)
PageShown(page, o) == page >= o.pgnm
PrHead(page, o) ==
  IF o.nohead \/ ~PageShown(page, o) THEN <<>>
  ELSE <<BlankLine, BlankLine, Header(page), BlankLine, BlankLine>>
(* Variant with a mistake: a page of an odd number of lines gets one too few. *)
PrTailShort(page, cnt, o) ==
  IF ~PageShown(page, o) THEN <<>>
  ELSE IF o.formfeed THEN <<FormFeed>>
  ELSE IF o.nohead THEN <<>>
  ELSE Repeat(BlankLine, (IF o.dspace THEN 2 * cnt ELSE cnt) + TAILLEN)
PrTail(page, cnt, o) ==
  LET fill == (IF o.dspace THEN 2 * cnt ELSE cnt) + (IF o.addone THEN 1 ELSE 0) + TAILLEN
  IN IF ~PageShown(page, o) THEN <<>>
     ELSE IF o.formfeed THEN <<FormFeed>>
     ELSE IF o.nohead THEN <<>> ELSE Repeat(BlankLine, fill)
PrRows(page, rows, o) ==
  IF ~PageShown(page, o) THEN <<>>
  ELSE FlattenSeq([i \in DOMAIN rows |->
                     <<Row(rows[i])>> \o IF o.dspace THEN <<BlankLine>> ELSE <<>>])
Page(page, p, o) ==
  PrHead(page, o) \o PrRows(page, p.rows, o) \o PrTail(page, o.lines - p.used, o)

(* A file, page by page: onecol, vertcol, horzcol.                         *)
RECURSIVE PrPages(_, _, _, _)
PrPages(text, page, ln, o) ==
  LET perPage == o.lines * (IF o.mode = "one" THEN 1 ELSE o.clcnt)
      cells == ReadCells(text, IF o.mode = "one" THEN 0 ELSE o.colwd, perPage)
      empty == cells[1].cnt < 0
      this == IF empty THEN <<>> ELSE Page(page + 1, PageOf(cells, ln, o), o)
  IN this \o IF Last(cells).rc = "END" THEN <<>>
             ELSE PrPages(Last(cells).rest, page + 1, ln + Len(cells), o)
PrFile(text, o) == PrPages(text, 0, 0, o)

-----------------------------------------------------------------------------
(* mulfile: several files side by side.  A row is done when as many of the *)
(* files as are left have a line on it.                                    *)
NoCell == [num |-> 0, data |-> <<>>]
RECURSIVE MergeRow(_, _, _, _, _)
RowFrom(fs, j, fproc, cells, o) ==    \* what file j put into the row is in
  IF j = Len(fs) \/ fproc >= Cardinality({k \in DOMAIN fs : fs[k].rc # "END"})
    THEN [fs |-> fs, cells |-> cells, fproc |-> fproc]
  ELSE MergeRow(fs, j + 1, fproc, cells, o)
CellRead(fs, j, r, fproc, cells, o) ==
  RowFrom([fs EXCEPT ![j] = [rest |-> r.rest, rc |-> r.rc]], j,
          IF r.cnt >= 0 THEN fproc + 1 ELSE fproc,
          Append(cells, IF r.cnt >= 0 THEN [NoCell EXCEPT !.data = r.data] ELSE NoCell), o)
MergeRow(fs, j, fproc, cells, o) ==   \* fs: [rest, rc] of each file; j: the column
  IF fs[j].rc = "NORMAL" THEN CellRead(fs, j, InLn(fs[j].rest, o.colwd), fproc, cells, o)
  ELSE RowFrom(fs, j, fproc, Append(cells, NoCell), o)
RECURSIVE MergePage(_, _, _, _)
RowRead(r, left, rows, o) ==
  IF r.fproc = 0 THEN [fs |-> r.fs, rows |-> rows]
  ELSE MergePage(r.fs, left - 1, Append(rows, r.cells), o)
MergePage(fs, left, rows, o) ==
  IF left = 0 THEN [fs |-> fs, rows |-> rows]
  ELSE RowRead(MergeRow(fs, 1, 0, <<>>, o), left, rows, o)
Resumed(fs) == [j \in DOMAIN fs |-> IF fs[j].rc = "END" THEN fs[j] ELSE [fs[j] EXCEPT !.rc = "NORMAL"]]
RECURSIVE MergePages(_, _, _)
PageMerged(p, page, o) ==
  (IF p.rows = <<>> THEN <<>> ELSE Page(page + 1, [rows |-> p.rows, used |-> Len(p.rows)], o))
  \o IF \A j \in DOMAIN p.fs : p.fs[j].rc = "END" THEN <<>> ELSE MergePages(Resumed(p.fs), page + 1, o)
MergePages(fs, page, o) == PageMerged(MergePage(fs, o.lines, <<>>, o), page, o)
PrMerge(texts, o) ==
  MergePages([j \in DOMAIN texts |-> [rest |-> texts[j], rc |-> "NORMAL"]], 0, o)

-----------------------------------------------------------------------------
(* otln with -i: a run of spaces becomes tabs where they fit.  Columns are *)
(* counted from 0; ops is the last column written, ips the last one seen.  *)
RECURSIVE TabsUpTo(_, _, _)
TabsUpTo(ops, ips, gap) ==
  LET stop == ops + gap - (ops % gap)
  IN IF ops >= ips THEN <<>>
     ELSE IF ips - ops = 1 THEN <<SP, SP>>
     ELSE IF stop > ips THEN Repeat(SP, ips - ops)
     ELSE <<TAB>> \o TabsUpTo(stop, ips, gap)
OtLn(line, gap) ==
  FoldLeft(LAMBDA st, c :
             CASE c = SP -> [st EXCEPT !.ips = @ + 1]
               [] c = TAB -> [st EXCEPT !.ips = @ + gap - (@ % gap)]
               [] OTHER -> [out |-> st.out \o TabsUpTo(st.ops, st.ips, gap) \o <<c>>,
                            ips |-> st.ips + 1, ops |-> st.ips + 1],
           [out |-> <<>>, ips |-> 0, ops |-> 0], line).out

(* What a terminal with tab stops every gap columns shows of a line.       *)
Seen(line, gap) ==
  LET all == FoldLeft(LAMBDA s, c : IF c = TAB THEN s \o Repeat(SP, gap - (Len(s) % gap))
                                    ELSE Append(s, c), <<>>, line)
  IN Upto(all, SelectLastInSeq(all, LAMBDA c : c # SP))
(* The line looks the same with and without -i.                            *)
PrContracts(line, gap, out) == Seen(out, gap) = Seen(line, gap)

-----------------------------------------------------------------------------
(* The lines of a text, each cut at the width of the column.  A form feed  *)
(* ends a line that is not too long.                                       *)
RECURSIVE PrLines(_, _)
PrLines(text, lim) == IF text = <<>> THEN <<>>
                      ELSE LET r == InLn(text, lim) IN <<r.data>> \o PrLines(r.rest, lim)
PagesOf(out) ==
  LET heads == Increasing({i \in DOMAIN out : out[i].kind = "head"})
  IN [k \in DOMAIN heads |->
        SubSeq(out, heads[k] - 2, IF k = Len(heads) THEN Len(out) ELSE heads[k + 1] - 3)]
DataOf(row) == [j \in DOMAIN row.cells |-> row.cells[j].data]
ColumnOf(page, j) ==
  LET rows == SelectSeq(page, LAMBDA x : x.kind = "row" /\ Len(x.cells) >= j)
  IN [k \in DOMAIN rows |-> rows[k].cells[j]]
CellsOf(page, o) ==
  IF o.mode = "down" THEN FlattenSeq([j \in 1 .. o.clcnt |-> ColumnOf(page, j)])
  ELSE FlattenSeq([i \in DOMAIN page |-> page[i].cells])

(* Every line of the file (down the page: every line that is not empty) is *)
(* in one cell, in order, and is numbered by its place; page n is headed n *)
(* and is as long as -l says (with -a a last page gets a line too many).   *)
PrPaginates(text, o, out) ==
  LET pages == PagesOf(out)
      solid(s, data(_)) == IF o.mode = "down" THEN SelectSeq(s, LAMBDA c : data(c) # <<>>) ELSE s
      cells == solid(FlattenSeq([k \in DOMAIN pages |-> CellsOf(pages[k], o)]), LAMBDA c : c.data)
      expected == solid(PrLines(text, IF o.mode = "one" THEN 0 ELSE o.colwd), LAMBDA d : d)
      before == Len(expected) - Len(cells)
  IN /\ before >= 0 /\ (o.pgnm = 1 => before = 0)
     /\ \A k \in DOMAIN cells : cells[k].data = expected[before + k]
     /\ o.number => \A k \in DOMAIN cells : cells[k].num = before + k
     /\ \A k \in DOMAIN pages : pages[k][3].page = o.pgnm + k - 1
     /\ ~o.formfeed /\ o.mode # "across" => \A k \in DOMAIN pages : Len(pages[k]) = o.l

(* Each file keeps to its column, a line of it on every row of a page      *)
(* until a form feed or its end.                                           *)
PrMergesRight(texts, o, out) ==
  \A j \in DOMAIN texts :
    LET rows == SelectSeq(out, LAMBDA x : x.kind = "row")
        column == [k \in DOMAIN rows |-> IF Len(rows[k].cells) >= j THEN rows[k].cells[j].data
                                         ELSE <<>>]
        lines == PrLines(texts[j], o.colwd)
    IN IF \E i \in DOMAIN texts : Contains(texts[i], FF)
         THEN SelectSeq(column, LAMBDA d : d # <<>>) = SelectSeq(lines, LAMBDA d : d # <<>>)
         ELSE IsPrefix(lines, column)
              /\ \A k \in Len(lines) + 1 .. Len(column) : column[k] = <<>>
===============================================================================
