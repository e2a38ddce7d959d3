----------------------------- MODULE TextShaping ------------------------------
(***************************************************************************)
(* Programs on the columns, the characters and the words of lines          *)
(* (core/coreutils/src/utils/{cut,expand,unexpand,fold,tr,fmt}).           *)
(***************************************************************************)
EXTENDS Text

CR == "\r"

-----------------------------------------------------------------------------
(* cut.  A list is a sequence of ranges: "N", "N-M", "-M" (auto) and "N-"  *)
(* (open), the forms get_list reads.                                       *)
Range1(n, m) == [start |-> n, stop |-> m, auto |-> FALSE, open |-> FALSE]
CutRanges(n) ==
  {Range1(i, j) : i, j \in 1 .. n} \cup {[Range1(i, i) EXCEPT !.auto = TRUE] : i \in 1 .. n}
  \cup {[Range1(i, i) EXCEPT !.open = TRUE] : i \in 1 .. n}
CutModes == {"bytes", "whole", "chars", "fields", "lines"}   \* -b, -b -n, -c, -f -s, -f

(* get_list: what is marked in positions, and where the loops may stop.    *)
(* Variant with a mistake: the end of the list is not the open range's. *)
GetListUnlimited(list) ==
  LET ranges == ToSet(list)
      opens == {r.stop : r \in {r \in ranges : r.open}}
      autos == {r.start : r \in {r \in ranges : r.auto}}
  IN [positions |-> UNION {r.start .. r.stop : r \in ranges}
                    \cup (IF autos = {} THEN {} ELSE 1 .. Max(autos)),
      autostop |-> IF opens = {} THEN 0 ELSE Min(opens),
      maxval |-> Max({r.stop : r \in ranges})]
GetList(list) ==
  LET ranges == ToSet(list)
      opens == {r.stop : r \in {r \in ranges : r.open}}
      autos == {r.start : r \in {r \in ranges : r.auto}}
      autostop == IF opens = {} THEN 0 ELSE Min(opens)
      maxval == Max({r.stop : r \in ranges})
  IN [positions |-> UNION {r.start .. r.stop : r \in ranges}
                    \cup (IF autos = {} THEN {} ELSE 1 .. Max(autos)),
      autostop |-> autostop,
      maxval |-> IF autostop > 0 /\ maxval > autostop THEN autostop ELSE maxval]

CutBytes(c) == IF c = Wide THEN <<"W1", "W2">> ELSE <<c>>
BytesOf(line) == FlattenSeq([i \in DOMAIN line |-> CutBytes(line[i])])

(* b_cut: the first maxval bytes one by one, then all or nothing.          *)
BCut(line, l) ==
  LET b == BytesOf(line)
      picked == {i \in DOMAIN b : IF i <= l.maxval THEN i \in l.positions ELSE l.autostop > 0}
  IN [k \in 1 .. Cardinality(picked) |-> b[Increasing(picked)[k]]]

(* c_cut: character by character, pos counting bytes with -n.              *)
RECURSIVE CCutFrom(_, _, _, _, _)
CCutFrom(line, l, pos, whole, out) ==
  LET next == pos + (IF whole THEN Len(CutBytes(Head(line))) ELSE 1)
  IN IF pos < l.maxval /\ line # <<>>
       THEN CCutFrom(Tail(line), l, next, whole,
                     IF next \in l.positions THEN Append(out, Head(line)) ELSE out)
       ELSE out \o IF l.autostop > 0 THEN line ELSE <<>>
CCut(line, l, whole) == CCutFrom(line, l, 0, whole, <<>>)

(* f_cut: field by field, with the delimiter before all but the first.     *)
RECURSIVE FCutFrom(_, _, _, _, _, _)
FCutFrom(fields, l, pos, d, output, out) ==
  LET pick == pos \in l.positions
      now == IF pick THEN out \o (IF output THEN <<d>> ELSE <<>>) \o Head(fields) ELSE out
      rest == FlattenSeq([i \in 1 .. Len(fields) - 1 |-> <<d>> \o fields[i + 1]])
  IN IF Len(fields) = 1 \/ pos = l.maxval
       THEN now \o IF l.autostop > 0 THEN rest ELSE <<>>
       ELSE FCutFrom(Tail(fields), l, pos + 1, d, output \/ pick, now)
FCut(line, l, d) == FCutFrom(Pieces(line, {d}), l, 1, d, FALSE, <<>>)

(* The line put out, if any: a sequence of none or one. *)
CutLine(line, list, mode, d) ==
  LET l == GetList(list)
  IN CASE mode = "bytes" -> <<BCut(line, l)>>
       [] mode = "whole" -> <<CCut(line, l, TRUE)>>
       [] mode = "chars" -> <<CCut(line, l, FALSE)>>
       [] OTHER -> IF ~Contains(line, d)
                     THEN IF mode = "fields" THEN <<>> ELSE <<line>>
                     ELSE <<FCut(line, l, d)>>

(* A place is selected if a range of the list covers it, and the places    *)
(* selected are put out in their order, fields with delimiters between; a  *)
(* character of several bytes goes with its last byte under -n.            *)
CutSelects(line, list, mode, d, out) ==
  LET covers(r, i) == IF r.open THEN i >= r.start
                      ELSE IF r.auto THEN i <= r.start ELSE i \in r.start .. r.stop
      selected(i) == \E k \in DOMAIN list : covers(list[k], i)
      pick(s, Place(_)) == LET S == Increasing({i \in DOMAIN s : selected(Place(i))})
                           IN [k \in DOMAIN S |-> s[S[k]]]
      same(i) == i
      lastByte(i) == Len(BytesOf(Upto(line, i)))
      joined(fs) == FlattenSeq([k \in DOMAIN fs |-> (IF k > 1 THEN <<d>> ELSE <<>>) \o fs[k]])
  IN out = CASE mode = "bytes" -> <<pick(BytesOf(line), same)>>
             [] mode = "whole" -> <<pick(line, lastByte)>>
             [] mode = "chars" -> <<pick(line, same)>>
             [] OTHER -> IF Contains(line, d) THEN <<joined(pick(Pieces(line, {d}), same))>>
                         ELSE IF mode = "lines" THEN <<line>> ELSE <<>>

-----------------------------------------------------------------------------
(* expand.  tabstops is an increasing sequence (getstops), <<>> for every  *)
(* eighth column.                                                          *)
Tabstops(n) == {<<>>} \cup {Increasing(S) : S \in (SUBSET (1 .. n)) \ {{}}}

(* The number of spaces a tab at a column is replaced by. *)
TabWidth(column, tabstops) ==
  LET beyond == {i \in DOMAIN tabstops : tabstops[i] > column}
  IN IF tabstops = <<>> THEN 8 - (column % 8)
     ELSE IF Len(tabstops) = 1 THEN tabstops[1] - (column % tabstops[1])
     ELSE IF beyond = {} THEN 1
     ELSE tabstops[Min(beyond)] - column

Expanded(text, tabstops) ==
  FoldLeft(LAMBDA st, c :
             LET w == IF c = TAB THEN TabWidth(st.column, tabstops) ELSE 1
             IN [column |-> IF c = NL THEN 0 ELSE IF c = BS THEN Larger(st.column - 1, 0)
                            ELSE st.column + w,
                 out |-> st.out \o IF c = TAB THEN Repeat(SP, w) ELSE <<c>>],
           [column |-> 0, out |-> <<>>], text).out

(* The column at the end of a text, tabs at their stops. *)
ColumnAt(text, tabstops) ==
  FoldLeft(LAMBDA col, c : CASE c = NL -> 0
                             [] c = BS -> Larger(col - 1, 0)
                             [] c = TAB -> col + TabWidth(col, tabstops)
                             [] OTHER -> col + 1, 0, text)

(* No tab is left, and every other character stays in its column.          *)
ExpandAligns(text, tabstops, out) ==
  LET solid(s) == Increasing({i \in DOMAIN s : s[i] \notin {SP, TAB}})
  IN /\ ~Contains(out, TAB)
     /\ Len(solid(out)) = Len(solid(text))
     /\ \A k \in DOMAIN solid(text) :
          LET i == solid(text)[k]  j == solid(out)[k]
          IN /\ out[j] = text[i]
             /\ ColumnAt(Upto(out, j), tabstops) = ColumnAt(Upto(text, i), tabstops)

-----------------------------------------------------------------------------
(* unexpand: tabify of a line, with or without -a.                         *)

(* The tabs and spaces that bring the output from ocol to dcol.            *)
RECURSIVE Gap(_, _)
Gap(ocol, dcol) ==
  LET stop == ((ocol + 8) \div 8) * 8
  IN IF stop <= dcol /\ ocol + 1 # dcol THEN <<TAB>> \o Gap(stop, dcol)
     ELSE Repeat(SP, dcol - ocol)

RECURSIVE Tabify(_, _, _, _)
Tabify(line, all, ocol, dcol) ==
  IF line = <<>> THEN Gap(ocol, dcol)
  ELSE LET c == Head(line)
       IN CASE c = SP -> Tabify(Tail(line), all, ocol, dcol + 1)
            [] c = TAB -> Tabify(Tail(line), all, ocol, ((dcol + 8) \div 8) * 8)
            [] OTHER -> Gap(ocol, dcol) \o
                        IF all THEN <<c>> \o Tabify(Tail(line), all, dcol + 1, dcol + 1)
                        ELSE line

(* The line looks the same, what comes before the first other character    *)
(* (with -a: every gap) has no spaces a tab could stand for, and no line   *)
(* gets longer.                                                            *)
UnexpandKeepsLook(line, all, out) ==
  LET first == SelectInSeq(out, LAMBDA c : c \notin Blank)
      scope == IF all \/ first = 0 THEN DOMAIN out ELSE 1 .. first - 1
  IN /\ Expanded(out, <<>>) = Expanded(line, <<>>)
     /\ Len(out) <= Len(Expanded(line, <<>>))
     /\ \A i \in scope : out[i] = SP =>
          \/ ColumnAt(Upto(out, i), <<>>) % 8 # 0
          \/ i = 1 \/ out[i - 1] # SP

-----------------------------------------------------------------------------
(* fold.  Break is a newline that fold puts in.  A character is measured   *)
(* when it is complete; the code knows that one byte later.                *)
Break == "break"
FoldOptions == [bytes : BOOLEAN, words : BOOLEAN, width : {1, 3, 8}]

FoldWidth(c, col, o) ==
  CASE c = TAB -> IF o.bytes THEN 1 ELSE 8 - (col % 8)
    [] c = Wide -> 2
    [] OTHER -> 1

(* What is written of the buffer when a character does not fit. *)
BreakAt(buf, o) ==
  LET last == SelectLastInSeq(buf, LAMBDA c : c = SP)
  IN IF o.words /\ last > 0 THEN last ELSE Len(buf)

RECURSIVE FoldChars(_, _, _)
FoldChars(text, st, o) ==
  LET c == Head(text)
      col == st.col + FoldWidth(c, st.col, o)
      at == BreakAt(st.buf, o)
  IN IF text = <<>> THEN st.out \o st.buf
     ELSE IF c = NL \/ (c = CR /\ ~o.bytes)
       THEN FoldChars(Tail(text), [buf |-> <<>>, col |-> 0, out |-> Append(st.out \o st.buf, c)], o)
     ELSE IF c = BS /\ ~o.bytes
       THEN FoldChars(Tail(text), [st EXCEPT !.buf = Append(@, c), !.col = Larger(@ - 1, 0)], o)
     ELSE IF col <= o.width \/ st.buf = <<>>
       THEN FoldChars(Tail(text), [st EXCEPT !.buf = Append(@, c), !.col = col], o)
     ELSE FoldChars(From(st.buf, at + 1) \o text,
                    [buf |-> <<>>, col |-> 0,
                     out |-> Append(st.out \o Upto(st.buf, at), Break)], o)
FoldRun(text, o) == FoldChars(text, [buf |-> <<>>, col |-> 0, out |-> <<>>], o)

(* The width a piece takes from the margin on.                             *)
PieceWidth(s, o) ==
  FoldLeft(LAMBDA col, c : IF c = BS /\ ~o.bytes THEN Larger(col - 1, 0)
                           ELSE col + FoldWidth(c, col, o), 0, s)
(* Without its breaks the output is the input.  What stands between two    *)
(* line ends fits the width, however it is cut off, unless it is a single  *)
(* character; and a break was needed: with what follows up to the next     *)
(* line end the piece would not have fitted, and -s broke after the last   *)
(* space that was there.                                                   *)
FoldFits(text, o, out) ==
  LET margin == {NL, Break} \cup (IF o.bytes THEN {} ELSE {CR})
      starts == {0} \cup {i \in DOMAIN out : out[i] \in margin}
      endOf(i) == Min({j \in i + 1 .. Len(out) : out[j] \in margin} \cup {Len(out) + 1})
      plain(i) == SelectSeq(From(out, i + 1), LAMBDA c : c # Break)
      lineFrom(i) == LET n == FirstOf(plain(i), margin)
                     IN IF n = 0 THEN plain(i) ELSE Upto(plain(i), n - 1)
      moves(c) == c # BS \/ o.bytes
      over(s) == {n \in 2 .. Len(s) : moves(s[n]) /\ PieceWidth(Upto(s, n), o) > o.width}
  IN /\ SelectSeq(out, LAMBDA c : c # Break) = text
     /\ \A i \in starts : over(SubSeq(out, i + 1, endOf(i) - 1)) = {}
     /\ \A i \in starts : endOf(i) <= Len(out) /\ out[endOf(i)] = Break =>
          /\ over(lineFrom(i)) # {}
          /\ LET kept == Upto(lineFrom(i), Min(over(lineFrom(i))) - 1)
             IN SubSeq(out, i + 1, endOf(i) - 1) = Upto(kept, BreakAt(kept, o))

-----------------------------------------------------------------------------
(* tr.  A character is a number below NCHARS, DASH the minus sign.  An     *)
(* operand of tr is a sequence of tokens: plain characters, "[:class:]" or *)
(* "[=c=]" as the characters they stand for, and "[c*n]".                  *)
NCHARS == 4
DASH == 0
NoCh == NCHARS                                                      \* OOBCH
Chr(c) == [kind |-> "chr", ch |-> c, cnt |-> 0, set |-> <<>>]
Class(S) == [kind |-> "class", ch |-> NoCh, cnt |-> 0, set |-> Increasing(S)]
Sequence(c, n) == [kind |-> "seq", ch |-> c, cnt |-> n, set |-> <<>>]
Operand(str) == [str |-> str, state |-> "NORMAL", lastch |-> NoCh, cnt |-> 0, set |-> <<>>]

(* genrange: a range begins after any plain character, unless it is empty. *)
RangeAt(s) ==
  IF Len(s.str) >= 2 /\ s.str[1] = Chr(DASH) /\ s.str[2].kind = "chr" /\ s.str[2].ch >= s.lastch
    THEN [s EXCEPT !.str = From(s.str, 3), !.cnt = s.str[2].ch - s.lastch + 1,
                   !.state = "RANGE", !.lastch = @ - 1]
    ELSE s

(* bracket: genclass, genequiv and genseq. *)
Bracket(s) ==
  LET t == Head(s.str)
      rest == [s EXCEPT !.str = Tail(@)]
  IN IF t.kind = "class" THEN [rest EXCEPT !.state = "SET", !.set = t.set]
     ELSE [rest EXCEPT !.lastch = t.ch, !.cnt = t.cnt,
                       !.state = IF t.cnt > 0 THEN "SEQUENCE" ELSE "INFINITE"]

(* next: the operand after its next character, "EOS" when there is none.   *)
RECURSIVE NextCh(_)
NextCh(s) ==
  CASE s.state \in {"EOS", "INFINITE"} -> s
    [] s.state = "NORMAL" ->
         IF s.str = <<>> THEN [s EXCEPT !.state = "EOS"]
         ELSE IF Head(s.str).kind # "chr" THEN NextCh(Bracket(s))
         ELSE LET r == RangeAt([s EXCEPT !.lastch = Head(s.str).ch, !.str = Tail(@)])
              IN IF r.state = "RANGE" THEN NextCh(r) ELSE r
    [] s.state = "RANGE" ->
         IF s.cnt = 0 THEN NextCh([s EXCEPT !.state = "NORMAL"])
         ELSE [s EXCEPT !.cnt = @ - 1, !.lastch = @ + 1]
    [] s.state = "SEQUENCE" ->
         IF s.cnt = 0 THEN NextCh([s EXCEPT !.state = "NORMAL"])
         ELSE [s EXCEPT !.cnt = @ - 1]
    [] s.state = "SET" ->
         IF s.set = <<>> THEN NextCh([s EXCEPT !.state = "NORMAL", !.lastch = NoCh])
         ELSE [s EXCEPT !.lastch = Head(s.set), !.set = Tail(@)]

(* setup: the characters of an operand, or all the others. *)
RECURSIVE Members(_)
Members(s) == LET n == NextCh(s)
              IN IF n.state = "EOS" THEN {} ELSE {n.lastch} \cup Members(n)
SetUp(str, cflag) == LET S == Members(Operand(str))
                     IN IF cflag THEN (0 .. NCHARS - 1) \ S ELSE S

(* The loop that reads both operands: the translation and what to squeeze. *)
RECURSIVE Pair(_, _, _, _)
Pair(s1, s2, map, marked) ==
  LET n == NextCh(s1)
  IN IF n.state = "EOS" THEN [map |-> map, marked |-> marked, ch |-> s2.lastch]
     ELSE LET done == Pair(n, NextCh(s2), [map EXCEPT ![n.lastch] = s2.lastch],
                           marked \cup {s2.lastch})
          IN IF NextCh(n).state = "EOS" THEN [done EXCEPT !.ch = s2.lastch] ELSE done
Translation(str1, str2, cflag) ==
  LET nothing == [c \in 0 .. NCHARS - 1 |-> IF cflag THEN NoCh ELSE c]
      p == Pair(Operand(str1), NextCh(Operand(str2)), nothing, {})
  IN [p EXCEPT !.map = [c \in DOMAIN @ |-> IF ~cflag THEN @[c]
                                           ELSE IF @[c] = NoCh THEN p.ch ELSE c]]

(* A repeated character goes if it is one to be squeezed. *)
Squeezed(text, S) ==
  FoldLeft(LAMBDA out, c : IF out # <<>> /\ Last(out) = c /\ c \in S THEN out
                           ELSE Append(out, c), <<>>, text)

TrOptions == [c : BOOLEAN, d : BOOLEAN, s : BOOLEAN, two : BOOLEAN]
TrUsage(o) == IF o.d THEN o.s # o.two ELSE ~o.s /\ ~o.two
TrRun(text, str1, str2, o) ==
  LET set1 == SetUp(str1, o.c)
      t == Translation(str1, str2, o.c)
      mapped == [i \in DOMAIN text |-> t.map[text[i]]]
  IN CASE o.d /\ o.s -> Squeezed(SelectSeq(text, LAMBDA c : c \notin set1), SetUp(str2, FALSE))
       [] o.d /\ ~o.s -> SelectSeq(text, LAMBDA c : c \notin set1)
       [] ~o.d /\ o.s /\ ~o.two -> Squeezed(text, set1)
       [] OTHER -> IF o.s THEN Squeezed(mapped, t.marked) ELSE mapped

(* What an operand stands for, token by token: a range x-y that is not     *)
(* empty, a class, a repetition, a character.  "[c*]" fills up to n.       *)
RECURSIVE Meaning(_, _)
Meaning(str, n) ==
  IF str = <<>> THEN <<>>
  ELSE IF Len(str) >= 3 /\ str[1].kind = "chr" /\ str[2] = Chr(DASH)
          /\ str[3].kind = "chr" /\ str[1].ch <= str[3].ch
    THEN [i \in 1 .. str[3].ch - str[1].ch + 1 |-> str[1].ch + i - 1] \o Meaning(From(str, 4), n)
  ELSE (CASE str[1].kind = "chr" -> <<str[1].ch>>
          [] str[1].kind = "class" -> str[1].set
          [] str[1].kind = "seq" /\ str[1].cnt > 0 -> Repeat(str[1].ch, str[1].cnt)
          [] OTHER -> Repeat(str[1].ch, n)) \o Meaning(Tail(str), n)

(* The characters of string1 (-c: the others) are deleted, or replaced by  *)
(* the one at the same place of string2, whose last character goes for all *)
(* places beyond; with -s no character that something was replaced by (or  *)
(* of the last operand) stands next to itself, and only copies are lost.   *)
TrTranslates(text, str1, str2, o, out) ==
  LET m1 == Meaning(str1, 0)
      m2 == Meaning(str2, Larger(Len(m1), 1))
      inOne(c) == (c \in ToSet(m1)) # o.c
      image(c) == IF ~inOne(c) THEN c
                  ELSE IF o.c THEN Last(m2)
                  ELSE m2[Smaller(SelectLastInSeq(m1, LAMBDA x : x = c), Len(m2))]
      kept == IF o.d THEN SelectSeq(text, LAMBDA c : ~inOne(c))
              ELSE IF o.two THEN [i \in DOMAIN text |-> image(text[i])] ELSE text
      squeeze(c) == o.s /\ IF o.two /\ ~o.d
                             THEN \E i \in DOMAIN m1 : m2[Smaller(i, Len(m2))] = c
                             ELSE IF o.d THEN c \in ToSet(m2) ELSE inOne(c)
      dropped == {i \in 2 .. Len(kept) : kept[i] = kept[i - 1] /\ squeeze(kept[i])}
      rest == Increasing(DOMAIN kept \ dropped)
  IN out = [k \in DOMAIN rest |-> kept[rest[k]]]

-----------------------------------------------------------------------------
(* fmt.  get_line leaves out control characters, takes a character back    *)
(* for a backspace and drops the space at the end; a troff request is kept *)
(* as it is.                                                               *)
CTRL == "\\a"
FmtLine(raw, troff) ==
  LET request == raw # <<>> /\ raw[1] = "." /\ ~troff
      read == FoldLeft(LAMBDA buf, c : IF request \/ c \notin {BS, CTRL} THEN Append(buf, c)
                                       ELSE IF c = BS /\ buf # <<>> THEN Front(buf) ELSE buf,
                       <<>>, raw)
  IN Upto(read, SelectLastInSeq(read, LAMBDA c : c \notin Blank))
IndentLength(line, tab) ==
  LET n == FirstOf(line, {"a", "."})
  IN FoldLeft(LAMBDA k, c : IF c = TAB THEN (k \div tab + 1) * tab ELSE k + 1, 0,
              Upto(line, IF n = 0 THEN Len(line) ELSE n - 1))

(* A line as process_stream takes it: blank, a troff request, one that     *)
(* might_be_header, or text; its indent and its words, each with its       *)
(* width, the space after it (0 at the end) and whether it ends a sentence.*)
FmtLine0(kind, np, words) == [kind |-> kind, np |-> np, words |-> words]
Word(w, spaces, ender) == [w |-> w, spaces |-> spaces, ender |-> ender]
FmtOptions == [goal : {6}, max : {6, 8}, p : BOOLEAN, s : BOOLEAN, m : BOOLEAN]

(* new_paragraph. What is written is a sequence of lines of words, each    *)
(* word the place it has in the input and the spaces before it.            *)
NewParagraph(st, np) ==
  [st EXCEPT !.out = IF st.x0 > 0 THEN Append(@, st.cur) ELSE @, !.cur = <<>>,
             !.x = np, !.x0 = 0, !.pending = 0, !.inpara = FALSE]

(* output_word.                                                            *)
OutputWord(st, id, word, o) ==
  LET newx == st.x + st.pending + word.w
      breaks == \/ newx > o.max
                \/ st.x >= o.goal
                \/ newx > o.goal /\ newx - o.goal > o.goal - st.x
      put(s, at, gap) == [s EXCEPT !.cur = Append(@, [id |-> id, gap |-> gap]),
                                   !.x = at + word.w, !.x0 = 1, !.inpara = TRUE,
                                   !.pending = IF o.s \/ word.spaces = 0
                                                 THEN IF word.ender THEN 2 ELSE 1
                                                 ELSE word.spaces]
  IN IF st.x0 = 0 THEN put(st, st.x, IF st.inpara THEN st.indent1 ELSE st.indent0)
     ELSE IF breaks THEN put([st EXCEPT !.out = Append(@, st.cur), !.cur = <<>>],
                             st.indent1, st.indent1)
     ELSE put(st, st.x + st.pending, st.pending)

(* The type of a line among mail headers: -1 at the start of a paragraph.  *)
HeaderType(line, prev, o) ==
  IF o.m /\ prev # 0
    THEN IF line.np = 0 /\ line.kind = "header" THEN 1
         ELSE IF line.np > 0 /\ prev > 0 THEN 2 ELSE 0
    ELSE 0

(* One turn of the loop of process_stream. *)
FmtTurn(st, n, line, o) ==
  LET type == HeaderType(line, st.prev, o)
      new == \/ line.kind \in {"blank", "troff"}
             \/ type = 1
             \/ type = 0 /\ st.prev > 0
             \/ line.np # st.indent1 /\ type # 2 /\ (~o.p \/ st.lines # 1)
      begun == [NewParagraph(st, line.np) EXCEPT !.lines = 0, !.indent0 = line.np,
                                                 !.indent1 = line.np]
      whole == [begun EXCEPT !.out = Append(@, <<[id |-> <<n, 0>>, gap |-> 0]>>)]
      at == IF new THEN [begun EXCEPT !.prev = type] ELSE st
  IN IF new /\ line.kind = "troff" THEN whole
     ELSE IF new /\ line.kind = "blank" THEN [whole EXCEPT !.prev = -1]
     ELSE [FoldLeft(LAMBDA s, k : OutputWord(s, <<n, k>>, line.words[k], o), at,
                    [k \in DOMAIN line.words |-> k]) EXCEPT !.lines = @ + 1]

FmtRun(lines, o) ==
  LET start == [out |-> <<>>, cur |-> <<>>, x |-> 0, x0 |-> 0, pending |-> 0,
                inpara |-> FALSE, indent0 |-> -1, indent1 |-> -1, lines |-> 0, prev |-> -1]
      end == FoldLeft(LAMBDA st, n : FmtTurn(st, n, lines[n], o), start,
                      [n \in DOMAIN lines |-> n])
  IN NewParagraph(end, 0).out

(* center_stream: the spaces before a line of a width. *)
CenterPad(width, goal) == IF width < goal THEN (goal - width + 1) \div 2 ELSE 0

(* Every word is written once and in order, a blank line or a request on a *)
(* line of its own.  No line mixes text from both sides of one of those.   *)
(* A line of more than one word is not wider than the maximum.  Within     *)
(* lines of one indent that follow each other, a line is broken where its  *)
(* width comes closest to the goal.                                        *)
FmtFills(lines, o, out) ==
  LET solid(n) == lines[n].kind \in {"blank", "troff"}
      ids == FlattenSeq([n \in DOMAIN lines |->
               IF solid(n) THEN <<<<n, 0>>>> ELSE [k \in DOMAIN lines[n].words |-> <<n, k>>]])
      word(id) == lines[id[1]].words[id[2]]
      written == FlattenSeq([k \in DOMAIN out |-> [i \in DOMAIN out[k] |-> out[k][i].id]])
      width(ws) == Sum0([i \in DOMAIN ws |-> ws[i].gap + word(ws[i].id).w])
      off(w) == IF w > o.goal THEN w - o.goal ELSE o.goal - w
      text(ws) == \A i \in DOMAIN ws : ws[i].id[2] > 0
      plain(n) == lines[n].kind = "text" /\ (n > 1 => lines[n - 1].kind # "header" \/ ~o.m)
      together(a, b) ==
        /\ \A n \in a .. b : plain(n) /\ lines[n].np = lines[a].np
        /\ o.p => \A n \in 1 .. b : solid(n) \/ lines[n].np = lines[a].np
      gapAfter(id) == LET w == word(id) IN IF o.s \/ w.spaces = 0 THEN IF w.ender THEN 2 ELSE 1
                                           ELSE w.spaces
  IN /\ written = ids
     /\ \A k \in DOMAIN out : text(out[k]) \/ Len(out[k]) = 1
     /\ \A k \in DOMAIN out : \A n \in out[k][1].id[1] .. Last(out[k]).id[1] :
          solid(n) => Len(out[k]) = 1
     /\ \A k \in DOMAIN out : Len(out[k]) > 1 => width(out[k]) <= o.max
     /\ \A k \in 1 .. Len(out) - 1 :
          LET a == Last(out[k]).id  b == out[k + 1][1].id
              longer == width(out[k]) + gapAfter(a) + word(b).w
          IN text(out[k]) /\ text(out[k + 1]) /\ together(out[k][1].id[1], b[1])
               => longer > o.max \/ off(longer) > off(width(out[k])) \/ width(out[k]) >= o.goal

(* fmt leaves no control character in a line of text, and a line it        *)
(* centers stands in the middle.                                           *)
FmtReadsClean(raw, troff, goal) ==
  LET line == FmtLine(raw, troff)
      pad == CenterPad(Len(line), goal)
  IN /\ line # <<>> => Last(line) \notin Blank
     /\ (raw = <<>> \/ raw[1] # "." \/ troff) => ~Contains(line, BS) /\ ~Contains(line, CTRL)
     /\ Len(line) <= goal => (goal - Len(line)) - 2 * pad \in {0, -1}
===============================================================================
