----------------------------- MODULE MCTextPrograms -----------------------------
(***************************************************************************)
(* The text programs on all small inputs: an action calls one program, and *)
(* the properties compare what it put out with what it promises.  Bounds   *)
(* are chosen so that every state of a program's loop is met: a text is    *)
(* longer than a line, a buffer, a page or a run of equal lines.           *)
(***************************************************************************)
EXTENDS ProgramCalls, LineFilters, StreamFilters, TextShaping

Rising(s) == \A i \in 1 .. Len(s) - 1 : s[i] <= s[i + 1]
EndsLine(s) == IF s = <<>> THEN TRUE ELSE Last(s) = NL

-----------------------------------------------------------------------------
Uniq == Idle("lines") /\ \E lines \in Texts(Texts({"a", SP}, 2), 3), o \in UniqOptions :
          Runs([prog |-> "uniq", lines |-> lines, o |-> o], UniqRun(lines, o))
Comm == Idle("lines") /\ \E f1, f2 \in {s \in Texts(1 .. 3, 3) : Rising(s)}, o \in CommOptions :
          Runs([prog |-> "comm", f1 |-> f1, f2 |-> f2, o |-> o], CommRun(f1, f2, o))
JoinFiles(j) == {s \in Texts(Texts(1 .. 2, 2), 2) : Rising([i \in DOMAIN s |-> Field(s[i], j)])}
Join == Idle("lines") /\ \E o \in JoinOptions : \E f1 \in JoinFiles(o.j1), f2 \in JoinFiles(o.j2) :
          Runs([prog |-> "join", f1 |-> f1, f2 |-> f2, o |-> o], JoinRun(f1, f2, o))
Paste == Idle("lines") /\ \E names \in Texts({"-", "f"}, 3) \ {<<>>}, d \in PasteDelims, m, n \in 0 .. 4 :
           LET files == [f \in {"-", "f"} |-> Repeat(<<"a">>, IF f = "-" THEN m ELSE n)]
           IN Runs([prog |-> "paste", files |-> files, names |-> names, d |-> d],
                   PasteParallel(files, names, d))

-----------------------------------------------------------------------------
(* -b -n with an open range is left out: it selects by another rule.       *)
Cut == Idle("lines") /\ \E line \in Texts({"a", ":", Wide}, 3), m \in CutModes :
         \E list \in {<<r>> : r \in CutRanges(3)} \cup (CutRanges(2) \X CutRanges(3)) :
           /\ m = "whole" => \A k \in DOMAIN list : ~list[k].open
           /\ Runs([prog |-> "cut", line |-> line, list |-> list, mode |-> m],
                   CutLine(line, list, m, ":"))
Expand == Idle("lines") /\ \E text \in Texts({"a", SP, TAB, NL, BS}, 4), stops \in Tabstops(3) :
            Runs([prog |-> "expand", text |-> text, stops |-> stops], Expanded(text, stops))
Unexpand == Idle("lines") /\ \E rest \in Texts({"a", SP, TAB}, 4), k \in 0 .. 10, all \in BOOLEAN :
              LET line == Repeat(SP, k) \o Append(rest, NL)
              IN Runs([prog |-> "unexpand", line |-> line, all |-> all], Tabify(line, all, 0, 0))
Fold == Idle("lines") /\ \E text \in Texts({"a", SP, TAB, NL, BS, Wide}, 4), o \in FoldOptions :
          Runs([prog |-> "fold", text |-> text, o |-> o], FoldRun(text, o))

-----------------------------------------------------------------------------
(* A byte 0x8a counts as the end of a line for -v (HighNL): it is left out *)
(* where lines are numbered or squeezed.                                   *)
Cat == Idle("streams") /\ \E text \in Texts({"a", NL, TAB, Ctl, HighNL}, 4), o \in CatOptions :
         /\ Contains(text, HighNL) => ~(o.v /\ (o.n \/ o.s))
         /\ Runs([prog |-> "cat", text |-> text, o |-> o], CatRun(text, o))
HeadFile(n) == [name : {n}, there : BOOLEAN, text : Texts({"a", NL}, 3)]
Head1 == Idle("streams") /\ \E f \in HeadFile(1), g \in HeadFile(2), n \in 1 .. 2, one \in BOOLEAN :
          LET files == IF one THEN <<f>> ELSE <<f, g>>
          IN Runs([prog |-> "head", files |-> files, n |-> n], HeadRun(files, n))
Wc == Idle("streams") /\ \E a, b \in Texts({"a", SP, NL, Wide}, 3), o \in WcOptions :
        /\ Len(b) <= 2
        /\ Runs([prog |-> "wc", texts |-> <<a, b>>, o |-> o], WcRun(<<a, b>>, o))
NlLines == {Append(Repeat(NlDelim, i), NL) : i \in 0 .. 3} \cup {<<"x", NL>>}
NlTypes == {[footer |-> f, body |-> b, header |-> f] : f, b \in Numberings}
Nl == Idle("streams") /\ \E lines \in Texts(NlLines, 4), type \in NlTypes, nblank \in 0 .. 2, restart \in BOOLEAN :
        LET o == [type |-> type, nblank |-> nblank, restart |-> restart, start |-> 1, incr |-> 3, expr |-> "x"]
        IN /\ nblank # 1 => "all" \in {type.body, type.header}
           /\ Runs([prog |-> "nl", lines |-> lines, o |-> o], NlRun(lines, o))

-----------------------------------------------------------------------------
TailForward == Idle("streams") /\ \E text \in Texts({"a", "b", NL}, 5), regular, plus \in BOOLEAN, n \in 0 .. 6,
                  units \in {"lines", "bytes"} :
    LET style == Style(units, plus, FALSE)  off == Offset(units, plus, n, FALSE)
    IN Runs([prog |-> "tail", text |-> text, style |-> style, off |-> off, r |-> FALSE],
            Forward(text, regular, style, off))
(* With -r a regular file that ends in a newline, and an offset of more    *)
(* than one byte and no more than there are (README).                      *)
TailReverse == Idle("streams") /\ \E text \in Texts({"a", "b", NL}, 5), regular, plus \in BOOLEAN, n \in 0 .. 6,
                  units \in {"lines", "bytes", "none"} :
    LET style == Style(units, plus, TRUE)  off == Offset(units, plus, n, TRUE)
    IN /\ regular => EndsLine(text)
       /\ units = "bytes" => IF regular THEN off # 1 ELSE off <= Len(text)
       /\ Runs([prog |-> "tail", text |-> text, style |-> style, off |-> off, r |-> TRUE],
               Backward(text, regular, style, off, 2, 6))

-----------------------------------------------------------------------------
SplitByBytes == Idle("streams") /\ \E reads \in Texts({<<"a">>, <<"b", "b">>, Repeat("c", 5)}, 4), n \in 1 .. 4, names \in {2, 20} :
    Runs([prog |-> "split -b", text |-> FlattenSeq(reads), n |-> n], SplitBytes(reads, n, names))
(* A buffer of 3 takes no longer lines: a longer one counts when it ends.  *)
SplitByLines == Idle("streams") /\ \E text \in Texts({"a", NL}, 6), n \in 1 .. 3, names \in {2, 20}, size \in {3, 9} :
    /\ \A i \in DOMAIN Lines(text) : Len(Lines(text)[i]) <= size
    /\ Runs([prog |-> "split", text |-> text, n |-> n],
            SplitLines(text, [pattern |-> FALSE, lines |-> n, expr |-> "a"], size, names))
CsplitPatterns ==
  [kind : {"save", "skip"}, match : {{"x"}, {"y"}}, ofs : -1 .. 2, line : {0}, reps : {0}]
  \cup [kind : {"save"}, match : {{"x"}}, ofs : {0}, line : {0}, reps : {1}]
  \cup [kind : {"line"}, match : {{}}, ofs : {0}, line : 1 .. 3, reps : 0 .. 1]
Csplit == Idle("streams") /\ \E lines \in Texts({"x", "y", "z"}, 4), p, q \in CsplitPatterns, keep \in BOOLEAN, names \in {3, 10} :
    Runs([prog |-> "csplit", lines |-> lines, patterns |-> <<p, q>>, keep |-> keep],
         CsplitRun(lines, FALSE, <<p, q>>, keep, names))

(* The filters keep their promises on every stream: uniq, comm, join and   *)
(* paste put out their lines, columns, pairs and rows once each and in     *)
(* order; cut selects what its list covers; expand, unexpand and fold keep *)
(* every character where a reader sees it, or within the width; cat, head, *)
(* wc and nl show, count and number lines across files and sections; tail  *)
(* shows the part asked for, whether it can seek or only read through a    *)
(* buffer that wraps around, and with -r its lines in reverse.  The files  *)
(* of split and csplit make up the input, each ends where it was asked to, *)
(* and running out of names or of input loses nothing else.                *)
FiltersRight ==
  CASE call.prog = "uniq" -> UniqShowsRuns(call.lines, call.o, result)
    [] call.prog = "comm" -> CommShowsColumns(call.f1, call.f2, call.o, result)
    [] call.prog = "join" -> JoinIsRelational(call.f1, call.f2, call.o, result)
    [] call.prog = "paste" -> PasteRowsAlign(call.files, call.names, call.d, result)
    [] call.prog = "cut" -> CutSelects(call.line, call.list, call.mode, ":", result)
    [] call.prog = "expand" -> ExpandAligns(call.text, call.stops, result)
    [] call.prog = "unexpand" -> UnexpandKeepsLook(call.line, call.all, result)
    [] call.prog = "fold" -> FoldFits(call.text, call.o, result)
    [] call.prog = "cat" -> CatShowsLines(call.text, call.o, result)
    [] call.prog = "head" -> HeadShowsFirst(call.files, call.n, result)
    [] call.prog = "wc" -> WcCountsRight(call.texts, call.o, result)
    [] call.prog = "nl" -> NlNumbersSections(call.lines, call.o, result)
    [] call.prog = "tail" -> TailShowsPart(call.text, call.style, call.off, call.r, result)
    [] call.prog = "split -b" -> SplitBytesRight(call.text, call.n, result)
    [] call.prog = "split" -> SplitLinesRight(call.text, call.n, result)
    [] call.prog = "csplit" -> CsplitKeepsInput(call.lines, call.patterns, result)
                               /\ CsplitEndsWhereAsked(call.lines, call.patterns, call.keep, result)
    [] OTHER -> TRUE

-----------------------------------------------------------------------------
TrTokens == {Chr(c) : c \in 0 .. 3} \cup {Class({1, 3})}
TrOperands(T, n) ==
  {s \in Texts(T, n) \ {<<>>} :
     \A i \in 1 .. Len(s) - 1 : s[i] = Chr(DASH) => s[i + 1].kind = "chr"}
(* string2 neither is shorter and ends in a class, nor has more than one   *)
(* character with -c (README).                                             *)
TrSecond(o) ==
  IF ~o.two THEN {<<Chr(1)>>}
  ELSE IF o.c /\ ~o.d THEN {<<Chr(c)>> : c \in 1 .. 3}
  ELSE TrOperands(IF o.d THEN TrTokens ELSE TrTokens \cup {Sequence(1, 0), Sequence(3, 2)}, 2)
Tr == Idle("pages") /\ \E o \in {o \in TrOptions : ~TrUsage(o)}, s1 \in TrOperands(TrTokens, 3) :
        \E s2 \in TrSecond(o), text \in {<<0, 0, 1, 1, 2, 2, 3, 3, 1>>} :
          /\ o.two /\ ~o.d /\ Last(s2).kind = "class" => Len(Meaning(s1, 0)) <= Len(Meaning(s2, 9))
          /\ Runs([prog |-> "tr", text |-> text, s1 |-> s1, s2 |-> s2, o |-> o], TrRun(text, s1, s2, o))

FmtWords == {<<Word(w, 0, e)>> : w \in {2, 5}, e \in BOOLEAN}
            \cup {<<Word(1, g, FALSE), Word(v, 0, FALSE)>> : g \in 1 .. 2, v \in {2, 9}}
FmtLines == {FmtLine0("blank", 0, <<>>), FmtLine0("troff", 0, <<Word(3, 0, FALSE)>>)}
            \cup {FmtLine0("header", 0, <<Word(2, 0, FALSE)>>)}
            \cup [kind : {"text"}, np : {0, 2}, words : FmtWords]
Fmt == Idle("pages") /\ \E lines \in Texts(FmtLines, 3), o \in FmtOptions :
         Runs([prog |-> "fmt", lines |-> lines, o |-> o], FmtRun(lines, o))
FmtReads == Idle("pages") /\ \E raw \in Texts({"a", ".", SP, BS, CTRL}, 5), troff \in BOOLEAN, goal \in {4} :
              Runs([prog |-> "fmt -c", raw |-> raw, troff |-> troff, goal |-> goal],
                   FmtLine(raw, troff))

-----------------------------------------------------------------------------
PrOptions(l, d, mode, clcnt, number, ff, page) ==
  PrSetup(l, FALSE, d, [mode |-> mode, clcnt |-> clcnt, colwd |-> 2, number |-> number,
                        formfeed |-> ff, pgnm |-> page])
PrOne == Idle("pages") /\ \E text \in Texts({"a", NL, FF}, 5), d, n, ff \in BOOLEAN, page \in 1 .. 2 :
           LET o == PrOptions(13, d, "one", 1, n, ff, page)
           IN Runs([prog |-> "pr", text |-> text, o |-> o], PrFile(text, o))
(* Down the page: texts that end their lines, no form feed right after a   *)
(* character, no numbers (README).                                         *)
PrDown == Idle("pages") /\ \E text \in Texts({"a", NL, FF}, 6), d \in BOOLEAN, page \in 1 .. 2 :
            LET o == PrOptions(12, d, "down", 2, FALSE, FALSE, page)
            IN /\ EndsLine(text) /\ \A i \in 2 .. Len(text) : text[i] = FF => text[i - 1] # "a"
               /\ Runs([prog |-> "pr", text |-> text, o |-> o], PrFile(text, o))
PrAcross == Idle("pages") /\ \E text \in Texts({"a", NL, FF}, 6), d, n \in BOOLEAN, clcnt \in 2 .. 3 :
              LET o == PrOptions(13, d, "across", clcnt, n, FALSE, 1)
              IN Runs([prog |-> "pr", text |-> text, o |-> o], PrFile(text, o))
PrSideBySide == Idle("pages") /\ \E a, b, c \in {t \in Texts({"a", NL, FF}, 3) : EndsLine(t)} :
                  LET o == PrOptions(12, FALSE, "merge", 3, FALSE, FALSE, 1)
                  IN Runs([prog |-> "pr -m", texts |-> <<a, b, c>>, o |-> o], PrMerge(<<a, b, c>>, o))

(* tr maps, deletes and squeezes character by character; fmt writes every  *)
(* word once and breaks its lines where the width comes closest to the     *)
(* goal, within the maximum; pr puts every line into one cell, in order    *)
(* and numbered by its place, on pages of the length asked for, and files  *)
(* side by side keep in step.                                              *)
PagesRight ==
  CASE call.prog = "pr" -> PrPaginates(call.text, call.o, result)
    [] call.prog = "pr -m" -> PrMergesRight(call.texts, call.o, result)
    [] call.prog = "tr" -> TrTranslates(call.text, call.s1, call.s2, call.o, result)
    [] call.prog = "fmt" -> FmtFills(call.lines, call.o, result)
    [] call.prog = "fmt -c" -> FmtReadsClean(call.raw, call.troff, call.goal)
    [] OTHER -> TRUE

-----------------------------------------------------------------------------
TextNext ==
  \/ Uniq \/ Comm \/ Join \/ Paste
  \/ Cut \/ Expand \/ Unexpand \/ Fold
  \/ Cat \/ Head1 \/ Wc \/ Nl
  \/ TailForward \/ TailReverse
  \/ SplitByBytes \/ SplitByLines \/ Csplit
  \/ Tr \/ Fmt \/ FmtReads
  \/ PrOne \/ PrDown \/ PrAcross \/ PrSideBySide
=================================================================================
