-------------------------------- MODULE Listing --------------------------------
(***************************************************************************)
(* ls (core/coreutils/src/utils/ls) with fts_children and the choices of   *)
(* fts_build (core/posix-wasm/src/lib/fts/fts.c) it depends on.  A name is *)
(* the sequence of its characters.  Nothing changes while ls runs: FileWalk*)
(* is about walks of a tree that changes.  stat is below.                  *)
(***************************************************************************)
EXTENDS Text

NameOrder == <<"-", ".", "0", "A", "a", "b", "c">>
RECURSIVE NameBefore(_, _)
NameBefore(a, b) ==                     \* strcmp(a, b) < 0
  CASE b = <<>> -> FALSE
    [] a = <<>> -> TRUE
    [] a[1] = b[1] -> NameBefore(Tail(a), Tail(b))
    [] OTHER -> SelectInSeq(NameOrder, LAMBDA c : c = a[1]) < SelectInSeq(NameOrder, LAMBDA c : c = b[1])
Strcmp(a, b) == IF a = b THEN 0 ELSE IF NameBefore(a, b) THEN 0 - 1 ELSE 1
Hidden(name) == name[1] = "."
IsDot(name) == name \in {<<".">>, <<".", ".">>}

-----------------------------------------------------------------------------
(* main.  form is the format, of which the flags f_singlecol, f_column,    *)
(* f_columnacross, f_stream and f_longform allow one at a time; owner is   *)
(* f_grouponly: -1 after -l.                                               *)
Defaults(tty, root) ==
  [form |-> IF tty THEN "col" ELSE "single", group |-> 0, numeric |-> FALSE, time |-> "mod", type |-> FALSE,
   typedir |-> FALSE, recursive |-> FALSE, nosort |-> FALSE, dots |-> root, listdir |-> FALSE, inode |-> FALSE,
   size |-> FALSE, reverse |-> FALSE, key |-> "name", fts |-> {"PHYSICAL"}]
Format(f, form) == [f EXCEPT !.form = form, !.numeric = form = "long" /\ @]
LsOption(f, ch) ==
  CASE ch = "1" -> Format(f, "single")
    [] ch = "C" -> Format(f, "col")
    [] ch = "m" -> Format(f, "stream")
    [] ch = "x" -> Format(f, "across")
    [] ch = "g" -> [Format(f, "long") EXCEPT !.group = IF @ = 0 - 1 THEN @ ELSE 1]
    [] ch = "l" -> [Format(f, "long") EXCEPT !.group = 0 - 1]
    [] ch = "n" -> [Format(f, "long") EXCEPT !.numeric = TRUE]
    [] ch = "c" -> [f EXCEPT !.time = "stat"]
    [] ch = "u" -> [f EXCEPT !.time = "acc"]
    [] ch = "F" -> [f EXCEPT !.type = TRUE]
    [] ch = "H" -> [f EXCEPT !.fts = @ \cup {"COMFOLLOW"}]
    [] ch = "L" -> [f EXCEPT !.fts = (@ \ {"PHYSICAL"}) \cup {"LOGICAL"}]
    [] ch = "R" -> [f EXCEPT !.recursive = TRUE]
    [] ch = "f" -> [f EXCEPT !.nosort = TRUE, !.fts = @ \cup {"SEEDOT"}, !.dots = TRUE]
    [] ch = "a" -> [f EXCEPT !.fts = @ \cup {"SEEDOT"}, !.dots = TRUE]
    [] ch = "A" -> [f EXCEPT !.dots = TRUE]
    [] ch = "d" -> [f EXCEPT !.listdir = TRUE, !.recursive = FALSE]
    [] ch = "i" -> [f EXCEPT !.inode = TRUE]
    [] ch = "p" -> [f EXCEPT !.typedir = TRUE]
    [] ch = "r" -> [f EXCEPT !.reverse = TRUE]
    [] ch = "S" -> [f EXCEPT !.key = "size"]
    [] ch = "s" -> [f EXCEPT !.size = TRUE]
    [] ch = "t" -> [f EXCEPT !.key = "time"]
LsFlags(opts, tty, root) == FoldLeft(LsOption, Defaults(tty, root), opts)
NeedsNoStat(f) ==
  f.form # "long" /\ ~f.inode /\ ~f.size /\ ~f.type /\ ~f.typedir /\ f.key = "name"
FtsOptions(f) ==
  f.fts \cup (IF NeedsNoStat(f) THEN {"NOSTAT"} ELSE {})
        \cup (IF f.form # "long" /\ ~f.listdir /\ ~f.type THEN {"COMFOLLOW"} ELSE {})
        \cup (IF "LOGICAL" \in f.fts THEN {"NOCHDIR"} ELSE {})

-----------------------------------------------------------------------------
(* cmp.c.  An entry: its name, what stat told of it and the walk made of   *)
(* it.  A time is a pair of seconds and nanoseconds.                       *)
NameCmp(a, b) == Strcmp(a.name, b.name)
SizeCmp(a, b) == IF b.st.size > a.st.size THEN 1 ELSE IF b.st.size < a.st.size THEN 0 - 1 ELSE NameCmp(a, b)
Later(s, t) == s[1] > t[1] \/ (s[1] = t[1] /\ s[2] > t[2])
TimeCmp(a, b, which) ==
  IF Later(b.st.time[which], a.st.time[which]) THEN 1
  ELSE IF Later(a.st.time[which], b.st.time[which]) THEN 0 - 1 ELSE NameCmp(a, b)
Forwards(f, a, b) ==
  CASE f.key = "name" -> NameCmp(a, b) [] f.key = "size" -> SizeCmp(a, b) [] OTHER -> TimeCmp(a, b, f.time)
SortFcn(f, a, b) == IF f.reverse THEN Forwards(f, b, a) ELSE Forwards(f, a, b)
MasterCmp(f, a, b, root) ==
  IF "NS" \in {a.info, b.info}
  THEN IF b.info # "NS" THEN 1 ELSE IF a.info # "NS" THEN 0 - 1 ELSE NameCmp(a, b)
  ELSE IF a.info # b.info /\ root /\ ~f.listdir /\ "D" \in {a.info, b.info}
  THEN IF a.info = "D" THEN 1 ELSE 0 - 1
  ELSE SortFcn(f, a, b)
FtsSort(f, list, root) ==
  IF f.nosort THEN list ELSE SortSeq(list, LAMBDA a, b : MasterCmp(f, a, b, root) < 0)

-----------------------------------------------------------------------------
(* A file system: by number, what a file is, its entries in the order they *)
(* are read, where a link leads (0: nowhere), and the permissions that     *)
(* matter.  Dot and dot-dot are entries as others.  w.nlink says how links *)
(* of directories are counted: with a link for each subdirectory or not.   *)
NoStat == [size |-> 0, blocks |-> 0, ino |-> 0, time |-> [mod |-> <<0, 0>>, acc |-> <<0, 0>>, stat |-> <<0, 0>>]]
Subdirs(w, i) == Cardinality({k \in DOMAIN w.entries[i] : w.kind[w.entries[i][k].id] = "dir"})
LinkCount(w, i) == IF w.nlink = "subdirs" THEN Subdirs(w, i) ELSE 1     \* "." and ".." are two of them

(* fts_stat.  above are the directories the entry lies in.                 *)
FtsInfo(w, o, name, i, above, follow) ==
  IF i = 0 THEN "NS"
  ELSE IF w.kind[i] = "link"
  THEN IF ~follow THEN "SL" ELSE IF w.target[i] = 0 THEN "SLNONE"
       ELSE IF w.kind[w.target[i]] # "dir" THEN "F" ELSE IF w.target[i] \in above THEN "DC" ELSE "D"
  ELSE IF w.kind[i] = "file" THEN "F" ELSE IF IsDot(name) THEN "DOT" ELSE IF i \in above THEN "DC" ELSE "D"
StatOf(w, i, info) == IF info \in {"NS", "NSOK"} THEN NoStat
                      ELSE IF info \in {"D", "DC", "F"} /\ w.kind[i] = "link" THEN w.st[w.target[i]] ELSE w.st[i]
Inode(w, i, info) == IF info \in {"D", "DC"} /\ w.kind[i] = "link" THEN w.target[i] ELSE i
Entry0(w, name, i, info) == [name |-> name, id |-> IF i = 0 THEN 0 ELSE Inode(w, i, info), info |-> info,
                             st |-> StatOf(w, i, info), of |-> i]
Root(w, o, name, i) ==
  LET info == FtsInfo(w, o, name, i, {}, "LOGICAL" \in o \/ "COMFOLLOW" \in o)
  IN Entry0(w, name, i, IF info = "DOT" THEN "D" ELSE info)

(* fts_build, once the directory is open: which entries are stat'ed.  left *)
(* is nlinks.                                                              *)
TypeOf(w, e) == w.kind[e.id]
NextEntry(w, o, nostat, lost, above, st, e) ==
  IF "SEEDOT" \notin o /\ IsDot(e.name) THEN st
  ELSE LET info == IF lost THEN IF st.left # 0 THEN "NS" ELSE "NSOK"
                   ELSE IF st.left = 0 \/ (nostat /\ TypeOf(w, e) # "dir") THEN "NSOK"
                   ELSE FtsInfo(w, o, e.name, e.id, above, "LOGICAL" \in o)
       IN [left |-> IF st.left > 0 /\ ~lost /\ info \in {"D", "DC", "DOT"} THEN st.left - 1 ELSE st.left,
           list |-> Append(st.list, Entry0(w, e.name, e.id, info))]
BuiltFrom(w, o, names, nostat, d, above) ==
  FoldLeft(LAMBDA st, e : NextEntry(w, o, nostat, d \in w.closed, above, st, e),
           [left |-> CASE names -> 0
                       [] nostat /\ ~names -> LinkCount(w, d) - (IF "SEEDOT" \in o THEN 0 ELSE 2)
                       [] OTHER -> 0 - 1,
            list |-> <<>>],
           w.entries[d]).list
FtsBuild(w, o, f, names, d, above) ==
  FtsSort(f, BuiltFrom(w, o, names, names \/ {"NOSTAT", "PHYSICAL"} \subseteq o, d, above), FALSE)

-----------------------------------------------------------------------------
(* display: what of a list is shown, and what of it goes wrong.            *)
Shown(f, root, e) ==
  /\ e.info # "NS"
  /\ IF root THEN e.info # "D" \/ f.listdir ELSE ~Hidden(e.name) \/ f.dots
Display(f, root, list, st) ==
  LET shown == SelectSeq(list, LAMBDA e : Shown(f, root, e))
      bad == \E i \in DOMAIN list : list[i].info = "NS"
      now == [st EXCEPT !.rval = IF bad THEN 1 ELSE @] IN
  IF shown = <<>> /\ (root \/ ~(f.form = "long" \/ f.size)) THEN now
  ELSE [now EXCEPT !.out = Append(@, [kind |-> "list", path |-> <<>>, root |-> root, shown |-> shown]),
                   !.output = TRUE]

(* traverse, for a directory in pre-order, with fts_children and what      *)
(* fts_read makes of the children: the ones of the last list are walked,   *)
(* unless only their names were read, or reading failed.                   *)
Heading(f, many, path, st) ==
  IF st.output \/ f.recursive \/ many
  THEN [st EXCEPT !.out = Append(@, [kind |-> "head", path |-> path, root |-> FALSE, shown |-> <<>>]), !.output = TRUE]
  ELSE st
Failed0(st) == [st EXCEPT !.rval = 1]
RECURSIVE Visit(_, _, _, _, _, _, _), VisitAll(_, _, _, _, _, _, _)
Visit(w, o, f, many, path, above, est) ==
  LET e == est.e st == est.st IN
  CASE e.info = "D" /\ Hidden(e.name) /\ Len(path) > 1 /\ ~f.dots -> st
    [] e.info = "D" /\ e.id \in w.unreadable ->
         Failed0(Display(f, FALSE, <<>>, Heading(f, many, path, st)))
    [] e.info = "D" /\ e.id \notin w.unreadable ->
         LET list == FtsBuild(w, o, f, ~f.recursive /\ "NOSTAT" \in o, e.id, above \cup {e.id})
             now == Display(f, FALSE, list, Heading(f, many, path, st))
         IN IF ~f.recursive THEN now
            ELSE VisitAll(w, o, f, many, path, above \cup {e.id},
                          [list |-> list,
                            st |-> IF e.id \in w.closed /\ list # <<>> /\ "NOCHDIR" \notin o THEN Failed0(now) ELSE now])
    [] OTHER -> st
VisitAll(w, o, f, many, path, above, lst) ==
  FoldLeft(LAMBDA st, e : Visit(w, o, f, many, Append(path, e.name), above, [e |-> e, st |-> st]), lst.st, lst.list)
Roots(w, o, f, args) ==
  FtsSort(f, [i \in DOMAIN args |-> Root(w, o, args[i], IF args[i] \in DOMAIN w.names THEN w.names[args[i]] ELSE 0)], TRUE)
TraverseFrom(w, o, f, roots, st) ==
  IF f.listdir THEN st ELSE VisitAll(w, o, f, Len(roots) > 1, <<>>, {}, [list |-> roots, st |-> st])
Traverse(w, o, f, roots) ==
  TraverseFrom(w, o, f, roots, Display(f, TRUE, roots, [out |-> <<>>, output |-> FALSE, rval |-> 0]))
Ls(w, args, f) ==
  Traverse(w, FtsOptions(f), f, Roots(w, FtsOptions(f), f, IF args = <<>> THEN <<<<".">>>> ELSE args))

-----------------------------------------------------------------------------
(* mbsprint: the columns a name takes, and what of it reaches the terminal.*)
(* BadByte is part of no character, Bell a character without a width.      *)
BadByte == "\\xff"
Bell == "\\a"
CharWidth(c) == IF c = Wide THEN 2 ELSE 1
MbsWidth(name) == Sum0([i \in DOMAIN name |-> CharWidth(name[i])])
MbsPrint(name, nonprint) ==
  [i \in DOMAIN name |-> IF name[i] \in {BadByte, Bell} /\ nonprint THEN "?" ELSE name[i]]

(* An item of a list as the printers see it: the width of its name, its    *)
(* inode, blocks, and file type and whether it may be executed.            *)
DigitsOf(n) == IF n < 10 THEN 1 ELSE IF n < 100 THEN 2 ELSE IF n < 1000 THEN 3 ELSE 4 + (n \div 10000)
PrintType(e) == IF e.type \in {"dir", "fifo", "link"} \/ e.exec THEN 1 ELSE 0
Most(list, Of(_)) == FoldLeft(LAMBDA m, e : Larger(m, Of(e)), 0, list)
(* display: the widths of the columns.                                     *)
Widths0(list) ==
  [maxlen |-> Most(list, LAMBDA e : e.width), s_inode |-> DigitsOf(Most(list, LAMBDA e : e.ino)),
   s_block |-> DigitsOf(Most(list, LAMBDA e : e.blocks))]
HowMany(n, size) == (n + size - 1) \div size
PrintAName(f, d, e) ==
  (IF f.inode THEN Larger(d.s_inode, DigitsOf(e.ino)) + 1 ELSE 0)
  + (IF f.size THEN Larger(d.s_block, DigitsOf(HowMany(e.blocks, f.blocksize))) + 1 ELSE 0)
  + e.width + (IF f.type \/ (f.typedir /\ e.type = "dir") THEN PrintType(e) ELSE 0)

(* A line is a sequence of the items on it with the column each starts in  *)
(* and the columns it takes.                                               *)
Cell(k, at, n) == [k |-> k, at |-> at, n |-> n]
PrintSCol(f, d, list) == [k \in DOMAIN list |-> <<Cell(k, 0, PrintAName(f, d, list[k]))>>]

(* compute_columns.                                                        *)
(* Variant with a mistake: no room for the space between columns.          *)
ColWidthTight(f, d) ==
  d.maxlen + (IF f.inode THEN d.s_inode + 1 ELSE 0) + (IF f.size THEN d.s_block + 1 ELSE 0)
  + (IF f.type \/ f.typedir THEN 1 ELSE 0)
ColWidth(f, d) ==
  d.maxlen + (IF f.inode THEN d.s_inode + 1 ELSE 0) + (IF f.size THEN d.s_block + 1 ELSE 0)
  + (IF f.type \/ f.typedir THEN 1 ELSE 0) + 1
Columns(f, d, termwidth) ==             \* 0 columns: one name a line
  IF termwidth + 1 < 2 * ColWidth(f, d) THEN [n |-> 0, width |-> 0]
  ELSE LET n == (termwidth + 1) \div ColWidth(f, d) IN [n |-> n, width |-> (termwidth + 1) \div n]
AddCell(line, width, k, n) ==
  Append(line, Cell(k, IF line = <<>> THEN 0 ELSE Last(line).at + Larger(Last(line).n, width), n))
PrintColumns(f, d, list, c) ==
  LET rows == (Len(list) + c.n - 1) \div c.n
      RowItems(row) == SelectSeq([j \in 1 .. c.n |-> row + (j - 1) * rows], LAMBDA k : k <= Len(list))
  IN [row \in 1 .. rows |->
        FoldLeft(LAMBDA line, k : AddCell(line, c.width, k, PrintAName(f, d, list[k])), <<>>, RowItems(row))]
PrintCol(f, d, list, termwidth) ==
  IF Columns(f, d, termwidth).n = 0 THEN PrintSCol(f, d, list) ELSE PrintColumns(f, d, list, Columns(f, d, termwidth))
AcrossStep(f, d, list, c, lines, k) ==
  IF Len(Last(lines)) = c.n THEN Append(lines, <<Cell(k, 0, PrintAName(f, d, list[k]))>>)
  ELSE Append(Front(lines), AddCell(Last(lines), c.width, k, PrintAName(f, d, list[k])))
PrintACol(f, d, list, termwidth) ==
  IF Columns(f, d, termwidth).n = 0 THEN PrintSCol(f, d, list)
  ELSE FoldLeft(LAMBDA lines, k : AcrossStep(f, d, list, Columns(f, d, termwidth), lines, k),
                <<<<>>>>, [k \in DOMAIN list |-> k])

(* printstream: names with a comma and a space, or a comma and a newline.  *)
StreamWidth(f, d) ==
  (IF f.inode THEN d.s_inode + 1 ELSE 0) + (IF f.size THEN d.s_block + 1 ELSE 0) + (IF f.type THEN 1 ELSE 0)
StreamStep(f, d, list, termwidth, st, k) ==
  LET n == PrintAName(f, d, list[k])
      breaks == st.col + 2 + StreamWidth(f, d) + list[k].width >= termwidth IN
  IF st.col = 0 THEN [col |-> n, lines |-> Append(st.lines, <<Cell(k, 0, n)>>)]
  ELSE IF breaks THEN [col |-> n, lines |-> Append(st.lines, <<Cell(k, 0, n)>>)]
  ELSE [col |-> st.col + 2 + n, lines |-> Append(Front(st.lines), Append(Last(st.lines), Cell(k, st.col + 2, n)))]
PrintStream(f, d, list, termwidth) ==
  FoldLeft(LAMBDA st, k : StreamStep(f, d, list, termwidth, st, k),
           [col |-> 0, lines |-> <<>>], [k \in DOMAIN list |-> k]).lines

(* printlong: where the name begins, after the mode, links, owner, group,  *)
(* size or device numbers, and time (twelve columns and a space).          *)
LongWidths(f, list) ==
  [s_nlink |-> Most(list, LAMBDA e : DigitsOf(e.nlink)), s_user |-> Most(list, LAMBDA e : e.user),
   s_group |-> Most(list, LAMBDA e : e.group), s_size |-> IF f.human THEN 5 ELSE Most(list, LAMBDA e : e.digits),
   bcfile |-> \E k \in DOMAIN list : list[k].device]
SizeField(f, d, e) ==
  CASE e.device -> 9
    [] ~e.device /\ d.bcfile -> (IF d.s_size > 8 THEN d.s_size - 8 ELSE 8 - d.s_size) + Larger(d.s_size, e.digits) + 1
    [] OTHER -> (IF f.human THEN d.s_size ELSE Larger(d.s_size, e.digits)) + 1
LongName(f, d, e) ==
  12 + Larger(d.s_nlink, DigitsOf(e.nlink)) + 1 + (IF f.group = 1 THEN 0 ELSE Larger(d.s_user, e.user) + 2)
  + Larger(d.s_group, e.group) + 2 + SizeField(f, d, e) + 13

(* strmode: a letter for the type, then three for each class.              *)
TypeLetter(t) == CASE t = "dir" -> "d" [] t = "chr" -> "c" [] t = "blk" -> "b" [] t = "reg" -> "-" [] t = "link" -> "l"
                   [] t = "sock" -> "s" [] OTHER -> "?"
Marked(mode, who, special, mark) ==
  CASE <<who, "x">> \in mode /\ special \in mode -> mark[1]
    [] <<who, "x">> \notin mode /\ special \in mode -> mark[2]
    [] <<who, "x">> \in mode /\ special \notin mode -> "x"
    [] OTHER -> "-"
Triple(mode, who, special, mark) ==
  <<IF <<who, "r">> \in mode THEN "r" ELSE "-", IF <<who, "w">> \in mode THEN "w" ELSE "-",
    Marked(mode, who, special, mark)>>
StrMode(type, mode) ==
  <<TypeLetter(type)>> \o Triple(mode, "u", <<"u", "s">>, <<"s", "S">>) \o Triple(mode, "g", <<"g", "s">>, <<"s", "S">>)
  \o Triple(mode, "o", <<"o", "t">>, <<"t", "T">>)

-----------------------------------------------------------------------------
(* stat (core/coreutils/src/utils/stat/stat.c): a format is read character *)
(* by character, each conversion picks a datum, a part of it and a form,   *)
(* and printf lays it out.  A word has 4 bits (32) and a fraction of a     *)
(* second 3 digits (9).                                                    *)

WORD == 16
LongLong == WORD * WORD
FarAway == 65536 * 8                    \* above every number that is not a time
FractionDigits == 3
DigitChars == <<"0", "1", "2", "3", "4", "5", "6", "7", "8", "9", "a", "b", "c", "d", "e", "f">>
Numerals == {DigitChars[i] : i \in 1 .. 10}
NumeralValue(c) == SelectInSeq(DigitChars, LAMBDA x : x = c) - 1
NoText == <<"none">>

-----------------------------------------------------------------------------
(* printf of the C library.  flags is a set, size and prec are -1 when not *)
(* given.                                                                  *)
RECURSIVE InBase(_, _)
InBase(n, base) ==
  IF n = 0 THEN <<>> ELSE InBase(n \div base, base) \o <<DigitChars[(n % base) + 1]>>
PadTo(flags, size, zero, sign, body) ==
  LET fill == Larger(0, size - Len(sign) - Len(body)) IN
  IF "-" \in flags THEN sign \o body \o Repeat(SP, fill)
  ELSE IF zero THEN sign \o Repeat("0", fill) \o body ELSE Repeat(SP, fill) \o sign \o body
SignOf(flags, negative) ==
  IF negative THEN <<"-">> ELSE IF "+" \in flags THEN <<"+">> ELSE IF " " \in flags THEN <<SP>> ELSE <<>>
Precise(prec, digits) == Repeat("0", Larger(0, (IF prec = 0 - 1 THEN 1 ELSE prec) - Len(digits))) \o digits
PrintfInt(flags, size, prec, form, v) ==
  LET base == CASE form = "O" -> 8 [] form = "X" -> 16 [] OTHER -> 10
      digits == Precise(prec, InBase(IF v < 0 THEN 0 - v ELSE v, base))
      zero == "0" \in flags /\ prec = 0 - 1 IN
  CASE form = "D" -> PadTo(flags, size, zero, SignOf(flags, v < 0), digits)
    [] form = "X" /\ "#" \in flags /\ v # 0 -> PadTo(flags, size, zero, <<"0", "x">>, digits)
    [] form = "O" /\ "#" \in flags /\ (digits = <<>> \/ digits[1] # "0") ->
         PadTo(flags, size, zero, <<>>, <<"0">> \o digits)
    [] OTHER -> PadTo(flags, size, zero, <<>>, digits)
PrintfString(flags, size, prec, s) ==
  PadTo(flags, size, FALSE, <<>>, IF prec = 0 - 1 THEN s ELSE Upto(s, Smaller(prec, Len(s))))
AsSigned(n, width) == IF n % width >= width \div 2 THEN (n % width) - width ELSE n % width
AsUnsigned(n, width) == n % width

-----------------------------------------------------------------------------
(* format1: the datum.  Each gives its value, its text, the forms it may   *)
(* be printed in, the form it has by default, whether the part was used,   *)
(* and whether its sign must be cut off.                                   *)
Numbers0 == {"D", "O", "U", "X"}
Plain(v) == [data |-> v, text |-> NoText, forms |-> Numbers0, default |-> "U", hilo |-> "", small |-> FALSE]
Textual(s) == [data |-> 0, text |-> s, forms |-> {"S"}, default |-> "S", hilo |-> "", small |-> FALSE]
Device(dev, hilo) ==
  [Plain(CASE hilo = "H" -> dev \div WORD [] hilo = "L" -> dev % WORD [] OTHER -> dev) EXCEPT
     !.text = <<"?", "?", "?">>, !.forms = @ \cup {"S"}, !.hilo = IF hilo = "M" THEN "M" ELSE ""]
WeightOf(b) ==
  CASE b = <<"u", "s">> -> 2048 [] b = <<"g", "s">> -> 1024 [] b = <<"o", "t">> -> 512
    [] OTHER -> (CASE b[1] = "u" -> 64 [] b[1] = "g" -> 8 [] OTHER -> 1)
                * (CASE b[2] = "r" -> 4 [] b[2] = "w" -> 2 [] OTHER -> 1)
TypeNumber(t) ==
  CASE t = "fifo" -> 1 [] t = "chr" -> 2 [] t = "dir" -> 4 [] t = "blk" -> 6 [] t = "reg" -> 8 [] OTHER -> 10
ModeNumber(st) == TypeNumber(st.type) * 4096 + FoldSet(LAMBDA b, n : WeightOf(b) + n, 0, st.mode)
ModeDatum(st, hilo) ==
  LET shown == StrMode(st.type, st.mode) IN
  [Plain(CASE hilo = "H" -> ModeNumber(st) \div 4096 [] hilo = "M" -> (ModeNumber(st) \div 512) % 8
           [] hilo = "L" -> ModeNumber(st) % 512 [] OTHER -> ModeNumber(st)) EXCEPT
     !.text = CASE hilo = "H" -> SubSeq(shown, 2, 4) [] hilo = "M" -> SubSeq(shown, 5, 7)
                [] hilo = "L" -> SubSeq(shown, 8, 10) [] OTHER -> shown,
     !.forms = @ \cup {"S"}, !.default = "O"]
OwnerDatum(id, name, hilo) ==
  [Plain(id) EXCEPT !.text = IF name = NoText THEN <<"(">> \o PrintfInt({}, 0 - 1, 0 - 1, "D", id) \o <<")">> ELSE name,
                    !.forms = @ \cup {"S"}, !.hilo = hilo]
TimeDatum(t, hilo) ==
  [Plain(AsUnsigned(t.secs, LongLong)) EXCEPT !.text = <<"d", "a", "y">>, !.forms = @ \cup {"F", "S"},
                                              !.default = "D", !.hilo = hilo, !.small = TRUE]
FileType(st, hilo) ==
  CASE hilo = "H" -> <<st.type>>
    [] hilo = "M" \/ st.type \in {"chr", "blk"} -> <<>>
    [] st.type = "fifo" -> <<"|">>
    [] st.type = "dir" -> <<"/">>
    [] st.type = "link" -> <<"@">>
    [] OTHER -> IF \E who \in {"u", "g", "o"} : <<who, "x">> \in st.mode THEN <<"*">> ELSE <<>>
LinkShown(st, ofmt) ==
  IF st.type # "link" \/ st.target = NoText THEN <<>>
  ELSE (IF ofmt = "S" THEN <<SP, "-", ">", SP>> ELSE <<>>) \o st.target
Datum(st, name, what, hilo, ofmt) ==
  CASE what = "d" -> Device(st.dev, hilo)
    [] what = "r" -> Device(st.rdev, hilo)
    [] what = "p" -> ModeDatum(st, hilo)
    [] what = "u" -> OwnerDatum(st.uid, st.user, hilo)
    [] what = "g" -> OwnerDatum(st.gid, st.group, hilo)
    [] what = "a" -> TimeDatum(st.atime, hilo)
    [] what = "m" -> TimeDatum(st.mtime, hilo)
    [] what = "c" -> TimeDatum(st.ctime, hilo)
    [] what = "Y" -> [Textual(LinkShown(st, ofmt)) EXCEPT !.hilo = hilo]
    [] what = "T" -> [Textual(FileType(st, hilo)) EXCEPT !.hilo = IF hilo = "M" THEN "M" ELSE ""]
    [] what = "N" -> [Textual(IF name = NoText THEN <<"(", "i", ")">> ELSE name) EXCEPT !.hilo = hilo]
    [] OTHER ->
         [Plain(CASE what = "i" -> st.ino [] what = "l" -> st.nlink [] what = "k" -> st.blksize
                  [] what = "b" -> st.blocks [] what = "z" -> st.size) EXCEPT !.hilo = hilo]

(* The form F: seconds and their fraction.  The code passes seconds and    *)
(* nanoseconds for two conversions of one word each, and a second of this  *)
(* platform has two words: the fraction printed is the seconds' high word. *)
TimeOf(st, what) == CASE what = "a" -> st.atime [] what = "m" -> st.mtime [] what = "c" -> st.ctime
LowWord(secs) == AsSigned(secs, WORD)
HighWord(secs) == AsSigned(AsUnsigned(secs, LongLong) \div WORD, WORD)
Fraction(prec, t) ==
  PrintfInt({"0"}, Smaller(prec, FractionDigits), 0 - 1, "D", HighWord(t.secs))
  \o Repeat("0", Larger(0, prec - FractionDigits))
FloatFrom(flags, size, prec, t) ==
  PrintfInt(flags, IF size - (prec + 1) > 0 THEN size - (prec + 1) ELSE 0 - 1, 0 - 1, "D", LowWord(t.secs))
  \o <<".">> \o Fraction(prec, t)
PrintFloat(d, t) ==
  IF d.prec = 0 THEN PrintfInt(d.flags, d.size, 0 - 1, "D", LowWord(t.secs))
  ELSE FloatFrom(d.flags, d.size, IF d.prec = 0 - 1 THEN FractionDigits ELSE d.prec, t)

FormOk(datum, form) == datum.hilo = "" /\ form \in datum.forms
BadFormat == [ok |-> FALSE, text |-> <<>>]
Printed(s) == [ok |-> TRUE, text |-> s]
Formatted(st, d, datum, form) ==
  IF ~FormOk(datum, form) \/ (form = "S" /\ datum.text = NoText) THEN BadFormat
  ELSE CASE form = "F" -> Printed(PrintFloat(d, TimeOf(st, d.what)))
         [] form = "S" -> Printed(PrintfString(d.flags, d.size, d.prec, datum.text))
         [] form = "D" -> Printed(PrintfInt(d.flags, d.size, d.prec, "D",
                                    AsSigned(datum.data, IF datum.small THEN LongLong ELSE FarAway)))
         [] OTHER -> Printed(PrintfInt(d.flags, d.size, d.prec, form,
                                       IF datum.small THEN datum.data % WORD ELSE datum.data))
Format1Of(st, d, datum) == Formatted(st, d, datum, IF d.ofmt = "" THEN datum.default ELSE d.ofmt)
Format0(st, name, d) == Format1Of(st, d, Datum(st, name, d.what, d.hilo, d.ofmt))
Format1(st, name, d) ==
  IF d.what # "Z" THEN Format0(st, name, d)
  ELSE IF st.type \notin {"chr", "blk"} THEN Format0(st, name, [d EXCEPT !.what = "z", !.hilo = ""])
  ELSE LET high == Format0(st, name, [d EXCEPT !.what = "r", !.hilo = "H"])
           low == Format0(st, name, [d EXCEPT !.what = "r", !.hilo = "L"])
       IN IF high.ok /\ low.ok THEN Printed(high.text \o <<",">> \o low.text) ELSE BadFormat

-----------------------------------------------------------------------------
(* output: the format, from its position i on.                             *)
FormatFlags == {"#", " ", "+", "0", "-"}
Data0 == {"d", "i", "p", "l", "u", "g", "r", "a", "m", "c", "z", "b", "k", "Y", "T", "N", "Z"}
Forms0 == {"D", "O", "U", "X", "F", "S"}
SkipIn(fmt, i, S) == Max({k \in i .. Len(fmt) + 1 : \A j \in i .. k - 1 : fmt[j] \in S})
CharAt(fmt, i) == IF i <= Len(fmt) THEN fmt[i] ELSE "end"
ValueOf(digits) == FoldLeft(LAMBDA n, c : 10 * n + NumeralValue(c), 0, digits)
OneOf(fmt, i, S) == IF CharAt(fmt, i) \in S THEN [what |-> fmt[i], next |-> i + 1] ELSE [what |-> "", next |-> i]
ParseTail(fmt, flags, size, prec, form) ==
  LET hilo == OneOf(fmt, form.next, {"H", "M", "L"})
      what == OneOf(fmt, hilo.next, Data0)
  IN [flags |-> flags, size |-> size, prec |-> prec, ofmt |-> form.what, hilo |-> hilo.what,
      what |-> what.what, next |-> what.next]
ParsePrec(fmt, flags, size, i) ==
  IF CharAt(fmt, i) # "." THEN ParseTail(fmt, flags, size, 0 - 1, OneOf(fmt, i, Forms0))
  ELSE LET e == SkipIn(fmt, i + 1, Numerals)
       IN ParseTail(fmt, flags, size, ValueOf(SubSeq(fmt, i + 1, e - 1)), OneOf(fmt, e, Forms0))
ParseSize(fmt, flags, i) ==
  LET e == SkipIn(fmt, i, Numerals)
  IN ParsePrec(fmt, flags, IF e = i THEN 0 - 1 ELSE ValueOf(SubSeq(fmt, i, e - 1)), e)
ParseFormat(fmt, i) ==                  \* i is after the "%"
  ParseSize(fmt, {fmt[k] : k \in i .. SkipIn(fmt, i, FormatFlags) - 1}, SkipIn(fmt, i, FormatFlags))
SimpleFormat(c, fn) ==
  CASE c = "n" -> <<NL>> [] c = "t" -> <<TAB>> [] c = "%" -> <<"%">> [] c = "@" -> PrintfInt({}, 0 - 1, 0 - 1, "D", fn)
RECURSIVE OutputFrom(_, _, _, _, _, _), OutputData(_, _, _, _, _, _)
OutputFrom(st, name, fmt, fn, i, out) ==
  CASE i > Len(fmt) -> Printed(out)
    [] CharAt(fmt, i) # "%" /\ i <= Len(fmt) -> OutputFrom(st, name, fmt, fn, i + 1, Append(out, fmt[i]))
    [] CharAt(fmt, i) = "%" /\ CharAt(fmt, i + 1) \in {"n", "t", "%", "@"} ->
         OutputFrom(st, name, fmt, fn, i + 2, out \o SimpleFormat(fmt[i + 1], fn))
    [] OTHER -> OutputData(st, name, fmt, fn, ParseFormat(fmt, i + 1), out)
OutputText(st, name, fmt, fn, next, out, r) ==
  IF r.ok THEN OutputFrom(st, name, fmt, fn, next, out \o r.text) ELSE [ok |-> FALSE, text |-> out]
OutputData(st, name, fmt, fn, d, out) ==
  OutputText(st, name, fmt, fn, d.next, out, IF d.what = "" THEN BadFormat ELSE Format1(st, name, d))
EndLine(r, nonl) == IF r.ok /\ r.text # <<>> /\ Last(r.text) # NL /\ ~nonl THEN Printed(Append(r.text, NL)) ELSE r
Output0(st, name, fmt, fn, nonl) == EndLine(OutputFrom(st, name, fmt, fn, 1, <<>>), nonl)

(* main: the formats, and which of them the options choose.                *)
Line0(words) == FlattenSeq([k \in DOMAIN words |-> <<"%">> \o words[k] \o IF k = Len(words) THEN <<>> ELSE <<SP>>])
RawFormat ==
  Line0(<<<<"d">>, <<"i">>, <<"#", "p">>, <<"l">>, <<"u">>, <<"g">>, <<"r">>, <<"z">>, <<"a">>, <<"m">>, <<"c">>,
          <<"k">>, <<"b">>, <<"f">>, <<"N">>>>)
DefFormat ==
  Line0(<<<<"d">>, <<"i">>, <<"S", "p">>, <<"l">>, <<"S", "u">>, <<"S", "g">>, <<"r">>, <<"z">>, <<"S", "a">>,
          <<"S", "m">>, <<"S", "c">>, <<"k">>, <<"b">>, <<"N">>>>)
LsStart == <<<<"S", "p">>, <<"l">>, <<"S", "u">>, <<"S", "g">>, <<"Z">>, <<"S", "m">>>>
LsFormat == Line0(Append(LsStart, <<"N", "%", "S", "Y">>))
LsfFormat == Line0(Append(LsStart, <<"N", "%", "T", "%", "S", "Y">>))
ShellFormat ==                          \* with "st_dev=" and the like before each
  Line0(<<<<"d">>, <<"i">>, <<"#", "p">>, <<"l">>, <<"u">>, <<"g">>, <<"r">>, <<"z">>, <<"a">>, <<"m">>, <<"c">>,
          <<"k">>, <<"b">>>>)
LinuxFormat ==                          \* with a title before each
  Line0(<<<<"N">>, <<"n">>, <<"-", "1", "1", "z">>, <<"H", "T">>, <<"n">>, <<"0", "1", "M", "p">>,
          <<"0", "3", "O", "L", "p">>, <<".", "1", "0", "S", "p">>, <<"5", "u">>, <<"8", "S", "u">>, <<"5", "g">>,
          <<"8", "S", "g">>, <<"n">>, <<"H", "d">>, <<"L", "d">>, <<"i">>, <<"l">>, <<"n">>,
          <<"S", "a">>, <<"n">>, <<"S", "m">>, <<"n">>, <<"S", "c">>>>)
StatOption(st, ch) ==
  CASE ch = "F" -> [st EXCEPT !.lsF = TRUE]
    [] ch = "L" -> [st EXCEPT !.usestat = TRUE]
    [] ch = "n" -> [st EXCEPT !.nonl = TRUE]
    [] ch = "q" -> [st EXCEPT !.quiet = TRUE]
    [] ch \in {"f", "l", "r", "s", "x"} -> IF st.fmtchar # "" THEN [st EXCEPT !.err = TRUE] ELSE [st EXCEPT !.fmtchar = ch]
NoOptions == [lsF |-> FALSE, usestat |-> FALSE, nonl |-> FALSE, quiet |-> FALSE, fmtchar |-> "", err |-> FALSE]
StatOptions(opts) == FoldLeft(StatOption, NoOptions, opts)
ChosenFormat(st, given) ==
  CASE st.fmtchar = "" -> IF st.lsF THEN LsfFormat ELSE DefFormat
    [] st.fmtchar = "f" -> given [] st.fmtchar = "r" -> RawFormat
    [] st.fmtchar = "s" -> ShellFormat [] st.fmtchar = "x" -> LinuxFormat
    [] st.fmtchar = "l" -> IF st.lsF THEN LsfFormat ELSE LsFormat
OptionsClash(st) == st.err \/ (st.lsF /\ st.fmtchar \notin {"", "l"})
(* The call each operand is looked up with: stat, and lstat for a link     *)
(* that leads nowhere.                                                     *)
LookUp(usestat, f) ==
  IF usestat /\ f.own.type = "link" /\ f.leadsTo # <<>> THEN f.leadsTo[1] ELSE f.own
AfterFile(st, r) == [st EXCEPT !.out = @ \o r.text, !.dead = ~r.ok, !.errs = IF r.ok THEN @ ELSE 1]
StatAll(o, given, files) ==             \* a file that is not there is an empty sequence
  FoldLeft(LAMBDA st, n :
      IF st.dead THEN st
      ELSE IF files[n] = <<>> THEN [st EXCEPT !.errs = 1]
      ELSE AfterFile(st, Output0(LookUp(o.usestat, files[n][1]), files[n][1].own.name, ChosenFormat(o, given), n, o.nonl)),
    [out |-> <<>>, errs |-> 0, dead |-> FALSE], [n \in DOMAIN files |-> n])
StatMain(opts, given, files) ==
  IF OptionsClash(StatOptions(opts)) THEN [out |-> <<>>, errs |-> 1, dead |-> TRUE]
  ELSE StatAll(StatOptions(opts), given, files)
===============================================================================
