------------------------------- MODULE MCListing -------------------------------
(***************************************************************************)
(* ls on small trees, lists and options, and stat on formats and files.    *)
(***************************************************************************)
EXTENDS ProgramCalls, Listing

(* The working directory 1 holds directories a (2), .c (4) and A (5), a    *)
(* file b (3) and a link c; a holds directories 0 (7) and .b (9), a link   *)
(* back to the working directory and a file.                               *)
Dir(i, up, list) == <<[name |-> <<".">>, id |-> i], [name |-> <<".", ".">>, id |-> up]>> \o list
File(name, i) == [name |-> <<name>>, id |-> i]
LsStat(i) == [size |-> (i * 3) % 4, blocks |-> i, ino |-> i,
              time |-> [mod |-> <<i % 2, i % 3>>, acc |-> <<i % 3, i % 2>>, stat |-> <<1, (i * 5) % 7>>]]
World(target, unreadable, closed, nlink) ==
  [kind |-> [i \in 1 .. 11 |-> IF i \in {1, 2, 4, 5, 7, 9} THEN "dir" ELSE IF i \in {6, 10} THEN "link" ELSE "file"],
   entries |-> [i \in {1, 2, 4, 5, 7, 9} |->
      CASE i = 1 -> Dir(1, 1, <<File("a", 2), File("c", 6), [name |-> <<".", "c">>, id |-> 4], File("b", 3), File("A", 5)>>)
        [] i = 2 -> Dir(2, 1, <<File("b", 8), File("0", 7), [name |-> <<".", "b">>, id |-> 9], File("-", 10)>>)
        [] i = 7 -> Dir(7, 2, <<[name |-> <<"a", "b">>, id |-> 11], File("a", 11)>>)
        [] OTHER -> Dir(i, IF i = 9 THEN 2 ELSE 1, IF i = 4 THEN <<File("b", 11)>> ELSE <<>>)],
   target |-> [i \in {6, 10} |-> IF i = 6 THEN target ELSE 1],
   names |-> [n \in {<<".">>, <<"a">>, <<"b">>, <<"c">>, <<".", "c">>} |->
      CASE n = <<".">> -> 1 [] n = <<"a">> -> 2 [] n = <<"b">> -> 3 [] n = <<"c">> -> 6 [] OTHER -> 4],
   st |-> [i \in 1 .. 11 |-> LsStat(i)], unreadable |-> unreadable, closed |-> closed, nlink |-> nlink]
ListTree == Idle("listing") /\ \E args \in {<<>>, <<<<"c">>>>, <<<<"a">>, <<"b">>, <<"c">>>>, <<<<"A">>, <<".", "c">>>>},
    walk, dots, stat, follow \in 0 .. 2, order \in 0 .. 3, target \in {0, 2, 3}, trouble \in 0 .. 2,
    nlink \in {"subdirs", "one"} :
  /\ trouble > 0 => target = 2 /\ order < 2
  /\ order > 1 => stat = 1 /\ dots = 2
  /\ LET opts == <<<<>>, <<"R">>, <<"R", "d">>>>[walk + 1] \o <<<<>>, <<"a">>, <<"A">>>>[dots + 1]
                 \o <<<<>>, <<"l">>, <<"F">>>>[stat + 1] \o <<<<>>, <<"L">>, <<"H">>>>[follow + 1]
                 \o <<<<>>, <<"r">>, <<"t", "u">>, <<"S", "r">>>>[order + 1]
         w == World(target, IF trouble = 1 THEN {2} ELSE {}, IF trouble = 2 THEN {2, 7} ELSE {}, nlink)
         f == LsFlags(opts, FALSE, FALSE)
     IN Runs([prog |-> "ls", w |-> w, args |-> args, f |-> f], Ls(w, args, f))

(* What ls has to show: the entries a directory should be listed with, and *)
(* the directories that should be listed, by path and number.              *)
LsWants(f, name) == (~Hidden(name) \/ f.dots) /\ (IsDot(name) => "SEEDOT" \in f.fts)
LeadsTo(w, i, follow) == IF w.kind[i] = "link" /\ follow THEN w.target[i] ELSE i
IsDir(w, i) == IF i = 0 THEN FALSE ELSE w.kind[i] = "dir"
RECURSIVE DirsBelow(_, _, _, _, _)
DirsBelow(w, f, path, i, above) ==
  {<<path, i>>} \cup
  IF ~f.recursive \/ i \in w.unreadable \cup w.closed THEN {} ELSE
  UNION {LET j == LeadsTo(w, e.id, "LOGICAL" \in f.fts)
         IN IF IsDir(w, j) /\ ~IsDot(e.name) /\ LsWants(f, e.name) /\ j \notin above \cup {i}
            THEN DirsBelow(w, f, Append(path, e.name), j, above \cup {i}) ELSE {} :
         e \in ToSet(w.entries[i])}
Operands0(args) == IF args = <<>> THEN {<<".">>} ELSE ToSet(args)
Number(w, o, name) ==
  IF name \notin DOMAIN w.names THEN 0
  ELSE IF LeadsTo(w, w.names[name], o) = 0 THEN w.names[name] ELSE LeadsTo(w, w.names[name], o)
FollowsOperands(f) == {"LOGICAL", "COMFOLLOW"} \cap FtsOptions(f) # {}
LsDirs(w, f, args) ==
  IF f.listdir THEN {} ELSE
  UNION {LET i == Number(w, FollowsOperands(f), n) IN IF IsDir(w, i) THEN DirsBelow(w, f, <<n>>, i, {}) ELSE {} :
         n \in Operands0(args)}
NoNames(w, f, i) == i \in w.unreadable \/ (i \in w.closed /\ ~NeedsNoStat(f))
LsEntries(w, f, i) == IF NoNames(w, f, i) THEN {} ELSE {e.name : e \in {e \in ToSet(w.entries[i]) : LsWants(f, e.name)}}
OperandsShown(w, f, args) ==
  {n \in Operands0(args) :
     LET i == Number(w, FollowsOperands(f), n) IN i # 0 /\ (f.listdir \/ ~IsDir(w, i))}
Heads(r) == {k \in DOMAIN r.out : r.out[k].kind = "head"}
NamesIn(item) == [k \in DOMAIN item.shown |-> item.shown[k].name]
After(r, k) == IF k < Len(r.out) /\ r.out[k + 1].kind = "list" THEN NamesIn(r.out[k + 1]) ELSE <<>>
Sorted0(f, item) ==
  f.nosort \/ \A j, k \in DOMAIN item.shown : j < k =>
    SortFcn(f, item.shown[j], item.shown[k]) < 0 \/ (item.root /\ item.shown[j].info # "D" /\ item.shown[k].info = "D")
(* A directory with one link, read with -a and without status, hides its   *)
(* directories from -R; in one that cannot be searched -R may give names.  *)
LinksMislead(w, f) == w.nlink = "one" /\ "SEEDOT" \in f.fts /\ NeedsNoStat(f) /\ f.recursive /\ "PHYSICAL" \in f.fts
LsRight(w, args, f, r) ==
  LET dirs == LsDirs(w, f, args)
      roots == {k \in DOMAIN r.out : r.out[k].kind = "list" /\ r.out[k].root}
      trouble == \/ \E n \in Operands0(args) : Number(w, FollowsOperands(f), n) = 0
                 \/ \E d \in dirs : d[2] \in w.unreadable
                      \/ /\ d[2] \in w.closed /\ (f.recursive \/ ~NeedsNoStat(f))
                         /\ LsEntries([w EXCEPT !.closed = {}], f, d[2]) # {}
  IN
  /\ {n : n \in UNION {ToSet(NamesIn(r.out[k])) : k \in roots}} = OperandsShown(w, f, args)
  /\ \A k \in DOMAIN r.out : IsInjective(NamesIn(r.out[k])) /\ Sorted0(f, r.out[k])
  /\ IF Heads(r) = {} THEN Cardinality(dirs) <= 1
     ELSE /\ \A k \in Heads(r) : \E d \in dirs : d[1] = r.out[k].path
          /\ \A k, l \in Heads(r) : r.out[k].path = r.out[l].path => k = l
  /\ LinksMislead(w, f) \/
     \A d \in dirs :
       \/ d[2] \in w.closed /\ f.recursive
       \/ \E k \in Heads(r) : r.out[k].path = d[1] /\ ToSet(After(r, k)) = LsEntries(w, f, d[2])
       \/ Heads(r) = {} /\ LsEntries(w, f, d[2])
            = UNION {ToSet(NamesIn(r.out[k])) : k \in {k \in DOMAIN r.out : ~r.out[k].root}}
  /\ (r.rval = 1) = (trouble /\ ~LinksMislead(w, f)) \/ LinksMislead(w, f)

(* A list sorts the same whatever order it is read in, directories among   *)
(* the operands last, to be listed after the files.                        *)
OrderRight(f, root, lists) ==
  /\ Cardinality(lists) = 1
  /\ root /\ ~f.listdir => \A l \in lists : \A j, k \in DOMAIN l : l[j].info = "D" /\ l[k].info = "F" => k < j
OrderEntries == Idle("listing") /\ \E e \in [1 .. 3 -> {"D", "F", "NS"} \X {<<1, 1>>, <<1, 2>>, <<2, 1>>}],
    key \in {"name", "size", "time"}, reverse, root, listdir \in BOOLEAN :
  LET f == [Defaults(FALSE, FALSE) EXCEPT !.key = key, !.reverse = reverse, !.listdir = listdir]
      Entry(k) == [name |-> <<<<"a">>, <<"b">>, <<"a", "c">>>>[k], info |-> e[k][1],
                   st |-> IF e[k][1] = "NS" THEN NoStat ELSE [NoStat EXCEPT !.size = e[k][2][1], !.time.mod = e[k][2]]]
  IN Runs([prog |-> "ls order", f |-> f, root |-> root],
          {FtsSort(f, [i \in 1 .. 3 |-> Entry(p[i])], root) : p \in Permutations(1 .. 3)})

-----------------------------------------------------------------------------
Item(name, type, exec, ino, blocks) ==
  [width |-> MbsWidth(name), name |-> name, type |-> type, exec |-> exec, ino |-> ino, blocks |-> blocks]
ListItems == {Item(<<"a">>, "reg", FALSE, 3, 0), Item(<<Wide, "b">>, "dir", TRUE, 12, 8),
              Item(<<"a", Bell, BadByte, "b">>, "reg", TRUE, 5, 31), Item(<<"a", "b">>, "link", FALSE, 100, 2)}
LayOut == Idle("listing") /\ \E list \in SeqOf(ListItems, 4) \ {<<>>}, termwidth \in {8, 13, 20},
    inode, size, type \in BOOLEAN, typedir \in BOOLEAN, form \in {"col", "across", "stream"} :
  /\ type => typedir
  /\ LET f == [inode |-> inode, size |-> size, type |-> type, typedir |-> typedir, blocksize |-> 2]
         d == Widths0(list)
     IN Runs([prog |-> "ls lay out", form |-> form, n |-> Len(list), termwidth |-> termwidth, f |-> f,
              cols |-> Columns(f, d, termwidth)],
             CASE form = "col" -> PrintCol(f, d, list, termwidth) [] form = "across" -> PrintACol(f, d, list, termwidth)
               [] OTHER -> PrintStream(f, d, list, termwidth))
(* Every item once, in rows or columns that do not touch and fit.  With -m *)
(* and -p, for which printstream leaves no room, a line may be one longer. *)
FromRows(r) == FlattenSeq([i \in DOMAIN r |-> [j \in DOMAIN r[i] |-> r[i][j].k]])
FromColumns(r) ==
  FlattenSeq([j \in 1 .. Max({Len(r[i]) : i \in DOMAIN r}) |->
    SelectSeq([i \in DOMAIN r |-> IF j \in DOMAIN r[i] THEN r[i][j].k ELSE 0], LAMBDA k : k > 0)])
LayOutRight(c, r) ==
  LET comma == IF c.form = "stream" THEN 1 ELSE 0
      spill == IF c.form = "stream" /\ c.f.typedir /\ ~c.f.type THEN 1 ELSE 0 IN
  /\ [k \in 1 .. c.n |-> k] = IF c.form = "col" THEN FromColumns(r) ELSE FromRows(r)
  /\ \A i \in DOMAIN r : \A j \in 2 .. Len(r[i]) :
       /\ r[i][j].at > r[i][j - 1].at + r[i][j - 1].n
       /\ r[i][j].at + r[i][j].n + (IF i = Len(r) THEN 0 ELSE comma) <= c.termwidth + spill
       /\ c.form # "stream" => r[i][j].at = (j - 1) * c.cols.width

LongEntries == [nlink : {1, 12}, user : {1, 4}, group : {2, 3}, digits : {1, 5, 9}, device : BOOLEAN]
LongLine == Idle("listing") /\ \E e \in [1 .. 2 -> LongEntries],
    human, grouponly \in BOOLEAN :
  LET f == [human |-> human, group |-> IF grouponly THEN 1 ELSE 0]
  IN Runs([prog |-> "ls long", e |-> e], [k \in 1 .. 2 |-> LongName(f, LongWidths(f, e), e[k])])
LongRight(e, r) == r[1] = r[2] \/ (e[1].device # e[2].device /\ 9 \in {e[1].digits, e[2].digits})

ModeBits == ({"u", "g", "o"} \X {"r", "w", "x"}) \cup {<<"u", "s">>, <<"g", "s">>, <<"o", "t">>}
ShowMode == Idle("listing") /\ \E m \in SUBSET ModeBits : Runs([prog |-> "strmode", mode |-> m], StrMode("dir", m))
(* The mode can be read off what is shown.                                 *)
Reads(t, who, special) ==
  {b \in ({who} \X {"r", "w", "x"}) \cup {special} :
     CASE b[2] = "r" -> t[1] = "r" [] b[2] = "w" -> t[2] = "w" [] b[2] = "x" -> t[3] \in {"x", "s", "t"}
       [] OTHER -> t[3] \in {"s", "S", "t", "T"}}
StrModeRight(mode, r) ==
  mode = Reads(SubSeq(r, 2, 4), "u", <<"u", "s">>) \cup Reads(SubSeq(r, 5, 7), "g", <<"g", "s">>)
         \cup Reads(SubSeq(r, 8, 10), "o", <<"o", "t">>)

(* Of the formats the last one given counts, -l over -g whatever the order.*)
LsOptions == Idle("listing") /\ \E opts \in SeqOf({"1", "C", "m", "x", "g", "l", "n"}, 4), tty \in BOOLEAN :
  Runs([prog |-> "ls options", opts |-> opts, tty |-> tty], LsFlags(opts, tty, FALSE))
FormOf(ch) ==
  CASE ch = "1" -> "single" [] ch = "C" -> "col" [] ch = "m" -> "stream" [] ch = "x" -> "across" [] OTHER -> "long"
LsOptionsRight(opts, tty, f) ==
  /\ f.form = IF opts = <<>> THEN IF tty THEN "col" ELSE "single" ELSE FormOf(Last(opts))
  /\ (f.group = 1) = ("g" \in ToSet(opts) /\ "l" \notin ToSet(opts))
  /\ f.numeric = \E k \in DOMAIN opts : opts[k] = "n" /\ \A j \in k .. Len(opts) : FormOf(opts[j]) = "long"

-----------------------------------------------------------------------------
StatFile(type, mode, time, known) ==
  [type |-> type, mode |-> mode, dev |-> 35, rdev |-> 53, ino |-> 7, nlink |-> 2, uid |-> 12, gid |-> 5,
   user |-> IF known THEN <<"m", "e">> ELSE NoText, group |-> NoText, size |-> 10, blocks |-> 8, blksize |-> 64,
   atime |-> time, mtime |-> time, ctime |-> time, target |-> IF known THEN <<"t">> ELSE NoText, name |-> <<"f">>]
Second(n) == [secs |-> n]
SomeMode == {<<"u", "r">>, <<"u", "s">>, <<"g", "w">>, <<"g", "x">>, <<"o", "t">>}

(* A format is taken when some way of cutting it into flags, size,         *)
(* precision, form, part and datum exists.                                 *)
ReadFormat == Idle("listing") /\ \E fmt \in SeqOf({"0", "-", "1", ".", "S", "H", "p"}, 5) :
  Runs([prog |-> "stat format", fmt |-> fmt], ParseFormat(fmt, 1))
AllIn(fmt, i, j, S) == \A k \in i .. j - 1 : fmt[k] \in S
Cuts(fmt, n) ==
  \E a, b, c \in 1 .. n : \E form, part \in {0, 1} :
    /\ a <= b /\ b <= c /\ c + form + part = n
    /\ AllIn(fmt, 1, a, FormatFlags) /\ AllIn(fmt, a, b, Numerals)
    /\ b < c => fmt[b] = "." /\ AllIn(fmt, b + 1, c, Numerals)
    /\ AllIn(fmt, c, c + form, Forms0) /\ AllIn(fmt, c + form, n, {"H", "M", "L"})
    /\ fmt[n] \in Data0
FormatRight(fmt, d) ==
  IF d.what = "" THEN ~\E n \in DOMAIN fmt : Cuts(fmt, n)
  ELSE /\ Cuts(fmt, d.next - 1) /\ \A n \in 1 .. d.next - 2 : ~Cuts(fmt, n)
       /\ (d.ofmt # "") = \E k \in 1 .. d.next - 2 : fmt[k] \in Forms0
       /\ (d.prec >= 0) = ("." \in ToSet(SubSeq(fmt, 1, d.next - 1)))
       /\ "0" \in d.flags => \E k \in 1 .. d.next - 1 : fmt[k] = "0" /\ \A j \in 1 .. k : fmt[j] # "1"

ShowDatum == Idle("listing") /\ \E what \in Data0, hilo \in {"", "H", "M", "L"}, form \in Forms0 \cup {""},
    flags \in SUBSET {"#", "+", "0", "-"}, size \in {0 - 1, 9}, prec \in {0 - 1, 0, 2, 4},
    type \in {"reg", "link", "chr", "dir"}, secs \in {5, 20, 0 - 3} :
  /\ secs # 5 => what \in {"a", "m"} /\ type = "reg"
  /\ flags \notin {{}, {"#"}} => type = "reg" /\ size = 9
  /\ LET st == StatFile(type, IF type = "dir" THEN {} ELSE SomeMode, Second(secs), type # "chr")
         d == [flags |-> flags, size |-> size, prec |-> prec, ofmt |-> form, hilo |-> hilo, what |-> what]
     IN Runs([prog |-> "stat datum", st |-> st, d |-> d], Format1(st, <<"f">>, d))

(* What the manual gives each datum: its parts and its forms.              *)
PartsOf(what) ==
  CASE what \in {"d", "r"} -> {"", "H", "L"} [] what = "T" -> {"", "H", "L"} [] what \in {"p", "Z"} -> {"", "H", "M", "L"}
    [] OTHER -> {""}
FormsOf(st, what) ==
  CASE what \in {"a", "m", "c"} -> {"", "D", "O", "U", "X", "F", "S"}
    [] what \in {"Y", "T", "N"} -> {"", "S"}
    [] what \in {"d", "r", "p", "u", "g"} \/ (what = "Z" /\ st.type = "chr") -> {"", "D", "O", "U", "X", "S"}
    [] OTHER -> {"", "D", "O", "U", "X"}
Digits0(text) == SelectSeq(text, LAMBDA c : c \in ToSet(DigitChars))
ReadBack(text, base) == FoldLeft(LAMBDA n, c : base * n + NumeralValue(c), 0, Digits0(text))
BaseOf(form) == CASE form = "O" -> 8 [] form = "X" -> 16 [] OTHER -> 10
ModePart(st, hilo) ==
  CASE hilo = "H" -> TypeNumber(st.type) [] hilo = "" -> ModeNumber(st)
    [] hilo = "M" -> FoldSet(LAMBDA b, n : n + (WeightOf(b) \div 512), 0, st.mode)
    [] hilo = "L" -> FoldSet(LAMBDA b, n : n + (WeightOf(b) % 512), 0, st.mode)
DevicePart(dev, hilo) == CASE hilo = "" -> dev [] hilo = "H" -> dev \div WORD [] hilo = "L" -> dev % WORD
NumberOf(st, what, hilo) ==
  CASE what = "d" -> DevicePart(st.dev, hilo) [] what = "r" -> DevicePart(st.rdev, hilo) [] what = "p" -> ModePart(st, hilo)
    [] what = "u" -> st.uid [] what = "g" -> st.gid [] what = "i" -> st.ino [] what = "l" -> st.nlink
    [] what = "b" -> st.blocks [] what = "k" -> st.blksize [] OTHER -> st.size
(* A number reads back, a name is cut to the precision, and both fill the  *)
(* size.  The fraction of a second does not, and for a time before 1970 or *)
(* beyond one word, only a signed number is the time.                      *)
DatumRight(st, d, r) ==
  LET form == IF d.ofmt # "" THEN d.ofmt ELSE CASE d.what = "p" -> "O" [] d.what \in {"a", "m", "c"} -> "D"
                                          [] d.what \in {"Y", "T", "N"} -> "S" [] OTHER -> "U" IN
  /\ r.ok = (d.hilo \in PartsOf(d.what) /\ d.ofmt \in FormsOf(st, d.what))
  /\ r.ok => Len(r.text) >= d.size
  /\ r.ok /\ d.ofmt = "" /\ d.what # "Z" => Format1(st, <<"f">>, [d EXCEPT !.ofmt = form]).text = r.text \/ d.what = "Y"
  /\ r.ok /\ form \in Numbers0 /\ d.what \notin {"a", "m", "c", "Z"} =>
       /\ ReadBack(r.text, BaseOf(form)) = NumberOf(st, d.what, d.hilo)
       /\ Len(Digits0(r.text)) >= d.prec
  /\ r.ok /\ form \in Numbers0 /\ d.what \in {"a", "m", "c"} /\ (form = "D" \/ st.atime.secs = 5) =>
       (IF "-" \in ToSet(r.text) THEN 0 - 1 ELSE 1) * ReadBack(r.text, BaseOf(form)) = st.atime.secs
  /\ r.ok /\ form = "S" /\ d.prec >= 0 /\ d.what # "Z" => Len(SelectSeq(r.text, LAMBDA c : c # SP)) <= d.prec
  /\ r.ok /\ form = "F" => (d.prec = 0) = ("." \notin ToSet(r.text))

(* A run of stat: which format, for which file, and where the lines end.   *)
Found0(f) == <<f>>
StatFiles ==
  LET reg == StatFile("reg", SomeMode, Second(5), TRUE)
      link == StatFile("link", {}, Second(5), TRUE)
  IN {<<>>, Found0([own |-> reg, leadsTo |-> <<>>]), Found0([own |-> link, leadsTo |-> <<>>]),
      Found0([own |-> link, leadsTo |-> <<[reg EXCEPT !.name = <<"l">>]>>])}
GivenFormats == {<<"%", "@">>, <<"%", "@", "%", "n">>, <<"%", "H", "T">>, <<"%", "@", "%", "H", "i">>, <<"%", "@", "%">>}
StatRun == Idle("listing") /\ \E opts \in SeqOf({"F", "L", "n", "f", "l", "r", "s", "x"}, 3),
    files \in SeqOf(StatFiles, 2) \ {<<>>}, given \in GivenFormats :
  /\ "f" \notin ToSet(opts) => given = <<"%", "@">>
  /\ Len(opts) = 3 => "L" \in ToSet(opts)
  /\ Runs([prog |-> "stat", opts |-> opts, files |-> files, given |-> given], StatMain(opts, given, files))
Chosen0(opts) == SelectSeq(opts, LAMBDA c : c \in {"f", "l", "r", "s", "x"})
Refused(opts) == Len(Chosen0(opts)) > 1 \/ ("F" \in ToSet(opts) /\ ToSet(Chosen0(opts)) \notin SUBSET {"l"})
(* Every format of stat's own but that of -r can be printed.               *)
NeverPrints(opts, given) ==
  "r" \in ToSet(opts) \/ ("f" \in ToSet(opts) /\ given \in {<<"%", "@", "%", "H", "i">>, <<"%", "@", "%">>})
StatRight(opts, given, files, r) ==
  LET there == {n \in DOMAIN files : files[n] # <<>>}
      stops == NeverPrints(opts, given) /\ there # {} IN
  /\ (r.errs = 1) = (Refused(opts) \/ stops \/ there # DOMAIN files)
  /\ r.dead = (Refused(opts) \/ stops)
  /\ Refused(opts) => r.out = <<>>
  /\ ~r.dead /\ "n" \notin ToSet(opts) => (there = {}) = (r.out = <<>>) /\ (r.out # <<>> => Last(r.out) = NL)
  /\ ~r.dead /\ "f" \in ToSet(opts) /\ given = <<"%", "@">> =>
       SelectSeq(r.out, LAMBDA c : c # NL) = [k \in 1 .. Cardinality(there) |-> DigitChars[SetToSortSeq(there, <)[k] + 1]]
  /\ ~r.dead /\ "f" \in ToSet(opts) /\ given = <<"%", "@", "%", "n">> =>
       Cardinality({k \in DOMAIN r.out : r.out[k] = NL}) = Cardinality(there)
  /\ ~r.dead /\ "f" \in ToSet(opts) /\ given = <<"%", "H", "T">> =>
       SelectSeq(r.out, LAMBDA c : c # NL) =
         [k \in 1 .. Cardinality(there) |->
            LET f == files[SetToSortSeq(there, <)[k]][1]
            IN IF f.own.type = "link" /\ ("L" \notin ToSet(opts) \/ f.leadsTo = <<>>) THEN "link" ELSE "reg"]

ListingRight ==
  /\ call.prog = "ls" => LsRight(call.w, call.args, call.f, result)
  /\ call.prog = "ls order" => OrderRight(call.f, call.root, result)
  /\ call.prog = "ls lay out" => LayOutRight(call, result)
  /\ call.prog = "ls long" => LongRight(call.e, result)
  /\ call.prog = "strmode" => StrModeRight(call.mode, result)
  /\ call.prog = "ls options" => LsOptionsRight(call.opts, call.tty, result)
  /\ call.prog = "stat format" => FormatRight(call.fmt, result)
  /\ call.prog = "stat datum" => DatumRight(call.st, call.d, result)
  /\ call.prog = "stat" => StatRight(call.opts, call.given, call.files, result)
ListingNext ==
  ListTree \/ OrderEntries \/ LayOut \/ LongLine \/ ShowMode \/ LsOptions \/ ReadFormat \/ ShowDatum \/ StatRun
=============================================================================
