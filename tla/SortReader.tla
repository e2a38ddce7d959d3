------------------------------- MODULE SortReader -------------------------------
(***************************************************************************)
(* sort: how the command line is read, how files are cut into lines        *)
(* through a buffer, and what a sort and a merge of files write            *)
(* (core/coreutils/src/utils/sort/{sort,file,bwstring}.c)                  *)
(***************************************************************************)
EXTENDS SortKeys, LibSorts

(* bwscsbdup: a line becomes wide characters.  A byte is ASCII, one that   *)
(* begins a character of two or three bytes, or one that continues it;     *)
(* need is what mbrlen still waits for, and -1 and -2 are its errors.      *)
Needs(byte) == CASE byte = "2" -> 1 [] byte = "3" -> 2 [] OTHER -> 0
(* Continuation bytes of s, as many as are needed.                         *)
MbrRest(s, taken, need) ==
  IF need = 0 THEN [n |-> taken, need |-> 0]
  ELSE IF Len(s) < need /\ \A k \in DOMAIN s : s[k] = "c" THEN [n |-> -2, need |-> need - Len(s)]
  ELSE IF Len(s) >= need /\ \A k \in 1 .. need : s[k] = "c" THEN [n |-> taken + need, need |-> 0]
  ELSE [n |-> -1, need |-> 0]
MbrLen(s, need) ==
  IF need > 0 THEN MbrRest(s, 0, need)
  ELSE IF s[1] = "c" THEN [n |-> -1, need |-> 0]
  ELSE MbrRest(Tail(s), 1, Needs(s[1]))
Dies == <<"mbrtowc error">>
RECURSIVE WideFrom(_, _, _), WideStep(_, _, _)
WideStep(s, out, m) ==
  IF m.n < 0 THEN WideFrom(Tail(s), Append(out, <<s[1]>>), m.need)
  ELSE IF s[1] = "c" THEN Dies          \* what mbrlen took was the end of a character
  ELSE WideFrom(From(s, m.n + 1), Append(out, Upto(s, m.n)), 0)
WideFrom(s, out, need) == IF s = <<>> THEN out ELSE WideStep(s, out, MbrLen(s, need))
BwsFromBytes(s) == WideFrom(s, <<>>, 0)
(* bwsfwrite: a byte kept as a character is written as that character, two *)
(* bytes.                                                                  *)
BwsWrite(chars) ==
  FlattenSeq([k \in DOMAIN chars |-> IF Len(chars[k]) = 1 /\ chars[k] # <<"a">> THEN <<"2", "c">> ELSE chars[k]])

(* bwsncmp and bwscmp: the result of memcmp on what both have, then the    *)
(* lengths.                                                                *)
MemCmp(a, b) ==
  LET differ == {i \in DOMAIN a : a[i] # b[i]} IN IF differ = {} THEN 0 ELSE Code(a[Min(differ)]) - Code(b[Min(differ)])
BwsNCmp(a, b, offset, len) ==
  LET n == Smaller(len, Smaller(Len(a), Len(b)) - offset)
  IN CASE Len(a) <= offset -> IF Len(b) <= offset THEN 0 ELSE -1
       [] Len(b) <= offset /\ Len(a) > offset -> 1
       [] OTHER -> MemCmp(SubSeq(a, offset + 1, offset + n), SubSeq(b, offset + 1, offset + n))
BwsCmp(a, b, offset) ==
  OrElse(BwsNCmp(a, b, offset, Smaller(Len(a), Len(b)) - offset), Sign(Len(a) - Len(b)))

(* gnumcoll: a key is empty, no number (nan) or a number, which may be out *)
(* of range (err): -Huge and Huge.  A key remembers a number in range.     *)
Huge == 3
GHint(v, h) == IF h = "HS_UNINITIALIZED" /\ ~v.empty THEN IF v.err THEN "HS_ERROR" ELSE "HS_INITIALIZED" ELSE h
GValues(v, w) ==
  CASE v.nan -> IF w.nan THEN 0 ELSE -1
    [] w.nan /\ ~v.nan -> 1
    [] OTHER -> Sign(v.d - w.d)
OutOfRange(v, d) == v.err /\ v.d = d
GRead(v, w) ==
  CASE v.empty -> IF w.empty THEN 0 ELSE -1
    [] w.empty /\ ~v.empty -> 1
    [] v.nan \/ w.nan -> IF v.empty \/ w.empty THEN 0 ELSE GValues(v, w)
    [] OTHER ->
         IF OutOfRange(v, -Huge) # OutOfRange(w, -Huge) THEN IF OutOfRange(v, -Huge) THEN -1 ELSE 1
         ELSE IF OutOfRange(v, Huge) # OutOfRange(w, Huge) THEN IF OutOfRange(v, Huge) THEN 1 ELSE -1
         ELSE Sign(v.d - w.d)
GNumColl(v, hv, w, hw) ==
  IF GHint(v, hv) = "HS_INITIALIZED" /\ GHint(w, hw) = "HS_INITIALIZED" THEN GValues(v, w) ELSE GRead(v, w)

-----------------------------------------------------------------------------
(* The modifiers of a key are the set of their letters.                    *)
Exclusive == {"M", "n", "g", "R", "h", "V"}
(* check_mutually_exclusive_flags.                                         *)
MefOk(c, mef) == c \in Exclusive => mef \subseteq {c}
MefAfter(c, mef) == IF c \in Exclusive THEN mef \cup {c} ELSE mef
(* set_sort_modifier; -R is compiled out.                                  *)
Modifiers == {"b", "d", "f", "g", "i", "M", "n", "r", "V", "h"}
SortModifierEmpty(sm) == sm \cap {"M", "V", "n", "g", "r", "R", "h", "d", "f"} = {}
GetSortFunc(sm) ==
  CASE "n" \in sm -> "numcoll" [] "h" \in sm -> "hnumcoll" [] "g" \in sm -> "gnumcoll"
    [] "M" \in sm -> "monthcoll" [] "V" \in sm -> "versioncoll" [] OTHER -> "wstrcoll"

(* parse_pos.  status is the exit status of a refused key, 0 for none.     *)
Position(s) ==
  LET n == Span(s, Digits)
      c == IF n < Len(s) /\ s[n + 1] = "." THEN Span(From(s, n + 2), Digits) ELSE 0
      e == IF c > 0 THEN n + 1 + c ELSE n
  IN [matches |-> n > 0 /\ ToSet(From(s, e + 1)) \subseteq Modifiers \cup {"R"},
      field |-> DigitsValue(Upto(s, n)), columns |-> c > 0,
      column |-> DigitsValue(SubSeq(s, n + 2, n + 1 + c)), mods |-> From(s, e + 1)]
AddMod(second, st, c) ==
  IF st.status # 0 THEN st
  ELSE IF ~MefOk(c, st.mef) THEN [st EXCEPT !.status = 1]
  ELSE IF c = "R" THEN [st EXCEPT !.status = 2]
  ELSE IF c # "b" THEN [st EXCEPT !.sm = @ \cup {c}, !.mef = MefAfter(c, @)]
  ELSE IF second THEN [st EXCEPT !.spec.pos2b = TRUE] ELSE [st EXCEPT !.spec.pos1b = TRUE]
AddPosition(st, p, second) ==
  IF ~p.matches \/ p.field = 0 \/ (p.columns /\ p.column = 0 /\ ~second) THEN [st EXCEPT !.status = 2]
  ELSE FoldLeft(LAMBDA k, c : AddMod(second, k, c),
         IF second THEN [st EXCEPT !.spec.f2 = p.field, !.spec.c2 = p.column]
         ELSE [st EXCEPT !.spec.f1 = p.field, !.spec.c1 = IF p.columns THEN p.column ELSE 1], p.mods)
ParsePos(st, s, second) == IF st.status # 0 THEN st ELSE AddPosition(st, Position(s), second)
NewKey == [spec |-> KeySpec(0, 0, FALSE, 0, 0, FALSE), sm |-> {}, mef |-> {}, status |-> 0]
(* parse_k.                                                                *)
ParseK(s) ==
  LET comma == FirstOf(s, {","})
  IN CASE s = <<>> \/ comma = 1 -> [NewKey EXCEPT !.status = 2]
       [] comma > 1 -> ParsePos(ParsePos(NewKey, Upto(s, comma - 1), FALSE), From(s, comma + 1), TRUE)
       [] OTHER -> ParsePos(NewKey, s, FALSE)

(* fix_obsolete_keys: "+1.2n -3.4" becomes "-k2.3n,4.4", in an argument    *)
(* vector without the program's name.                                      *)
ObsPosition(s) ==
  LET p == Position(SelectSeq(s, LAMBDA c : c \notin Letters \cup Modifiers))
      letters == {k \in DOMAIN s : s[k] \in Letters \cup Modifiers}
  IN [p EXCEPT !.matches = @ /\ \A k \in letters : k > Len(s) - Cardinality(letters),
               !.mods = From(s, Len(s) - Cardinality(letters) + 1)]
Numeral(n) == <<CASE n = 0 -> "0" [] n = 1 -> "1" [] n = 2 -> "2" [] OTHER -> "9">>
Printed0(f, c, mods) == Numeral(f) \o <<".">> \o Numeral(c) \o mods
IsOldEnd(arg) == Len(arg) > 1 /\ arg[1] = "-" /\ ObsPosition(Tail(arg)).matches
NewEnd(p) == Printed0(IF p.column > 0 THEN p.field + 1 ELSE p.field, p.column, p.mods)
NewStart(p) == <<"-", "k">> \o Printed0(p.field + 1, p.column + 1, p.mods)
RECURSIVE FixObsoleteKeys(_)
FixObsoleteKeys(args) ==
  CASE args = <<>> -> <<>>
    [] args # <<>> ->
         IF ~(Len(Head(args)) > 1 /\ Head(args)[1] = "+" /\ ObsPosition(Tail(Head(args))).matches)
           THEN <<Head(args)>> \o FixObsoleteKeys(Tail(args))
         ELSE IF Len(args) > 1 /\ IsOldEnd(args[2])
           THEN <<NewStart(ObsPosition(Tail(args[1]))) \o <<",">> \o NewEnd(ObsPosition(Tail(args[2])))>>
                \o FixObsoleteKeys(From(args, 3))
         ELSE <<NewStart(ObsPosition(Tail(args[1])))>> \o FixObsoleteKeys(Tail(args))

(* main: one option.  -k and the like have an argument, in characters.     *)
NoSortOptions ==
  [sm |-> {}, mef |-> {}, keys |-> <<>>, flags |-> {}, tsep |-> "", symbols |-> {".", ",", "-", "+"},
   method |-> "default", out |-> <<"-">>, batch |-> 16, files |-> <<>>, status |-> 0]
RECURSIVE FieldSep(_)
FieldSep(arg) ==                        \* -t: a character, or "\\0"
  CASE arg = <<>> -> "nul"
    [] Len(arg) = 1 -> arg[1]
    [] Len(arg) > 1 -> IF arg[1] # BS THEN "bad" ELSE IF arg[2] = "0" THEN "nul" ELSE FieldSep(Tail(arg))
AddKey(st, k) ==
  [st EXCEPT !.status = k.status, !.keys = Append(@, [spec |-> k.spec, sm |-> k.sm]), !.flags = @ \cup {"complex"}]
SetSep(st, c) ==
  IF c = "bad" THEN [st EXCEPT !.status = 2]
  ELSE [st EXCEPT !.tsep = c, !.flags = @ \cup {"t"}, !.symbols = @ \ {c}]
SortWords == [w \in {<<"n">>, <<"h">>, <<"M">>, <<"g">>} |-> w[1]]   \* numeric, human-numeric, ...
Modified(st, c) == [st EXCEPT !.sm = @ \cup {c}, !.flags = @ \cup {"complex"}]
LongOption(st, o) ==
  CASE o.c = "sort" -> IF o.arg \in DOMAIN SortWords THEN Modified(st, SortWords[o.arg]) ELSE [st EXCEPT !.status = 2]
    [] o.c \in {"qsort", "mergesort", "heapsort"} -> [st EXCEPT !.method = o.c]
    [] o.c = "batch-size" -> IF DigitsValue(o.arg) >= 2 THEN [st EXCEPT !.batch = DigitsValue(o.arg) + 1] ELSE st
    [] o.c = "files0-from" -> [st EXCEPT !.files = @ \o SelectSeq(Pieces(o.arg, {NL}), LAMBDA n : n # <<>>)]
    [] o.c = "R" -> [st EXCEPT !.status = 2]
OtherOption(st, o) ==
  CASE o.c = "c" -> IF o.arg \in {<<>>, <<"d">>} THEN [st EXCEPT !.flags = @ \cup {"c"}]
                    ELSE IF o.arg = <<"q">> THEN [st EXCEPT !.flags = @ \cup {"c", "silent"}]
                    ELSE [st EXCEPT !.status = 2]
    [] o.c = "C" -> [st EXCEPT !.flags = @ \cup {"c", "silent"}]
    [] o.c = "k" -> AddKey(st, ParseK(o.arg))
    [] o.c \in {"m", "s", "z"} -> [st EXCEPT !.flags = @ \cup {o.c}]
    [] o.c = "u" -> [st EXCEPT !.flags = @ \cup {"u", "s"}]
    [] o.c = "o" -> [st EXCEPT !.out = o.arg]
    [] o.c = "t" -> SetSep(st, FieldSep(o.arg))
    [] OTHER -> LongOption(st, o)
SortOption(st, o) ==
  IF st.status # 0 THEN st
  ELSE IF ~MefOk(o.c, st.mef) THEN [st EXCEPT !.status = 1]
  ELSE IF o.c \in Modifiers THEN Modified([st EXCEPT !.mef = MefAfter(o.c, @)], o.c)
  ELSE OtherOption([st EXCEPT !.mef = MefAfter(o.c, @)], o)
(* ... and after the last one: the keys without a modifier of their own    *)
(* take those given for all, and without a key the line is one.            *)
KeyInherits(k, sm) ==
  IF SortModifierEmpty(k.sm) /\ ~k.spec.pos1b /\ ~k.spec.pos2b
    THEN [spec |-> [k.spec EXCEPT !.pos1b = "b" \in sm, !.pos2b = "b" \in sm], sm |-> sm] ELSE k
WithFuncs(keys) == [k \in DOMAIN keys |-> [spec |-> keys[k].spec, sm |-> keys[k].sm, func |-> GetSortFunc(keys[k].sm)]]
SortFinish(st, operands) ==
  IF st.status # 0 THEN st
  ELSE IF {"c", "m"} \subseteq st.flags THEN [st EXCEPT !.status = 1]
  ELSE [st EXCEPT !.keys = WithFuncs(IF @ = <<>> THEN <<[spec |-> WholeLine("b" \in st.sm), sm |-> st.sm]>>
                                     ELSE [k \in DOMAIN @ |-> KeyInherits(@[k], st.sm)]),
                  !.files = IF @ = <<>> THEN operands ELSE @]
SortMain(opts, operands) == SortFinish(FoldLeft(SortOption, NoSortOptions, opts), operands)

(* parse_memory_buffer_value, KiloBase for 1024 and memory of Word units.      *)
KiloBase == 4
MemoryUnits == <<"b", "K", "M", "G", "T", "P", "E", "Z", "Y">>
MemoryValue(value, available, word) ==
  LET n == Span(value, Digits)
      number == DigitsValue(Upto(value, n))
      suffix == IF n = Len(value) THEN "K" ELSE value[n + 1]
      unit == SelectInSeq(MemoryUnits, LAMBDA u : u = suffix)
  IN CASE suffix = "%" -> (available * number) \div 100
       [] unit > 0 -> FoldLeft(LAMBDA m, k : (m * KiloBase) % word, number, [k \in 1 .. unit - 1 |-> k])
       [] OTHER -> available

-----------------------------------------------------------------------------
(* fread: what comes, what is left, and whether the end was met.           *)
Fread(rest, n) == [got |-> Upto(rest, Smaller(n, Len(rest))), rest |-> From(rest, n + 1),
                   eof |-> Len(rest) < n]

(* file_reader_init.  r: the buffer (stale bytes included), how much of it *)
(* counts, where the next line begins, what the file still holds.          *)
(* Variant with a mistake: the whole buffer counts, however much was read. *)
FileReaderInitFull(bytes, chunk) ==
  LET f == Fread(bytes, chunk)
  IN [buf |-> f.got \o Repeat("?", chunk - Len(f.got)), bsz |-> chunk, strbeg |-> 0,
      rest |-> f.rest, eof |-> f.eof]
FileReaderInit(bytes, chunk) ==
  LET f == Fread(bytes, chunk)
  IN [buf |-> f.got \o Repeat("?", chunk - Len(f.got)), bsz |-> Len(f.got), strbeg |-> 0,
      rest |-> f.rest, eof |-> f.eof]

(* file_reader_readline: the cycle that looks for the end of a line, and   *)
(* the line it gives.                                                      *)
Overwrite(buf, at, s) ==
  [i \in 1 .. Larger(Len(buf), at + Len(s)) |-> IF i \in at + 1 .. at + Len(s) THEN s[i - at] ELSE buf[i]]
RECURSIVE LineEnd(_, _)
LineEnd(r, chunk) ==
  LET remsz == Larger(r.bsz - r.strbeg, 0)
      hits == {i \in r.strbeg + 1 .. r.strbeg + remsz : r.buf[i] = NL}
      grow == remsz > chunk \div 2
      moved == IF grow THEN r
               ELSE [r EXCEPT !.buf = Overwrite(@, 0, SubSeq(@, r.strbeg + 1, r.strbeg + remsz)),
                              !.strbeg = 0]
      at == IF grow THEN r.bsz ELSE remsz
      f == Fread(r.rest, IF grow THEN chunk ELSE Len(r.buf) - remsz)
      filled == [moved EXCEPT !.buf = Overwrite(@, at, f.got), !.bsz = at + Len(f.got),
                              !.rest = f.rest, !.eof = f.eof]
  IN IF hits # {} THEN [r |-> r, strend |-> Min(hits) - 1, remsz |-> remsz]
     ELSE IF r.eof THEN [r |-> r, strend |-> r.bsz, remsz |-> remsz]
     ELSE IF f.got = <<>> THEN [r |-> [moved EXCEPT !.eof = f.eof], strend |-> r.bsz, remsz |-> remsz]
     ELSE LineEnd(filled, chunk)
RECURSIVE FileReaderLines(_, _)
FileReaderLines(r, chunk) ==
  LET e == LineEnd(r, chunk)
      there == e.r.strbeg <= e.strend /\ e.r.strbeg < e.r.bsz /\ e.remsz > 0
      line == SubSeq(e.r.buf, e.r.strbeg + 1, e.strend)
  IN IF there THEN <<line>> \o FileReaderLines([e.r EXCEPT !.strbeg = e.strend + 1], chunk) ELSE <<>>
SortReads(bytes, chunk) == FileReaderLines(FileReaderInit(bytes, chunk), chunk)

(* bwsfgetln, which standard input is read with: fgets in pieces.  When    *)
(* the file ends where a piece does, strlen is given the null pointer.     *)
Fgets(bytes, size) ==
  LET nl == FirstOf(bytes, {NL})
      n == IF nl # 0 /\ nl < size THEN nl ELSE Smaller(size - 1, Len(bytes))
  IN [got |-> Upto(bytes, n), rest |-> From(bytes, n + 1),
      eof |-> n = Len(bytes) /\ n < size - 1 /\ (n = 0 \/ bytes[n] # NL)]
Undefined == <<"undefined">>
RECURSIVE RestOfLine(_, _, _)
RestOfLine(buf, bytes, size) ==
  LET f == Fgets(bytes, size)
      all == buf \o f.got
  IN IF f.got = <<>> THEN [line |-> Undefined, rest |-> <<>>]
     ELSE IF Last(all) = NL THEN [line |-> Front(all), rest |-> f.rest]
     ELSE IF f.eof THEN [line |-> all, rest |-> f.rest]
     ELSE RestOfLine(all, f.rest, size)
RECURSIVE StdinLines(_, _)
StdinLines(bytes, size) ==
  LET l == RestOfLine(<<>>, bytes, size)
  IN IF bytes = <<>> THEN <<>>
     ELSE IF l.line = Undefined THEN <<Undefined>>
     ELSE <<l.line>> \o StdinLines(l.rest, size)

-----------------------------------------------------------------------------
(* Writing lines: a line is <<text, n>>, n its place in the whole input,   *)
(* and c the command: its keys and options.  list_coll as a function.      *)
Coll(lines, c) == [a, b \in ToSet(lines) |-> Sign(ListColl(c.keys, a[1], b[1], c.o))]

(* sort_list_to_file, mt_sort and sort_list_dump: -s and -u need the       *)
(* stable sort; -u leaves out what equals the line printed last.           *)
Unique(lines, cmp) ==
  FoldLeft(LAMBDA out, x : IF out # <<>> /\ cmp[Last(out), x] = 0 THEN out ELSE Append(out, x),
           <<>>, lines)
SortedBy(lines, cmp, o) == IF o.s THEN MergeSort(lines, cmp) ELSE HeapSort(lines, cmp)
SortedOrUnique(lines, cmp, o) ==
  IF o.u THEN Unique(SortedBy(lines, cmp, o), cmp) ELSE SortedBy(lines, cmp, o)
SortOf(c, lines) == SortedOrUnique(lines, Coll(lines, c), c.o)

(* file_header_cmp: the readers' lines, then their places; those at their  *)
(* end come last.  A reader is the lines it has left.                      *)
(* Variant with a mistake: equal lines of several files are not told apart. *)
HeaderCmpLines(rest, i, j, cmp) ==
  CASE i = j -> 0
    [] rest[i] = <<>> -> IF rest[j] = <<>> THEN 0 ELSE 1
    [] rest[i] # <<>> /\ rest[j] = <<>> -> -1
    [] OTHER -> cmp[Head(rest[i]), Head(rest[j])]
HeaderCmp(rest, i, j, cmp) ==
  CASE i = j -> 0
    [] rest[i] = <<>> -> IF rest[j] = <<>> THEN 0 ELSE 1
    [] rest[i] # <<>> /\ rest[j] = <<>> -> -1
    [] OTHER -> LET c == cmp[Head(rest[i]), Head(rest[j])]
                IN IF c # 0 THEN c ELSE IF i < j THEN -1 ELSE 1
RECURSIVE HeapSwim(_, _, _, _)
HeapSwim(heap, k, rest, cmp) ==
  IF k = 1 \/ HeaderCmp(rest, heap[k], heap[k \div 2], cmp) >= 0 THEN heap
  ELSE HeapSwim(Swap(heap, k, k \div 2), k \div 2, rest, cmp)
RECURSIVE HeapSink(_, _, _, _)
HeapSink(heap, k, rest, cmp) ==
  LET l == 2 * k
      c == IF l + 1 <= Len(heap) /\ HeaderCmp(rest, heap[l], heap[l + 1], cmp) > 0 THEN l + 1 ELSE l
  IN IF l > Len(heap) \/ HeaderCmp(rest, heap[k], heap[c], cmp) <= 0 THEN heap
     ELSE HeapSink(Swap(heap, k, c), c, rest, cmp)
(* file_headers_merge with file_header_print and file_header_read_next.    *)
RECURSIVE HeadersMerge(_, _, _, _, _)
HeadersMerge(heap, rest, out, cmp, o) ==
  LET h == heap[1]
      line == Head(rest[h])
      next == [rest EXCEPT ![h] = Tail(@)]
      same == o.u /\ out # <<>> /\ cmp[Last(out), line] = 0
  IN IF rest[h] = <<>> THEN out
     ELSE HeadersMerge(HeapSink(heap, 1, next, cmp), next,
                       IF same THEN out ELSE Append(out, line), cmp, o)
(* merge_files_array: what it writes, from the files as they are once the  *)
(* output file is open.                                                    *)
MergeReaders(rest, cmp, o) ==
  HeadersMerge(FoldLeft(LAMBDA h, i : HeapSwim(Append(h, i), i, rest, cmp), <<>>,
                        [i \in DOMAIN rest |-> i]),
               rest, <<>>, cmp, o)
MergeOf(c, rest) == MergeReaders(rest, Coll(FlattenSeq(rest), c), c.o)

(* sort -c (check): whether the lines are in order, and with -u without    *)
(* two that compare equal; the first line that is not, 0 for none.         *)
CheckSorted(lines, o, keys) ==
  LET late(c) == IF o.u THEN c <= 0 ELSE c < 0
      bad == {i \in 1 .. Len(lines) - 1 : late(ListColl(keys, lines[i + 1], lines[i], o))}
  IN IF bad = {} THEN 0 ELSE Min(bad) + 1

-----------------------------------------------------------------------------
(* sort compares and writes the lines of its input, each of them once and  *)
(* whole, wherever the buffer's ends fall.                                 *)
FileLines(bytes) == LET l == Lines(bytes) IN [k \in DOMAIN l |-> Chomp(l[k])]
ReaderReads(bytes, chunk) == SortReads(bytes, chunk) = FileLines(bytes)
StdinReads(bytes, size) ==
  LET tail == Last(<<<<>>>> \o Lines(bytes))
  IN \/ StdinLines(bytes, size) = FileLines(bytes)
     \/ tail # <<>> /\ Last(tail) # NL /\ Len(tail) % (size - 1) = 0
=============================================================================
