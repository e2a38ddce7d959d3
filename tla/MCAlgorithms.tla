------------------------------ MODULE MCAlgorithms ------------------------------
(***************************************************************************)
(* The comparisons, sorts and graph algorithms on all small inputs: an     *)
(* action chooses one, its input and computes the result.                  *)
(***************************************************************************)
EXTENDS ProgramCalls, SortKeys, LibSorts, SortReader, SearchTables

-----------------------------------------------------------------------------
KeyOfLine == Idle("keys") /\ \E s \in Texts({"a", SP, ":"}, 4), spec \in KeySpecs(2), t \in {"", ":"} :
  Runs([prog |-> "key", s |-> s, spec |-> spec, t |-> t], CutField(s, spec, t))
KeyOfOldLine == Idle("keys") /\ \E s \in Texts({"a", SP, ":"}, 5), f1, c1, c2 \in 0 .. 1, f2 \in 0 .. 2, t \in {"", ":"} :
  /\ f2 + c2 > 0
  /\ Runs([prog |-> "old key", s |-> s, f1 |-> f1, c1 |-> c1, f2 |-> f2, c2 |-> c2, t |-> t],
          CutField(s, ObsoleteKey(f1, c1, f2, c2), t))

-----------------------------------------------------------------------------
PlainKey(order) == [b |-> FALSE, d |-> FALSE, i |-> FALSE, f |-> FALSE, r |-> FALSE, order |-> order,
                    spec |-> WholeLine(FALSE)]
PlainOptions == [t |-> "", s |-> FALSE, complex |-> TRUE, r |-> FALSE]
CompareNumbers == Idle("keys") /\ \E a, b \in Texts({"0", "2", "-", ".", "K"}, 3) :
  Runs([prog |-> "number", a |-> a, b |-> b], NumColl(a, NoHint, b, NoHint, FALSE))
CompareLongNumbers == Idle("keys") /\ \E a, b \in Texts({"0", "9", "1"}, 3) :
  Runs([prog |-> "number", a |-> a, b |-> b], NumColl(a, NoHint, b, NoHint, FALSE))
CompareVersions == Idle("keys") /\ \E a, b, c \in Texts({"0", "1", ".", "a", "~"}, 2)
                                      \cup {<<"a", ".", "a">>, <<"a", "0", ".", "a">>} :
  Runs([prog |-> "order", a |-> a, b |-> b, c |-> c, keys |-> <<PlainKey("V")>>], <<>>)
CompareSizes == Idle("keys") /\ \E a, b, c \in Texts({"0", "2", "-", "K"}, 2) :
  Runs([prog |-> "order", a |-> a, b |-> b, c |-> c, keys |-> <<PlainKey("h")>>], <<>>)
CompareText == Idle("keys") /\ \E a, b, c \in Texts({"a", "A", "-"}, 2) \cup {<<SP, "a">>, <<SP, "-">>, <<"a", SP>>},
                                  d, i, f, blanks \in BOOLEAN :
  Runs([prog |-> "order", a |-> a, b |-> b, c |-> c,
        keys |-> <<[PlainKey("") EXCEPT !.d = d, !.i = i, !.f = f, !.b = blanks]>>], <<>>)
CompareByTwoKeys == Idle("keys") /\ \E a, b, c \in Texts({"0", "2", SP}, 2)
                                               \cup {<<x, SP, y>> : x, y \in {"0", "2", SP}}, r \in BOOLEAN :
  Runs([prog |-> "order", a |-> a, b |-> b, c |-> c,
        keys |-> <<[PlainKey("n") EXCEPT !.spec = KeySpec(2, 1, FALSE, 0, 0, FALSE), !.r = r],
                   [PlainKey("") EXCEPT !.spec = KeySpec(1, 1, TRUE, 1, 0, FALSE)]>>], <<>>)
(* What sort is told: keys, in both notations, and options.                *)
ReadKey == Idle("keys") /\ \E s \in Texts({"0", "1", ".", "b", "n", "h", ","}, 5) :
  Runs([prog |-> "k", s |-> s], ParseK(s))
OtherOperands == {<<"a">>, <<"-", "n">>, <<"-", "1">>, <<"+", "a">>, <<"-">>}
OldPlace(sign, f, c, m) == <<sign>> \o Numeral(f) \o (IF c = 0 THEN <<>> ELSE <<".">> \o Numeral(c)) \o m
ReadOldKey == Idle("keys") /\ \E before, after \in OtherOperands, f1, c1, f2, c2 \in 0 .. 1, m1, m2 \in {<<>>, <<"n">>} :
  LET args == <<before, OldPlace("+", f1, c1, m1), OldPlace("-", f2, c2, m2), after>>
  IN Runs([prog |-> "old", args |-> args, spec |-> ObsoleteKey(f1, c1, f2, c2), given |-> f2 + c2 > 0,
           sm |-> ToSet(m1 \o m2)], FixObsoleteKeys(args))
GivenOptions ==
  [c : {"n", "M", "b", "i", "r", "R", "m", "u"}, arg : {<<>>}]
  \cup [c : {"k"}, arg : {<<"1">>, <<"2", "n">>, <<"1", "b">>, <<"2", "i">>, <<"1", "n", ",", "2", "h">>}]
  \cup {[c |-> "c", arg |-> <<>>], [c |-> "c", arg |-> <<"q">>], [c |-> "sort", arg |-> <<"h">>],
        [c |-> "sort", arg |-> <<"a">>], [c |-> "t", arg |-> <<BS, "0">>], [c |-> "t", arg |-> <<"a", "b">>]}
ReadSortOptions == Idle("keys") /\ \E opts \in Texts(GivenOptions, 3) :
  Runs([prog |-> "options", opts |-> opts], SortMain(opts, <<"f">>))
(* Numbers of -g: in range, too large (err), no number, nothing.           *)
GNumbers ==
  {[empty |-> e, nan |-> nan, err |-> err, d |-> d] : e, nan, err \in BOOLEAN, d \in {-Huge, -1, 0, 1, Huge}}
GeneralNumbers ==
  {v \in GNumbers : /\ v.empty => ~v.nan /\ ~v.err /\ v.d = 0
                    /\ v.nan => ~v.err /\ v.d = 0
                    /\ v.err => v.d \in {-Huge, 0, Huge}}
CompareGeneral == Idle("keys") /\ \E v, w, x \in GeneralNumbers :
  Runs([prog |-> "general", v |-> v, w |-> w, x |-> x], <<>>)
CompareBytes == Idle("keys") /\ \E a, b \in Texts({SP, "A", "a"}, 3) :
  Runs([prog |-> "bytes", a |-> a, b |-> b], BwsCmp(a, b, 0))
ReadMemory == Idle("keys") /\ \E n, m \in Texts({"1", "2"}, 1) \ {<<>>}, k \in DOMAIN MemoryUnits, l \in {"", "%", "A"} :
  Runs([prog |-> "memory", n |-> n, m |-> m, k |-> k, l |-> l],
       <<MemoryValue(n \o <<MemoryUnits[k]>>, 50, 1024), MemoryValue(n \o (IF l = "" THEN <<>> ELSE <<l>>), 50, 1024)>>)

(* "f.cMODS[,f.cMODS]", fields counted from 1, the first column from 1.    *)
KeyPlace(s, i, j, low) ==
  [f |-> DigitsValue(Upto(s, i)), c |-> IF j = i THEN low ELSE DigitsValue(SubSeq(s, i + 2, j)),
   mods |-> ToSet(From(s, j + 1))]
Positions(s, low) ==
  {KeyPlace(s, p[1], p[2], low) : p \in
     {p \in (DOMAIN s) \X (DOMAIN s) :
        /\ p[2] = p[1] \/ (p[2] > p[1] + 1 /\ s[p[1] + 1] = ".")
        /\ \A k \in 1 .. p[2] : k <= p[1] \/ k > p[1] + 1 => s[k] \in Digits
        /\ ToSet(From(s, p[2] + 1)) \subseteq Modifiers
        /\ DigitsValue(Upto(s, p[1])) > 0
        /\ p[2] > p[1] => DigitsValue(SubSeq(s, p[1] + 2, p[2])) >= low}}
NoPlace == [f |-> 0, c |-> 0, mods |-> {}]
KeyPlaces(s, comma) ==
  {pq \in IF comma = 0 THEN Positions(s, 1) \X {NoPlace}
          ELSE Positions(Upto(s, comma - 1), 1) \X Positions(From(s, comma + 1), 0) :
     Cardinality(Exclusive \cap (pq[1].mods \cup pq[2].mods)) <= 1}
KeyRead(s, k) ==
  LET ways == KeyPlaces(s, FirstOf(s, {","}))
  IN IF ways = {} THEN k.status > 0
     ELSE k.status = 0 /\ \E pq \in ways :
            /\ k.spec = KeySpec(pq[1].f, pq[1].c, "b" \in pq[1].mods, pq[2].f, pq[2].c, "b" \in pq[2].mods)
            /\ k.sm = (pq[1].mods \cup pq[2].mods) \ {"b"}
(* "+f.c -f.c" becomes one key between what stays as it is; the code       *)
(* refuses "+0 -0", which POSIX takes for an empty key.                    *)
OldKeyRead(args, spec, given, sm, new) ==
  LET k == ParseK(From(new[2], 3))
  IN /\ Len(new) = 3 /\ new[1] = args[1] /\ new[3] = args[4]
     /\ Upto(new[2], 2) = <<"-", "k">>
     /\ IF given THEN k.status = 0 /\ k.spec = spec /\ k.sm = sm ELSE k.status = 2
(* A key has its own modifiers or, without any, those given for all; -i    *)
(* alone is none of its own, as the code has it.  --sort meets no check.   *)
ModifiersGiven(opts) ==
  {o.c : o \in {o \in ToSet(opts) : o.c \in Modifiers}} \cup (IF [c |-> "sort", arg |-> <<"h">>] \in ToSet(opts) THEN {"h"} ELSE {})
KeyRefused(o) ==
  CASE o.c = "R" -> TRUE [] o.c = "k" -> ParseK(o.arg).status # 0
    [] o.c = "sort" -> o.arg # <<"h">> [] o.c = "t" -> o.arg[1] # BS [] OTHER -> FALSE
OptionsFail(opts) ==
  \/ \E o \in ToSet(opts) : KeyRefused(o)
  \/ Cardinality(Exclusive \cap {o.c : o \in ToSet(opts)}) > 1
  \/ {"c", "m"} \subseteq {o.c : o \in ToSet(opts)}
KeyOptions(opts) == SelectSeq(opts, LAMBDA o : o.c = "k")
KeyRightOf(given, all, key) ==
  LET own == given.sm \ {"i"} # {} \/ given.spec.pos1b \/ given.spec.pos2b
      order == Exclusive \cap key.sm
  IN /\ key.sm = IF own THEN given.sm ELSE all
     /\ key.spec = [given.spec EXCEPT !.pos1b = IF own THEN @ ELSE "b" \in all, !.pos2b = IF own THEN @ ELSE "b" \in all]
     /\ order = {} => key.func = "wstrcoll"
     /\ \A m \in order : Cardinality(order) = 1 => key.func = GetSortFunc({m}) /\ key.func # "wstrcoll"
OptionsRead(opts, r) ==
  /\ (r.status = 0) = ~OptionsFail(opts)
  /\ r.status = 0 =>
       /\ LET ks == KeyOptions(opts)
          IN IF ks = <<>> THEN Len(r.keys) = 1 /\ KeyRightOf([spec |-> WholeLine(FALSE), sm |-> {}], ModifiersGiven(opts), r.keys[1])
             ELSE Len(r.keys) = Len(ks) /\ \A n \in DOMAIN ks : KeyRightOf(ParseK(ks[n].arg), ModifiersGiven(opts), r.keys[n])
       /\ "u" \in r.flags => "s" \in r.flags
       /\ r.files = <<"f">>
       /\ LET back == SortMain(Reverse(opts), <<"f">>) IN back.flags = r.flags /\ back.sm = r.sm /\ back.status = 0
(* -g: nothing, no number, then numbers by value, whatever is remembered.  *)
Hints(v) == {"HS_UNINITIALIZED", GHint(v, "HS_UNINITIALIZED")}
GeneralRight(v, w, x) ==
  /\ CollIsOrder(LAMBDA p, q : GNumColl(p, "HS_UNINITIALIZED", q, "HS_UNINITIALIZED"), v, w, x)
  /\ \A hv \in Hints(v), hw \in Hints(w) : GNumColl(v, hv, w, hw) = GNumColl(v, "HS_UNINITIALIZED", w, "HS_UNINITIALIZED")
  /\ v.d < w.d /\ ~(v.empty \/ v.nan \/ w.empty \/ w.nan) => GNumColl(v, "HS_UNINITIALIZED", w, "HS_UNINITIALIZED") < 0
MemoryRight(n, m, k, l, r) ==
  /\ r[1] = (DigitsValue(n) * 4 ^ (k - 1)) % 1024
  /\ r[2] = IF l = "" THEN DigitsValue(n) * 4 ELSE IF l = "%" THEN DigitsValue(n) \div 2 ELSE 50
(* A key is what stands between its two places, however short the line is  *)
(* and wherever its blanks and separators are.  Whatever the keys, two     *)
(* lines compare the same from both sides and the comparison is transitive *)
(* (the sorts need nothing else of it); -n goes by value, also with what   *)
(* earlier comparisons remembered.  A key is taken exactly if it is one,   *)
(* and options mean the same in any order.                                 *)
KeysRight ==
  CASE call.prog = "key" -> KeyIsBetween(call.s, call.spec, call.t, result)
    [] call.prog = "old key" ->
         ObsoleteKeyRight(call.s, call.f1, call.c1, call.f2, call.c2, call.t, result)
    [] call.prog = "number" -> NumbersByValue(call.a, call.b)
    [] call.prog = "order" ->
         CollIsOrder(LAMBDA x, y : ListColl(call.keys, x, y, PlainOptions), call.a, call.b, call.c)
    [] call.prog = "k" -> KeyRead(call.s, result)
    [] call.prog = "old" -> OldKeyRead(call.args, call.spec, call.given, call.sm, result)
    [] call.prog = "options" -> OptionsRead(call.opts, result)
    [] call.prog = "general" -> GeneralRight(call.v, call.w, call.x)
    [] call.prog = "bytes" -> Sign(result) = Sign(BwsColl(call.a, call.b))
    [] call.prog = "memory" -> MemoryRight(call.n, call.m, call.k, call.l, result)
    [] OTHER -> TRUE

-----------------------------------------------------------------------------
(* Elements are their value and their place.  Long enough for natural      *)
(* runs, of both senses, and for the exponential search of a merge.        *)
Placed(s) == [i \in DOMAIN s |-> <<s[i], i>>]
ByValue(a) == [p, q \in ToSet(a) |-> Sign(p[1] - q[1])]
SortShort == Idle("sorts") /\ \E s \in Texts(1 .. 3, 7) :
  LET a == Placed(s)
  IN Runs([prog |-> "sort", a |-> a], [heap |-> HeapSort(a, ByValue(a)), merge |-> MergeSort(a, ByValue(a))])
SortLong == Idle("sorts") /\ \E n \in 7 .. 10 : \E s \in [1 .. n -> 1 .. 2] :
  LET a == Placed(s \o <<1, 3, 2>>)
  IN Runs([prog |-> "sort", a |-> a], [heap |-> HeapSort(a, ByValue(a)), merge |-> MergeSort(a, ByValue(a))])
(* heapsort and mergesort put all elements in order, and mergesort keeps   *)
(* the order of those that compare equal: sort -s and -u rely on it.       *)
SortsInOrder ==
  call.prog = "sort" =>
    /\ SortsRight(call.a, ByValue(call.a), result.heap)
    /\ SortsStably(call.a, ByValue(call.a), result.merge)

(* Files that end in a newline or are shorter than the buffer; all files   *)
(* are those of the run that has FileSpec.                                 *)
ReadStdin == Idle("sorts") /\ \E bytes \in Texts({"a", "b", NL}, 7) :
  Runs([prog |-> "stdin", bytes |-> bytes], StdinLines(bytes, 4))
ReadAnyFile == Idle("sorts") /\ \E bytes \in Texts({"a", "b", NL}, 8) :
  Runs([prog |-> "file", bytes |-> bytes], SortReads(bytes, 4))
ReadFile == Idle("sorts") /\ \E bytes \in Texts({"a", "b", NL}, 8) :
  /\ IF bytes = <<>> THEN TRUE ELSE IF Last(bytes) = NL THEN TRUE ELSE Len(bytes) < 4
  /\ Runs([prog |-> "file", bytes |-> bytes], SortReads(bytes, 4))
Bytes == {"a", "2", "3", "c"}
ReadBytes == Idle("sorts") /\ \E bytes \in Texts(Bytes, 6) : Runs([prog |-> "wide", bytes |-> bytes], BwsFromBytes(bytes))
RECURSIVE IsText(_)
IsText(s) == \/ s = <<>>
             \/ s[1] # "c" /\ Span(Tail(s), {"c"}) >= Needs(s[1]) /\ IsText(From(s, 2 + Needs(s[1])))
EndsInPart(s) == Len(s) > 1 /\ SubSeq(s, Len(s) - 1, Len(s)) = <<"3", "c">>
WideRight(s, chars) ==
  IF EndsInPart(s) THEN chars = Dies
  ELSE FlattenSeq(chars) = s /\ (IsText(s) => BwsWrite(chars) = s)
(* sort reads each line of standard input or of a file once and whole,     *)
(* wherever the buffer ends in it, except a last line of standard input    *)
(* without a newline that ends where a piece does.  What is text comes out *)
(* as it went in; sort gives up on a line that ends in two bytes of three. *)
LinesReadOnce ==
  CASE call.prog = "stdin" -> StdinReads(call.bytes, 4)
    [] call.prog = "file" -> result = FileLines(call.bytes)
    [] call.prog = "wide" -> WideRight(call.bytes, result)
    [] OTHER -> TRUE
(* The same of every file, with or without a newline at its end.           *)
FileLinesReadOnce == call.prog = "file" => ReaderReads(call.bytes, 4)

-----------------------------------------------------------------------------
Nodes == 1 .. 3
GraphOptions(hints, l, f) == [hints |-> hints \/ f, l |-> l, f |-> f, r |-> FALSE, w |-> FALSE]
Sorted(k, hints, pairs, o) ==
  LET g == ReadInput(k, hints, pairs, o) IN Runs([prog |-> "tsort", g |-> g, o |-> o], Tsort(g, o))
SortPairs == Idle("sorts") /\ \E pairs \in Texts((Nodes \X Nodes), 4), l \in BOOLEAN :
  Sorted(3, <<>>, pairs, GraphOptions(FALSE, l, FALSE))
SortHinted == Idle("sorts") /\ \E pairs \in Texts((Nodes \X Nodes), 3), hints \in Texts(Nodes, 2), l, f \in BOOLEAN :
  Sorted(3, hints, pairs, GraphOptions(TRUE, l, f))
(* Four nodes: two cycles can be left at a time.                           *)
FourArcs == <<<<1, 2>>, <<2, 1>>, <<2, 3>>, <<3, 1>>, <<3, 4>>, <<4, 3>>, <<4, 1>>, <<1, 3>>, <<2, 4>>>>
SortFour == Idle("sorts") /\ \E arcs \in SUBSET ToSet(FourArcs), l \in BOOLEAN :
  Sorted(4, <<>>, SelectSeq(FourArcs, LAMBDA a : a \in arcs), GraphOptions(FALSE, l, FALSE))
(* tsort writes every node once, after all that must come before it unless *)
(* it told a cycle and broke it there, and by the hints where it is free;  *)
(* -l breaks a longest cycle first.  Only hints make it give up.           *)
TsortGood ==
  call.prog = "tsort" =>
    /\ TsortRight(call.g, call.o, result)
    /\ call.o.l /\ result.broken # <<>> => LongestFirst(call.g, result)
    /\ result.aborted => call.o.hints

-----------------------------------------------------------------------------
(* Any sequence of calls on a table: keys that begin at the same slot, at  *)
(* slots of the same path and at others.                                   *)
Hashes == {<<0, 0, 0, 0, 0>>, <<0, 4, 8, 1, 5>>, <<3, 1, 2, 7, 6>>, <<2, 2, 10, 3, 4>>}
StartOhash == Idle("tables") /\ \E hv \in Hashes :
  Runs([prog |-> "ohash", hv |-> hv, in |-> {}], [ends |-> TRUE, h |-> OhashInit(0)])
Lookups(h, hv) == [key \in DOMAIN hv |-> OhashLookup(h, key, hv[key])]
LookKey == Idle("ohash") /\ result.ends /\ \E key \in DOMAIN call.hv :
  Runs(call, OhashLookup(result.h, key, call.hv[key]))
EnterKey == Idle("ohash") /\ result.ends /\ \E key \in DOMAIN call.hv \ call.in :
  LET Into(l) == IF l.ends THEN [ends |-> TRUE, h |-> OhashInsert(l.h, l.i, key)] ELSE l
  IN Runs([call EXCEPT !.in = @ \cup {key}], Into(OhashLookup(result.h, key, call.hv[key])))
RemoveKey == Idle("ohash") /\ result.ends /\ \E key \in call.in :
  LET Out(l) == IF l.ends THEN [ends |-> TRUE, h |-> OhashRemove(l.h, l.i)] ELSE l
  IN Runs([call EXCEPT !.in = @ \ {key}], Out(OhashLookup(result.h, key, call.hv[key])))
Keys == 1 .. 9
StartRb == Idle("tables") /\ Runs([prog |-> "rb", in |-> {}], RbEmpty(Max(Keys)))
RbEnter == Idle("rb") /\ \E key \in Keys : Runs([call EXCEPT !.in = @ \cup {key}], RbInsert(result, key))
RbDrop == Idle("rb") /\ \E key \in call.in : Runs([call EXCEPT !.in = @ \ {key}], RbRemove(result, key))
SplayKeys == 1 .. 6
StartSplay == Idle("tables") /\ Runs([prog |-> "splay", in |-> {}], SplayEmpty(Max(SplayKeys)))
SplayEnter == Idle("splay") /\ \E key \in SplayKeys : Runs([call EXCEPT !.in = @ \cup {key}], SplayInsert(result, key))
SplayDrop == Idle("splay") /\ \E key \in SplayKeys : Runs([call EXCEPT !.in = @ \ {key}], SplayRemove(result, key))
SplayLook == Idle("splay") /\ \E key \in SplayKeys : Runs(call, SplayFind(result, key))

(* Lists of every kind, two of them with the same elements.                *)
Elements == 1 .. 3
Heads == {4, 5}
ListKinds == {"LIST", "SLIST", "STAILQ", "TAILQ", "CIRCLEQ"}
InitList(kind, q, h) ==
  CASE kind \in {"LIST", "SLIST"} -> LIST_INIT(q, h) [] kind = "STAILQ" -> STAILQ_INIT(q, h)
    [] kind = "TAILQ" -> TAILQ_INIT(q, h) [] kind = "CIRCLEQ" -> CIRCLEQ_INIT(q, h)
StartList == Idle("tables") /\ \E kind \in ListKinds :
  Runs([prog |-> "list", kind |-> kind, seqs |-> [h \in Heads |-> <<>>]],
       InitList(kind, InitList(kind, Unlinked(3, Heads), 4), 5))
Unused == Elements \ UNION {ToSet(call.seqs[h]) : h \in Heads}
Becomes(h, seq, q) == Runs([call EXCEPT !.seqs[h] = seq], q)
ListHead == Idle("list") /\ \E h \in Heads, e \in Unused : Becomes(h, <<e>> \o call.seqs[h],
  CASE call.kind = "LIST" -> LIST_INSERT_HEAD(result, h, e) [] call.kind = "SLIST" -> SLIST_INSERT_HEAD(result, h, e)
    [] call.kind = "STAILQ" -> STAILQ_INSERT_HEAD(result, h, e) [] call.kind = "TAILQ" -> TAILQ_INSERT_HEAD(result, h, e)
    [] call.kind = "CIRCLEQ" -> CIRCLEQ_INSERT_HEAD(result, h, e))
ListTail == Idle("list") /\ call.kind \notin {"LIST", "SLIST"} /\ \E h \in Heads, e \in Unused :
  Becomes(h, Append(call.seqs[h], e),
    CASE call.kind = "STAILQ" -> STAILQ_INSERT_TAIL(result, h, e) [] call.kind = "TAILQ" -> TAILQ_INSERT_TAIL(result, h, e)
      [] call.kind = "CIRCLEQ" -> CIRCLEQ_INSERT_TAIL(result, h, e))
ListAfter == Idle("list") /\ \E h \in Heads, e \in Unused : \E i \in DOMAIN call.seqs[h] : LET x == call.seqs[h][i] IN
  Becomes(h, InsertAt(call.seqs[h], i + 1, e),
    CASE call.kind = "LIST" -> LIST_INSERT_AFTER(result, x, e) [] call.kind = "SLIST" -> SLIST_INSERT_AFTER(result, x, e)
      [] call.kind = "STAILQ" -> STAILQ_INSERT_AFTER(result, h, x, e)
      [] call.kind = "TAILQ" -> TAILQ_INSERT_AFTER(result, h, x, e)
      [] call.kind = "CIRCLEQ" -> CIRCLEQ_INSERT_AFTER(result, x, e))
ListBefore == Idle("list") /\ call.kind \notin {"SLIST", "STAILQ"} /\ \E h \in Heads, e \in Unused :
  \E i \in DOMAIN call.seqs[h] : LET x == call.seqs[h][i] IN Becomes(h, InsertAt(call.seqs[h], i, e),
    CASE call.kind = "LIST" -> LIST_INSERT_BEFORE(result, x, e) [] call.kind = "TAILQ" -> TAILQ_INSERT_BEFORE(result, x, e)
      [] call.kind = "CIRCLEQ" -> CIRCLEQ_INSERT_BEFORE(result, x, e))
ListRemove == Idle("list") /\ \E h \in Heads : \E i \in DOMAIN call.seqs[h] : LET e == call.seqs[h][i] IN
  Becomes(h, RemoveAt(call.seqs[h], i),
    CASE call.kind = "LIST" -> LIST_REMOVE(result, e) [] call.kind = "SLIST" -> SLIST_REMOVE(result, h, e)
      [] call.kind = "STAILQ" -> STAILQ_REMOVE(result, h, e) [] call.kind = "TAILQ" -> TAILQ_REMOVE(result, h, e)
      [] call.kind = "CIRCLEQ" -> CIRCLEQ_REMOVE(result, e))
ListConcat == Idle("list") /\ call.kind \in {"STAILQ", "TAILQ"} /\ \E h, k \in Heads :
  /\ h # k
  /\ Runs([call EXCEPT !.seqs = [@ EXCEPT ![h] = @ \o call.seqs[k], ![k] = <<>>]],
          IF call.kind = "STAILQ" THEN STAILQ_CONCAT(result, h, k) ELSE TAILQ_CONCAT(result, h, k))
(* What is walked, from either end, is what was put there and is still in. *)
CircleRight(q, h, seq) ==
  /\ CIRCLEQ_FOREACH_REVERSE(q, h) = Reverse(seq)
  /\ \A i \in DOMAIN seq : LET n == Len(seq) IN
       CIRCLEQ_LOOP_NEXT(q, h, seq[i]) = seq[(i % n) + 1] /\ CIRCLEQ_LOOP_PREV(q, h, seq[(i % n) + 1]) = seq[i]
ListRight(kind, q, seqs) ==
  \A h \in Heads :
    /\ seqs[h] = IF kind = "CIRCLEQ" THEN CIRCLEQ_FOREACH(q, h) ELSE LIST_FOREACH(q, h)
    /\ kind = "TAILQ" => TAILQ_FOREACH_REVERSE(q, h) = Reverse(seqs[h])
    /\ kind \in {"STAILQ", "TAILQ"} => q.prev[h] = Last(<<h>> \o seqs[h])
    /\ kind = "CIRCLEQ" => CircleRight(q, h, seqs[h])

(* Every search ends and finds exactly what is in the table.               *)
OhashRight(hv, in, r) ==
  /\ r.ends
  /\ \A key \in DOMAIN hv : LET l == OhashLookup(r.h, key, hv[key])
                           IN l.ends /\ (OhashFind(l.h, l.i) = key) = (key \in in)
  /\ ToSet(OhashWalk(r.h)) = in /\ Len(OhashWalk(r.h)) = Cardinality(in)
  /\ OhashEntries(r.h) = Cardinality(in)
(* The keys are in order, no red node has a red child, and all paths meet  *)
(* as many black nodes: the depth is at most twice the logarithm.          *)
RECURSIVE BlackDepths(_, _)
BlackDepths(h, x) ==
  IF x = 0 THEN {0}
  ELSE {d + (IF x \in h.red THEN 0 ELSE 1) : d \in BlackDepths(h, h.kid["l"][x]) \cup BlackDepths(h, h.kid["r"][x])}
RbRight(in, h) ==
  /\ RbForeach(h) = Increasing(in)
  /\ \A x \in in : RbFind(h, x) = x /\ \A s \in {"l", "r"} :
       /\ h.kid[s][x] # 0 => h.parent[h.kid[s][x]] = x
       /\ ~(IsRed(h, x) /\ IsRed(h, h.kid[s][x]))
  /\ ~IsRed(h, h.root) /\ Cardinality(BlackDepths(h, h.root)) = 1
  /\ \A key \in Keys : LET above == {x \in in : x >= key} IN
       /\ key \notin in => RbFind(h, key) = 0
       /\ NfindFrom(h, key, h.root, 0) = IF above = {} THEN 0 ELSE Min(above)
(* A look brings what is there to the root.                                *)
RECURSIVE KeysInOrder(_, _)
KeysInOrder(h, x) == IF x = 0 THEN <<>> ELSE KeysInOrder(h, h.kid["l"][x]) \o <<x>> \o KeysInOrder(h, h.kid["r"][x])
SplayRight(in, h) ==
  /\ KeysInOrder(h, h.root) = Increasing(in)
  /\ \A key \in SplayKeys : in # {} => (SplayFind(h, key).root = key) = (key \in in)
  /\ \A key \in in : LET above == {x \in in : x > key} IN SplayNext(h, key) = IF above = {} THEN 0 ELSE Min(above)
  /\ in # {} => SplayMin(h) = Min(in) /\ SplayMax(h) = Max(in)
(* Whatever was entered and removed, in any order, the hash table of tsort *)
(* finds what is in it and nothing else and every search of it ends, and   *)
(* the trees stay in order, that of du also balanced, and the lists hold   *)
(* what they should in the order they should, also backwards.              *)
TablesRight ==
  CASE call.prog = "ohash" -> OhashRight(call.hv, call.in, result)
    [] call.prog = "rb" -> RbRight(call.in, result)
    [] call.prog = "splay" -> SplayRight(call.in, result)
    [] call.prog = "list" -> ListRight(call.kind, result, call.seqs)
    [] OTHER -> TRUE

-----------------------------------------------------------------------------
AlgorithmNext ==
  \/ KeyOfLine \/ KeyOfOldLine
  \/ CompareNumbers \/ CompareLongNumbers \/ CompareVersions \/ CompareSizes \/ CompareText
  \/ CompareByTwoKeys \/ ReadKey \/ ReadOldKey \/ ReadSortOptions \/ CompareGeneral \/ CompareBytes \/ ReadMemory
  \/ SortShort \/ SortLong \/ ReadStdin \/ ReadFile \/ ReadBytes
  \/ SortPairs \/ SortHinted \/ SortFour
  \/ StartOhash \/ LookKey \/ EnterKey \/ RemoveKey \/ StartRb \/ RbEnter \/ RbDrop
  \/ StartSplay \/ SplayEnter \/ SplayDrop \/ SplayLook
  \/ StartList \/ ListHead \/ ListTail \/ ListAfter \/ ListBefore \/ ListRemove \/ ListConcat
FileSpec == InitOf({"sorts"}) /\ [][ReadAnyFile]_vars
=================================================================================
