-------------------------------- MODULE SortKeys --------------------------------
(***************************************************************************)
(* sort: how two lines are compared                                        *)
(* (core/coreutils/src/utils/sort/{coll,bwstring,vsort,sort}.c).           *)
(* Positions in a line are counted from 0, as in the code.                 *)
(***************************************************************************)
EXTENDS Text

Alphabet == <<TAB, SP, "-", ".", "0", "1", "2", "9", ":", "A", "B", "E", "J", "K", "M", "N",
              "a", "b", "k", "~">>
Code(c) == SelectInSeq(Alphabet, LAMBDA x : x = c)
Digits == {"0", "1", "2", "9"}
Letters == {"A", "B", "E", "J", "K", "M", "N", "a", "b", "k"}
Upper(c) == CASE c = "a" -> "A" [] c = "b" -> "B" [] c = "k" -> "K" [] OTHER -> c
DigitValue(c) == CASE c = "0" -> 0 [] c = "1" -> 1 [] c = "2" -> 2 [] c = "9" -> 9
ULLONG_MAX == 20                        \* stands for 2^64 - 1
At(s, i) == s[i + 1]                    \* a character by its position
Sign(n) == IF n < 0 THEN -1 ELSE IF n > 0 THEN 1 ELSE 0

-----------------------------------------------------------------------------
(* A key "-k f1.c1b,f2.c2b" as parse_pos leaves it: f2 = 0 without a       *)
(* second position, c2 = 0 without a second column.                        *)
KeySpec(f1, c1, b1, f2, c2, b2) ==
  [f1 |-> f1, c1 |-> c1, pos1b |-> b1, f2 |-> f2, c2 |-> c2, pos2b |-> b2]
WholeLine(b) == KeySpec(0, 1, b, 0, 0, b)
KeySpecs(n) ==
  {KeySpec(f1, c1, b1, f2, c2, b2) :
     f1, c1 \in 1 .. n, b1, b2 \in BOOLEAN, f2, c2 \in 0 .. n}
(* fix_obsolete_keys: "+f1.c1 -f2.c2" counts from 0 and ends before its    *)
(* second position.                                                        *)
ObsoleteKey(f1, c1, f2, c2) ==
  KeySpec(f1 + 1, c1 + 1, FALSE, IF c2 > 0 THEN f2 + 1 ELSE f2, c2, FALSE)

(* skip_fields_to_start, t the separator or "" without -t.                 *)
SkipFields(s, fields, t) ==
  LET begins(i) == IF t = "" THEN At(s, i) \in Blank /\ i > 0 /\ At(s, i - 1) \notin Blank
                   ELSE At(s, i) = t
      at == Increasing({i \in 0 .. Len(s) - 1 : begins(i)})
  IN IF fields < 2 THEN [pos |-> 0, empty |-> Len(s) = 0]
     ELSE IF fields - 1 <= Len(at)
       THEN [pos |-> at[fields - 1] + (IF t = "" THEN 0 ELSE 1), empty |-> FALSE]
     ELSE [pos |-> Len(s), empty |-> TRUE]
(* skip_cols_to_start.                                                     *)
SkipCols(s, cols, start, blanks) ==
  LET solid == {i \in start .. Len(s) - 1 : At(s, i) \notin Blank} \cup {Len(s)}
      from == IF blanks /\ start < Len(s) THEN Min(solid) ELSE start
      pos == IF from < Len(s) THEN Smaller(from + cols - 1, Len(s)) ELSE from
  IN IF cols < 1 THEN [pos |-> Len(s) + 1, empty |-> FALSE]
     ELSE [pos |-> pos, empty |-> pos >= Len(s)]

(* find_field_end.                                                         *)
(* Variant with a mistake: the separator counts as part of the last field. *)
FieldEndSeparated(s, ks, t) ==
  LET next == SkipFields(s, IF ks.c2 = 0 THEN ks.f2 + 1 ELSE ks.f2, t)
      last == SkipCols(s, ks.c2, next.pos, ks.pos2b).pos
  IN IF ks.f2 = 0 \/ next.empty \/ next.pos >= Len(s) THEN Len(s) + 1
     ELSE IF ks.c2 = 0 THEN next.pos
     ELSE IF last < Len(s) THEN last + 1 ELSE last
FieldEnd(s, ks, t) ==
  LET next == SkipFields(s, IF ks.c2 = 0 THEN ks.f2 + 1 ELSE ks.f2, t)
      start == IF ks.c2 = 0 /\ next.pos > 0 /\ t # "" /\ At(s, next.pos - 1) = t
                 THEN next.pos - 1 ELSE next.pos
      last == SkipCols(s, ks.c2, start, ks.pos2b).pos
  IN IF ks.f2 = 0 \/ next.empty \/ start >= Len(s) THEN Len(s) + 1
     ELSE IF ks.c2 = 0 THEN start
     ELSE IF last < Len(s) THEN last + 1 ELSE last
(* find_field_start and cut_field.                                         *)
CutField(s, ks, t) ==
  LET field == SkipFields(s, ks.f1, t)
      key == SkipCols(s, ks.c1, field.pos, ks.pos1b)
  IN IF field.empty \/ key.empty THEN <<>>
     ELSE SubSeq(s, key.pos + 1, Smaller(FieldEnd(s, ks, t), Len(s)))

(* The fields of a line, as positions [first, last]; a key is what stands  *)
(* between its two places, of which the second belongs to it.              *)
FieldsOf(s, t) ==
  LET begins(i) == t = "" /\ At(s, i) \in Blank /\ i > 0 /\ At(s, i - 1) \notin Blank
      seps == {i \in 0 .. Len(s) - 1 : t # "" /\ At(s, i) = t}
      starts == Increasing({0} \cup {i \in 0 .. Len(s) - 1 : begins(i)} \cup {i + 1 : i \in seps})
  IN [k \in DOMAIN starts |->
        [first |-> starts[k],
         last |-> IF k = Len(starts) THEN Len(s) - 1
                  ELSE starts[k + 1] - (IF t = "" THEN 1 ELSE 2)]]
PlaceOf(s, t, f, c, b) ==
  LET fs == FieldsOf(s, t)
      solid == {i \in fs[f].first .. Len(s) - 1 : At(s, i) \notin Blank} \cup {Len(s)}
  IN IF f > Len(fs) THEN Len(s) ELSE (IF b THEN Min(solid) ELSE fs[f].first) + c - 1
KeyIsBetween(s, ks, t, key) ==
  LET fs == FieldsOf(s, t)
      last == IF ks.f2 = 0 \/ ks.f2 > Len(fs) THEN Len(s) - 1
              ELSE IF ks.c2 = 0 THEN fs[ks.f2].last
              ELSE PlaceOf(s, t, ks.f2, ks.c2, ks.pos2b)
  IN key = SubSeq(s, PlaceOf(s, t, ks.f1, ks.c1, ks.pos1b) + 1, Smaller(last + 1, Len(s)))
ObsoleteKeyRight(s, f1, c1, f2, c2, t, key) ==
  LET from == PlaceOf(s, t, f1 + 1, c1 + 1, FALSE)
      upto == IF c2 > 0 THEN PlaceOf(s, t, f2 + 1, c2 + 1, FALSE)
              ELSE IF f2 > Len(FieldsOf(s, t)) THEN Len(s) ELSE FieldsOf(s, t)[f2].last + 1
  IN key = SubSeq(s, from + 1, Smaller(upto, Len(s)))

-----------------------------------------------------------------------------
(* preproc: ignore_leading_blanks, dictionary_order, ignore_nonprinting    *)
(* (TAB alone is not printing here) and ignore_case.                       *)
Trimmed(s) == LET n == SelectInSeq(s, LAMBDA c : c \notin Blank)
              IN IF n = 0 THEN <<>> ELSE From(s, n)
Folded(s, m) ==
  LET kept == IF m.d THEN SelectSeq(s, LAMBDA c : c \in Letters \cup Digits \cup Blank)
              ELSE IF m.i THEN SelectSeq(s, LAMBDA c : c # TAB) ELSE s
  IN IF m.f \/ m.order = "M" THEN [i \in DOMAIN kept |-> Upper(kept[i])] ELSE kept
Preproc(s, key, t) ==
  IF key.spec.f1 = 0 THEN Folded(IF key.b THEN Trimmed(s) ELSE s, key)
  ELSE Folded(CutField(s, key.spec, t), key)

(* bwscoll in the C locale.                                                *)
BwsColl(a, b) ==
  LET n == Smaller(Len(a), Len(b))
      differ == {i \in 1 .. n : a[i] # b[i]}
  IN IF differ # {} THEN Code(a[Min(differ)]) - Code(b[Min(differ)]) ELSE Len(a) - Len(b)

(* read_number: the sign, the digits before and after the point without    *)
(* the zeros that do not count, and the suffix.                            *)
Span(s, D) == LET n == SelectInSeq(s, LAMBDA c : c \notin D) IN IF n = 0 THEN Len(s) ELSE n - 1
SuffixUnit(rest) ==
  CASE rest = <<>> -> 0
    [] rest # <<>> -> IF rest[1] \in {"k", "K"} THEN 1 ELSE IF rest[1] = "M" THEN 2
                      ELSE IF rest[1] = "E" THEN 6 ELSE 0
NumberRead(minus, main, read, rest) ==
  LET frac == Upto(read, SelectLastInSeq(read, LAMBDA c : c # "0"))
      empty == main = <<>> /\ frac = <<>>
  IN [sign |-> IF minus /\ ~empty THEN -1 ELSE 0, main |-> main, frac |-> frac, empty |-> empty,
      si |-> SuffixUnit(rest)]
ReadFraction(minus, main, s) ==
  IF s # <<>> /\ s[1] = "."
    THEN LET n == Span(Tail(s), Digits) IN NumberRead(minus, main, Upto(Tail(s), n), From(s, n + 2))
    ELSE NumberRead(minus, main, <<>>, s)
ReadMain(minus, s) == LET n == Span(s, Digits) IN ReadFraction(minus, Upto(s, n), From(s, n + 1))
ReadSigned(minus, s) == ReadMain(minus, From(s, Span(s, {"0"}) + 1))
ReadTrimmed(s) ==
  IF s # <<>> /\ s[1] = "-" THEN ReadSigned(TRUE, Tail(s)) ELSE ReadSigned(FALSE, s)
ReadNumber(s) == ReadTrimmed(Trimmed(s))
NumberOf(digits) == FoldLeft(LAMBDA n, c : Smaller(10 * n + DigitValue(c), ULLONG_MAX), 0, digits)

(* What a key remembers of its number.                                     *)
NoHint == [status |-> "HS_UNINITIALIZED", n1 |-> 0, empty |-> FALSE, neg |-> FALSE, si |-> 0]
HintOfNumber(r) ==
  LET n == NumberOf(r.main)
  IN [status |-> IF n # ULLONG_MAX THEN "HS_INITIALIZED" ELSE "HS_ERROR", n1 |-> n,
      empty |-> r.empty, neg |-> r.sign < 0, si |-> r.si]
HintOf(s) == HintOfNumber(ReadNumber(s))

(* numcoll_impl on two hints that are both there: 0 leaves it open.        *)
(* Variant with a mistake: two negative numbers compare as their digits do. *)
HintCollUnsigned(h1, h2, suffix) ==
  LET unit == IF suffix THEN h1.si - h2.si ELSE 0
  IN CASE h1.empty /\ h2.empty -> 0
       [] h1.neg /\ ~h2.neg -> -1
       [] h2.neg /\ ~h1.neg -> 1
       [] h1.empty -> IF h2.neg THEN 1 ELSE -1
       [] h2.empty -> IF h1.neg THEN -1 ELSE 1
       [] OTHER -> IF unit # 0 THEN unit ELSE Sign(h1.n1 - h2.n1)
HintColl(h1, h2, suffix) ==
  LET unit == IF suffix THEN h1.si - h2.si ELSE 0
      n == IF unit # 0 THEN unit ELSE Sign(h1.n1 - h2.n1)
  IN CASE h1.empty /\ h2.empty -> 0
       [] h1.neg /\ ~h2.neg -> -1
       [] h2.neg /\ ~h1.neg -> 1
       [] h1.empty -> IF h2.neg THEN 1 ELSE -1
       [] h2.empty -> IF h1.neg THEN -1 ELSE 1
       [] OTHER -> IF h1.neg THEN -n ELSE n
(* ... and on the numbers as they stand in the keys.                       *)
OrElse(res, next) == IF res # 0 THEN res ELSE next
DigitsOrder(a, b, suffix) ==
  OrElse(IF suffix THEN a.si - b.si ELSE 0,
         OrElse(Len(a.main) - Len(b.main),
                OrElse(BwsColl(a.main, b.main), BwsColl(a.frac, b.frac))))
ReadColl(a, b, suffix) ==
  CASE a.empty /\ b.empty -> 0
    [] a.sign < 0 /\ b.sign >= 0 -> -1
    [] a.sign >= 0 /\ b.sign < 0 -> 1
    [] a.empty -> IF b.sign < 0 THEN 1 ELSE -1
    [] b.empty -> IF a.sign < 0 THEN -1 ELSE 1
    [] OTHER -> (IF a.sign < 0 THEN -1 ELSE 1) * DigitsOrder(a, b, suffix)
DigitsColl(s1, s2, suffix) == ReadColl(ReadNumber(s1), ReadNumber(s2), suffix)
Hinted(s, h) == IF h.status = "HS_UNINITIALIZED" THEN HintOf(s) ELSE h
HintedColl(g1, g2, s1, s2, suffix) ==
  IF g1.status = "HS_INITIALIZED" /\ g2.status = "HS_INITIALIZED"
    THEN IF g1.empty /\ g2.empty THEN 0
         ELSE OrElse(HintColl(g1, g2, suffix), DigitsColl(s1, s2, suffix))
    ELSE DigitsColl(s1, s2, suffix)
NumColl(s1, h1, s2, h2, suffix) == HintedColl(Hinted(s1, h1), Hinted(s2, h2), s1, s2, suffix)

(* monthcoll: bws_month_score, months that the alphabet can spell.         *)
Months == <<<<"J", "A", "N">>, <<"M", "A", "B">>>>
MonthScore(s) == LET m == {i \in DOMAIN Months : IsPrefix(Months[i], Trimmed(s))}
                 IN IF m = {} THEN -1 ELSE Max(m) - 1

MonthColl(a, b) == Sign(MonthScore(a) - MonthScore(b))

-----------------------------------------------------------------------------
(* versioncoll: find_suffix, cmp_chars, cmpversions and vcmp.              *)
FindSuffix(s) ==
  LET step(st, c) ==
        IF st.alpha
          THEN [st EXCEPT !.alpha = FALSE, !.n = @ + 1,
                          !.sfx = IF c \in Letters \cup {"~"} THEN @ ELSE FALSE]
        ELSE IF c = "."
          THEN [alpha |-> TRUE, sfx |-> TRUE, n |-> st.n + 1, len |-> IF st.sfx THEN st.len ELSE st.n]
        ELSE [st EXCEPT !.n = @ + 1,
                        !.sfx = IF c \in Letters \cup Digits \cup {"~"} THEN @ ELSE FALSE]
      end == FoldLeft(step, [alpha |-> FALSE, sfx |-> FALSE, n |-> 0, len |-> 0], s)
  IN IF end.sfx THEN end.len ELSE Len(s)

Zero == "end"
CmpChars(a, b) ==
  LET low(c) == c \in Digits \cup {Zero}
  IN CASE a = b -> 0
       [] a = "~" -> -1
       [] b = "~" -> 1
       [] low(a) -> IF low(b) THEN 0 ELSE -1
       [] low(b) -> 1
       [] a \in Letters -> IF b \in Letters THEN Code(a) - Code(b) ELSE -1
       [] b \in Letters -> 1
       [] OTHER -> Code(a) - Code(b)

(* The characters that are no digits, then a number, and so on.  A number  *)
(* is read on into what the version was cut off from.                      *)
NonDigits(s) == LET n == FirstOf(s, Digits) IN IF n = 0 THEN Len(s) ELSE n - 1
NumberPart(s) ==
  LET zeros == SelectInSeq(s, LAMBDA c : c # "0")
      rest == IF zeros = 0 THEN <<>> ELSE From(s, zeros)
      n == SelectInSeq(rest, LAMBDA c : c \notin Digits)
  IN [digits |-> IF n = 0 THEN rest ELSE Upto(rest, n - 1),
      rest |-> IF n = 0 THEN <<>> ELSE From(rest, n)]
CharAt(s, n, i) == IF i <= n THEN s[i] ELSE Zero
PartsColl(p, q) == OrElse(Len(p.digits) - Len(q.digits), BwsColl(p.digits, q.digits))
RECURSIVE CmpVersions(_, _, _, _)
CmpNumbers(s1, n1, p, s2, n2, q) ==
  OrElse(PartsColl(p, q),
         CmpVersions(p.rest, n1 - (Len(s1) - Len(p.rest)), q.rest, n2 - (Len(s2) - Len(q.rest))))
CmpFrom(s1, n1, s2, n2, k) ==
  LET bad == {i \in 1 .. k : CmpChars(CharAt(s1, n1, i), CharAt(s2, n2, i)) # 0}
  IN IF bad # {} THEN CmpChars(CharAt(s1, n1, Min(bad)), CharAt(s2, n2, Min(bad)))
     ELSE CmpNumbers(s1, n1, NumberPart(From(s1, Smaller(k, Larger(n1, 0)) + 1)),
                     s2, n2, NumberPart(From(s2, Smaller(k, Larger(n2, 0)) + 1)))
CmpVersions(s1, n1, s2, n2) ==          \* n: how much of s the version is
  IF n1 <= 0 /\ n2 <= 0 THEN 0
  ELSE CmpFrom(s1, n1, s2, n2, Larger(NonDigits(Upto(s1, n1)), NonDigits(Upto(s2, n2))))

WithoutDot(s) == IF s[1] = "." THEN Tail(s) ELSE s
BodiesColl(r1, l1, r2, l2, bytes) ==
  IF l1 = l2 /\ Upto(r1, l1) = Upto(r2, l2) THEN bytes
  ELSE OrElse(CmpVersions(r1, l1, r2, l2), bytes)
NamesColl(r1, r2, bytes) == BodiesColl(r1, FindSuffix(r1), r2, FindSuffix(r2), bytes)
VCmp(s1, s2) ==
  CASE s1 = s2 -> 0
    [] s1 # s2 /\ s1 = <<>> -> -1
    [] s2 = <<>> -> 1
    [] OTHER ->
         IF s1 = <<".">> THEN -1 ELSE IF s2 = <<".">> THEN 1
         ELSE IF s1 = <<".", ".">> THEN -1 ELSE IF s2 = <<".", ".">> THEN 1
         ELSE IF (s1[1] = ".") # (s2[1] = ".") THEN IF s1[1] = "." THEN -1 ELSE 1
         ELSE NamesColl(WithoutDot(s1), WithoutDot(s2), BwsColl(s1, s2))

-----------------------------------------------------------------------------
(* get_sort_func, key_coll and list_coll.  A key: its place, the modifiers *)
(* b d i f r and an order: n, h, M, V or "" for plain text.                *)
KeyMods == [b : BOOLEAN, d : BOOLEAN, i : BOOLEAN, f : BOOLEAN, r : BOOLEAN,
            order : {"", "n", "h", "M", "V"}]
FuncColl(key, a, b) ==
  CASE key.order \in {"n", "h"} -> NumColl(a, NoHint, b, NoHint, key.order = "h")
    [] key.order = "M" -> MonthColl(a, b)
    [] key.order = "V" -> VCmp(a, b)
    [] OTHER -> BwsColl(a, b)
Directed(key, a, b) == FuncColl(key, IF key.r THEN b ELSE a, IF key.r THEN a ELSE b)
RECURSIVE KeyColl(_, _, _, _)
KeyColl(keys, s1, s2, t) ==
  IF keys = <<>> THEN 0
  ELSE OrElse(Directed(Head(keys), Preproc(s1, Head(keys), t), Preproc(s2, Head(keys), t)),
              KeyColl(Tail(keys), s1, s2, t))
LastResort(s1, s2, o) ==
  IF o.s \/ ~o.complex THEN 0 ELSE IF o.r THEN BwsColl(s2, s1) ELSE BwsColl(s1, s2)
ListColl(keys, s1, s2, o) == OrElse(KeyColl(keys, s1, s2, o.t), LastResort(s1, s2, o))

(* The comparison orders the lines: swapping them swaps the result, and    *)
(* what is before or beside is so along a chain.                           *)
CollIsOrder(Cmp(_, _), a, b, c) ==
  /\ Sign(Cmp(a, b)) = -Sign(Cmp(b, a))
  /\ Cmp(a, b) <= 0 /\ Cmp(b, c) <= 0 => Cmp(a, c) <= 0
  /\ Cmp(a, b) = 0 /\ Cmp(b, c) = 0 => Cmp(a, c) = 0

(* The value of the number a key begins with, in ten-thousandths.          *)
DigitsValue(ds) == FoldLeft(LAMBDA n, c : 10 * n + DigitValue(c), 0, ds)
PiecesValue(ps) ==
  10000 * DigitsValue(ps[1]) + (IF Len(ps) < 2 THEN 0 ELSE DigitsValue(Upto(ps[2] \o Repeat("0", 4), 4)))
BodyValue(s) == PiecesValue(Pieces(Upto(s, Span(s, Digits \cup {"."})), {"."}))
ValueOfTrimmed(s) == IF s # <<>> /\ s[1] = "-" THEN -BodyValue(Tail(s)) ELSE BodyValue(s)
ValueOf(s) == ValueOfTrimmed(Trimmed(s))
(* -n orders by value, whatever is remembered of earlier comparisons.      *)
NumbersByValue(a, b) ==
  \A ha \in {NoHint, HintOf(a)}, hb \in {NoHint, HintOf(b)} :
    Sign(NumColl(a, ha, b, hb, FALSE)) = Sign(ValueOf(a) - ValueOf(b))

=============================================================================
