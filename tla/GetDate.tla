-------------------------------- MODULE GetDate --------------------------------
(***************************************************************************)
(* The dates find reads (find-getdate.tab.c, made from find-getdate.y):    *)
(* yylex, the tables and the automaton of yyparse, the actions, and        *)
(* get_date.  A text is a sequence of what yylex can tell apart: a run of  *)
(* digits with its value, a word, a character.  A time zone is its offset  *)
(* in seconds to the east and the seconds in which an hour is added.       *)
(***************************************************************************)
EXTENDS Text

SecondsPerDay == 86400
LastYear == 2038
MERam == 0
MERpm == 1
MER24 == 2

-----------------------------------------------------------------------------
(* The words.  A token is the number yyparse knows it by and its value.    *)
Symbol == [END |-> 0, ERROR |-> 1, UNDEFINED |-> 2, AGO |-> 3, DAY |-> 4, DAYZONE |-> 5, ID |-> 6, MERIDIAN |-> 7, MINUTES |-> 8,
           MONTH |-> 9, MONTHS |-> 10, SECONDS |-> 11, SNUMBER |-> 12, UNUMBER |-> 13, ZONE |-> 14, DST |-> 15,
           COLON |-> 16, COMMA |-> 17, SLASH |-> 18]
TokenCode(symbol, val) == [tok |-> Symbol[symbol], val |-> val]
NoToken == TokenCode("UNDEFINED", 0)
Words(symbol, values) == [w \in DOMAIN values |-> TokenCode(symbol, values[w])]

MonthDayTable ==
  Words("MONTH", [january |-> 1, february |-> 2, march |-> 3, april |-> 4, may |-> 5, june |-> 6, july |-> 7, august |-> 8,
                  september |-> 9, sept |-> 9, october |-> 10, november |-> 11, december |-> 12])
  @@ Words("DAY", [sunday |-> 0, monday |-> 1, tuesday |-> 2, tues |-> 2, wednesday |-> 3, wednes |-> 3, thursday |-> 4,
                   thur |-> 4, thurs |-> 4, friday |-> 5, saturday |-> 6])
UnitsTable ==
  Words("MONTHS", [year |-> 12, month |-> 1])
  @@ Words("MINUTES", [fortnight |-> 14 * 1440, week |-> 7 * 1440, day |-> 1440, hour |-> 60, minute |-> 1, min |-> 1])
  @@ Words("SECONDS", [second |-> 1, sec |-> 1])
OtherTable ==
  Words("MINUTES", [tomorrow |-> 1440, yesterday |-> -1440, today |-> 0, now |-> 0, this |-> 0])
  @@ Words("UNUMBER", [last |-> -1, next |-> 2, first |-> 1, third |-> 3, fourth |-> 4, fifth |-> 5, sixth |-> 6, seventh |-> 7,
                       eighth |-> 8, ninth |-> 9, tenth |-> 10, eleventh |-> 11, twelfth |-> 12])
  @@ Words("AGO", [ago |-> 1])
Hours(symbol, hours) == [w \in DOMAIN hours |-> TokenCode(symbol, 60 * hours[w])]
TimezoneTable ==
  Hours("ZONE", [gmt |-> 0, ut |-> 0, utc |-> 0, wet |-> 0, wat |-> 1, at |-> 2, ast |-> 4, est |-> 5, cst |-> 6, mst |-> 7, pst |-> 8,
                 yst |-> 9, hst |-> 10, cat |-> 10, ahst |-> 10, nt |-> 11, idlw |-> 12, cet |-> -1, met |-> -1, mewt |-> -1,
                 swt |-> -1, fwt |-> -1, eet |-> -2, bt |-> -3, zp4 |-> -4, zp5 |-> -5, zp6 |-> -6, wast |-> -7, cct |-> -8,
                 jst |-> -9, east |-> -10, gst |-> -10, nzt |-> -12, nzst |-> -12, idle |-> -12])
  @@ Hours("DAYZONE", [bst |-> 0, adt |-> 4, edt |-> 5, cdt |-> 6, mdt |-> 7, pdt |-> 8, ydt |-> 9, hdt |-> 10, mest |-> -1,
                       sst |-> -1, fst |-> -1, wadt |-> -7, eadt |-> -10, nzdt |-> -12])
MilitaryTable ==
  Hours("ZONE", [a |-> 1, b |-> 2, c |-> 3, d |-> 4, e |-> 5, f |-> 6, g |-> 7, h |-> 8, i |-> 9, k |-> 10, l |-> 11, m |-> 12, n |-> -1,
                 o |-> -2, p |-> -3, q |-> -4, r |-> -5, s |-> -6, t |-> -7, u |-> -8, v |-> -9, w |-> -10, x |-> -11, y |-> -12, z |-> 0])

(* LookupWord: w is in small letters.                                      *)
Abbreviates(w) == Len(w) = 3 \/ (Len(w) = 4 /\ SubSeq(w, 4, 4) = ".")
MonthDay(w) ==
  LET names == IF Abbreviates(w) THEN {n \in DOMAIN MonthDayTable : SubSeq(n, 1, 3) = SubSeq(w, 1, 3)}
               ELSE {w} \cap DOMAIN MonthDayTable
  IN IF names = {} THEN NoToken ELSE MonthDayTable[CHOOSE n \in names : TRUE]
InTable(table, w) == IF w \in DOMAIN table THEN table[w] ELSE NoToken
Singular(w) == IF w # "" /\ SubSeq(w, Len(w), Len(w)) = "s" THEN SubSeq(w, 1, Len(w) - 1) ELSE w
RECURSIVE NoPeriods(_)
NoPeriods(w) ==
  IF w = "" THEN w ELSE (IF SubSeq(w, 1, 1) = "." THEN "" ELSE SubSeq(w, 1, 1)) \o NoPeriods(SubSeq(w, 2, Len(w)))
FirstFound(tokens) ==
  LET found == {i \in DOMAIN tokens : tokens[i] # NoToken}
  IN IF found = {} THEN TokenCode("ID", 0) ELSE tokens[CHOOSE i \in found : \A j \in found : i <= j]
LookupWord(w) ==
  LET c == IF Abbreviates(w) THEN SubSeq(w, 1, 3) ELSE w
  IN CASE w \in {"am", "a.m."} -> TokenCode("MERIDIAN", MERam)
       [] w \in {"pm", "p.m."} -> TokenCode("MERIDIAN", MERpm)
       [] OTHER ->
            FirstFound(<<MonthDay(w), InTable(TimezoneTable, c), IF c = "dst" THEN TokenCode("DST", 0) ELSE NoToken, InTable(UnitsTable, c),
                         InTable(UnitsTable, Singular(c)), InTable(OtherTable, c), InTable(MilitaryTable, c),
                         InTable(TimezoneTable, NoPeriods(c))>>)

(* yylex.  Of a long word what fits into the buffer counts; a character    *)
(* beyond ASCII is a negative number, which yyparse takes for the end.     *)
WordMax == 19
RECURSIVE AfterComment(_, _), Yylex(_)
AfterComment(s, count) ==
  IF s = <<>> \/ count = 0 THEN s
  ELSE AfterComment(Tail(s), count + (CASE s[1].k = "(" -> 1 [] s[1].k = ")" -> -1 [] OTHER -> 0))
CharacterTokens == [x \in {":", ",", "/", "high"} |-> CASE x = ":" -> "COLON" [] x = "," -> "COMMA" [] x = "/" -> "SLASH" [] x = "high" -> "END"]
Read(token, rest) == [tok |-> token.tok, val |-> token.val, rest |-> rest]
Yylex(s) ==
  IF s = <<>> THEN Read(TokenCode("END", 0), s)
  ELSE CASE s[1].k = "space" -> Yylex(Tail(s))
         [] s[1].k \in {"-", "+"} ->
              IF Len(s) > 1 /\ s[2].k = "digits" THEN Read(TokenCode("SNUMBER", IF s[1].k = "-" THEN -s[2].n ELSE s[2].n), From(s, 3))
              ELSE Yylex(Tail(s))
         [] s[1].k = "digits" -> Read(TokenCode("UNUMBER", s[1].n), Tail(s))
         [] s[1].k = "word" -> Read(LookupWord(SubSeq(s[1].w, 1, Smaller(WordMax, Len(s[1].w)))), Tail(s))
         [] s[1].k = "(" -> Yylex(AfterComment(Tail(s), 1))
         [] s[1].k \in DOMAIN CharacterTokens -> Read(TokenCode(CharacterTokens[s[1].k], 0), Tail(s))
         [] OTHER -> Read(NoToken, Tail(s))

-----------------------------------------------------------------------------
(* The tables, indexed from 0 as in the code.                              *)
Indexed(s) == [i \in 0 .. Len(s) - 1 |-> s[i + 1]]
YYFINAL == 2
YYLAST == 43
YYNTOKENS == 19
YYPACTNINF == -11
yyr1 == Indexed(
  <<0, 19, 20, 20, 21, 21, 21, 21, 21, 21, 22, 22, 22, 22, 22, 23, 23, 23, 24, 24, 24, 25, 25, 25, 25, 25, 25, 25, 25, 26,
    26, 27, 27, 27, 27, 27, 27, 27, 27, 27, 28, 29, 29>>)
yyr2 == Indexed(
  <<0, 2, 0, 2, 1, 1, 1, 1, 1, 1, 2, 4, 4, 6, 6, 1, 1, 2, 1, 2, 2, 3, 5, 3, 3, 2, 4, 2, 3, 2,
    1, 2, 2, 1, 2, 2, 1, 2, 2, 1, 1, 0, 1>>)
yydefact == Indexed(
  <<2, 0, 1, 18, 16, 33, 0, 39, 36, 0, 40, 15, 3, 4, 5, 7, 6, 8, 30, 9, 19, 25, 32, 37, 34, 20, 10, 31, 27, 38,
    35, 0, 0, 0, 17, 29, 0, 24, 28, 23, 41, 21, 26, 42, 12, 0, 11, 0, 41, 22, 14, 13>>)
yydefgoto == Indexed(<<-1, 1, 12, 13, 14, 15, 16, 17, 18, 19, 46>>)
yypact == Indexed(
  <<-11, 0, -11, -1, -11, -11, 4, -11, -11, 25, 11, -8, -11, -11, -11, -11, -11, -11, 21, -11, -11, 9, -11, -11, -11, -11, -11,
    -11, -10, -11, -11, 16, 19, 24, -11, -11, 26, -11, -11, -11, 18, 13, -11, -11, -11, 27, -11, 28, -6, -11, -11, -11>>)
yypgoto == Indexed(<<-11, -11, -11, -11, -11, -11, -11, -11, -11, -11, -5>>)
yytable == Indexed(
  <<2, 43, 37, 38, 3, 4, 50, 34, 5, 6, 7, 8, 9, 10, 11, 25, 20, 21, 26, 27, 28, 29, 30, 31, 35, 43, 36, 32, 39, 33,
    44, 47, 40, 22, 45, 23, 24, 41, 0, 42, 48, 49, 0, 51>>)
yycheck == Indexed(
  <<0, 7, 12, 13, 4, 5, 12, 15, 8, 9, 10, 11, 12, 13, 14, 4, 17, 13, 7, 8, 9, 10, 11, 12, 3, 7, 17, 16, 12, 18,
    12, 18, 13, 8, 16, 10, 11, 13, -1, 13, 13, 13, -1, 48>>)

(* What the actions set.  Quotients go towards zero.                       *)
OffsetOf(n) == IF n >= 0 THEN -((n % 100) + (n \div 100) * 60) ELSE ((-n) % 100) + ((-n) \div 100) * 60
Clock(g, hour, minutes, seconds, meridian) ==
  [g EXCEPT !.hour = hour, !.minutes = minutes, !.seconds = seconds, !.meridian = meridian]
(* The rules with an offset but no seconds leave the seconds as they are.  *)
InZone(g, zone, dst) == [g EXCEPT !.zone = zone, !.dst = dst]
OnDay(g, ordinal, number) == [g EXCEPT !.dayOrdinal = ordinal, !.dayNumber = number]
MonthAndDay(g, month, day) == [g EXCEPT !.month = month, !.day = day]
YearToo(g, year, month, day) == [MonthAndDay(g, month, day) EXCEPT !.year = year]
Later(g, seconds) == [g EXCEPT !.relSeconds = @ + seconds]
MonthsLater(g, months) == [g EXCEPT !.relMonth = @ + months]
NumberAlone(g, n) ==
  CASE g.haveTime > 0 /\ g.haveDate > 0 /\ g.haveRel = 0 -> [g EXCEPT !.year = n]
    [] ~(g.haveTime > 0 /\ g.haveDate > 0 /\ g.haveRel = 0) /\ n > 10000 ->
         [YearToo(g, n \div 10000, (n \div 100) % 100, n % 100) EXCEPT !.haveDate = @ + 1]
    [] OTHER -> [Clock(g, IF n < 100 THEN n ELSE n \div 100, IF n < 100 THEN 0 ELSE n % 100, 0, MER24) EXCEPT !.haveTime = @ + 1]
ItemAction == (4 :> "haveTime") @@ (5 :> "haveZone") @@ (6 :> "haveDate") @@ (7 :> "haveDay") @@ (8 :> "haveRel")
TimeAction(g, yyn, v) ==
  CASE yyn = 10 -> Clock(g, v[1], 0, 0, v[2])
    [] yyn = 11 -> Clock(g, v[1], v[3], 0, v[4])
    [] yyn = 12 -> InZone(Clock(g, v[1], v[3], g.seconds, MER24), OffsetOf(v[4]), "off")
    [] yyn = 13 -> Clock(g, v[1], v[3], v[5], v[6])
    [] yyn = 14 -> InZone(Clock(g, v[1], v[3], v[5], MER24), OffsetOf(v[6]), "off")
ZoneAction(g, yyn, v) == InZone(g, v[1], IF yyn = 15 THEN "off" ELSE "on")
DayAction(g, yyn, v) == IF yyn = 20 THEN OnDay(g, v[1], v[2]) ELSE OnDay(g, 1, v[1])
DateAction(g, yyn, v) ==
  CASE yyn = 21 -> MonthAndDay(g, v[1], v[3])
    [] yyn = 22 -> IF v[1] >= 100 THEN YearToo(g, v[1], v[3], v[5]) ELSE YearToo(g, v[5], v[1], v[3])
    [] yyn = 23 -> YearToo(g, v[1], -v[2], -v[3])
    [] yyn = 24 -> YearToo(g, -v[3], v[2], v[1])
    [] yyn = 25 -> MonthAndDay(g, v[1], v[2])
    [] yyn = 26 -> YearToo(g, v[4], v[1], v[2])
    [] yyn = 27 -> MonthAndDay(g, v[2], v[1])
    [] yyn = 28 -> YearToo(g, v[3], v[2], v[1])
RelAction(g, yyn, v) ==
  CASE yyn = 29 -> [g EXCEPT !.relSeconds = -@, !.relMonth = -@]
    [] yyn \in {31, 32} -> Later(g, v[1] * v[2] * 60)
    [] yyn = 33 -> Later(g, v[1] * 60)
    [] yyn \in {34, 35} -> Later(g, v[1])
    [] yyn = 36 -> Later(g, 1)
    [] yyn \in {37, 38} -> MonthsLater(g, v[1] * v[2])
    [] yyn = 39 -> MonthsLater(g, v[1])
    [] OTHER -> g
Action(g, yyn, v) ==
  CASE yyn \in DOMAIN ItemAction -> [g EXCEPT ![ItemAction[yyn]] = @ + 1]
    [] yyn \in 10 .. 14 -> TimeAction(g, yyn, v)
    [] yyn \in 15 .. 17 -> ZoneAction(g, yyn, v)
    [] yyn \in 18 .. 20 -> DayAction(g, yyn, v)
    [] yyn \in 21 .. 28 -> DateAction(g, yyn, v)
    [] yyn \in 29 .. 39 -> RelAction(g, yyn, v)
    [] yyn = 40 -> NumberAlone(g, v[1])
    [] OTHER -> g
RuleValue(yyn, v) == CASE yyn = 41 -> MER24 [] v = <<>> -> 0 [] OTHER -> v[1]

(* yyparse.  No state shifts the token error: it is nowhere in yycheck, so *)
(* that after an error all states are popped.                              *)
Empty == -2
Popped(s, n) == Upto(s, Len(s) - n)
Goto(state, symbol) ==
  LET n == symbol - YYNTOKENS
      to == yypgoto[n] + state
  IN IF to \in 0 .. YYLAST /\ yycheck[to] = state THEN yytable[to] ELSE yydefgoto[n]
Push(p, state, val) == [p EXCEPT !.states = Append(@, state), !.vals = Append(@, val)]
Reduced(p, q, yyn, v) == Push([q EXCEPT !.g = Action(p.g, yyn, v)], Goto(Last(q.states), yyr1[yyn]), RuleValue(yyn, v))
Yyreduce(p, yyn, n) ==
  Reduced(p, [p EXCEPT !.states = Popped(@, n), !.vals = Popped(@, n)], yyn, From(p.vals, Len(p.vals) - n + 1))
Aborted(p) == [p EXCEPT !.ends = "error"]
Yydefault(p, yyn) == IF yyn = 0 THEN Aborted(p) ELSE Yyreduce(p, yyn, yyr2[yyn])
Looks(p, t) == [p EXCEPT !.tok = t.tok, !.val = t.val, !.rest = t.rest]
LookAhead(p) == IF p.tok = Empty THEN Looks(p, Yylex(p.rest)) ELSE p
Shifted(p, state) == Push([p EXCEPT !.tok = IF @ = Symbol.END THEN @ ELSE Empty], state, p.val)
OnToken(p, state, at) ==
  CASE at \notin 0 .. YYLAST -> Yydefault(p, yydefact[state])
    [] at \in 0 .. YYLAST /\ yycheck[at] # p.tok -> Yydefault(p, yydefact[state])
    [] OTHER -> CASE yytable[at] = 0 -> Aborted(p)
                  [] yytable[at] = YYFINAL -> [p EXCEPT !.ends = "accept"]
                  [] OTHER -> Shifted(p, yytable[at])
Decided(p, state) ==
  IF yypact[state] = YYPACTNINF THEN Yydefault(p, yydefact[state])
  ELSE LET Sees(q) == OnToken(q, state, yypact[state] + q.tok) IN Sees(LookAhead(p))
RECURSIVE Yyparse(_)
Yyparse(p) == IF p.ends # "" THEN p ELSE Yyparse(Decided(p, Last(p.states)))
ParseStart(s, g) == [states |-> <<0>>, vals |-> <<0>>, tok |-> Empty, val |-> 0, rest |-> s, g |-> g, ends |-> ""]

-----------------------------------------------------------------------------
(* localtime and gmtime, with days and years counted from 1970.            *)
IsLeap(year) == year % 4 = 0 /\ (year % 100 # 0 \/ year % 400 = 0)
DaysInMonth == [leap \in BOOLEAN |-> <<31, IF leap THEN 29 ELSE 28, 31, 30, 31, 30, 31, 31, 30, 31, 30, 31>>]
DaysBeforeMonth == [leap \in BOOLEAN |-> [m \in 1 .. 13 |-> Sum0(Upto(DaysInMonth[leap], m - 1))]]
MonthLengths(year) == DaysInMonth[IsLeap(year)]
DaysBefore(year) == 365 * (year - 1970) + (year - 1969) \div 4 - (year - 1901) \div 100 + (year - 1601) \div 400
InMonth(t, day, year, yday, month) ==
  [year |-> year, yday |-> yday, month |-> month, mday |-> yday - DaysBeforeMonth[IsLeap(year)][month] + 1,
   wday |-> (day + 4) % 7, hour |-> (t % SecondsPerDay) \div 3600, min |-> (t % 3600) \div 60, sec |-> t % 60]
MonthAt(starts, yday) == CHOOSE m \in 1 .. 12 : starts[m] <= yday /\ yday < starts[m + 1]
InYear(t, day, year, yday) == InMonth(t, day, year, yday, MonthAt(DaysBeforeMonth[IsLeap(year)], yday))
InDay(t, day, year) == InYear(t, day, year, day - DaysBefore(year))
Fields(t, day) ==
  InDay(t, day, CHOOSE y \in 1969 + day \div 366 .. 1970 + day \div 365 : DaysBefore(y) <= day /\ day < DaysBefore(y + 1))
Gmtime(t) == Fields(t, t \div SecondsPerDay)
IsDst(tz, t) == tz.from <= t /\ t < tz.to
Localtime(tz, t) == Gmtime(t + tz.off + (IF IsDst(tz, t) THEN 3600 ELSE 0))

(* What get_date computes; -1 stands for no date throughout.               *)
ToSeconds(hours, minutes, seconds, meridian) ==
  CASE minutes \notin 0 .. 59 \/ seconds \notin 0 .. 59 -> -1
    [] hours \notin (IF meridian = MER24 THEN 0 .. 23 ELSE 1 .. 12) -> -1
    [] OTHER -> ((IF meridian = MER24 THEN hours ELSE hours % 12) + (IF meridian = MERpm THEN 12 ELSE 0)) * 3600 + minutes * 60 + seconds
FullYear(year) == IF year < 69 THEN year + 2000 ELSE IF year < 100 THEN year + 1900 ELSE year
DaysTo(month, day, year) ==
  day - 1 + DaysBeforeMonth[IsLeap(year)][month] + 365 * (year - 1970) + Cardinality({i \in 1970 .. year - 1 : i % 4 = 0})
WithoutDst(tz, julian, dst) == IF dst = "on" \/ (dst = "maybe" /\ IsDst(tz, julian)) THEN julian - 3600 ELSE julian
ConvertIn(tz, zone, month, day, year, tod, dst) ==
  IF year \notin 1970 .. LastYear \/ month \notin 1 .. 12 THEN -1
  ELSE IF day \notin 1 .. MonthLengths(year)[month] \/ tod < 0 THEN -1
  ELSE WithoutDst(tz, DaysTo(month, day, year) * SecondsPerDay + zone * 60 + tod, dst)
Convert(tz, zone, month, day, year, tod, dst) ==
  ConvertIn(tz, zone, month, day, FullYear(IF year < 0 THEN -year ELSE year), tod, dst)
HourAfter(tz, t) == (Localtime(tz, t).hour + 1) % 24
DstCorrect(tz, start, future) == future - start + (HourAfter(tz, start) - HourAfter(tz, future)) * 3600
RelativeDate(tz, start, ordinal, number) ==
  LET days == ((number - Localtime(tz, start).wday + 7) % 7) + 7 * (IF ordinal <= 0 THEN ordinal ELSE ordinal - 1)
  IN DstCorrect(tz, start, start + days * SecondsPerDay)
MonthsOn(tz, zone, start, tm, months) ==
  DstCorrect(tz, start, Convert(tz, zone, (months % 12) + 1, tm.mday, months \div 12, ToSeconds(tm.hour, tm.min, tm.sec, MER24), "maybe"))
RelativeMonth(tz, zone, start, months) ==
  IF months = 0 THEN 0
  ELSE LET From0(tm) == MonthsOn(tz, zone, start, tm, 12 * tm.year + tm.month - 1 + months) IN From0(Localtime(tz, start))

(* difftm, in years from 1 on, and get_date.                               *)
Difftm(a, b) ==
  LET ay == a.year - 1
      by == b.year - 1
      days == a.yday - b.yday + (ay \div 4 - by \div 4) - (ay \div 100 - by \div 100) + (ay \div 400 - by \div 400) + (ay - by) * 365
  IN 60 * (60 * (24 * days + a.hour - b.hour) + a.min - b.min) + a.sec - b.sec
Dated(tm, zone) ==
  [year |-> tm.year, month |-> tm.month, day |-> tm.mday, zone |-> zone, dst |-> "maybe", hour |-> 0, minutes |-> 0, seconds |-> 0,
   meridian |-> MER24, relSeconds |-> 0, relMonth |-> 0, dayOrdinal |-> 0, dayNumber |-> 0,
   haveDate |-> 0, haveDay |-> 0, haveRel |-> 0, haveTime |-> 0, haveZone |-> 0]
ZoneNow(tz, now) == Difftm(Gmtime(now), Localtime(tz, now)) \div 60 + (IF IsDst(tz, now) THEN 60 ELSE 0)
Refused0(p) ==
  p.ends = "error" \/ p.g.haveTime > 1 \/ p.g.haveZone > 1 \/ p.g.haveDate > 1 \/ p.g.haveDay > 1
StartOf(tz, now, tm, g) ==
  CASE g.haveDate > 0 \/ g.haveTime > 0 \/ g.haveDay > 0 ->
         Convert(tz, g.zone, g.month, g.day, g.year, ToSeconds(g.hour, g.minutes, g.seconds, g.meridian), g.dst)
    [] OTHER -> IF g.haveRel > 0 THEN now ELSE now - ((tm.hour * 60 + tm.min) * 60 + tm.sec)
DayOn(tz, g, t) == IF g.haveDay > 0 /\ g.haveDate = 0 THEN t + RelativeDate(tz, t, g.dayOrdinal, g.dayNumber) ELSE t
MonthOn(tz, g, t) == DayOn(tz, g, t + RelativeMonth(tz, g.zone, t, g.relMonth))
MovedBy(tz, g, start) ==
  IF (g.haveDate > 0 \/ g.haveTime > 0 \/ g.haveDay > 0) /\ start < 0 THEN -1
  ELSE LET Given(t) == IF t = -1 THEN 0 ELSE t IN Given(MonthOn(tz, g, start + g.relSeconds))
GotDate(tz, now, tm, p) == IF Refused0(p) THEN -1 ELSE MovedBy(tz, p.g, StartOf(tz, now, tm, p.g))
GetDateFrom(tz, now, tm, s) == GotDate(tz, now, tm, Yyparse(ParseStart(s, Dated(tm, ZoneNow(tz, now)))))
GetDate(tz, now, s) == GetDateFrom(tz, now, Localtime(tz, now), s)
===============================================================================
