------------------------------ MODULE MCUtilities ------------------------------
(***************************************************************************)
(* The utilities on all small inputs: test, expr and find, compared with   *)
(* grammars that say which expressions there are and not how they are      *)
(* read; xargs, grep and the symbolic modes of chmod and mkdir, compared   *)
(* with what they promise; seq, factor and scaled numbers; and dates.      *)
(***************************************************************************)
EXTENDS ProgramCalls, Conditions, FindPlan, XargsGrep, NumberPrograms, GetDate

(* Test, expr and find.                                                    *)
NoFile == [link |-> FALSE, kind |-> "", mode |-> {}, size |-> 0, time |-> 0, ino |-> 0]
MCNamed ==
  [x \in {"f", "d", "l", "x"} |->
     CASE x = "f" -> [NoFile EXCEPT !.kind = "file", !.mode = {"-r", "-w"}, !.size = 1, !.time = 1, !.ino = 1]
       [] x = "d" -> [NoFile EXCEPT !.kind = "dir", !.mode = {"-r", "-x", "-k"}, !.time = 2, !.ino = 2]
       [] x = "l" -> [NoFile EXCEPT !.link = TRUE, !.kind = "file", !.mode = {"-r", "-w"}, !.size = 1,
                                    !.time = 1, !.ino = 1]
       [] x = "x" -> [NoFile EXCEPT !.link = TRUE]]

-----------------------------------------------------------------------------
(* What a list of arguments may mean by the grammar in test.c, operands    *)
(* being taken from a set: or binds less than and, and less than not.      *)
FileTest(op, name) == StatOf(name).kind = (IF op = "-f" THEN "file" ELSE "dir")
PrimaryValues(w, operands) ==
  IF Len(w) = 1 THEN {x # "" : x \in ToSet(w) \cap operands}
  ELSE IF Len(w) = 2 /\ w[1] = "-z" THEN {x = "" : x \in {w[2]} \cap operands}
  ELSE IF Len(w) = 2 /\ w[1] \in {"-f", "-d"} THEN {FileTest(w[1], x) : x \in {w[2]} \cap operands}
  ELSE IF Len(w) = 3 /\ w[2] = "=" /\ {w[1], w[3]} \subseteq operands THEN {w[1] = w[3]}
  ELSE {}
RECURSIVE OrValues(_, _), AndValues(_, _), NotValues(_, _)
NotValues(w, operands) ==
  PrimaryValues(w, operands)
    \cup (IF Len(w) >= 2 /\ w[1] = "!" THEN {~v : v \in NotValues(Tail(w), operands)} ELSE {})
    \cup (IF Len(w) >= 3 /\ w[1] = "(" /\ Last(w) = ")"
            THEN OrValues(SubSeq(w, 2, Len(w) - 1), operands) ELSE {})
AndValues(w, operands) ==
  NotValues(w, operands)
    \cup UNION {IF w[k] # "-a" THEN {}
                ELSE {u /\ v : u \in NotValues(Upto(w, k - 1), operands),
                               v \in AndValues(From(w, k + 1), operands)} : k \in 2 .. Len(w) - 1}
OrValues(w, operands) ==
  AndValues(w, operands)
    \cup UNION {IF w[k] # "-o" THEN {}
                ELSE {u \/ v : u \in AndValues(Upto(w, k - 1), operands),
                               v \in OrValues(From(w, k + 1), operands)} : k \in 2 .. Len(w) - 1}

(* What the standard (4.62.4) says of up to four arguments.                *)
RECURSIVE StandardValues(_)
StandardValues(w) ==
  CASE Len(w) = 0 -> {FALSE}
    [] Len(w) = 1 -> {w[1] # ""}
    [] Len(w) = 2 /\ w[1] = "!" -> {w[2] = ""}
    [] Len(w) = 2 /\ w[1] = "-z" -> {w[2] = ""}
    [] Len(w) = 2 /\ w[1] \in {"-f", "-d"} -> {FileTest(w[1], w[2])}
    [] Len(w) = 3 /\ w[2] = "=" -> {w[1] = w[3]}
    [] Len(w) \in 3 .. 4 /\ w[1] = "!" -> {~v : v \in StandardValues(Tail(w))}
    [] OTHER -> {}
(* Where test reads them otherwise, and says they are wrong: a unary       *)
(* operator before what looks like a binary one, a comparison of "!", and  *)
(* an operand that looks like an operator behind more than one "!".        *)
Misread(w) ==
  \/ Len(w) \in 3 .. 4 /\ w[2] = "!" /\ w[Len(w) - 1] = "!" /\ Last(w) \in {"!", "("} \cup UnaryOps
  \/ Len(w) \in 2 .. 4 /\ Last(w) = "=" /\ w[Len(w) - 1] \in UnaryOps
  \/ Len(w) = 3 /\ w[1] = "!" /\ w[2] = "="

Statuses(values) == {IF v THEN 0 ELSE 1 : v \in values}
TestRight(w, status) ==
  IF StandardValues(w) # {}
    THEN status \in IF Misread(w) THEN {2} ELSE Statuses(StandardValues(w))
  ELSE IF OrValues(w, {"", "d", "f", "x"}) # {}
    THEN status \in Statuses(OrValues(w, {"", "d", "f", "x"}))
  ELSE status \in {2} \cup Statuses(OrValues(w, ToSet(w)))

TestOf == Idle("conditions") /\ \E w \in Texts({"!", "(", ")", "-a", "-o", "=", "-z", "x", ""}, 5) :
  Runs([prog |-> "test", w |-> w], TestRun(w))
LongTest == Idle("conditions") /\ \E w \in Texts({"!", "(", ")", "-a", "-o", "d"}, 6) :
  Runs([prog |-> "test", w |-> w], TestRun(w))

(* Numbers of any length, with sign, zeros and blanks, by their values.    *)
RECURSIVE Magnitude(_)
Magnitude(s) == IF s = <<>> THEN 0 ELSE 10 * Magnitude(Front(s)) + DigitWorth(Last(s))
Stripped(s) == StripLeft(Reverse(StripLeft(Reverse(s), WhiteSpace)), WhiteSpace)
Unsigned(s) == IF s # <<>> /\ Head(s) \in {"-", "+"} THEN Tail(s) ELSE s
IsNumber(s) == Unsigned(s) # <<>> /\ ToSet(Unsigned(s)) \subseteq DigitSet
ExactValue(s) == IF Head(s) = "-" THEN -Magnitude(Tail(s)) ELSE Magnitude(Unsigned(s))
Sgn(n) == IF n < 0 THEN -1 ELSE IF n = 0 THEN 0 ELSE 1

CompareNumbersOf == Idle("conditions") /\ \E s, t \in Texts({"-", "+", "0", "1", "2"}, 3) :
  /\ IsNumber(s) /\ IsNumber(t)
  /\ Runs([prog |-> "-eq", s |-> s, t |-> t], IntCmp(GetNumber(s), GetNumber(t)))
(* A sign with only blanks behind it passes for a number without digits.   *)
ReadNumberOf == Idle("conditions") /\ \E s \in Texts({"-", "0", "1", SP, "x"}, 5) :
  /\ ~(Stripped(s) = <<"-">> /\ Last(s) = SP)
  /\ Runs([prog |-> "number of", s |-> s], GetNumber(s))
NumberRight(s, n) ==
  IF IsNumber(Stripped(s)) THEN n.sign * Magnitude(n.digits) = ExactValue(Stripped(s)) ELSE n = Invalid

FileTestRight(name, res) ==
  LET target == IF name = "l" THEN "f" ELSE name
  IN res = [op \in {"-e", "-f", "-d", "-L", "-s", "-k"} |->
              CASE op = "-e" -> name \in {"f", "d", "l"} [] op = "-f" -> target = "f"
                [] op = "-d" -> target = "d" [] op = "-L" -> name \in {"l", "x"}
                [] op = "-s" -> target = "f" [] op = "-k" -> target = "d"]
FileTests == Idle("conditions") /\ \E name \in {"f", "d", "l", "x", "1"} :
  Runs([prog |-> "file test", name |-> name],
       [op \in {"-e", "-f", "-d", "-L", "-s", "-k"} |-> Filstat(StatOf(name), op)])

-----------------------------------------------------------------------------
(* The value of an expression: that of the operator that binds least, the  *)
(* last one of its kind, of the values on both sides of it, with integers  *)
(* of any size; a result that has no Bits bits is an overflow.             *)
Depth(a, k) == Times(<<"(">>, Upto(a, k)) - Times(<<")">>, Upto(a, k))
LevelOf(op) == CHOOSE n \in 1 .. 7 : n = 7 \/ op \in Levels[n]
OpenOps(a) == {k \in 2 .. Len(a) - 1 : Depth(a, k) = 0 /\ LevelOf(a[k]) < 7}
Root(a) ==
  CHOOSE k \in OpenOps(a) : \A j \in OpenOps(a) :
    LevelOf(a[k]) < LevelOf(a[j]) \/ (LevelOf(a[k]) = LevelOf(a[j]) /\ j <= k)
Sized(n) == IF n \in IntMin .. IntMax THEN Value(IntVal(n), 0) ELSE Exits(3, 0)
Truncated(x, y) == CHOOSE q \in -16 .. 16 : \E m \in -16 .. 16 :
  /\ x = q * y + m
  /\ (IF m < 0 THEN -m ELSE m) < (IF y < 0 THEN -y ELSE y)
  /\ m # 0 => (m < 0 <=> x < 0)
Calculated(op, x, y) ==
  CASE op = <<"+">> -> Sized(x + y)
    [] op = <<"-">> -> Sized(x - y)
    [] op = <<"*">> -> Sized(x * y)
    [] y = 0 -> Exits(2, 0)
    [] op = <<"/">> -> Sized(Truncated(x, y))
    [] op = <<"%">> -> Sized(x - y * Truncated(x, y))
Void(v) == ToString0(v) \in {<<>>, <<"0">>, <<"-", "0">>}
Operation(op, x, y) ==
  CASE op = <<"|">> -> Value(IF Void(x) THEN y ELSE x, 0)
    [] op = <<"&">> -> Value(IF Void(x) \/ Void(y) THEN IntVal(0) ELSE x, 0)
    [] op = <<":">> -> Value(Match(ToString0(x), ToString0(y)), 0)
    [] op \in Levels[3] -> Value(Compare(op, x, y), 0)
    [] OTHER -> IF IsInteger(x) /\ IsInteger(y) THEN Calculated(op, IntegerOf(x), IntegerOf(y))
                ELSE Exits(2, 0)
Operated(op, x, y) ==
  IF x.err # 0 THEN x ELSE IF y.err # 0 THEN y ELSE Operation(op, x.v, y.v)
RECURSIVE Meaning0(_)
Meaning0(a) ==
  IF OpenOps(a) # {} THEN Operated(a[Root(a)], Meaning0(Upto(a, Root(a) - 1)), Meaning0(From(a, Root(a) + 1)))
  ELSE IF Len(a) = 1 THEN Value(StrVal(a[1]), 0)
  ELSE Meaning0(SubSeq(a, 2, Len(a) - 1))

Written(shape, x, o, y, p, z) ==
  CASE shape = "plain" -> <<x, o, y, p, z>>
    [] shape = "left" -> <<<<"(">>, x, o, y, <<")">>, p, z>>
    [] shape = "right" -> <<x, o, <<"(">>, y, p, z, <<")">>>>
Operands == {<<"-", "8">>, <<"-", "1">>, <<"3">>, <<"x">>}
Expr == Idle("conditions") /\ \E shape \in {"plain", "left", "right"}, x, y, z \in Operands,
             o, p \in {<<"|">>, <<"&">>, <<"=">>, <<"<">>, <<"+">>, <<"-">>, <<"*">>, <<"/">>, <<":">>} :
  /\ shape = "right" => o # <<":">>
  /\ LET a == Written(shape, x, o, y, p, z) IN Runs([prog |-> "expr", a |-> a], ExprRun(a))
Operate == Idle("conditions") /\ \E x, y \in {ToString0(IntVal(n)) : n \in IntMin .. IntMax} \cup {<<>>, <<"x">>, <<"9">>},
                                    o \in UNION ToSet(Levels) :
  Runs([prog |-> "expr", a |-> <<x, o, y>>], ExprRun(<<x, o, y>>))
ExprAgrees(a, r, v) ==
  \/ r.err = v.err /\ (r.err # 0 \/ ToString0(r.v) = ToString0(v.v))
  \/ r.err = Trap /\ v.err = 3 /\ <<"*">> \in ToSet(a)
Matches == Idle("conditions") /\ \E s \in Texts({"x", "y"}, 3), p \in Texts({"x", "y"}, 3), i, j \in 0 .. 3 :
  /\ i <= j /\ j <= Len(p)
  /\ LET pattern == Upto(p, i) \o <<"\\(">> \o SubSeq(p, i + 1, j) \o <<"\\)">> \o From(p, j + 1)
     IN Runs([prog |-> "expr", a |-> <<s, <<":">>, pattern>>], ExprRun(<<s, <<":">>, pattern>>))

(* An expression that is none has no value.                                *)
RECURSIVE Formed(_)
Formed(a) ==
  \/ Len(a) = 1 /\ a[1] \notin Operators
  \/ Len(a) >= 3 /\ a[1] = <<"(">> /\ Last(a) = <<")">> /\ Formed(SubSeq(a, 2, Len(a) - 1))
  \/ \E k \in 2 .. Len(a) - 1 : /\ LevelOf(a[k]) < 7
                                /\ Formed(Upto(a, k - 1))
                                /\ Formed(From(a, k + 1))
IllFormed == Idle("conditions") /\ \E a \in Texts({<<"(">>, <<")">>, <<"+">>, <<"|">>, <<"1">>, <<"0">>}, 6) :
  Runs([prog |-> "formed", a |-> a], ExprRun(a))

-----------------------------------------------------------------------------
(* find on a directory d with a file a and a directory b with a file c.    *)
MCCommands == [n \in {"ok", "bad"} |-> IF n = "ok" THEN {} ELSE {<<"d", "a">>}]
MCAgreed == {<<"d", "a">>}
Entry0 == [path |-> <<"d">>, level |-> 0, info |-> "F", type |-> "f", mtime |-> 0, atime |-> 0, ctime |-> 0,
           size |-> 0, nlink |-> 1, ino |-> 1, mode |-> {}, uid |-> 0, childless |-> FALSE, gone |-> FALSE]
Entry(path, info) == [Entry0 EXCEPT !.path = path, !.level = Len(path) - 1, !.info = info,
                                    !.type = IF info = "F" THEN "f" ELSE "d"]
TreeEntries == <<Entry(<<"d">>, "D"), Entry(<<"d", "a">>, "F"), Entry(<<"d", "b">>, "D"),
                 Entry(<<"d", "b", "c">>, "F"), Entry(<<"d", "b">>, "DP"), Entry(<<"d">>, "DP")>>
Op(kind) == [kind |-> kind]

(* What an expression is worth for one entry, and what it prints: the      *)
(* first -o splits it, then its first factor; "and" stops at what is false.*)
Kinds0(w) == [i \in DOMAIN w |-> w[i].x.kind]
Opened(w, k) == Times("(", Upto(Kinds0(w), k)) - Times(")", Upto(Kinds0(w), k))
OrsIn(w) == {k \in DOMAIN w : w[k].x.kind = "-o" /\ Opened(w, k) = 0}
FactorEnd(w) == CHOOSE k \in DOMAIN w : /\ Opened(w, k) = 0 /\ w[k].x.kind # "!"
                                        /\ \A j \in 1 .. k - 1 : Opened(w, j) # 0 \/ w[j].x.kind = "!"
Ends1(w) == \E k \in DOMAIN w : /\ Opened(w, k) = 0 /\ w[k].x.kind # "!"
                                /\ \A j \in 1 .. k - 1 : Opened(w, j) > 0 \/ w[j].x.kind = "!"
RECURSIVE FindFormed(_), FactorFormed(_)
FindFormed(w) ==
  IF w = <<>> THEN FALSE
  ELSE IF OrsIn(w) # {}
    THEN \E k \in OrsIn(w) : FindFormed(Upto(w, k - 1)) /\ FindFormed(From(w, k + 1))
  ELSE /\ Ends1(w)
       /\ FactorFormed(Upto(w, FactorEnd(w)))
       /\ FactorEnd(w) = Len(w) \/ FindFormed(From(w, FactorEnd(w) + 1))
FactorFormed(w) ==
  CASE w[1].x.kind = "!" -> FactorFormed(Tail(w))
    [] w[1].x.kind = "(" -> Last(w).x.kind = ")" /\ FindFormed(SubSeq(w, 2, Len(w) - 1))
    [] OTHER -> w[1].x.kind \notin {")", "-o"}

Worth(v, t) == [val |-> v, trace |-> t]
Then(t, r) == Worth(r.val, t \o r.trace)
RECURSIVE WorthOf(_), FactorWorth(_)
OrWorth(l, rest) == IF l.val THEN l ELSE Then(l.trace, WorthOf(rest))
AndWorth(l, rest) == IF l.val /\ rest # <<>> THEN Then(l.trace, WorthOf(rest)) ELSE l
WorthOf(w) ==
  IF OrsIn(w) # {}
    THEN LET k == CHOOSE k \in OrsIn(w) : \A j \in OrsIn(w) : k <= j
         IN OrWorth(WorthOf(Upto(w, k - 1)), From(w, k + 1))
    ELSE AndWorth(FactorWorth(Upto(w, FactorEnd(w))), From(w, FactorEnd(w) + 1))
FactorWorth(w) ==
  CASE w[1].x.kind = "!" -> LET r == FactorWorth(Tail(w)) IN Worth(~r.val, r.trace)
    [] w[1].x.kind = "(" -> WorthOf(SubSeq(w, 2, Len(w) - 1))
    [] w[1].x.kind = "print" -> Worth(TRUE, <<w[1].at>>)
    [] OTHER -> Worth(w[1].x.kind = "true", <<>>)

FindExpr == Idle("conditions") /\ \E w \in Texts({Op(k) : k \in {"(", ")", "!", "-o", "true", "false", "print"}}, 5) :
  Runs([prog |-> "find", w |-> w], Find(w, <<Entry0>>, 0))
(* Without an action the whole is bracketed, and printed if it is true.    *)
Numbered(w) ==
  IF Op("print") \in ToSet(w) THEN [i \in DOMAIN w |-> [x |-> w[i], at |-> i]]
  ELSE [i \in 1 .. Len(w) + 3 |-> [x |-> (<<Op("(")>> \o w \o <<Op(")"), Op("print")>>)[i], at |-> 0]]
FindExprRight(w, st) ==
  IF w = <<>> THEN st.out = <<<<0, <<<<"d">>>>>>>>
  ELSE IF FindFormed(Numbered(w)) THEN [i \in DOMAIN st.out |-> st.out[i][1]] = WorthOf(Numbered(w)).trace
  ELSE st.status = 1 /\ st.out = <<>>

(* Numbers are exact, more or less; times and sizes are rounded up first.  *)
Ceiling(n, unit) == (n + unit - 1) \div unit
FindNumber == Idle("conditions") /\ \E sign \in {"", "+", "-"}, digit \in {"0", "1", "2", "3"},
                 unit \in {"", "s", "m", "d", "c", "k"}, kind \in {"Xmin", "Xtime", "size", "links", "depth", "other size"},
                 n \in 0 .. 13 :
  /\ unit # "" => kind \in (IF unit \in {"c", "k"} THEN {"size", "other size"} ELSE {"Xtime"})
  /\ LET arg == (IF sign = "" THEN <<>> ELSE <<sign>>) \o <<digit>> \o (IF unit = "" THEN <<>> ELSE <<unit>>)
         x == [kind |-> IF kind = "other size" THEN "size" ELSE kind, arg |-> arg, time |-> "m"]
         e == [Entry0 EXCEPT !.mtime = 20 - n, !.size = n, !.nlink = n, !.level = n]
         other == [kind |-> "size", arg |-> <<"0">>, time |-> "m"]
     IN Runs([prog |-> "find -n", sign |-> sign, k |-> DigitOf(digit), unit |-> unit, kind |-> x.kind, n |-> n],
             Find(IF kind = "other size" THEN <<x, Op("-o"), other, Op("-a"), Op("false")>> ELSE <<x>>, <<e>>, 20))
InUnits(kind, unit, n) ==
  CASE kind = "Xmin" -> Ceiling(n, Minute) [] kind = "Xtime" -> IF unit = "" THEN Ceiling(n, Day) ELSE n
    [] kind = "size" -> IF unit = "" THEN Ceiling(n, Block) ELSE n [] OTHER -> n
WantedHint(kind, unit, k) ==
  CASE unit = "m" -> k * Minute [] unit = "d" -> k * Day [] unit = "k" -> k * Kilo [] OTHER -> k
FindNumberRight(c, st) ==
  LET n == InUnits(c.kind, c.unit, c.n)
      k == WantedHint(c.kind, c.unit, c.k)
      whole == c.unit = "" /\ c.kind \in {"Xmin", "Xtime"}
  IN (st.out # <<>>) = CASE c.sign = "" -> n = k [] c.sign = "+" -> n > k [] c.sign = "-" -> IF whole THEN n <= k ELSE n < k

(* Every file for which -exec is reached is given to one run of its        *)
(* command, in order and at most ArgMax together, also when -quit comes.   *)
FindExec == Idle("conditions") /\ \E S, Q \in SUBSET {<<"d">>, <<"d", "a">>, <<"d", "b">>, <<"d", "b", "c">>},
               command \in {"ok", "bad"}, plus, ok \in BOOLEAN :
  /\ ~(plus /\ ok)
  /\ LET exec == [kind |-> "exec", plus |-> plus, ok |-> ok, command |-> command]
     IN Runs([prog |-> "find -exec", S |-> S, Q |-> Q, plus |-> plus, ok |-> ok, command |-> command],
             Find(<<[kind |-> "name", names |-> S], exec, Op("print"), Op("-o"),
                    [kind |-> "name", names |-> Q], Op("quit")>>, TreeEntries, 0))
QuitsAt(c, p) ==
  /\ p \in c.Q
  /\ p \in c.S => ~c.plus /\ (CommandFails(c.command, {p}) \/ (c.ok /\ p \notin Agreed))
Visited(c) ==
  LET paths == <<<<"d">>, <<"d", "a">>, <<"d", "b">>, <<"d", "b", "c">>>>
      stop == SelectInSeq(paths, LAMBDA p : QuitsAt(c, p))
  IN IF stop = 0 THEN paths ELSE Upto(paths, stop)
FindExecRight(c, st) ==
  LET execs == SelectSeq(st.out, LAMBDA event : event[1] = 2)
      given == FlattenSeq([i \in DOMAIN execs |-> execs[i][2]])
  IN /\ given = SelectSeq(Visited(c), LAMBDA p : p \in c.S /\ (~c.ok \/ p \in Agreed))
     /\ \A i \in DOMAIN execs : Len(execs[i][2]) \in 1 .. (IF c.plus THEN ArgMax ELSE 1)
     /\ st.status = IF c.plus /\ CommandFails(c.command, ToSet(given)) THEN 1 ELSE 0

(* What is visited lies between the depths and not below what was pruned,  *)
(* parents before or behind what is in them.                               *)
FindTree == Idle("conditions") /\ \E S \in SUBSET {<<"d">>, <<"d", "b">>, <<"d", "b", "c">>}, lo, hi \in 0 .. 3, post \in BOOLEAN :
  LET depths == (IF hi = 3 THEN <<>> ELSE <<[kind |-> "maxdepth", arg |-> <<DigitsInOrder[hi + 1]>>]>>)
                \o (IF lo = 0 THEN <<>> ELSE <<[kind |-> "mindepth", arg |-> <<DigitsInOrder[lo + 1]>>]>>)
                \o (IF post THEN <<[kind |-> "depth", arg |-> <<>>]>> ELSE <<>>)
  IN Runs([prog |-> "find -depth", S |-> S, lo |-> lo, hi |-> hi, post |-> post],
          Find(depths \o <<Op("print"), [kind |-> "name", names |-> S], Op("prune")>>, TreeEntries, 0))
FindTreeRight(c, st) ==
  LET paths == IF c.post THEN <<<<"d", "a">>, <<"d", "b", "c">>, <<"d", "b">>, <<"d">>>>
               ELSE <<<<"d">>, <<"d", "a">>, <<"d", "b">>, <<"d", "b", "c">>>>
      pruned(p) == ~c.post /\ \E q \in c.S : Below(p, q) /\ Len(q) - 1 >= c.lo
  IN [i \in DOMAIN st.out |-> st.out[i][2][1]]
       = SelectSeq(paths, LAMBDA p : Len(p) - 1 \in c.lo .. c.hi /\ ~pruned(p))

(* Each primary looks at what the entry really is, asked for or not, and    *)
(* an entry that could not be read is an error, or passed over if it went. *)
Facts ==
  {[kind |-> "newer", time |-> t, than |-> 2] : t \in {"c", "m"}}
    \cup {[kind |-> "perm", how |-> h, mode |-> {"r", "w"}] : h \in {"atleast", "any", "exact"}}
    \cup {[kind |-> "type", type |-> t] : t \in {"d", "f", "l"}}
    \cup {[kind |-> "user", elg |-> "equal", n |-> 1], Op("empty")}
    \cup {[kind |-> k, arg |-> <<"2">>] : k \in {"links", "inum"}}
FactOf(x, e) ==
  CASE x.kind = "newer" -> (IF x.time = "c" THEN e.ctime ELSE e.mtime) > 2
    [] x.kind = "perm" -> IF x.how = "exact" THEN e.mode = {"r", "w"}
                          ELSE (e.mode \cap {"r", "w"}) \in (IF x.how = "any" THEN {{"r"}, {"w"}} ELSE {}) \cup {{"r", "w"}}
    [] x.kind = "type" -> e.type = x.type
    [] x.kind = "user" -> e.uid = 1
    [] x.kind = "empty" -> e.size = 0
    [] x.kind = "links" -> e.nlink = 2
    [] x.kind = "inum" -> e.ino = 2
FindFacts == Idle("conditions") /\ \E x, y \in Facts, n \in 0 .. 3, mode \in SUBSET {"r", "w", "x"}, race, gone \in BOOLEAN,
                info \in {"D", "F", "SL", "NS", "DNR"}, level \in 0 .. 1 :
  LET e == [Entry0 EXCEPT !.info = info, !.level = level, !.gone = gone, !.mode = mode, !.mtime = n, !.ctime = n + 1,
                          !.size = n, !.nlink = n, !.ino = n, !.uid = n, !.childless = n = 0,
                          !.type = CASE info = "D" -> "d" [] info = "SL" -> "l" [] OTHER -> "f"]
  IN /\ info = "SL" => x.kind # "empty" /\ y.kind # "empty"
     /\ info \in {"NS", "DNR"} => n = 0 /\ mode = {}
     /\ info \in {"D", "F", "SL"} => ~race /\ ~gone /\ level = 0
     /\ Runs([prog |-> "find facts", x |-> x, y |-> y, e |-> e, race |-> race],
             Find((IF race THEN <<Op("race")>> ELSE <<>>) \o <<x, Op("!"), y>>, <<e>>, 0))
FindFactsRight(c, st) ==
  IF c.e.info \in {"NS", "DNR"}
    THEN st.out = <<>> /\ st.status = IF c.race /\ c.e.gone /\ c.e.level > 0 THEN 0 ELSE 1
    ELSE (st.out # <<>>) = (FactOf(c.x, c.e) /\ ~FactOf(c.y, c.e))

(* test decides by the standard's rules for few arguments, and for others  *)
(* never against the grammar; numbers of any length compare by value; expr *)
(* has the exact value or says that there is none, and never a value for   *)
(* what is no expression.  find prints what its expression is true of and   *)
(* nothing for what is none, compares with numbers rounded as find.1 says, *)
(* gives each file to one -exec command, and visits what is between the    *)
(* depths and not pruned.                                                  *)
DecisionsRight ==
  CASE call.prog = "test" -> TestRight(call.w, result)
    [] call.prog = "-eq" -> Sgn(result) = Sgn(ExactValue(call.s) - ExactValue(call.t))
    [] call.prog = "number of" -> NumberRight(call.s, result)
    [] call.prog = "file test" -> FileTestRight(call.name, result)
    [] call.prog = "expr" -> ExprAgrees(call.a, result, Meaning0(call.a))
    [] call.prog = "formed" -> (result.err = 0) = Formed(call.a)
    [] call.prog = "find" -> FindExprRight(call.w, result)
    [] call.prog = "find -n" -> FindNumberRight(call, result)
    [] call.prog = "find -exec" -> FindExecRight(call, result)
    [] call.prog = "find -depth" -> FindTreeRight(call, result)
    [] call.prog = "find facts" -> FindFactsRight(call, result)
    [] OTHER -> TRUE
-----------------------------------------------------------------------------
DecisionNext ==
  \/ TestOf \/ LongTest \/ CompareNumbersOf \/ ReadNumberOf \/ FileTests
  \/ Expr \/ Operate \/ Matches \/ IllFormed
  \/ FindExpr \/ FindNumber \/ FindExec \/ FindTree \/ FindFacts

-----------------------------------------------------------------------------
(* Xargs, grep and modes.                                                  *)
XOptions == [z |-> FALSE, eofstr |-> <<>>, I |-> FALSE, J |-> FALSE, replstr |-> <<"%">>, R |-> 0, L |-> 0, n |-> 9,
             x |-> FALSE, r |-> FALSE, P |-> 1, size |-> 12, argv |-> <<<<"u">>>>, fresh |-> NUL, ends |-> <<>>]

(* The words of a text and the line each is in, a line that ends with a    *)
(* blank being continued, or that there are none as a quote is open.       *)
Unended == "none"
WordsInit == [words |-> <<>>, w |-> <<>>, open |-> "", any |-> FALSE, line |-> 1, before |-> "", escaped |-> FALSE]
EndWord(W) == IF W.any THEN [W EXCEPT !.words = Append(@, [w |-> W.w, line |-> W.line]), !.w = <<>>, !.any = FALSE] ELSE W
More(W, c) == [W EXCEPT !.w = Append(@, c), !.any = TRUE]
ReadWord(W, c) ==
  LET next ==
    CASE W.open = Unended -> W
      [] W.escaped -> [More(W, c) EXCEPT !.escaped = FALSE]
      [] W.open # "" /\ c = NL -> [W EXCEPT !.open = Unended]
      [] W.open # "" /\ c # W.open -> More(W, c)
      [] W.open # "" -> [W EXCEPT !.open = ""]
      [] c \in {SQ, DQ} -> [W EXCEPT !.open = c, !.any = TRUE]
      [] c = BS -> [W EXCEPT !.escaped = TRUE]
      [] c = NL -> [EndWord(W) EXCEPT !.line = IF W.before \in WhiteSpace THEN @ ELSE @ + 1]
      [] c = SP -> EndWord(W)
      [] OTHER -> More(W, c)
  IN [next EXCEPT !.before = IF W.escaped \/ W.open # "" THEN "" ELSE c]
ReadWords(text, o) ==
  IF o.z THEN LET parts == Pieces(text, {NUL})
                  some == SelectSeq([i \in DOMAIN parts |-> [w |-> parts[i], line |-> i]], LAMBDA x : x.w # <<>>)
              IN [WordsInit EXCEPT !.words = some]
  ELSE EndWord(FoldLeft(ReadWord, WordsInit, text))
IllQuoted(W) == W.escaped \/ W.open # ""

(* The arguments the commands were given.                                  *)
Given(o, command) == SubSeq(command, Len(BeforeArgs(o)) + 1, Len(command) - Len(AfterArgs(o)))
AllGiven(o, X) == FlattenSeq([k \in DOMAIN X.runs |-> IF X.runs[k] = BeforeArgs(o) THEN <<>> ELSE Given(o, X.runs[k])])
Kept(W) == [i \in DOMAIN W.words |-> W.words[i].w]
CommandRight(o, command) ==
  command = BeforeArgs(o) \/
  /\ Upto(command, Len(BeforeArgs(o))) = BeforeArgs(o)
  /\ From(command, Len(command) - Len(AfterArgs(o)) + 1) = AfterArgs(o)
  /\ Len(Given(o, command)) \in 0 .. o.n
  /\ o.argv # <<>> => LengthOf(command) <= o.size

(* The end may be missed, or seen late, when the buffer held other bytes.  *)
EofPlaces(W, o) == {i \in DOMAIN W.words : o.eofstr # <<>> /\ W.words[i].w = o.eofstr}
Wanted1(W, o) ==
  IF EofPlaces(W, o) = {} THEN {Kept(W)} ELSE {Upto(Kept(W), Min(EofPlaces(W, o)) - 1)}
Missable(W, o) == {Kept(W)} \cup UNION {{Upto(Kept(W), i - 1), Upto(Kept(W), i)} : i \in EofPlaces(W, o)}

(* An empty word in quotes is not seen as the last of the input, unless a  *)
(* blank or a newline ends it, when nothing else waits in the buffer; nor  *)
(* is it that a quote is open.                                             *)
Unseen(text, W) == W.words # <<>> /\ Last(W.words).w = <<>> /\ Last(text) \in {SQ, DQ}
AsSeen(text, W) == IF Unseen(text, W) THEN [W EXCEPT !.words = Front(@)] ELSE W
StatusRight(o, X) ==
  LET status == {CommandStatus(k, o) : k \in (1 .. Len(X.runs)) \ X.running}
  IN CASE X.exit = 124 -> 255 \in status [] X.exit = 125 -> -1 \in status
       [] X.exit \in {126, 127} -> X.exit \in status
       [] X.exit \in {0, 123} -> /\ X.running = {} /\ status \cap {-1, 126, 127, 255} = {}
                                 /\ (X.exit = 0) = (status \subseteq {0})
       [] OTHER -> X.exit = 1
XargsRight(text, o, X) ==
  LET W == ReadWords(text, o)
  IN /\ \A k \in DOMAIN X.runs : CommandRight(o, X.runs[k])
     /\ X.most <= o.P /\ StatusRight(o, X)
     /\ IF X.exit \in {0, 123}
          THEN /\ ~IllQuoted(W) \/ Unseen(text, W)
               /\ \/ AllGiven(o, X) \in Wanted1(W, o)
                  \/ Unseen(text, W) /\ AllGiven(o, X) \in Wanted1(AsSeen(text, W), o)
                  \/ (Len(X.runs) > 1 \/ o.fresh # NUL) /\ AllGiven(o, X) \in Missable(W, o)
               /\ W.words = <<>> => Len(X.runs) \in (IF o.r THEN {0} ELSE {1})
        ELSE IsPrefix(AllGiven(o, X), Kept(W))

XargsWords == Idle("utilities") /\ \E text \in Texts({"a", SP, NL, SQ, BS, DQ}, 5), n \in {1, 9}, r \in BOOLEAN :
  LET o == [XOptions EXCEPT !.n = n, !.r = r] IN Runs([prog |-> "xargs", text |-> text, o |-> o], XargsRun(text, o))
(* Words that do not fit, in number or in size.                            *)
XargsFull == Idle("utilities") /\ \E lens \in Texts({1, 2, 4}, 4), size \in 3 .. 9, n \in {2, 9},
                x, J \in BOOLEAN,
                utility \in {<<>>, <<<<"u">>>>, <<<<"u">>, <<"%">>, <<"v">>>>} :
  LET text == FlattenSeq([i \in DOMAIN lens |-> Append(Repeat(<<"a", "b", "c", "d">>[i], lens[i]), SP)])
      o == [XOptions EXCEPT !.size = size, !.n = n, !.x = x, !.J = J, !.argv = utility]
  IN Runs([prog |-> "xargs", text |-> text, o |-> o], XargsRun(text, o))
XargsNul == Idle("utilities") /\ \E text \in Texts({"a", SP, NL, SQ, NUL}, 5), n \in {1, 9} :
  LET o == [XOptions EXCEPT !.z = TRUE, !.n = n]
  IN /\ text # <<>> => Last(text) = NUL
     /\ Runs([prog |-> "xargs", text |-> text, o |-> o], XargsRun(text, o))
XargsEof == Idle("utilities") /\ \E text \in Texts({"a", "b", SP, NL}, 6), n \in {1, 9}, fresh \in {NUL, "?"} :
  LET o == [XOptions EXCEPT !.eofstr = <<"b">>, !.n = n, !.fresh = fresh]
  IN Runs([prog |-> "xargs", text |-> text, o |-> o], XargsRun(text, o))
XargsChildren == Idle("utilities") /\ \E count \in 0 .. 3, P \in 1 .. 2,
                      s \in [1 .. 3 -> {-1, 0, 1, 127, 255}], d \in [1 .. 3 -> 0 .. 2] :
  LET text == FlattenSeq([i \in 1 .. count |-> <<"a", NL>>])
      o == [XOptions EXCEPT !.n = 1, !.P = P, !.ends = [k \in 1 .. count |-> [status |-> s[k], delay |-> d[k]]]]
  IN /\ \A k \in count + 1 .. 3 : s[k] = 0 /\ d[k] = 0
     /\ Runs([prog |-> "xargs", text |-> text, o |-> o], XargsRun(text, o))

(* By lines: L of them to a command, or each put in where % stands.        *)
XargsLines == Idle("utilities") /\ \E text \in Texts({"a", SP, NL, SQ}, 6), L \in 1 .. 2 :
  LET o == [XOptions EXCEPT !.L = L] IN Runs([prog |-> "xargs -L", text |-> text, o |-> o], XargsRun(text, o))
XargsReplace == Idle("utilities") /\ \E text \in Texts({"a", SP, NL}, 5), R \in {-1, 0, 1},
                   argv \in {<<<<"u">>, <<"%">>>>, <<<<"%">>, <<"x">>, <<"%", "%">>, <<"%">>>>} :
  LET o == [XOptions EXCEPT !.I = TRUE, !.R = R, !.argv = argv]
  IN Runs([prog |-> "xargs -I", text |-> text, o |-> o], XargsRun(text, o))
Groups(W, L) ==
  LET group(w) == (w.line - 1) \div L
      last == group(Last(W.words))
  IN IF W.words = <<>> THEN <<<<>>>>
     ELSE [g \in 1 .. last + 1 |-> LET ws == SelectSeq(W.words, LAMBDA w : group(w) = g - 1)
                                   IN [i \in DOMAIN ws |-> ws[i].w]]
LinesRight(text, o, X) ==
  X.exit = 0 => \E W \in {ReadWords(text, o), AsSeen(text, ReadWords(text, o))} :
                   X.runs = [g \in DOMAIN Groups(W, o.L) |-> BeforeArgs(o) \o Groups(W, o.L)[g]]
WithSpaces(words) == FlattenSeq([i \in DOMAIN words |-> IF i = 1 THEN words[i] ELSE <<SP>> \o words[i]])
ReplaceRight(text, o, X) ==
  LET W == ReadWords(text, o)
      held(i) == "%" \in ToSet(o.argv[i])
      among(i) == o.R < 0 \/ Cardinality({j \in 2 .. i : held(j)}) <= (IF o.R = 0 THEN 5 ELSE o.R)
      command(words) == [i \in DOMAIN o.argv |->
                           IF i > 1 /\ held(i) /\ among(i) THEN Strnsubst(o.argv[i], <<"%">>, WithSpaces(words)) ELSE o.argv[i]]
  IN X.exit = 0 => X.runs = IF W.words = <<>> /\ (text = <<>> \/ Head(text) # NL) THEN <<o.argv>>
                            ELSE [g \in DOMAIN Groups(W, 1) |-> command(Groups(W, 1)[g])]

(* A replacement is whole, or as far as there is room.                     *)
StrnsubstOf == Idle("utilities") /\ \E s \in Texts({"a", "%"}, 6), by \in Texts({"%", "b"}, 3) :
  Runs([prog |-> "strnsubst", s |-> s, by |-> by], Strnsubst(s, <<"%">>, by))
FirstReplaced(s, by, n) ==
  FlattenSeq([i \in DOMAIN s |-> IF s[i] = "%" /\ Times("%", Upto(s, i)) <= n THEN by ELSE <<s[i]>>])
SubstRight(s, by, r) ==
  LET fits(n) == Len(FirstReplaced(s, by, n)) < SubstMax
  IN IF Len(s) >= SubstMax THEN r = Upto(s, SubstMax - 1)
     ELSE \E n \in 0 .. Times("%", s) : /\ r = FirstReplaced(s, by, n) /\ fits(n)
                                        /\ n < Times("%", s) => ~fits(n + 1)

-----------------------------------------------------------------------------
GrepOptions == [patterns |-> <<<<"a">>>>, matchall |-> FALSE, fixed |-> TRUE, o |-> FALSE, w |-> FALSE, x |-> FALSE,
                v |-> FALSE, q |-> FALSE, l |-> FALSE, L |-> FALSE, c |-> FALSE, m |-> FALSE, limit |-> 0, A |-> 0, B |-> 0,
                binary |-> "binary", skipdirs |-> FALSE, stdin |-> FALSE]
RECURSIVE AllLines(_, _)
AllLines(F, eol) == LET r == Fgetln(F, eol) IN IF r.ln = <<>> THEN <<>> ELSE <<r.ln>> \o AllLines(r.file, eol)
GrepReads == Idle("utilities") /\ \E text \in Texts({"a", NL, NUL}, 6), reads \in Texts(1 .. 2, 3) :
  LET F == GrepOpen(text, reads, NUL)
  IN Runs([prog |-> "grep reads", text |-> text], [lines |-> AllLines(F, NL), first |-> F.buf, binary |-> F.binary])

(* A line matches if a pattern is in it, is it, or is a word of it.        *)
Occurrences(ln, o) ==
  {m \in [so : 0 .. Len(ln), eo : 0 .. Len(ln)] : \E p \in ToSet(o.patterns) : m.eo = m.so + Len(p) /\ Occurs(p, ln, m.so)}
Good(ln, o) == {m \in Occurrences(ln, o) : (o.w => WholeWord(m, ln)) /\ (o.x => m.so = 0 /\ m.eo = Len(ln))}
GrepPatterns == {<<p>> : p \in {<<"a">>, <<"a", "b">>, <<"b", "a">>, <<"a", "a">>}}
                \cup {<<<<"a">>, <<"a", "b">>>>, <<<<"b">>, <<"a", "b">>>>, <<<<"b", "a">>, <<"a">>>>, <<>>}
GrepLine == Idle("utilities") /\ \E ln \in Texts({"a", "b", SP}, 4) \cup {<<"a", "b", "a", "b", "a", "b">>},
               patterns \in GrepPatterns, fixed, w, x, o, v, all \in BOOLEAN :
  /\ ~(w /\ x) /\ (all => patterns = <<>> \/ ln = <<>> \/ w \/ x)
  /\ LET opt == [GrepOptions EXCEPT !.patterns = patterns, !.fixed = fixed, !.w = w, !.x = x, !.o = o, !.v = v,
                                     !.matchall = all]
     IN Runs([prog |-> "grep line", ln |-> ln, o |-> opt], MatchLine(ln, opt))
(* Parts are the first, and of these the longest; but every MAX_MATCHES-th *)
(* is of the first pattern that is found.                                  *)
RECURSIVE Greedy(_, _, _, _)
Best(S) == CHOOSE m \in S : \A k \in S : m.so < k.so \/ (m.so = k.so /\ m.eo >= k.eo)
NextPart(ln, o, st, n) ==
  LET left == {m \in Good(ln, o) : m.so >= st}
      ofPattern(i) == {m \in left : m.eo = m.so + Len(o.patterns[i]) /\ Occurs(o.patterns[i], ln, m.so)}
      first == CHOOSE i \in DOMAIN o.patterns : ofPattern(i) # {} /\ \A j \in 1 .. i - 1 : ofPattern(j) = {}
  IN IF n % MAX_MATCHES # 0 THEN Best(left) ELSE Best(ofPattern(first))
Greedy(ln, o, st, n) ==
  IF ~\E m \in Good(ln, o) : m.so >= st THEN <<>>
  ELSE LET m == NextPart(ln, o, st, n) IN <<m>> \o Greedy(ln, o, m.eo, n + 1)
PartsRight(ln, o, parts) ==
  IF o.w \/ o.x
    THEN /\ ToSet(parts) \subseteq Good(ln, o)
         /\ \A i \in 1 .. Len(parts) - 1 : parts[i].eo <= parts[i + 1].so
    ELSE parts = Greedy(ln, o, 0, 1)
(* regexec starts at the beginning of the line each time, so -o, and -w    *)
(* where the first place is no word, have no end except with -F.           *)
Endless(ln, o) ==
  /\ ~o.fixed /\ Occurrences(ln, o) # {}
  /\ \/ o.w /\ Len(o.patterns) = 1 /\ ~WholeWord(Best(Occurrences(ln, o)), ln)
     \/ o.o /\ ~o.v /\ Good(ln, o) # {}
GrepLineRight(ln, o, r) ==
  LET matches == Good(ln, o) # {} \/ (o.matchall /\ (IF o.x THEN ln = <<>> ELSE ~o.w))
  IN IF Endless(ln, o) THEN r.printed.fuel > Fuel \/ r.fuel > Fuel
     ELSE IF o.w /\ ~o.fixed THEN r.matched => matches
     ELSE /\ r.fuel <= Fuel /\ r.printed.fuel <= Fuel
          /\ r.matched = matches
          /\ o.o /\ o.fixed /\ ~o.v /\ matches /\ ~o.matchall => PartsRight(ln, o, r.printed.out)

(* Which lines of a file are shown, and why.  With -m 0 grep prints every  *)
(* line, as context, where grep.1:336 says that it stops at once: what the *)
(* code does is taken here for what is wanted.                             *)
Chosen(M, o) == LET all == {i \in DOMAIN M : M[i] # o.v}
                IN IF o.m THEN {i \in all : Cardinality({j \in all : j <= i}) <= o.limit} ELSE all
ShownLines(M, o) ==
  IF o.m /\ o.limit <= 0 THEN DOMAIN M
  ELSE {i \in DOMAIN M : \E k \in Chosen(M, o) : i \in k - o.B .. k + o.A}
FileOut(M, f, o) ==
  [n \in 1 .. Cardinality(ShownLines(M, o)) |->
     LET i == Increasing(ShownLines(M, o))[n] IN [file |-> f, no |-> i, sep |-> IF i \in Chosen(M, o) THEN ":" ELSE "-"]]
GrepContext == Idle("utilities") /\ \E M \in Texts(BOOLEAN, 5), N \in Texts(BOOLEAN, 2),
                  A, B \in 0 .. 2, limit \in 0 .. 3, v \in BOOLEAN :
  LET o == [GrepOptions EXCEPT !.A = A, !.B = B, !.v = v, !.m = limit < 3, !.limit = limit]
      lines(f, T) == [i \in DOMAIN T |-> [file |-> f, no |-> i, matches |-> T[i]]]
      file(f, T) == [kind |-> "file", binary |-> FALSE, lines |-> lines(f, T)]
  IN Runs([prog |-> "grep context", M |-> M, N |-> N, o |-> o], GrepFiles(<<file(1, M), file(2, N)>>, o))
IsGap(e) == e.sep = "--"
GrepContextRight(c, S) ==
  LET o == c.o
      shown == SelectSeq(S.out, LAMBDA e : ~IsGap(e))
      want == FileOut(c.M, 1, o) \o FileOut(c.N, 2, o)
      apart(i) == want[i].file # want[i + 1].file \/ want[i + 1].no > want[i].no + 1
      before(i) == Cardinality({j \in DOMAIN S.out : ~IsGap(S.out[j]) /\ j < i})
  IN /\ [i \in DOMAIN shown |-> [file |-> shown[i].ln.file, no |-> shown[i].ln.no, sep |-> shown[i].sep]] = want
     /\ (o.A + o.B > 0 /\ ~(o.m /\ o.limit <= 0)) =>
          {before(i) : i \in {j \in DOMAIN S.out : IsGap(S.out[j])}} = {i \in 1 .. Len(want) - 1 : apart(i)}
     /\ S.exit = IF Chosen(c.M, o) \cup Chosen(c.N, o) # {} THEN 0 ELSE 1

GrepModes == Idle("utilities") /\ \E M \in Texts(BOOLEAN, 3), kind \in {"file", "binary", "dir", "none"},
                binary \in {"binary", "skip", "text"}, how \in {"", "c", "l", "L", "q", "qc"}, skip, stdin \in BOOLEAN :
  LET o == [GrepOptions EXCEPT !.c = how \in {"c", "qc"}, !.l = how = "l", !.L = how = "L", !.q = how \in {"q", "qc"},
                               !.skipdirs = skip, !.stdin = stdin, !.binary = binary]
      f == [kind |-> IF kind = "binary" THEN "file" ELSE kind, binary |-> kind = "binary",
            lines |-> [i \in DOMAIN M |-> [file |-> 1, no |-> i, matches |-> M[i]]]]
  IN /\ stdin => kind \in {"file", "binary"}
     /\ Runs([prog |-> "grep modes", M |-> M, kind |-> kind, how |-> how, o |-> o], GrepFiles(<<f>>, o))
GrepModesRight(c, S) ==
  LET n == Cardinality({i \in DOMAIN c.M : c.M[i]})
      passed == c.kind = "none" \/ c.kind = "dir" \/ (c.kind = "binary" /\ c.o.binary = "skip" /\ c.M # <<>>)
      failed == c.kind = "none" \/ (c.kind = "dir" /\ ~c.o.skipdirs)
      whole == c.kind = "file" \/ c.o.binary # "binary"
      found == ~passed /\ n > 0
  IN /\ Len(S.out) = CASE passed -> 0
                       [] c.how = "" -> IF whole THEN n ELSE IF n > 0 THEN 1 ELSE 0
                       [] c.how = "c" -> 1 [] c.how = "l" -> IF n > 0 THEN 1 ELSE 0
                       [] c.how = "L" -> IF n > 0 THEN 0 ELSE 1 [] OTHER -> 0
     /\ c.how = "c" /\ ~passed => S.out[1].ln[2] = n
     /\ S.exit = CASE (IF c.o.stdin THEN found ELSE found # c.o.L) -> IF failed /\ ~c.o.q THEN 2 ELSE 0
                   [] OTHER -> IF failed THEN 2 ELSE 1
GrepNames == Idle("utilities") /\ \E included \in BOOLEAN, p \in Texts([matches : BOOLEAN, include : BOOLEAN], 3) :
  Runs([prog |-> "grep names", included |-> included, p |-> p], Matching(included, p))
NameRight(included, p, r) ==
  LET hits == {i \in DOMAIN p : p[i].matches} IN r = IF hits = {} THEN ~included ELSE p[Max(hits)].include

(* What grep is told, and what it then does with a file or standard input. *)
GivenToGrep ==
  [c : GrepDigits \cup {"v", "h", "H", "x", "w", "r"}, last : BOOLEAN, arg : {<<>>}]
  \cup [c : {"A", "C"}, last : {TRUE}, arg : {0 - 1, 1}]
  \cup [c : {"e"}, last : {TRUE}, arg : {<<>>, <<"a">>, <<"a", NL, "b">>}] \cup {[c |-> "d", last |-> TRUE, arg |-> "bad"]}
GrepOptionsRead == Idle("utilities") /\ \E opts \in Texts(GivenToGrep, 3), n \in 0 .. 3 : LET operands == Upto(<<<<"b">>, <<"f">>, <<"f">>>>, n) IN
  /\ opts = <<>> \/ Last(<<[last |-> TRUE]>> \o opts).last
  /\ Runs([prog |-> "grep options", opts |-> opts, operands |-> operands], GrepMain("grep", opts, operands))
(* A number is the digits of one argument, or an option's own.             *)
RunStart(opts, k) ==
  Min({j \in 1 .. k : \A i \in j .. k - 1 : opts[i].c \in GrepDigits /\ ~opts[i].last})
CountAt(opts, k) ==
  IF opts[k].c \notin GrepDigits THEN opts[k].arg
  ELSE FoldLeft(LAMBDA n, i : n * 10 + (CASE opts[i].c = "0" -> 0 [] opts[i].c = "1" -> 1 [] opts[i].c = "2" -> 2), 0,
                [i \in 1 .. k - RunStart(opts, k) + 1 |-> RunStart(opts, k) + i - 1])
LastNumber(opts, letters) ==
  LET at == {k \in DOMAIN opts : opts[k].c \in GrepDigits \cup letters} IN IF at = {} THEN 0 ELSE CountAt(opts, Max(at))
Letter(opts, c) == \E k \in DOMAIN opts : opts[k].c = c
(* -h hides the names also when -H comes after it, as the code has it.     *)
GrepOptionsRight(opts, operands, g) ==
  LET given == Letter(opts, "e")
      said == FlattenSeq([k \in DOMAIN opts |-> IF opts[k].c = "e" THEN Pieces(opts[k].arg, {NL}) ELSE <<>>])
      pats == IF given THEN said ELSE Pieces(operands[1], {NL})
      files == IF given THEN operands ELSE Tail(operands)
      names == \/ \E k \in DOMAIN opts : opts[k].c \in {"H", "r"} /\ \A j \in k .. Len(opts) : opts[j].c # "h"
               \/ Len(files) > 1
      bad == Letter(opts, "d") \/ \E k \in DOMAIN opts : opts[k].c \in {"A", "C"} /\ opts[k].arg < 0
  IN (g.status = 2) = (bad \/ (~given /\ operands = <<>>)) /\
     (g.status = 0 =>
       /\ g.A = LastNumber(opts, {"A", "C"}) /\ g.B = LastNumber(opts, {"C"})
       /\ g.patterns = SelectSeq(pats, LAMBDA q : q # <<>>) /\ g.matchall = (<<>> \in ToSet(pats))
       /\ g.files = files /\ g.x = Letter(opts, "x") /\ g.w = (Letter(opts, "w") /\ ~g.x)
       /\ g.hidden = (Letter(opts, "h") \/ ~names)
       /\ g.stdin = (files = <<>> /\ ~Letter(opts, "r")))
GrepFlag(c) == [c |-> c, last |-> TRUE, arg |-> <<>>]
GrepRun(opts, pat, text, files) ==
  LET g == GrepMain("fgrep", opts, <<pat>> \o files)
      ls == Lines(text)
      lines == [i \in DOMAIN ls |-> [file |-> 1, no |-> i, matches |-> MatchLine(Chomp(ls[i]), g).matched]]
  IN GrepFiles(<<[kind |-> "file", binary |-> FALSE, lines |-> lines]>>, g)
GrepWhole == Idle("utilities") /\ \E text \in Texts({"a", "b", NL}, 3), pat \in Texts({"a", "b", NL}, 2),
               how \in Texts({"v", "x", "l", "L", "c"}, 2), files \in {<<>>, <<"f">>} :
  Runs([prog |-> "grep whole", text |-> text, pat |-> pat, how |-> ToSet(how), files |-> files, last |-> Last(<<"">> \o how)],
       GrepRun([k \in DOMAIN how |-> GrepFlag(how[k])], pat, text, files))
GrepWholeRight(c, S) ==
  LET pats == ToSet(Pieces(c.pat, {NL}))
      has(ln) == \E p \in pats : IF "x" \in c.how THEN ln = p ELSE \E i \in 0 .. Len(ln) : Occurs(p, ln, i)
      ls == Lines(c.text)
      n == Cardinality({i \in DOMAIN ls : has(Chomp(ls[i])) # ("v" \in c.how)})
      Lists(w) == w \in c.how /\ (c.last = w \/ ~({"l", "L"} \subseteq c.how))
  IN /\ S.exit = IF c.files # <<>> /\ Lists("L") THEN (IF n > 0 THEN 1 ELSE 0) ELSE (IF n > 0 THEN 0 ELSE 1)
     /\ Lists("l") /\ "c" \notin c.how => Len(S.out) = (IF n > 0 THEN 1 ELSE 0)
     /\ Lists("L") /\ "c" \notin c.how => Len(S.out) = (IF n > 0 THEN 0 ELSE 1)
     /\ ~Lists("l") /\ ~Lists("L") => IF "c" \in c.how THEN S.out[1].ln[2] = n ELSE Len(S.out) = n
(* A tree of two directories: the files that are wanted, below directories *)
(* that are.                                                               *)
NameRules == {[pat |-> p, include |-> i] : p \in {"d", "e", "f"}, i \in BOOLEAN}
GrepTreeOf == Idle("utilities") /\ \E names, dirnames \in Texts(NameRules, 2), kind \in {"file", "unread", "loop"} :
  LET g == [GrepStart("rgrep") EXCEPT !.names = names, !.dirnames = dirnames, !.included = \E k \in DOMAIN names : names[k].include,
                                      !.dirincluded = \E k \in DOMAIN dirnames : dirnames[k].include]
      leaf(n, path) == [kind |-> "file", name |-> n, path |-> path]
      e == [kind |-> "dir", name |-> "e", path |-> "e", kids |-> <<leaf("f", "d/e/f"), leaf("g", "d/e/g")>>]
      d == [kind |-> "dir", name |-> "d", path |-> "d", kids |-> <<leaf("f", "d/f"), e, [kind |-> kind, name |-> "x", path |-> "d/x"]>>]
  IN Runs([prog |-> "grep tree", g |-> g, kind |-> kind], GrepTree(g, NoTree, d))
LastSays(rules, name) ==
  LET hits == {k \in DOMAIN rules : rules[k].pat = name}
  IN IF hits = {} THEN \A k \in DOMAIN rules : ~rules[k].include ELSE rules[Max(hits)].include
GrepTreeRight(c, t) ==
  LET dir(n) == LastSays(c.g.dirnames, n)
      file(n) == LastSays(c.g.names, n)
      in == [p \in {"d/f", "d/e/f", "d/e/g", "d/x"} |->
               /\ dir("d") /\ (p \in {"d/e/f", "d/e/g"} => dir("e"))
               /\ file(IF p \in {"d/f", "d/e/f"} THEN "f" ELSE IF p = "d/x" THEN "x" ELSE "g")
               /\ p = "d/x" => c.kind = "file"]
  IN /\ t.files = SelectSeq(<<"d/f", "d/e/f", "d/e/g", "d/x">>, LAMBDA p : in[p])
     /\ t.err = (dir("d") /\ c.kind = "unread") /\ t.loops = IF dir("d") /\ c.kind = "loop" THEN 1 ELSE 0

-----------------------------------------------------------------------------
(* Modes: clauses of a class list and actions, each an operator and        *)
(* permissions.                                                            *)
UmaskKept == AllBits \ {<<"g", "w">>, <<"o", "w">>}
OldModes == {{}, {<<"u", "r">>, <<"u", "w">>, <<"g", "r">>, <<"o", "r">>}, AllBits,
             {IFDIR, ISUID, <<"u", "x">>, <<"g", "w">>, <<"o", "r">>}, {ISTXT, ISGID, <<"u", "r">>, <<"g", "x">>}}
ActionText(a) == <<a.op>> \o a.perms
ClauseText(c) == c.who \o FlattenSeq([i \in DOMAIN c.actions |-> ActionText(c.actions[i])])
ModeText(p) == FlattenSeq([i \in DOMAIN p |-> IF i = 1 THEN ClauseText(p[i]) ELSE <<",">> \o ClauseText(p[i])])

Classes(who) == IF who = <<>> \/ "a" \in ToSet(who) THEN {"u", "g", "o"} ELSE ToSet(who)
AllowedBits(who) ==
  IF who = <<>> THEN UmaskKept ELSE UNION {WhoBits(c) : c \in Classes(who)}
(* What a permission stands for, given the mode at hand and the first one. *)
MeantBits(l, who, m, om) ==
  CASE l \in {"r", "w", "x"} -> (Classes(who) \X {l}) \cap AllowedBits(who)
    [] l = "s" -> {ISUID, ISGID} \cap AllowedBits(who)
    [] l = "t" -> IF Classes(who) # {"o"} THEN {ISTXT} ELSE {}
    [] l = "X" -> IF om \cap (Each("x") \cup {IFDIR}) # {} THEN (Classes(who) \X {"x"}) \cap AllowedBits(who) ELSE {}
    [] OTHER -> CopyBits(Classes(who), m \cap IRWX(l), AllowedBits(who))
(* What = clears: all that is named, but with a copy what the umask leaves *)
(* of it, and never set-ID bits.                                           *)
ClearedBits(perms, who) ==
  IF ToSet(perms) \cap {"u", "g", "o"} # {} THEN (Classes(who) \X {"r", "w", "x"}) \cap AllowedBits(who)
  ELSE (IF who = <<>> THEN STANDARD_BITS ELSE AllowedBits(who))
       \cup (IF "t" \in ToSet(perms) /\ Classes(who) # {"o"} THEN {ISTXT} ELSE {})
AllMeant(perms, who, m, om) == UNION {MeantBits(l, who, m, om) : l \in ToSet(perms)}
(* = takes each copy, and what stands between copies, as an assignment of  *)
(* its own, so the last of them stays; X adds, whatever the operator.      *)
IsCopy(l) == l \in {"u", "g", "o"}
Assignments(perms, who) ==
  LET plain == SelectSeq(perms, LAMBDA l : l # "X" /\ ~(Classes(who) = {"o"} /\ l \in {"s", "t"}))
      starts == Increasing({i \in DOMAIN plain : i = 1 \/ IsCopy(plain[i]) \/ IsCopy(plain[i - 1])})
      upto(k) == IF k < Len(starts) THEN starts[k + 1] - 1 ELSE Len(plain)
  IN IF plain = <<>> THEN <<<<>>>> ELSE [k \in DOMAIN starts |-> SubSeq(plain, starts[k], upto(k))]
AsAction(m, om, who, a) ==
  LET Assign(n, perms) == (n \ ClearedBits(perms, who)) \cup AllMeant(perms, who, n, om)
      plain == SelectSeq(a.perms, LAMBDA l : l # "X")
      X == IF "X" \in ToSet(a.perms) THEN MeantBits("X", who, m, om) ELSE {}
  IN CASE a.op = "+" -> m \cup AllMeant(a.perms, who, m, om)
       [] a.op = "-" -> (m \ AllMeant(plain, who, m, om)) \cup X
       [] a.op = "=" -> FoldLeft(Assign, m, Assignments(a.perms, who)) \cup X
AsClauses(p, om) ==
  FoldLeft(LAMBDA m, c : FoldLeft(LAMBDA n, a : AsAction(n, om, c.who, a), m, c.actions), om, p)
(* Without a class, t makes the sticky bit all that the action changes.    *)
OnlySticky(c) ==
  c.who = <<>> /\ \E a \in ToSet(c.actions) : "t" \in ToSet(a.perms) /\ (Len(a.perms) > 1 \/ a.op = "=")

Whos == {<<>>, <<"a">>, <<"u">>, <<"g">>, <<"o">>, <<"u", "o">>}
OneOf(who, op, perms) == [who |-> who, actions |-> <<[op |-> op, perms |-> perms]>>]
Ops == {"+", "-", "="}
Permissions == {"r", "x", "s", "t", "X", "u", "g", "o"}
ModeResults(set) == [refused |-> set.refused, modes |-> [m \in OldModes |-> Getmode(set.list, m)]]
ChmodOne == Idle("utilities") /\ \E who \in Whos, op \in Ops, perms \in Texts(Permissions, 2) :
  LET p == <<OneOf(who, op, perms)>> IN Runs([prog |-> "chmod", p |-> p], ModeResults(Setmode(ModeText(p), UmaskKept)))
ChmodTwo == Idle("utilities") /\ \E who \in Whos, op1, op2 \in Ops,
               one \in {<<"r">>, <<"x">>, <<"t">>, <<"g">>, <<"o", "r">>},
               two \in Texts(Permissions, 1), next \in {<<"same">>, <<>>, <<"g">>, <<"u", "o">>} :
  LET first == [op |-> op1, perms |-> one]
      second == [op |-> op2, perms |-> two]
      p == IF next = <<"same">> THEN <<[who |-> who, actions |-> <<first, second>>]>>
           ELSE <<[who |-> who, actions |-> <<first>>], [who |-> next, actions |-> <<second>>]>>
  IN Runs([prog |-> "chmod", p |-> p], ModeResults(Setmode(ModeText(p), UmaskKept)))
ChmodText == Idle("utilities") /\ \E s \in Texts({"u", "+", "=", "r", ","}, 4) :
  Runs([prog |-> "chmod text", s |-> s], Setmode(s, UmaskKept).refused)
ChmodOctal == Idle("utilities") /\ \E perm \in OldModes \cup SUBSET {ISTXT, ISGID, <<"u", "r">>, <<"o", "x">>} :
  Runs([prog |-> "chmod octal", perm |-> perm], ModeResults(SetmodeOctal(perm, UmaskKept)))
OctalRight(perm, r) ==
  /\ r.refused = (IFDIR \in perm)
  /\ ~r.refused => \A m \in OldModes : r.modes[m] = perm \cup (m \cap {IFDIR})
ModesRight(p, r) ==
  /\ ~r.refused
  /\ (\A i \in DOMAIN p : ~OnlySticky(p[i])) => \A m \in OldModes : r.modes[m] = AsClauses(p, m)
(* A clause needs an operator right behind its classes.                    *)
ModeRefused(s) ==
  s = <<>> \/ \E c \in ToSet(Pieces(s, {","})) :
                LET at == {i \in DOMAIN c : c[i] \in Ops} IN at = {} \/ \E i \in DOMAIN c : i < Min(at) /\ c[i] # "u"

(* xargs gives each word of its input to one command, in order, within the *)
(* limits on their number, size and lines and on the commands at a time,   *)
(* ends with the status its children ask for, and replaces what -I names;  *)
(* grep reads every line once, finds the matches and their parts, shows    *)
(* each chosen line and its context once, with a mark where lines are left *)
(* out, and ends with the status of its result; a symbolic mode changes    *)
(* the bits its clauses name, in their order, shortened or not.            *)
UtilitiesRight ==
  CASE call.prog = "xargs" -> XargsRight(call.text, call.o, result)
    [] call.prog = "xargs -L" -> LinesRight(call.text, call.o, result)
    [] call.prog = "xargs -I" -> ReplaceRight(call.text, call.o, result)
    [] call.prog = "strnsubst" -> SubstRight(call.s, call.by, result)
    [] call.prog = "grep reads" ->
         result.lines = Lines(call.text) /\ result.binary = (NUL \in ToSet(Upto(call.text, Len(result.first))))
    [] call.prog = "grep line" -> GrepLineRight(call.ln, call.o, result)
    [] call.prog = "grep context" -> GrepContextRight(call, result)
    [] call.prog = "grep modes" -> GrepModesRight(call, result)
    [] call.prog = "grep names" -> NameRight(call.included, call.p, result)
    [] call.prog = "grep options" -> GrepOptionsRight(call.opts, call.operands, result)
    [] call.prog = "grep whole" -> GrepWholeRight(call, result)
    [] call.prog = "grep tree" -> GrepTreeRight(call, result)
    [] call.prog = "chmod" -> ModesRight(call.p, result)
    [] call.prog = "chmod octal" -> OctalRight(call.perm, result)
    [] call.prog = "chmod text" -> result = ModeRefused(call.s)
    [] OTHER -> TRUE
UtilityNext ==
  \/ XargsWords \/ XargsFull \/ XargsNul \/ XargsEof \/ XargsChildren \/ XargsLines \/ XargsReplace \/ StrnsubstOf
  \/ GrepReads \/ GrepLine \/ GrepContext \/ GrepModes \/ GrepNames \/ GrepOptionsRead \/ GrepWhole \/ GrepTreeOf
  \/ ChmodOne \/ ChmodTwo \/ ChmodText \/ ChmodOctal

-----------------------------------------------------------------------------
(* Numbers and dates.                                                      *)
(* Each step may come out a little too small or too large.                 *)
CountUp == Idle("numbers") /\ \E first, last \in {0 - 3, 0, 2, 7}, incr \in {0 - 2, 0, 1, 3}, given \in BOOLEAN,
    unit \in {1, 4}, err \in [0 .. 2 -> {0 - 1, 0, 1}] :
  /\ given \/ incr = 0
  /\ LET i == Increment0(first, incr, last, given)
     IN Runs([prog |-> "seq", first |-> first, last |-> last, incr |-> i, unit |-> unit],
             IF i = 0 THEN <<>> ELSE SeqShows(first, i, last, unit, [k \in 1 .. 12 |-> err[k % 3]]))
SeqRight(first, incr, last, unit, r) ==
  LET Within(n) == IF incr < 0 THEN last <= n ELSE n <= last
      values == [k \in 1 .. Max({k \in 0 .. 12 : Within(first + k * incr)}) + 1 |-> PrintedAs(Exact(first + (k - 1) * incr), unit)]
  IN r = values \/ (unit > 1 /\ r = Append(values, PrintedAs(Exact(last), unit)))

(* -w in hundredths.                                                       *)
EqualWidths == Idle("numbers") /\ \E first, last \in {0 - 1050, 0 - 1000, 0 - 10, 0, 50, 125, 900, 1000, 10025},
    incr \in {0 - 300, 0 - 25, 40, 100, 1100} :
  /\ first # last /\ (incr > 0) = (first < last)
  /\ Runs([prog |-> "seq -w", first |-> first, incr |-> incr, last |-> last], GenerateFormat(first, incr, last))
WidthsRight(first, incr, last, f) ==
  \A k \in 0 .. Abs(last - first) \div Abs(incr) :
    FormatKeeps(first + k * incr, f) /\ PrintedWidth(first + k * incr, f) = f.width

SeqArgument == Idle("numbers") /\ \E s \in Texts({"1", ".", "e", "-", "f"}, 5) : Runs([prog |-> "numeric", s |-> s], Numeric(s))
SeqFormat == Idle("numbers") /\ \E s \in Texts({"%", "g", "5", ".", "-", "d"}, 5) : Runs([prog |-> "format", s |-> s], ValidFormat(s))
SeqEscape == Idle("numbers") /\ \E s \in Texts({"a", NL, BS, "7", "byte 7", "byte 170"}, 5), hex \in BOOLEAN :
  LET Escaped(c) == CASE c = NL -> <<BS, "n">> [] c = BS -> <<BS, BS>>
                      [] c = "byte 7" -> IF hex THEN <<BS, "x", "0", "7">> ELSE <<BS, "0", "0", "7">>
                      [] c = "byte 170" -> IF hex THEN <<BS, "x", "a", "a">> ELSE <<BS, "2", "5", "2">>
                      [] OTHER -> <<c>>
  IN Runs([prog |-> "escape", s |-> s, hex |-> hex], Unescape(FlattenSeq([i \in DOMAIN s |-> Escaped(s[i])])))
(* A sign only first or in an exponent, one point, digits.                 *)
NumericRight(s) ==
  \A i \in DOMAIN s :
    CASE s[i] = "-" -> i = 1 \/ s[i - 1] = "e"
      [] s[i] = "." -> \A j \in 1 .. i - 1 : s[j] # "."
      [] s[i] = "e" -> i = Len(s) \/ s[i + 1] \in {"1", "-"}
      [] OTHER -> s[i] = "1"
RECURSIVE NoConversion(_)
NoConversion(s) ==
  CASE s = <<>> -> TRUE
    [] s[1] = "%" -> IF Len(s) > 1 THEN s[2] = "%" /\ NoConversion(From(s, 3)) ELSE FALSE
    [] OTHER -> NoConversion(Tail(s))
Conversion(s) ==
  /\ Len(s) > 1 /\ s[1] = "%" /\ Last(s) = "g"
  /\ \E i, j \in 2 .. Len(s) : i <= j /\ \A k \in 2 .. Len(s) - 1 :
       CASE k < i -> s[k] = "-" [] k < j -> s[k] = "5" [] k = j -> s[k] = "." [] OTHER -> s[k] = "5"
FormatRight(s) ==
  \E i, j \in 0 .. Len(s) : i < j /\ NoConversion(SubSeq(s, 1, i)) /\ Conversion(SubSeq(s, i + 1, j)) /\ NoConversion(From(s, j + 1))

-----------------------------------------------------------------------------
FactorOne == Idle("numbers") /\ \E val \in 1 .. 3000 \cup {10007, 17 * 19 * 23, 29 * 29 * 13, 97 * 97, 101 * 103} : \E beyond \in 0 .. 1 :
  Runs([prog |-> "factor", val |-> val, beyond |-> beyond], PrFact(val, beyond))
SquareRoot == Idle("numbers") /\ \E n \in 0 .. 1200 : Runs([prog |-> "usqrt", n |-> n], Usqrt(n))
IsPrime(n) == n > 1 /\ \A d \in 2 .. Isqrt(n) : n % d # 0
(* The word behind the table does not matter unless it is 0.               *)
FactorRight(val, beyond, r) ==
  IF 0 \in ToSet(r) THEN beyond = 0 /\ val % Last(PrimeTable) = 0
  ELSE /\ FoldLeft(LAMBDA a, b : a * b, 1, r) = val
       /\ val > 1 => \A i \in DOMAIN r : IsPrime(r[i]) /\ (i > 1 => r[i - 1] <= r[i])

-----------------------------------------------------------------------------
ScaleOne == Idle("numbers") /\ \E n \in (0 - 400) .. 400 \cup {K * Last(Factors) - 1, K * Last(Factors)} \cup
    {s * (m * Factors[u] + d) : s \in {0 - 1, 1}, m \in {1, 9, 10, 31}, u \in 2 .. 5, d \in {0 - 1, 0, 1, 15, 16, 17, 31, 500}} :
  Runs([prog |-> "scale", n |-> n], FmtScaled(n))
ScanOne == Idle("numbers") /\ \E sign \in {"", "-"}, whole \in Texts({0, 1, 7, 8}, 2) \cup {<<8, 0, 0, 0, 0, 0, 0, 0>>},
    fract \in Texts({0, 5, 9}, 4), unit \in 0 .. Len(Factors) :
  LET p == [sign |-> sign, whole |-> whole, fract |-> fract, unit |-> unit]
  IN Runs([prog |-> "scan", p |-> p], ScanScaled(p))
(* Shown values are within half a tenth of a unit, or, from three digits   *)
(* on, within half a unit and what the tenths were rounded by.             *)
ScaleRight(n, r) ==
  IF r.unit = 0 THEN n >= K * Last(Factors) ELSE
  LET f == Factors[r.unit] IN
  /\ IF Abs(r.n) >= HUNDRED \/ r.unit = 1 THEN 100 * Abs(n - r.n * f) <= 56 * f
     ELSE 10 * Abs(Abs(n) - (Abs(r.n) * f + (r.tenth * f) \div 10)) <= f
  /\ r.unit > 1 => Abs(r.n) >= 1 /\ Abs(r.n) <= K /\ (r.n < 0) = (n < 0)
RECURSIVE Decimal(_)
Decimal(s) == IF s = <<>> THEN 0 ELSE 10 * Decimal(Front(s)) + Last(s)
(* The nearest number towards zero, a little less where digits had to go.  *)
ScanRight(p, r) ==
  LET f == IF p.unit = 0 THEN 1 ELSE Factors[p.unit]
      exact == Decimal(p.whole) * f
      sized == IF p.sign = "-" THEN 0 - r ELSE r IN
  (p.sign = "-" /\ Decimal(p.whole) = 8 /\ p.unit = Len(Factors)) \/
  IF Decimal(p.whole) > LLMAX \div f THEN r = NoNumber
  ELSE /\ exact <= sized /\ sized < exact + f
       /\ p.unit > 0 => LET keep == Upto(p.fract, Smaller(2, Len(p.fract))) IN
            Decimal(keep) * (f \div 100) <= (sized - exact) * (IF Len(keep) = 2 THEN 1 ELSE IF Len(keep) = 1 THEN 10 ELSE 100) + f

-----------------------------------------------------------------------------
(* Dates.  Lexemes, and token sequences without their values.              *)
ANumber(n) == [k |-> "digits", n |-> n, w |-> ""]
AWord(w) == [k |-> "word", n |-> 0, w |-> w]
Character(c) == [k |-> c, n |-> 0, w |-> ""]
Lexemes(name) ==
  CASE name = "U" -> <<ANumber(10)>>
    [] name = "S" -> <<Character("-"), ANumber(3)>>
    [] name \in {":", ",", "/"} -> <<Character(name)>>
    [] OTHER -> <<AWord(name)>>
AnyDate == Dated(Gmtime(0), 0)
RelUnits == {<<"hours">>, <<"U", "hours">>, <<"S", "hours">>}
(* find-getdate.y: the items, with the optional parts written out, and what *)
(* each is counted as.                                                     *)
Grammar ==
  [r \in {<<"U", "pm">>, <<"U", ":", "U">>, <<"U", ":", "U", "pm">>, <<"U", ":", "U", "S">>, <<"U", ":", "U", ":", "U">>,
          <<"U", ":", "U", ":", "U", "pm">>, <<"U", ":", "U", ":", "U", "S">>} |-> "haveTime"]
  @@ [r \in {<<"utc">>, <<"bst">>, <<"utc", "dst">>} |-> "haveZone"]
  @@ [r \in {<<"monday">>, <<"monday", ",">>, <<"U", "monday">>} |-> "haveDay"]
  @@ [r \in {<<"U", "/", "U">>, <<"U", "/", "U", "/", "U">>, <<"U", "S", "S">>, <<"U", "may", "S">>, <<"may", "U">>,
             <<"may", "U", ",", "U">>, <<"U", "may">>, <<"U", "may", "U">>} |-> "haveDate"]
  @@ [r \in RelUnits \cup {u \o <<"ago">> : u \in RelUnits} |-> "haveRel"]
  @@ [r \in {<<"U">>} |-> "number"]
(* An item is as long as it can be; what then is none is an error.         *)
Beginnings == UNION {{Upto(r, k) : k \in 0 .. Len(r)} : r \in DOMAIN Grammar}
Longest(t) == Max({k \in 0 .. Smaller(6, Len(t)) : Upto(t, k) \in Beginnings})
HaveCounts(have, counts) ==
  CASE counts # "number" -> [have EXCEPT ![counts] = @ + 1]
    [] OTHER -> IF have.haveTime > 0 /\ have.haveDate > 0 /\ have.haveRel = 0 THEN have ELSE [have EXCEPT !.haveTime = @ + 1]
Haves == [haveTime |-> 0, haveZone |-> 0, haveDate |-> 0, haveDay |-> 0, haveRel |-> 0]
RECURSIVE Parsed(_, _)
Parsed(t, have) ==
  IF t = <<>> THEN have
  ELSE LET After(k) == IF Upto(t, k) \in DOMAIN Grammar THEN Parsed(From(t, k + 1), HaveCounts(have, Grammar[Upto(t, k)])) ELSE <<>>
       IN After(Longest(t))
ParseDate(t) == Runs([prog |-> "parse", t |-> t], Yyparse(ParseStart(FlattenSeq([i \in DOMAIN t |-> Lexemes(t[i])]), AnyDate)))
DateTokens == Idle("dates") /\ \E t \in Texts({"U", "S", ":", ",", "pm", "monday", "may", "hours", "utc", "ago"}, 4) :
  ParseDate(t)
TimeTokens == Idle("dates") /\ \E t \in [1 .. 5 -> {"U", ":", "pm", "S"}] \cup [1 .. 6 -> {"U", ":", "S"}]
    \cup [1 .. 5 -> {"U", "/", "may"}] \cup [1 .. 3 -> {"bst", "dst", "U", "ago"}] : ParseDate(t)
ParseRight(t, p) ==
  LET have == Parsed(t, Haves)
  IN IF have = <<>> THEN p.ends = "error"
     ELSE p.ends = "accept" /\ \A h \in DOMAIN have : p.g[h] = have[h]

(* Comments, signs and spaces; words in their forms.                       *)
RECURSIVE TokensOf(_)
TokensOf(s) == LET Next0(t) == IF t.tok = Symbol.END THEN <<>> ELSE <<<<t.tok, t.val>>>> \o TokensOf(t.rest) IN Next0(Yylex(s))
DateLexemes == Idle("dates") /\ \E s \in Texts({"(", ")", "-", "space", "digits"}, 6) :
  Runs([prog |-> "lex", s |-> s], TokensOf([i \in DOMAIN s |-> IF s[i] = "digits" THEN ANumber(5) ELSE Character(s[i])]))
InComment(s) == FoldLeft(LAMBDA d, c : d \o <<CASE Last(d) = 0 -> IF c = "(" THEN 1 ELSE 0
                                             [] c = "(" -> Last(d) + 1 [] c = ")" -> Last(d) - 1 [] OTHER -> Last(d)>>, <<0>>, s)
Apparent(s) ==
  LET d == InComment(s) IN [i \in DOMAIN s |-> IF d[i] > 0 \/ d[i + 1] > 0 THEN "space" ELSE s[i]]
LexRight(s, r) ==
  LET a == Apparent(s)
      shown == SelectSeq([i \in DOMAIN s |-> <<i, a[i]>>], LAMBDA x : x[2] \in {"digits", ")"})
  IN r = [k \in DOMAIN shown |->
            CASE shown[k][2] = ")" -> <<Symbol.UNDEFINED, 0>>
              [] shown[k][1] > 1 /\ a[shown[k][1] - 1] = "-" -> <<Symbol.SNUMBER, -5>>
              [] OTHER -> <<Symbol.UNUMBER, 5>>]
Dotted(w) == IF Len(w) = 2 THEN SubSeq(w, 1, 1) \o "." \o SubSeq(w, 2, 2) \o "."
             ELSE SubSeq(w, 1, 1) \o "." \o SubSeq(w, 2, 2) \o "." \o SubSeq(w, 3, Len(w))
WordForms ==
  UNION {{<<w, SubSeq(w, 1, 3) \o "">>, <<w, SubSeq(w, 1, 3) \o ".">>} : w \in DOMAIN MonthDayTable}
    \cup {<<w, w \o "s">> : w \in DOMAIN UnitsTable}
    \cup {<<w, Dotted(w)>> : w \in {z \in DOMAIN TimezoneTable : Len(z) <= 3} \cup {"am", "pm"}}
DateWord == Idle("dates") /\ \E f \in WordForms : Runs([prog |-> "word", full |-> f[1]], LookupWord(f[2]))
(* A date in each form, a time and a zone.  Summer is in the year 2024.    *)
TimeZones == [utc |-> [off |-> 0, from |-> 0, to |-> 0], east |-> [off |-> 7200, from |-> 0, to |-> 0],
              summer |-> [off |-> -18000, from |-> 1710054000, to |-> 1730613600]]
MonthNames == <<"jan", "feb.", "march", "april", "may", "jun", "july", "aug", "sept", "oct", "nov", "december">>
DateForms == {"m/d/y", "y/m/d", "y-m-d", "d mon y", "mon d, y", "d-mon-y", "ymd"}
DateText(form, y, m, d) ==
  CASE form = "m/d/y" -> <<ANumber(m), Character("/"), ANumber(d), Character("/"), ANumber(y)>>
    [] form = "y/m/d" -> <<ANumber(y), Character("/"), ANumber(m), Character("/"), ANumber(d)>>
    [] form = "y-m-d" -> <<ANumber(y), Character("-"), ANumber(m), Character("-"), ANumber(d)>>
    [] form = "d mon y" -> <<ANumber(d), AWord(MonthNames[m]), ANumber(y)>>
    [] form = "mon d, y" -> <<AWord(MonthNames[m]), ANumber(d), Character(","), ANumber(y)>>
    [] form = "d-mon-y" -> <<ANumber(d), Character("-"), AWord(MonthNames[m]), Character("-"), ANumber(y % 100)>>
    [] form = "ymd" -> <<ANumber(y * 10000 + m * 100 + d)>>
(* Minutes to the east, as a suffix gives them; none: local time.          *)
ZoneTexts == [none |-> <<>>, utc |-> <<AWord("utc")>>, edt |-> <<AWord("edt")>>, cet |-> <<AWord("cet"), AWord("dst")>>,
             plus |-> <<Character("+"), ANumber(130)>>]
EastOf == [utc |-> 0, edt |-> -240, cet |-> 120, plus |-> 90]
ClockText(h, mi, half) == <<ANumber(h), Character(":"), ANumber(mi)>> \o (IF half = "" THEN <<>> ELSE <<AWord(half)>>)
Noon0 == 1718452800            \* 12:00 on Saturday, June 15th, 2024
DateOf == Idle("dates") /\ \E form \in DateForms, y \in {1970, 1999, 2000, 2024, 2039}, m \in {1, 2, 4, 12}, d \in {0, 1, 29, 31},
    c \in {<<0, 0, "">>, <<23, 59, "">>, <<24, 0, "">>, <<12, 30, "am">>, <<12, 30, "pm">>, <<0, 5, "pm">>, <<9, 60, "">>},
    suffix \in DOMAIN ZoneTexts, tz \in {"utc", "summer"} :
  /\ form \notin {"m/d/y", "d mon y"} => suffix = "none" /\ c[1] # 9 /\ c[3] = ""
  /\ suffix # "none" => tz = "utc" /\ (suffix = "plus" => c[3] = "")
  /\ Runs([prog |-> "date", y |-> y, m |-> m, d |-> d, clock |-> c, suffix |-> suffix, tz |-> TimeZones[tz]],
          GetDate(TimeZones[tz], Noon0, DateText(form, y, m, d) \o ClockText(c[1], c[2], c[3]) \o ZoneTexts[suffix]))
IsClock(c) == c[2] \in 0 .. 59 /\ c[1] \in (IF c[3] = "" THEN 0 .. 23 ELSE 1 .. 12)
HourOf(c) == IF c[3] = "" THEN c[1] ELSE (c[1] % 12) + (IF c[3] = "pm" THEN 12 ELSE 0)
SameDate(tm, y, m, d) == <<tm.year, tm.month, tm.mday>> = <<y, m, d>>
SameClock(tm, h, mi) == <<tm.hour, tm.min, tm.sec>> = <<h, mi, 0>>
(* What is before 1970 in UTC is refused too.                              *)
DateRight(x, r) ==
  IF x.y \notin 1970 .. 2038 \/ x.d \notin 1 .. MonthLengths(x.y)[x.m] \/ ~IsClock(x.clock) THEN r = -1
  ELSE LET tm == IF x.suffix = "none" THEN Localtime(x.tz, r) ELSE Gmtime(r + EastOf[x.suffix] * 60)
       IN \/ SameDate(tm, x.y, x.m, x.d) /\ SameClock(tm, HourOf(x.clock), x.clock[2])
          \/ r = -1 /\ <<x.y, x.m, x.d>> = <<1970, 1, 1>>

(* Relative times from moments around a change of the clocks and the end   *)
(* of a month: an amount of a unit, ago or not, or a weekday.              *)
Moments == {Noon0, 1706706000, 1709208000, 1710045000, 1730606400, 1711800000}
UnitSeconds == [min |-> 60, hours |-> 3600, days |-> 86400, week |-> 604800, fortnight |-> 1209600]
Amounts == [three |-> <<ANumber(3)>>, minus |-> <<Character("-"), ANumber(1)>>, one |-> <<>>, last |-> <<AWord("last")>>,
            next |-> <<AWord("next")>>]
AmountOf == [three |-> 3, minus |-> -1, one |-> 1, last |-> -1, next |-> 2]
RelativeOf == Idle("dates") /\ \E now \in Moments, tz \in DOMAIN TimeZones, amount \in DOMAIN Amounts,
    unit \in DOMAIN UnitSeconds \cup {"month", "year", "tuesday", "sun", "sec"}, ago \in BOOLEAN :
  /\ unit \in {"tuesday", "sun"} => ~ago /\ amount # "minus"
  /\ Runs([prog |-> "relative", now |-> now, tz |-> TimeZones[tz], n |-> IF ago THEN -AmountOf[amount] ELSE AmountOf[amount], unit |-> unit],
          GetDate(TimeZones[tz], now, Amounts[amount] \o <<AWord(unit)>> \o (IF ago THEN <<AWord("ago")>> ELSE <<>>)))
MonthOf(tm) == 12 * tm.year + tm.month - 1
(* The same day and time months later, if there is such a day; if not, an  *)
(* hour or so around the beginning of 1970.                                *)
MonthsRight(tz, was, tm, months) ==
  LET month == MonthOf(was) + months IN
  IF was.mday \in 1 .. MonthLengths(month \div 12)[(month % 12) + 1]
    THEN MonthOf(tm) = month /\ tm.mday = was.mday /\ <<tm.hour, tm.min, tm.sec>> = <<was.hour, was.min, was.sec>>
  ELSE tm.year \in {1969, 1970} /\ tm.yday \in {0, 364}
WeekdayRight(was, tm, weekday, n) ==
  /\ tm.wday = weekday /\ <<tm.hour, tm.min, tm.sec>> = <<0, 0, 0>>
  /\ LET days == DaysBefore(tm.year) + tm.yday - DaysBefore(was.year) - was.yday
     IN days - 7 * (IF n <= 0 THEN n ELSE n - 1) \in 0 .. 6
RelativeRight(x, r) ==
  CASE x.unit \in DOMAIN UnitSeconds -> r = x.now + x.n * UnitSeconds[x.unit]
    [] x.unit = "sec" -> TRUE
    [] x.unit \in {"month", "year"} ->
         MonthsRight(x.tz, Localtime(x.tz, x.now), Localtime(x.tz, r), IF x.unit = "year" THEN 12 * x.n ELSE x.n)
    [] OTHER -> WeekdayRight(Localtime(x.tz, x.now), Localtime(x.tz, r), IF x.unit = "sun" THEN 0 ELSE 2, x.n)
NumbersRight ==
  CASE call.prog = "seq" ->
         IF call.incr = 0 THEN result = <<>>
         ELSE SeqRight(call.first, call.incr, call.last, call.unit, result)
    [] call.prog = "seq -w" -> WidthsRight(call.first, call.incr, call.last, result)
    [] call.prog = "numeric" -> result = NumericRight(call.s)
    [] call.prog = "format" -> result = FormatRight(call.s)
    [] call.prog = "escape" -> result = call.s
    [] call.prog = "factor" -> FactorRight(call.val, call.beyond, result)
    [] call.prog = "usqrt" -> result - Isqrt(call.n) \in 0 .. 1
    [] call.prog = "scale" -> ScaleRight(call.n, result)
    [] call.prog = "scan" -> ScanRight(call.p, result)
    [] call.prog = "parse" -> ParseRight(call.t, result)
    [] call.prog = "lex" -> LexRight(call.s, result)
    [] call.prog = "word" -> result = LookupWord(call.full)
    [] call.prog = "date" -> DateRight(call, result)
    [] call.prog = "relative" -> RelativeRight(call, result)
    [] OTHER -> TRUE
DateNext == DateOf \/ RelativeOf \/ DateTokens \/ TimeTokens \/ DateLexemes \/ DateWord
NumberNext ==
  CountUp \/ EqualWidths \/ SeqArgument \/ SeqFormat \/ SeqEscape \/ FactorOne \/ SquareRoot \/ ScaleOne \/ ScanOne \/ DateNext
===============================================================================
