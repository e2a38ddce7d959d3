------------------------------ MODULE Conditions ------------------------------
(***************************************************************************)
(* test (test.c, test-impl.c) and expr (expr.c): the recursive descent     *)
(* over their arguments, one operator per function of it.  A function      *)
(* returns its result, the place of the last argument it has used (test)   *)
(* or of the next token (expr), and the status it would exit with, or 0.   *)
(***************************************************************************)
EXTENDS Text

CONSTANT Named  \* what stat and lstat find by a name: a record of link, kind
                \* ("" if the name leads nowhere), mode (a set), size, time, ino

-----------------------------------------------------------------------------
(* test.  An argument is a string, of one character where it is a number.  *)

FileOps == {"-r", "-w", "-x", "-e", "-f", "-d", "-c", "-b", "-p", "-u", "-g", "-k", "-s",
            "-h", "-O", "-G", "-L", "-S"}
UnaryOps == FileOps \cup {"-z", "-n", "-t"}
IntOps == {"-eq", "-ne", "-ge", "-gt", "-le", "-lt"}
BinaryOps == IntOps \cup {"=", "!=", "<", ">", "-nt", "-ot", "-ef"}

EOI == "(end)"
Arg(a, i) == IF i <= Len(a) THEN a[i] ELSE EOI

(* getnstr: the sign and the digits of a number without leading zeros, its *)
(* sign plus if it is zero.                                                *)
DigitsOf == <<"0", "1", "2", "3", "4", "5", "6", "7", "8", "9">>
DigitSet == ToSet(DigitsOf)
Invalid == [sign |-> 0, digits |-> <<>>]

StripLeft(s, chars) ==
  From(s, CHOOSE i \in 1 .. Len(s) + 1 :
            /\ \A j \in 1 .. i - 1 : s[j] \in chars
            /\ i <= Len(s) => s[i] \notin chars)
SpanOf(s, chars) == Upto(s, Len(s) - Len(StripLeft(s, chars)))

NumberRest(sign, s, digits) ==
  IF s = <<>> \/ StripLeft(From(s, Len(digits) + 1), WhiteSpace) # <<>> THEN Invalid
  ELSE [sign |-> IF digits = <<"0">> THEN 1 ELSE sign, digits |-> digits]
(* Leading zeros go, but for the last digit.                               *)
NumberAt(sign, s, zeros) ==
  LET t == IF zeros # <<>> /\ Len(SpanOf(s, DigitSet)) = Len(zeros)
             THEN From(s, Len(zeros)) ELSE From(s, Len(zeros) + 1)
  IN NumberRest(sign, t, SpanOf(t, DigitSet))
SignedNumber(s) ==
  IF s # <<>> /\ Head(s) \in {"-", "+"}
    THEN NumberAt(IF Head(s) = "-" THEN -1 ELSE 1, Tail(s), SpanOf(Tail(s), {"0"}))
    ELSE NumberAt(1, s, SpanOf(s, {"0"}))
GetNumber(s) == SignedNumber(StripLeft(s, WhiteSpace))

DigitWorth(c) == SelectInSeq(DigitsOf, LAMBDA d : d = c) - 1
DigitsBefore(x, y) ==
  \E i \in DOMAIN x : /\ \A j \in 1 .. i - 1 : x[j] = y[j]
                      /\ DigitWorth(x[i]) < DigitWorth(y[i])

(* intcmp, of numbers of any length.                                       *)
IntCmp(p, q) ==
  IF p.sign # q.sign THEN p.sign
  ELSE IF Len(p.digits) # Len(q.digits)
    THEN (IF Len(p.digits) < Len(q.digits) THEN -p.sign ELSE p.sign)
  ELSE IF p.digits = q.digits THEN 0
  ELSE IF DigitsBefore(p.digits, q.digits) THEN -p.sign ELSE p.sign

Found(res, at) == [res |-> res, at |-> at, err |-> 0]
Fails(at) == [res |-> FALSE, at |-> at, err |-> 2]

ByInt(op, c) ==
  CASE op = "-eq" -> c = 0 [] op = "-ne" -> c # 0 [] op = "-ge" -> c >= 0
    [] op = "-gt" -> c > 0 [] op = "-le" -> c <= 0 [] op = "-lt" -> c < 0

(* filstat: everything but the test for a link follows links.              *)
Kinds == [x \in {"-f", "-d", "-c", "-b", "-p", "-S"} |->
            CASE x = "-f" -> "file" [] x = "-d" -> "dir" [] x = "-c" -> "char"
              [] x = "-b" -> "block" [] x = "-p" -> "fifo" [] x = "-S" -> "socket"]
StatOf(name) ==
  IF name \in DOMAIN Named THEN Named[name]
  ELSE [link |-> FALSE, kind |-> "", mode |-> {}, size |-> 0, time |-> 0, ino |-> 0]
Filstat(s, op) ==
  IF op \in {"-h", "-L"} THEN s.link
  ELSE IF s.kind = "" THEN FALSE
  ELSE IF op \in DOMAIN Kinds THEN s.kind = Kinds[op]
  ELSE IF op = "-s" THEN s.size > 0
  ELSE IF op = "-e" THEN TRUE
  ELSE op \in s.mode

FilesCompare(op, s, t) ==
  /\ s.kind # "" /\ t.kind # ""
  /\ CASE op = "-nt" -> s.time > t.time
       [] op = "-ot" -> s.time < t.time
       [] op = "-ef" -> s.ino = t.ino

(* A total order of the arguments for < and >: that of their places.       *)
StringOrder == <<"", "!", "(", ")", "-a", "-f", "-o", "-z", "1", "2", "<", "=", "d", "f", "l", "x">>
Before(x, y) ==
  SelectInSeq(StringOrder, LAMBDA w : w = x) < SelectInSeq(StringOrder, LAMBDA w : w = y)

IntTest(op, p, q, at) ==
  IF Invalid \in {p, q} THEN Fails(at) ELSE Found(ByInt(op, IntCmp(p, q)), at)

(* binop: the operands stand around i + 1.                                 *)
Binop(a, i) ==
  LET op == a[i + 1]
      y == Arg(a, i + 2)
  IN IF y = EOI THEN Fails(i + 2)
     ELSE IF op \in IntOps THEN IntTest(op, GetNumber(<<a[i]>>), GetNumber(<<y>>), i + 2)
     ELSE Found(CASE op = "=" -> a[i] = y
                  [] op = "!=" -> a[i] # y
                  [] op = "<" -> Before(a[i], y)
                  [] op = ">" -> Before(y, a[i])
                  [] OTHER -> FilesCompare(op, StatOf(a[i]), StatOf(y)), i + 2)

Terminal(p, at) == IF p.sign # 1 THEN Fails(at) ELSE Found(p.digits = <<"0">>, at)
Unop(a, i) ==
  LET x == Arg(a, i + 1)
  IN IF x = EOI THEN Fails(i + 1)
     ELSE IF a[i] = "-t" THEN Terminal(GetNumber(<<x>>), i + 1)
     ELSE Found(CASE a[i] = "-z" -> x = ""
                  [] a[i] = "-n" -> x # ""
                  [] OTHER -> Filstat(StatOf(x), a[i]), i + 1)

Negated(r) == [r EXCEPT !.res = ~@]
Joined(op, r, l) ==
  [r EXCEPT !.res = IF op = "-o" THEN @ \/ l.res ELSE @ /\ l.res]
Enclosed(r, a) ==
  IF r.err # 0 THEN r
  ELSE IF Arg(a, r.at + 1) # ")" THEN Fails(r.at + 1) ELSE [r EXCEPT !.at = @ + 1]

RECURSIVE Oexpr(_, _), Aexpr(_, _), Nexpr(_, _)

(* The word after an operand decides before the operand is looked at: what *)
(* looks like a unary operator may be one.                                 *)
Primary(a, i) ==
  IF Arg(a, i) = EOI THEN Fails(i)
  ELSE IF a[i] = "(" THEN Enclosed(Oexpr(a, i + 1), a)
  ELSE IF Arg(a, i + 1) \in BinaryOps THEN Binop(a, i)
  ELSE IF a[i] \in UnaryOps THEN Unop(a, i)
  ELSE Found(a[i] # "", i)

Nexpr(a, i) == IF Arg(a, i) = "!" THEN Negated(Nexpr(a, i + 1)) ELSE Primary(a, i)

AndMore(a, l) ==
  IF l.err = 0 /\ Arg(a, l.at + 1) = "-a" THEN Joined("-a", Aexpr(a, l.at + 2), l) ELSE l
Aexpr(a, i) == AndMore(a, Nexpr(a, i))

OrMore(a, l) ==
  IF l.err = 0 /\ Arg(a, l.at + 1) = "-o" THEN Joined("-o", Oexpr(a, l.at + 2), l) ELSE l
Oexpr(a, i) == OrMore(a, Aexpr(a, i))

(* main: the cases of up to four arguments the standard fixes, and the     *)
(* others; what the expression has left over is an error.                  *)
StatusOf(r) == IF r.err # 0 THEN 2 ELSE IF r.res THEN 0 ELSE 1
AllUsed(a, r) == IF r.err = 0 /\ r.at < Len(a) THEN Fails(r.at) ELSE r

TestRun(a) ==
  StatusOf(
    CASE Len(a) = 0 -> Found(FALSE, 0)
      [] Len(a) = 1 -> Found(a[1] # "", 1)
      [] Len(a) = 2 /\ a[1] = "!" -> Found(a[2] = "", 2)
      [] Len(a) = 3 /\ a[1] # "!" /\ a[2] \in BinaryOps -> Binop(a, 1)
      [] Len(a) = 4 /\ a[1] = "!" /\ a[3] \in BinaryOps -> Negated(Binop(a, 2))
      [] OTHER -> AllUsed(a, Oexpr(a, 1)))
-----------------------------------------------------------------------------
(* expr.  Integers have Bits bits; an argument is the sequence of its      *)
(* characters, of which a number has one digit.                            *)
CONSTANT Bits
ASSUME BitsAssumption == Bits \in 2 .. 4

IntMax == 2^(Bits - 1) - 1
IntMin == -(2^(Bits - 1))
Wrap(n) == ((n - IntMin) % 2^Bits) + IntMin
Quotient(x, y) ==
  LET q == (IF x < 0 THEN -x ELSE x) \div (IF y < 0 THEN -y ELSE y)
  IN IF (x < 0) # (y < 0) THEN -q ELSE q

IntVal(i) == [int |-> TRUE, i |-> i, s |-> <<>>]
StrVal(s) == [int |-> FALSE, i |-> 0, s |-> s]

(* is_integer, with strtonum on a string, and to_string.                   *)
OneDigit(s) == Len(s) = 1 /\ s[1] \in DigitSet
NumberIn(s) ==
  IF OneDigit(s) THEN DigitWorth(s[1])
  ELSE IF Len(s) = 2 /\ s[1] = "-" /\ OneDigit(Tail(s)) THEN -DigitWorth(s[2])
  ELSE IntMax + 1
IntegerOf(v) == IF v.int THEN v.i ELSE NumberIn(v.s)
IsInteger(v) == IntegerOf(v) \in IntMin .. IntMax
ToString0(v) ==
  IF ~v.int THEN v.s
  ELSE IF v.i < 0 THEN <<"-", DigitsOf[-v.i + 1]>> ELSE <<DigitsOf[v.i + 1]>>
(* is_zero_or_null, which makes a number of a string that is one.          *)
Looked(v) == IF IsInteger(v) THEN IntVal(IntegerOf(v)) ELSE v
IsZeroOrNull(v) == IF v.int THEN v.i = 0 ELSE v.s = <<>> \/ (IsInteger(v) /\ IntegerOf(v) = 0)

(* nexttoken: the token before "at"; behind ":" it is an operand always.   *)
Operators == {<<"|">>, <<"&">>, <<"=">>, <<"<">>, <<">">>, <<"+">>, <<"-">>, <<"*">>, <<"/">>,
              <<"%">>, <<":">>, <<"(">>, <<")">>, <<"<", "=">>, <<">", "=">>, <<"!", "=">>}
End == <<"(end)">>
Token(a, at) == IF at <= Len(a) THEN a[at] ELSE End
IsOperand(a, at, pat) == at <= Len(a) /\ (pat \/ a[at] \notin Operators)

Value(v, at) == [v |-> v, at |-> at, err |-> 0]
Exits(err, at) == [v |-> IntVal(0), at |-> at, err |-> err]

CharOrder == <<"-", "0", "1", "2", "3", "4", "5", "6", "7", "8", "9", "x", "y">>
CharBefore(c, d) ==
  SelectInSeq(CharOrder, LAMBDA x : x = c) < SelectInSeq(CharOrder, LAMBDA x : x = d)
TextBefore(s, t) ==
  \/ Len(s) < Len(t) /\ s = Upto(t, Len(s))
  \/ \E i \in DOMAIN s \cap DOMAIN t : Upto(s, i - 1) = Upto(t, i - 1) /\ CharBefore(s[i], t[i])

Relation(op, less, same) ==
  CASE op = <<"=">> -> same [] op = <<"!", "=">> -> ~same
    [] op = <<"<">> -> less [] op = <<"<", "=">> -> less \/ same
    [] op = <<">">> -> ~(less \/ same) [] op = <<">", "=">> -> ~less
Truth(b) == IntVal(IF b THEN 1 ELSE 0)
Compare(op, l, r) ==
  IF IsInteger(l) /\ IsInteger(r)
    THEN Truth(Relation(op, IntegerOf(l) < IntegerOf(r), IntegerOf(l) = IntegerOf(r)))
    ELSE Truth(Relation(op, TextBefore(ToString0(l), ToString0(r)), ToString0(l) = ToString0(r)))

(* Variant with a mistake: a sum is not looked at for overflow at zero.    *)
AddedLoose(x, y, res, at) ==
  IF (x > 0 /\ y > 0 /\ res < 0) \/ (x < 0 /\ y < 0 /\ res > 0) THEN Exits(3, at)
  ELSE Value(IntVal(res), at)

(* eval3 and eval4: the result, wrapped, shows an overflow by its sign, and*)
(* that of a product by dividing it again, which traps for the least       *)
(* number and -1: there is no status then.                                 *)
Added(x, y, res, at) ==
  IF (x > 0 /\ y > 0 /\ res <= 0) \/ (x < 0 /\ y < 0 /\ res >= 0) THEN Exits(3, at)
  ELSE Value(IntVal(res), at)
Subtracted(x, y, res, at) ==
  IF (x >= 0 /\ y < 0 /\ res <= 0) \/ (x < 0 /\ y > 0 /\ res >= 0) THEN Exits(3, at)
  ELSE Value(IntVal(res), at)
Trap == -1
Multiplied(x, y, res, at) ==
  IF y = -1 /\ res = IntMin THEN Exits(Trap, at)
  ELSE IF y # 0 /\ x # Quotient(res, y) THEN Exits(3, at)
  ELSE Value(IntVal(res), at)
Divided(op, x, y, at) ==
  IF y = 0 THEN Exits(2, at)
  ELSE IF x = IntMin /\ y = -1 THEN IF op = <<"/">> THEN Exits(3, at) ELSE Value(IntVal(0), at)
  ELSE Value(IntVal(IF op = <<"/">> THEN Quotient(x, y) ELSE x - y * Quotient(x, y)), at)

Arithmetic(op, l, r) ==
  IF ~IsInteger(l) \/ ~IsInteger(r.v) THEN Exits(2, r.at)
  ELSE LET x == IntegerOf(l)
           y == IntegerOf(r.v)
       IN CASE op = <<"+">> -> Added(x, y, Wrap(x + y), r.at)
            [] op = <<"-">> -> Subtracted(x, y, Wrap(x - y), r.at)
            [] op = <<"*">> -> Multiplied(x, y, Wrap(x * y), r.at)
            [] OTHER -> Divided(op, x, y, r.at)

(* regexec of a pattern of plain characters, perhaps one group.            *)
Plain(pattern) == SelectSeq(pattern, LAMBDA c : c \notin {"\\(", "\\)"})
Group(pattern) ==
  SubSeq(pattern, FirstOf(pattern, {"\\("}) + 1, FirstOf(pattern, {"\\)"}) - 1)
HasGroup(pattern) == Contains(pattern, "\\(")
Match(s, pattern) ==
  IF IsPrefix(Plain(pattern), s)
    THEN IF HasGroup(pattern) THEN StrVal(Group(pattern)) ELSE IntVal(Len(Plain(pattern)))
    ELSE IF HasGroup(pattern) THEN StrVal(<<>>) ELSE IntVal(0)

(* What an operator of a level makes of its operands.                      *)
Levels == <<{<<"|">>}, {<<"&">>},
            {<<"=">>, <<"!", "=">>, <<"<">>, <<">">>, <<"<", "=">>, <<">", "=">>},
            {<<"+">>, <<"-">>}, {<<"*">>, <<"/">>, <<"%">>}, {<<":">>}>>
Apply(level, op, l, r) ==
  CASE level = 1 -> Value(IF IsZeroOrNull(l) THEN r.v ELSE Looked(l), r.at)
    [] level = 2 -> Value(IF IsZeroOrNull(l) \/ IsZeroOrNull(r.v) THEN IntVal(0) ELSE Looked(l), r.at)
    [] level = 3 -> Value(Compare(op, l, r.v), r.at)
    [] level \in 4 .. 5 -> Arithmetic(op, l, r)
    [] level = 6 -> Value(Match(ToString0(l), ToString0(r.v)), r.at)

RECURSIVE Eval(_, _, _, _), Loop(_, _, _)

(* eval6: the token after an operand is read first, and when it is an      *)
(* operand too, which no expression has, it has taken the place of it.     *)
Eval6(a, at, pat) ==
  IF IsOperand(a, at, pat)
    THEN Value(StrVal(IF IsOperand(a, at + 1, FALSE) THEN a[at + 1] ELSE a[at]), at + 1)
  ELSE IF Token(a, at) # <<"(">> THEN Exits(2, at)
  ELSE LET r == Eval(1, a, at + 1, FALSE)
       IN IF r.err = 0 THEN IF Token(a, r.at) = <<")">> THEN [r EXCEPT !.at = @ + 1] ELSE Exits(2, r.at)
          ELSE r

Combine(level, a, l, r) ==
  IF r.err # 0 THEN r ELSE Loop(level, a, Apply(level, Token(a, l.at), l.v, r))

(* eval0 to eval5, from the operator that binds least: the operators of a  *)
(* level take what stands before them, left to right.                      *)
Loop(level, a, l) ==
  IF l.err = 0 /\ Token(a, l.at) \in Levels[level]
    THEN Combine(level, a, l, Eval(level + 1, a, l.at + 1, level = 6))
    ELSE l
Eval(level, a, at, pat) ==
  IF level = 7 THEN Eval6(a, at, pat) ELSE Loop(level, a, Eval(level + 1, a, at, pat))

AtEnd(a, r) == IF r.err = 0 /\ r.at <= Len(a) THEN Exits(2, r.at) ELSE r
ExprRun(a) == AtEnd(a, Eval(1, a, 1, FALSE))
=============================================================================
