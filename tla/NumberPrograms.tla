---------------------------- MODULE NumberPrograms ----------------------------
(***************************************************************************)
(* What programs read and write as values: the numbers of seq and factor   *)
(* and the scaled numbers of wc, du, df and ls                             *)
(* (core/coreutils/src/utils/{seq,factor}, core/coreutils/src/compat), and *)
(* the modes of chmod, mkdir and find (core/posix-wasm/src/lib/bsd).       *)
(***************************************************************************)
EXTENDS Text

DecimalDigits == {"0", "1", "2", "3", "4", "5", "6", "7", "8", "9"}
OctalDigits == DecimalDigits \ {"8", "9"}
Abs(n) == IF n < 0 THEN 0 - n ELSE n
(* C's division rounds towards zero.                                       *)
Over(a, b) == IF a < 0 THEN 0 - ((0 - a) \div b) ELSE a \div b
Isqrt(n) == CHOOSE r \in 0 .. n : r * r <= n /\ (r + 1) * (r + 1) > n

-----------------------------------------------------------------------------
(* seq.  Values are integers in some decimal unit with an error of a       *)
(* double's rounding, too small to be printed: v = [n, err].               *)
Less(a, b) == a.n < b.n \/ (a.n = b.n /\ a.err < b.err)
NotAbove(a, b) == ~Less(b, a)
(* printf with a format that keeps multiples of a unit (%g: six digits).   *)
PrintedAs(v, unit) == ((v.n + unit \div 2) \div unit) * unit
Exact(n) == [n |-> n, err |-> 0]
(* main: the increment that is taken, or 0 for a refusal.                  *)
Increment0(first, incr, last, given) ==
  LET i == IF incr = 0 THEN IF first < last THEN 1 ELSE 0 - 1 ELSE incr
  IN CASE given /\ incr = 0 -> 0
       [] i < 0 /\ first < last -> 0
       [] i > 0 /\ first > last -> 0
       [] OTHER -> i
(* The loop: step k has the error err[k]; the last value is printed when   *)
(* the one behind the loop prints like it and is not the one shown last.   *)
StepValue(first, incr, k, err) == [n |-> first + k * incr, err |-> IF k = 0 THEN 0 ELSE err[k]]
SeqShows(first, incr, last, unit, err) ==
  LET in(k) == IF incr > 0 THEN NotAbove(StepValue(first, incr, k, err), Exact(last))
               ELSE NotAbove(Exact(last), StepValue(first, incr, k, err))
      n == Min({k \in 0 .. Abs(last - first) + 1 : ~in(k)})
      shown == [k \in 1 .. n |-> PrintedAs(StepValue(first, incr, k - 1, err), unit)]
      cur == StepValue(first, incr, n, err)
      more == /\ PrintedAs(cur, unit) = PrintedAs(Exact(last), unit)
              /\ cur # IF n = 0 THEN Exact(0) ELSE StepValue(first, incr, n - 1, err)
  IN IF more THEN Append(shown, PrintedAs(Exact(last), unit)) ELSE shown

(* %g of a value in hundredths: its length before and behind the point.    *)
Places(n) == IF n % 100 = 0 THEN 0 ELSE IF n % 10 = 0 THEN 1 ELSE 2
WholeWidth(n) == (IF n < 0 THEN 1 ELSE 0) + (IF Abs(n) < 1000 THEN 1 ELSE IF Abs(n) < 10000 THEN 2 ELSE 3)
(* generate_format for -w: the width and precision of all lines.           *)
LastShown(first, incr, last) ==
  IF first > last THEN first + incr * ((first - last - incr - 1) \div Abs(incr))
  ELSE first + incr * ((last - first) \div incr)
GenerateFormat(first, incr, last) ==
  LET precision == Larger(Places(first), Places(incr))
      whole == Larger(WholeWidth(first), WholeWidth(LastShown(first, incr, last)))
  IN [width |-> IF precision > 0 THEN whole + 1 + precision ELSE whole, precision |-> precision]
PrintedWidth(n, f) ==
  Larger(f.width, WholeWidth(n) + (IF f.precision > 0 THEN 1 + f.precision ELSE 0))
FormatKeeps(n, f) == Places(n) <= f.precision

(* numeric: what does not end the options.                                 *)
RECURSIVE NumericRest(_, _)
NumericRest(s, point) ==
  CASE s = <<>> -> TRUE
    [] s[1] \in DecimalDigits -> NumericRest(Tail(s), point)
    [] s[1] = "." /\ ~point -> NumericRest(Tail(s), TRUE)
    [] s = <<"e">> -> TRUE
    [] s[1] = "e" -> s[2] \in DecimalDigits \cup {"-", "+"} /\ NumericRest(From(s, 3), point)
    [] OTHER -> FALSE
Numeric(s) == NumericRest(IF s # <<>> /\ s[1] \in {"-", "+"} THEN Tail(s) ELSE s, FALSE)

(* valid_format: one floating point conversion, %% besides.                *)
SkipChars(s, chars) == From(s, Min({i \in 1 .. Len(s) + 1 : IF i > Len(s) THEN TRUE ELSE s[i] \notin chars}))
AfterPrecision(s) == IF s # <<>> /\ s[1] = "." THEN SkipChars(Tail(s), DecimalDigits) ELSE s
RECURSIVE Conversions(_)
Conversions(s) ==
  LET c == AfterPrecision(SkipChars(SkipChars(Tail(s), {"#", "0", "-", " ", "+", "'"}), DecimalDigits)) IN
  CASE s = <<>> -> 0
    [] s[1] # "%" -> Conversions(Tail(s))
    [] Len(s) > 1 /\ s[2] = "%" -> Conversions(From(s, 3))
    [] c # <<>> /\ c[1] \in {"g", "e", "f"} -> 1 + Conversions(Tail(c))
    [] OTHER -> 100
ValidFormat(s) == Conversions(s) = 1
(* unescape: n stands for the escapes of one letter, a for the hex letters. *)
HexDigits == <<"0", "1", "2", "3", "4", "5", "6", "7", "8", "9", "a">>
HexDigitOf(c) == (CHOOSE i \in DOMAIN HexDigits : HexDigits[i] = c) - 1
Leading(s, chars, n) ==
  Smaller(n, Min({i \in 1 .. Len(s) + 1 : IF i > Len(s) THEN TRUE ELSE s[i] \notin chars}) - 1)
ByteOf(s, base) == "byte " \o ToString(FoldLeft(LAMBDA v, c : v * base + HexDigitOf(c), 0, s) % 256)
RECURSIVE Unescape(_)
Unescape(s) ==
  LET rest == From(s, 2)
      octal == Leading(rest, OctalDigits, 3)
      hex == Leading(From(s, 3), DecimalDigits \cup {"a"}, 2) IN
  CASE s = <<>> -> <<>>
    [] s[1] # BS \/ rest = <<>> -> <<s[1]>> \o Unescape(rest)
    [] rest[1] = "n" -> <<NL>> \o Unescape(Tail(rest))
    [] rest[1] = BS -> <<BS>> \o Unescape(Tail(rest))
    [] octal > 0 -> <<ByteOf(Upto(rest, octal), 8)>> \o Unescape(From(rest, octal + 1))
    [] rest[1] = "x" -> <<ByteOf(SubSeq(s, 3, hex + 2), 16)>> \o Unescape(From(s, hex + 3))
    [] OTHER -> <<BS>> \o Unescape(rest)

-----------------------------------------------------------------------------
(* factor, with a small table and sieve: the primes to 13 (65537), those   *)
(* of the pattern to 3 (13), a window of 8 odd numbers (256 K), BIG 150.   *)
PrimeTable == <<2, 3, 5, 7, 11, 13>>
PatternProduct == 6
FirstSieved == 5
AfterFirst == 4        \* the place of the next prime in the table
TABSIZE == 8
BIG == 150
(* usqrt: Newton's steps until two are next to each other.                 *)
RECURSIVE Newton(_, _, _)
Newton(n, y, x) == IF y >= x /\ y - x <= 1 THEN x ELSE Newton(n, x, (n \div x + x) \div 2)
Usqrt(n) == IF n < 2 THEN n ELSE Newton(n, 1, (n + 1) \div 2)
RECURSIVE DivideOut(_, _)
DivideOut(val, f) == IF val % f = 0 THEN <<f>> \o DivideOut(val \div f, f) ELSE <<>>
RECURSIVE WithoutFactor(_, _)
WithoutFactor(val, f) == IF val % f = 0 THEN WithoutFactor(val \div f, f) ELSE val
OddStop(val) == LET s == Usqrt(val) + 1 IN IF s % 2 = 0 THEN s + 1 ELSE s
(* One window from start: which of its odd numbers are left by the sieve.  *)
Window(start, stop) ==
  LET full == stop - start > TABSIZE + TABSIZE
      n == IF full THEN TABSIZE ELSE (stop - start) \div 2
      lim == IF full THEN Usqrt(start + TABSIZE + TABSIZE + 1) ELSE Usqrt(stop + 1)
      sieved == {FirstSieved} \cup {PrimeTable[i] : i \in {i \in AfterFirst .. Len(PrimeTable) :
                                       \A j \in AfterFirst .. i : PrimeTable[j] <= lim}}
      FirstOut(f) == LET mod == start % f
                     IN IF mod % 2 = 1 THEN (f - mod) \div 2 ELSE IF mod = 0 THEN 0 ELSE f - mod \div 2
      inPattern(q) == LET c == (start % PatternProduct) \div 2 + q IN (2 * (c % (PatternProduct \div 2)) + 1) % 3 # 0
  IN {q \in 0 .. n - 1 : inPattern(q) /\ \A f \in sieved : q < FirstOut(f) \/ (q - FirstOut(f)) % f # 0}
WindowSize(start, stop) == IF stop - start > TABSIZE + TABSIZE THEN TABSIZE ELSE (stop - start) \div 2
TryWindow(s, q) ==
  LET f == s.start + 2 * q
  IN IF s.val % f # 0 THEN s
     ELSE [s EXCEPT !.out = @ \o DivideOut(s.val, f), !.val = WithoutFactor(@, f), !.stop = OddStop(WithoutFactor(s.val, f))]
RECURSIVE Bigfact(_)
Bigfact(s) ==
  IF s.start >= s.stop THEN IF s.val > 1 THEN Append(s.out, s.val) ELSE s.out
  ELSE LET w == Window(s.start, s.stop)
           t == FoldLeft(TryWindow, s, Increasing(w))
       IN Bigfact([t EXCEPT !.start = s.start + 2 * WindowSize(s.start, s.stop)])
PrBigfact(val) == Bigfact([val |-> val, start |-> Last(PrimeTable) + 2, stop |-> OddStop(val), out |-> <<>>])
(* pr_fact.  When the last prime of the table divides, the word behind the *)
(* table is tried once: harmless, but 0 is a division by zero, which traps *)
(* (0 in the output).                                                      *)
RECURSIVE FactFrom(_, _, _)
FactFrom(val, i, beyond) ==
  LET next == {j \in i .. Len(PrimeTable) : val % PrimeTable[j] = 0}
      rest == IF val > BIG THEN PrBigfact(val) ELSE <<val>>
      j == Min(next) IN
  CASE val = 1 -> <<>>
    [] i > Len(PrimeTable) -> IF beyond = 0 THEN <<0>> ELSE rest
    [] next = {} -> rest
    [] OTHER -> DivideOut(val, PrimeTable[j]) \o FactFrom(WithoutFactor(val, PrimeTable[j]), j + 1, beyond)
PrFact(val, beyond) == IF val < 2 THEN <<val>> ELSE FactFrom(val, 1, beyond)

-----------------------------------------------------------------------------
(* fmt_scaled and scan_scaled with K 32 for 1024: as many units as stand   *)
(* below LLMAX, which holds 8 of the last; three digits are from HUNDRED.  *)
K == 32
HUNDRED == 10
Factors == <<1, K, K * K, K * K * K, K * K * K * K, K * K * K * K * K>>
LLMAX == 8 * Last(Factors) - 1
NoNumber == LLMAX + 1
WrappedLL(n) == ((n + LLMAX + 1) % (2 * LLMAX + 2)) - LLMAX - 1
FmtScaled(number) ==
  LET abval == Abs(number)
      u == Min({i \in DOMAIN Factors : abval \div K < Factors[i]})
      fract == IF u = 1 THEN 0 ELSE (abval % Factors[u]) \div Factors[u - 1]
      tenths == (10 * fract + K \div 2) \div K
      away(n, more) == IF ~more THEN n ELSE IF n >= 0 THEN n + 1 ELSE n - 1
      n == away(Over(number, Factors[u]), tenths >= 10)
      t == IF tenths >= 10 THEN 0 ELSE tenths IN
  CASE abval \div K >= Last(Factors) -> [n |-> 0, tenth |-> 0, unit |-> 0]
    [] n = 0 -> [n |-> 0, tenth |-> 0, unit |-> 1]
    [] u = 1 \/ Abs(n) >= HUNDRED -> [n |-> away(n, t >= 5), tenth |-> 0, unit |-> u]
    [] OTHER -> [n |-> n, tenth |-> t, unit |-> u]

(* scan_scaled: p = [sign, whole, point, fract, unit], digits as numbers;  *)
(* unit 0 for none.  Digits that do not fit are refused or left out.       *)
MaxDigits == 3 * Len(Factors)
FractionKept(fract) == Upto(fract, Smaller(Len(fract), MaxDigits - 2))
RECURSIVE FitFraction(_, _, _)
FitFraction(fpart, digits, f) ==
  IF fpart >= LLMAX \div f THEN FitFraction(fpart \div 10, digits - 1, f) ELSE [fpart |-> fpart, digits |-> digits]
RECURSIVE Tenth(_, _)
Tenth(n, k) == IF k <= 0 THEN n ELSE Tenth(n \div 10, k - 1)
ScanScaled(p) ==
  LET Value(s) == FoldLeft(LAMBDA v, d : v * 10 + d, 0, s)
      whole == IF p.sign = "-" THEN 0 - Value(p.whole) ELSE Value(p.whole)
      f == Factors[p.unit]
      fit == FitFraction(Value(FractionKept(p.fract)), Len(FractionKept(p.fract)), f)
      part == Tenth(fit.fpart * f, fit.digits) IN
  CASE Len(p.whole) >= MaxDigits \/ Value(p.whole) > LLMAX \/ Value(FractionKept(p.fract)) > LLMAX -> NoNumber
    [] p.unit = 0 -> whole
    [] whole > LLMAX \div f \/ whole < 0 - (LLMAX \div f) - 1 -> NoNumber
    [] p.sign = "-" -> WrappedLL(whole * f - part)
    [] OTHER -> whole * f + part

-----------------------------------------------------------------------------
(* Symbolic modes: setmode reads one into a list of commands, which        *)
(* compress_mode shortens, and getmode applies the list to a mode.  Bits   *)
(* are pairs of a class ("u", "g", "o") and a permission, ISUID, ISGID,    *)
(* ISTXT, and IFDIR of a directory; a complement is within AllBits.        *)
IRWX(who) == {who} \X {"r", "w", "x"}
Each(perm) == {"u", "g", "o"} \X {perm}
ISUID == <<"u", "s">>
ISGID == <<"g", "s">>
ISTXT == <<"o", "t">>
IFDIR == <<"dir", "dir">>
STANDARD_BITS == IRWX("u") \cup IRWX("g") \cup IRWX("o") \cup {ISUID, ISGID}
AllBits == STANDARD_BITS \cup {ISTXT, IFDIR}

(* One command: cmd with bits, and of a copy the flags of cmd2.            *)
Command(cmd, bits) == [cmd |-> cmd, cmd2 |-> {}, bits |-> bits]
CopyBits(flags, from, bits) == {<<c, b[2]>> : c \in flags, b \in from} \cap bits
Copied(mode, set) ==
  LET value == mode \cap IRWX(set.cmd)
      whole == IRWX("o")
      clrval == IF "set" \in set.cmd2 THEN whole ELSE value
      flags == set.cmd2 \cap {"u", "g", "o"}
  IN (IF "clr" \in set.cmd2 THEN mode \ CopyBits(flags, clrval, set.bits) ELSE mode)
     \cup (IF "set" \in set.cmd2 THEN CopyBits(flags, value, set.bits) ELSE {})
Applied(omode, newmode, set) ==
  CASE set.cmd \in {"u", "g", "o"} -> Copied(newmode, set)
    [] set.cmd = "+" -> newmode \cup set.bits
    [] set.cmd = "-" -> newmode \ set.bits
    [] set.cmd = "X" -> IF omode \cap (Each("x") \cup {IFDIR}) # {} THEN newmode \cup set.bits ELSE newmode
Getmode(list, omode) == FoldLeft(LAMBDA mode, set : Applied(omode, mode, set), omode, list)

(* The commands of one clause; mask is what the umask leaves.              *)
AddCmd(list, op, who, oparg, mask) ==
  CASE op = "=" -> list \o <<Command("-", IF who # {} THEN who ELSE STANDARD_BITS),
                             Command("+", (IF who # {} THEN who ELSE mask) \cap oparg)>>
    [] op \in {"+", "-", "X"} -> Append(list, Command(op, (IF who # {} THEN who ELSE mask) \cap oparg))
AddCopy(list, from, who, op, mask) ==
  LET classes == IF who = {} THEN {"u", "g", "o"} ELSE {c \in {"u", "g", "o"} : <<c, "r">> \in who}
      flags == CASE op = "+" -> {"set"} [] op = "-" -> {"clr"} [] op = "=" -> {"set", "clr"}
  IN Append(list, [cmd |-> from, cmd2 |-> classes \cup flags, bits |-> IF who = {} THEN mask ELSE AllBits])

(* The reader is at who, at an operator, or among the permissions.         *)
SetmodeInit == [at |-> "who", who |-> {}, op |-> "", perm |-> {}, permXbits |-> {}, equalopdone |-> FALSE, list |-> <<>>]
WhoBits(c) == CASE c = "a" -> STANDARD_BITS [] c = "u" -> IRWX("u") \cup {ISUID}
                [] c = "g" -> IRWX("g") \cup {ISGID} [] c = "o" -> IRWX("o")
GetOp(S, c) ==
  IF c \notin {"+", "-", "="} THEN [S EXCEPT !.at = "error"]
  ELSE [S EXCEPT !.at = "perm", !.op = c, !.equalopdone = @ /\ c # "=", !.who = @ \ {ISTXT}, !.perm = {}, !.permXbits = {}]
ForSpecial(S) == S.who = {} \/ S.who \ IRWX("o") # {}
Flushed(S, mask) ==
  IF S.perm = {} THEN S ELSE [S EXCEPT !.list = AddCmd(@, S.op, S.who, S.perm, mask), !.perm = {}]
FlushedX(S, mask) ==
  IF S.permXbits = {} THEN S ELSE [S EXCEPT !.list = AddCmd(@, "X", S.who, S.permXbits, mask), !.permXbits = {}]
CopyFrom(S, c, mask) ==
  [S EXCEPT !.equalopdone = @ \/ S.op = "=", !.list = AddCopy(@, c, S.who, S.op, mask)]
EndPerms(S, mask) ==
  LET emptied == S.op = "=" /\ ~S.equalopdone
      added == IF S.perm # {} \/ emptied
                 THEN [S EXCEPT !.equalopdone = @ \/ S.op = "=", !.list = AddCmd(@, S.op, S.who, S.perm, mask), !.perm = {}]
               ELSE S
  IN FlushedX(added, mask)
ReadPerm(S, c, mask) ==
  CASE c \in {"r", "w", "x"} -> [S EXCEPT !.perm = @ \cup Each(c)]
    [] c = "s" -> IF ForSpecial(S) THEN [S EXCEPT !.perm = @ \cup {ISUID, ISGID}] ELSE S
    [] c = "t" -> IF ForSpecial(S) THEN [S EXCEPT !.who = @ \cup {ISTXT}, !.perm = @ \cup {ISTXT}] ELSE S
    [] c = "X" -> [S EXCEPT !.permXbits = Each("x")]
    [] c \in {"u", "g", "o"} ->
         CopyFrom(IF S.op = "+" THEN FlushedX(Flushed(S, mask), mask) ELSE Flushed(S, mask), c, mask)
    [] c = "," -> [EndPerms(S, mask) EXCEPT !.at = "who", !.who = {}]
    [] OTHER -> GetOp(EndPerms(S, mask), c)
ReadMode(S, c, mask) ==
  CASE S.at = "error" -> S
    [] S.at = "who" -> IF c \in {"a", "u", "g", "o"} THEN [S EXCEPT !.who = @ \cup WhoBits(c)] ELSE GetOp(S, c)
    [] S.at = "perm" -> ReadPerm(S, c, mask)

(* Runs of +, - and X become at most one of each, in the order -, +, X.    *)
NoBits == [setbits |-> {}, clrbits |-> {}, Xbits |-> {}]
Merged(R, set) ==
  CASE set.cmd = "-" -> [setbits |-> R.setbits \ set.bits, clrbits |-> R.clrbits \cup set.bits, Xbits |-> R.Xbits \ set.bits]
    [] set.cmd = "+" -> [setbits |-> R.setbits \cup set.bits, clrbits |-> R.clrbits \ set.bits, Xbits |-> R.Xbits \ set.bits]
    [] set.cmd = "X" -> [R EXCEPT !.Xbits = @ \cup (set.bits \ R.setbits)]
AtMost(cmd, bits) == IF bits = {} THEN <<>> ELSE <<Command(cmd, bits)>>
Emitted(R) == AtMost("-", R.clrbits) \o AtMost("+", R.setbits) \o AtMost("X", R.Xbits)
Compressing(C, set) ==
  IF set.cmd \in {"+", "-", "X"} THEN [C EXCEPT !.run = Merged(@, set)]
  ELSE [out |-> Append(C.out \o Emitted(C.run), set), run |-> NoBits]
CompressMode(list) ==
  LET done == FoldLeft(Compressing, [out |-> <<>>, run |-> NoBits], list) IN done.out \o Emitted(done.run)

(* The commands of the mode p, unless it is refused.                       *)
Refused == [refused |-> TRUE, list |-> <<>>]
Setmode(p, mask) ==
  LET end == FoldLeft(LAMBDA S, c : ReadMode(S, c, mask), SetmodeInit, p)
  IN IF p = <<>> \/ end.at # "perm" THEN Refused
     ELSE [refused |-> FALSE, list |-> CompressMode(EndPerms(end, mask).list)]
SetmodeOctal(perm, mask) ==
  IF perm \subseteq STANDARD_BITS \cup {ISTXT}
    THEN [refused |-> FALSE, list |-> AddCmd(<<>>, "=", STANDARD_BITS \cup {ISTXT}, perm, mask)]
  ELSE Refused
===============================================================================
