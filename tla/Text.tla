--------------------------------- MODULE Text ---------------------------------
(***************************************************************************)
(* What the text programs share: a text is the sequence of its characters, *)
(* a character a string.  A line carries its newline, which only the last  *)
(* line of a text may lack: what getline returns.                          *)
(***************************************************************************)
EXTENDS Integers, SequencesExt

NL == "\n"
TAB == "\t"
SP == " "
BS == "\\b"
Wide == "W"            \* a character of two bytes that takes two columns
Blank == {SP, TAB}
WhiteSpace == {SP, TAB, NL}

Texts(chars, n) == UNION {[1 .. k -> chars] : k \in 0 .. n}

Smaller(a, b) == IF a <= b THEN a ELSE b
Larger(a, b) == IF a <= b THEN b ELSE a
From(s, i) == SubSeq(s, i, Len(s))
Upto(s, i) == SubSeq(s, 1, i)
Repeat(c, n) == [i \in 1 .. n |-> c]
Times(x, s) == Cardinality({i \in DOMAIN s : s[i] = x})
FirstOf(s, chars) == SelectInSeq(s, LAMBDA c : c \in chars)
Increasing(S) == [k \in 1 .. Cardinality(S) |-> CHOOSE x \in S : Cardinality({y \in S : y < x}) = k - 1]
Sum0(s) == FoldLeft(LAMBDA a, b : a + b, 0, s)

(* The positions at which the lines of a text end, and the lines.          *)
Ends(text) == {i \in DOMAIN text : text[i] = NL \/ i = Len(text)}
Lines(text) ==
  LET e == Increasing(Ends(text))
  IN [k \in DOMAIN e |-> SubSeq(text, IF k = 1 THEN 1 ELSE e[k - 1] + 1, e[k])]
Chomp(line) == IF line # <<>> /\ Last(line) = NL THEN Front(line) ELSE line

(* A text or a line cut at every character of a set, which is left out.    *)
Pieces(s, chars) ==
  LET cuts == Increasing({i \in DOMAIN s : s[i] \in chars} \cup {Len(s) + 1})
  IN [k \in DOMAIN cuts |-> SubSeq(s, IF k = 1 THEN 1 ELSE cuts[k - 1] + 1, cuts[k] - 1)]

=============================================================================
