-------------------------------- MODULE LibSorts --------------------------------
(***************************************************************************)
(* The sorts of the C support library: mergesort and heapsort              *)
(* (core/posix-wasm/src/lib/bsd/{merge,heapsort}.c).  A comparison is a    *)
(* function of two elements to {-1, 0, 1}.                                 *)
(***************************************************************************)
EXTENDS Text

CONSTANTS
  THRESHOLD,      \* elements of one sense that make a natural run (16)
  Patience        \* linear probes before the exponential search (6)
ASSUME SortConstants == THRESHOLD \in Nat \ {0} /\ Patience \in Nat \ {0}

Swap(a, i, j) == [a EXCEPT ![i] = a[j], ![j] = a[i]]

-----------------------------------------------------------------------------
(* heapsort: the macros CREATE and SELECT and the function.  LargerChild:  *)
(* the child of a node that is compared with it.                           *)
LargerChild(a, n, node, cmp) ==
  LET c == 2 * node IN IF c < n /\ cmp[a[c], a[c + 1]] < 0 THEN c + 1 ELSE c
RECURSIVE Create(_, _, _, _)
Create(a, n, par, cmp) ==
  LET child == LargerChild(a, n, par, cmp)
  IN IF 2 * par > n \/ cmp[a[child], a[par]] <= 0 THEN a
     ELSE Create(Swap(a, par, child), n, child, cmp)
RECURSIVE HoleDown(_, _, _, _)
HoleDown(a, n, par, cmp) ==
  LET child == LargerChild(a, n, par, cmp)
  IN IF 2 * par > n THEN [a |-> a, hole |-> par]
     ELSE HoleDown([a EXCEPT ![par] = a[child]], n, child, cmp)
RECURSIVE HoleUp(_, _, _, _)
HoleUp(a, hole, k, cmp) ==
  IF hole = 1 \/ cmp[k, a[hole \div 2]] < 0 THEN [a EXCEPT ![hole] = k]
  ELSE HoleUp([a EXCEPT ![hole] = a[hole \div 2]], hole \div 2, k, cmp)
SelectTop(a, n, k, cmp) ==
  LET h == HoleDown(a, n, 1, cmp) IN HoleUp(h.a, h.hole, k, cmp)

HeapSort(a, cmp) ==
  LET n == Len(a)
      heap == FoldLeft(LAMBDA h, i : Create(h, n, n \div 2 + 1 - i, cmp), a, [i \in 1 .. n \div 2 |-> i])
      turn(h, i) == LET m == n - i + 1
                    IN SelectTop([h EXCEPT ![m] = h[1]], m - 1, h[m], cmp)
  IN IF n <= 1 THEN a ELSE FoldLeft(turn, heap, [i \in 1 .. n - 1 |-> i])

-----------------------------------------------------------------------------
(* mergesort.  insertionsort of a[from .. to].                             *)
RECURSIVE Settle(_, _, _, _)
Settle(a, from, t, cmp) ==
  IF t = from \/ cmp[a[t - 1], a[t]] <= 0 THEN a ELSE Settle(Swap(a, t - 1, t), from, t - 1, cmp)
InsertionSort(a, from, to, cmp) ==
  FoldLeft(LAMBDA b, i : Settle(b, from, i, cmp), a, [k \in 1 .. to - from |-> from + k])

(* setup: the first pass, which leaves runs in order.  The state is the    *)
(* array and the places where runs begin.  Flip is the macro reverse.      *)
Flip(a, from, to) == [i \in DOMAIN a |-> IF i \in from .. to THEN a[from + to - i] ELSE a[i]]
(* Variant with a mistake: equal elements count as going down. *)
DownOrLevel(a, i, cmp) == cmp[a[i], a[i + 1]] >= 0
Down(a, i, cmp) == cmp[a[i], a[i + 1]] > 0
PairedRuns(st, f1, f2, sense) ==
  LET begins == {i \in f1 .. f2 - 1 : (i - f1) % 2 = 0}
      a == st.a
      isHigh(i) == i \in f1 .. f2 - 1 /\ (i - f1) % 2 = 0
      swapped == [i \in DOMAIN a |->
                    IF i \notin f1 .. f2 - 1 THEN a[i]
                    ELSE IF isHigh(i) THEN a[i + 1] ELSE a[i - 1]]
  IN [st EXCEPT !.a = IF sense THEN swapped ELSE a,
                !.starts = @ \cup {i + 2 : i \in begins}]
RECURSIVE NaturalRuns(_, _, _, _, _, _)
NaturalRuns(st, f1, f2, l2, sense, cmp) ==
  LET done == IF sense THEN Flip(st.a, f1, f2 - 1) ELSE st.a
  IN IF f2 >= l2 THEN [st EXCEPT !.a = done]
     ELSE IF Down(st.a, f2 - 1, cmp) # sense
       THEN NaturalRuns([a |-> done, starts |-> st.starts \cup {f2}], f2, f2 + 2, l2, sense, cmp)
     ELSE NaturalRuns(st, f1, f2 + 2, l2, sense, cmp)
RECURSIVE FirstPass(_, _, _, _, _)
FirstPass(st, f1, last, sense, cmp) ==
  LET others == {i \in f1 + 2 .. last - 1 : (i - f1) % 2 = 0 /\ Down(st.a, i, cmp) # sense}
      f2 == Min(others \cup {last})
      natural == NaturalRuns(st, f1, f1 + 2, f2, sense, cmp)
      \* a natural run that reaches the sorted tail in order goes on into it
      joins == f2 = last /\ cmp[natural.a[f2 - 1], natural.a[f2]] <= 0
      next == IF f2 - f1 < THRESHOLD THEN PairedRuns(st, f1, f2, sense)
              ELSE IF joins THEN natural
              ELSE [natural EXCEPT !.starts = @ \cup {f2}]
  IN IF f1 >= last THEN st ELSE FirstPass(next, f2, last, ~sense, cmp)
MergeSetup(a, cmp) ==
  LET n == Len(a)
      i == 4 + (n % 2)
      last == n - i + 1
      b == InsertionSort(a, last, n, cmp)
  IN IF n <= 5 THEN [a |-> InsertionSort(a, 1, n, cmp), starts |-> {1}]
     ELSE FirstPass([a |-> b, starts |-> {1}], 1, last, Down(b, 1, cmp), cmp)

(* How far the run b .. t - 1, whose head goes before q, goes before it:   *)
(* the end of what is copied.  stop(p): p is not to go before q.           *)
RECURSIVE Halve(_, _, _, _, _)
Halve(a, b, t, q, stop) ==
  LET p == b + (t - b) \div 2
  IN IF t <= b + 1 THEN t
     ELSE IF stop[q, a[p]] THEN Halve(a, b, p, q, stop) ELSE Halve(a, p, t, q, stop)
RECURSIVE Exponential(_, _, _, _, _, _)
Exponential(a, b, t, i, q, stop) ==
  LET p == b + i
  IN IF p >= t
       THEN IF t - 1 > b /\ stop[q, a[t - 1]]
              THEN [end |-> Halve(a, b, t - 1, q, stop), big |-> TRUE]
              ELSE [end |-> t, big |-> TRUE]
     ELSE IF stop[q, a[p]] THEN [end |-> Halve(a, b, p, q, stop), big |-> i # 1]
     ELSE Exponential(a, p, t, 2 * i, q, stop)
CopyEnd(a, b, t, q, big, stop) ==
  LET more == {p \in b + 1 .. t - 1 : stop[q, a[p]]}
      linear == Min(more \cup {t})
  IN IF big THEN Exponential(a, b, t, 1, q, stop)
     ELSE IF linear > b + Patience THEN Exponential(a, b + Patience, t, 1, q, stop)
     ELSE [end |-> linear, big |-> FALSE]

(* One merge of the runs f1 .. l1 - 1 and f2 .. l2 - 1, out what it wrote. *)
\* stop(q, x) for the run whose head goes: sense is -1 when it is the first run's, else 0
Stops(sense, cmp) ==
  LET elements == {p[1] : p \in DOMAIN cmp} IN [q \in elements, x \in elements |-> cmp[q, x] <= sense]
RECURSIVE MergeRuns(_, _, _, _, _, _, _, _)
FirstCopied(c, a, f1, l1, f2, l2, out, cmp) ==
  MergeRuns(a, c.end, l1, f2 + 1, l2, out \o SubSeq(a, f1, c.end - 1) \o <<a[f2]>>, c.big, cmp)
SecondCopied(c, a, f1, l1, f2, l2, out, cmp) ==
  MergeRuns(a, f1 + 1, l1, c.end, l2, out \o SubSeq(a, f2, c.end - 1) \o <<a[f1]>>, c.big, cmp)
MergeRuns(a, f1, l1, f2, l2, out, big, cmp) ==
  IF f1 >= l1 \/ f2 >= l2
    THEN [out |-> out \o SubSeq(a, f2, l2 - 1) \o SubSeq(a, f1, l1 - 1), big |-> big]
  ELSE IF cmp[a[f1], a[f2]] <= 0
    THEN FirstCopied(CopyEnd(a, f1, l1, a[f2], big, Stops(-1, cmp)), a, f1, l1, f2, l2, out, cmp)
  ELSE SecondCopied(CopyEnd(a, f2, l2, a[f1], big, Stops(0, cmp)), a, f1, l1, f2, l2, out, cmp)

RunMerged(st, r) == [out |-> st.out \o r.out, big |-> r.big]
RECURSIVE MergePasses(_, _, _, _)
MergePass(a, at, big, cmp) ==
  LET from(k) == IF k > Len(at) THEN Len(a) + 1 ELSE at[k]
      pair(st, k) == RunMerged(st, MergeRuns(a, from(2 * k - 1), from(2 * k), from(2 * k), from(2 * k + 1),
                                             <<>>, st.big, cmp))
  IN FoldLeft(pair, [out |-> <<>>, big |-> big], [k \in 1 .. (Len(at) + 1) \div 2 |-> k])
PassDone(pass, at, cmp) ==
  MergePasses(pass.out, {at[k] : k \in {j \in DOMAIN at : j % 2 = 1}}, pass.big, cmp)
MergePasses(a, starts, big, cmp) ==
  IF Cardinality(starts) <= 1 THEN a
  ELSE PassDone(MergePass(a, Increasing(starts), big, cmp), Increasing(starts), cmp)
MergeParts(s, cmp) == MergePasses(s.a, s.starts, FALSE, cmp)
MergeSort(a, cmp) == IF a = <<>> THEN a ELSE MergeParts(MergeSetup(a, cmp), cmp)

-----------------------------------------------------------------------------
(* A sort puts its elements in order and loses none; a stable one keeps    *)
(* the order of those that compare equal.  Elements are numbered by their  *)
(* place in the input: x[2].                                               *)
InOrder(out, cmp) == \A i \in 1 .. Len(out) - 1 : cmp[out[i], out[i + 1]] <= 0
SameElements(a, out) == Len(a) = Len(out) /\ \A x \in ToSet(a) : Times(x, a) = Times(x, out)
SortsRight(a, cmp, out) == InOrder(out, cmp) /\ SameElements(a, out)
SortsStably(a, cmp, out) ==
  /\ SortsRight(a, cmp, out)
  /\ \A i, j \in DOMAIN out : i < j /\ cmp[out[i], out[j]] = 0 => out[i][2] < out[j][2]

=============================================================================
