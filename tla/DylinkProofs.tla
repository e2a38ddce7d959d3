------------------------------ MODULE DylinkProofs ------------------------------
(***************************************************************************)
(* Proofs about dynamic linking: one owner for each slot of the function   *)
(* table, dlsym that finds a library's own functions, good pointers in the *)
(* global offset table, and programs run in place that take back what they *)
(* did, for all libraries and main programs and any number of them.        *)
(***************************************************************************)
EXTENDS Dylink, FiniteSetTheorems, SequenceTheorems, TLAPS

(* The dlopens under way: each waits for the next one, and all that it has *)
(* passed is open.  So a library that is needed in a circle is never       *)
(* opened twice.                                                           *)
Waits(i) == Needs[frames[i].path][frames[i].need]
FramesSound ==
  /\ frames \in Seq([path : Lib, need : Nat \ {0}])
  /\ \A i \in DOMAIN frames :
       /\ ~Loaded(frames[i].path) /\ frames[i].need <= Len(Needs[frames[i].path]) + 1
       /\ \A j \in 1 .. frames[i].need - 1 : Loaded(Needs[frames[i].path][j])
       /\ i < Len(frames) => /\ frames[i].need <= Len(Needs[frames[i].path])
                             /\ frames[i + 1].path = Waits(i)
  /\ frames # <<>> => ~ending

(* What is saved of the programs that wait.                                *)
RunsSound ==
  /\ runs \in Seq(ToSet(runs)) /\ (ending => runs # <<>>)
  /\ \A i \in DOMAIN runs : /\ DOMAIN runs[i] = {"libs", "got", "clean", "shut"}
                           /\ runs[i].clean \in BOOLEAN

(* Main keeps its slots.                                                   *)
MainSound ==
  \A i \in DOMAIN MainTable : i \in DOMAIN table /\ table[i] = Function(MainInstance, MainTable[i])

SlotInv ==
  /\ SlotsSound /\ FramesSound /\ RunsSound /\ MainSound /\ IsFiniteSet(DOMAIN libs)

(* A pointer of a library is to a function of its name, its own if it has  *)
(* one, and it has one for each of its exports.                            *)
PtrsSound ==
  \A h \in DOMAIN libs :
    /\ \A i \in DOMAIN libs[h].ptrs :
         LET e == libs[h].ptrs[i] IN
         /\ table[e.slot].sym = e.sym
         /\ libs[h].path \in Lib /\ e.sym \in ToSet(Exports[libs[h].path]) =>
              table[e.slot] = Function(libs[h].load, e.sym)
    /\ libs[h].path \in Lib => \A s \in ToSet(Exports[libs[h].path]) : Named(libs[h], s) # {}

(* The libraries of a program that waits that nobody closed. *)
Held(r) == DOMAIN r.libs \ r.shut

(* Each program finds the handles and names of those that wait for it, but  *)
(* for the libraries that were closed, and leaves the names without a value *)
(* to those that failed.                                                    *)
SavedOf(r) ==
  /\ r.got = [s \in DOMAIN r.got |-> r.got[s]]
  /\ \A h \in Held(r) : h \in DOMAIN libs /\ libs[h] = r.libs[h]
  /\ DOMAIN r.got \subseteq DOMAIN got
  /\ r.clean => \A s \in DOMAIN r.got : got[s] = r.got[s] /\ s \notin ToSet(funcMap) \cup ToSet(memMap)
SavedSound ==
  /\ got = [s \in DOMAIN got |-> got[s]]
  /\ \A i \in DOMAIN runs : SavedOf(runs[i])
  /\ \A i, j \in DOMAIN runs : i <= j => /\ Held(runs[i]) \subseteq Held(runs[j])
                                       /\ DOMAIN runs[i].got \subseteq DOMAIN runs[j].got
  /\ clean => funcMap = <<>> /\ memMap = <<>>

(* Every name in GOT is good for the libraries `some': what it points to is  *)
(* theirs or main's, so it stays as long as they are open.                  *)
PointsInto(some, s) ==
  IF s \in DataSym
    THEN \/ got[s] = MainInstance /\ s \in MainData
         \/ \E h \in some : /\ libs[h].path \in Lib /\ got[s] = libs[h].load
                            /\ s \in DataExports[libs[h].path]
    ELSE /\ got[s] \in DOMAIN MainTable \/ \E h \in some : got[s] \in SlotsOf(h)
         /\ table[got[s]].sym = s
GoodFor(some, names) ==
  /\ \A s \in names : PointsInto(some, s)
  /\ \A h \in some : \A x \in SlotsOf(h) :
       table[x].of = MainInstance \/ \E k \in some : table[x].of = libs[k].load
  /\ \A h \in some : libs[h].path \in Lib => ToSet(GotImports[libs[h].path]) \subseteq names
GotSound ==
  /\ clean => GoodFor(DOMAIN libs, DOMAIN got)
  /\ \A i \in DOMAIN runs :
       runs[i].clean /\ runs[i].shut = {} => GoodFor(DOMAIN runs[i].libs, DOMAIN runs[i].got)

LinkInv == SlotInv /\ PtrsSound /\ SavedSound /\ GotSound

-----------------------------------------------------------------------------
(* Numbers of a finite set, by their rank, and the kept part of a sequence. *)
LEMMA Ranks ==
  ASSUME NEW I \in SUBSET Int, IsFiniteSet(I)
  PROVE  /\ Cardinality(I) \in Nat
         /\ \A i \in I : Rank(I, i) \in 1 .. Cardinality(I)
         /\ \A i, j \in I : i < j => Rank(I, i) < Rank(I, j)
         /\ \A k \in 1 .. Cardinality(I) : \E i \in I : Rank(I, i) = k
<1> DEFINE upto(i) == {j \in I : j <= i}
<1>1. Cardinality(I) \in Nat
  BY FS_CardinalityType
<1>2. ASSUME NEW i \in I
      PROVE  /\ IsFiniteSet(upto(i)) /\ Cardinality(upto(i)) \in Nat
             /\ Cardinality(upto(i)) <= Cardinality(I) /\ Cardinality(upto(i)) # 0
  <2>1. upto(i) \in SUBSET I /\ i \in upto(i)
    OBVIOUS
  <2>2. IsFiniteSet(upto(i)) /\ Cardinality(upto(i)) <= Cardinality(I)
    BY <2>1, FS_Subset
  <2>3. Cardinality(upto(i)) # 0
    BY <2>1, <2>2, FS_EmptySet
  <2> QED BY <2>2, <2>3, FS_CardinalityType
<1>3. \A i \in I : Rank(I, i) \in 1 .. Cardinality(I)
  BY <1>1, <1>2 DEF Rank
<1>4. ASSUME NEW i \in I, NEW j \in I, i < j PROVE Rank(I, i) < Rank(I, j)
  <2>0. i \in Int /\ j \in Int /\ ~(j <= i) /\ j <= j
    BY <1>4
  <2>1. upto(i) \in SUBSET upto(j) /\ j \in upto(j) /\ j \notin upto(i)
    <3>1. ASSUME NEW l \in upto(i) PROVE l \in upto(j)
      <4>1. l \in I /\ l \in Int /\ l <= i
        OBVIOUS
      <4>2. l <= j
        BY <2>0, <4>1, <1>4
      <4> QED BY <4>1, <4>2
    <3> QED BY <2>0, <3>1
  <2>2. upto(i) # upto(j)
    BY <2>1
  <2>3. Cardinality(upto(i)) <= Cardinality(upto(j)) /\ Cardinality(upto(i)) # Cardinality(upto(j))
    BY <1>2, <2>1, <2>2, FS_Subset
  <2>4. Cardinality(upto(i)) \in Nat /\ Cardinality(upto(j)) \in Nat
    BY <1>2
  <2> HIDE DEF upto
  <2>5. Cardinality(upto(i)) < Cardinality(upto(j))
    BY <2>3, <2>4
  <2> QED BY <2>5 DEF Rank, upto
<1>5. \A k \in 1 .. Cardinality(I) : \E i \in I : Rank(I, i) = k
  <2> DEFINE T == 1 .. Cardinality(I)
             f == [i \in I |-> Rank(I, i)]
  <2>1. f \in [I -> T]
    BY <1>3
  <2>2. \A i, j \in I : f[i] = f[j] => i = j
    <3>1. SUFFICES ASSUME NEW i \in I, NEW j \in I, f[i] = f[j] PROVE i = j
      OBVIOUS
    <3>2. Rank(I, i) = Rank(I, j) /\ Rank(I, i) \in Int
      BY <1>1, <1>3, <3>1
    <3>3. ~(i < j) /\ ~(j < i)
      BY <1>4, <3>2
    <3> QED BY <3>3
  <2>3. f \in Injection(I, T)
    BY <2>1, <2>2 DEF Injection, IsInjective
  <2>4. IsFiniteSet(T) /\ Cardinality(T) = Cardinality(I)
    BY <1>1, FS_Interval
  <2> HIDE DEF f, T
  <2>5. f \in Surjection(I, T)
    BY <2>3, <2>4, FS_Injection
  <2>6. \A k \in T : \E i \in I : f[i] = k
    BY <2>5 DEF Surjection
  <2> QED BY <2>6 DEF f, T
<1> QED BY <1>1, <1>3, <1>4, <1>5

(* The least and the greatest of a finite set of numbers. *)
LEMMA LeastGreatest ==
  ASSUME NEW I \in SUBSET Int, IsFiniteSet(I), I # {}
  PROVE  /\ Min(I) \in I /\ \A i \in I : Min(I) <= i
         /\ Max(I) \in I /\ \A i \in I : i <= Max(I)
<1> DEFINE n == Cardinality(I)
<1>1. n \in Nat /\ n # 0
  BY FS_CardinalityType, FS_EmptySet
<1>2. \A i, j \in I : Rank(I, j) \in 1 .. n /\ (i < j => Rank(I, i) < Rank(I, j))
  BY Ranks
<1> HIDE DEF n
<1>3. PICK a \in I : Rank(I, a) = 1
  BY <1>1, Ranks DEF n
<1>4. PICK b \in I : Rank(I, b) = n
  BY <1>1, Ranks DEF n
<1>5. \A i \in I : a <= i /\ i <= b
  <2> TAKE i \in I
  <2>1. ~(i < a) /\ ~(b < i)
    BY <1>1, <1>2, <1>3, <1>4
  <2> QED BY <2>1
<1>6. (\E x \in I : \A y \in I : x <= y) /\ (\E x \in I : \A y \in I : x >= y)
  BY <1>5
<1>7. Min(I) \in I /\ \A i \in I : Min(I) <= i
  BY <1>6 DEF Min
<1>8. Max(I) \in I /\ \A i \in I : Max(I) >= i
  BY <1>6 DEF Max
<1> QED BY <1>7, <1>8

(* The kept part of a sequence: its elements are those asked for, each as   *)
(* often as in the sequence.                                                *)
LEMMA KeptFacts ==
  ASSUME NEW D, NEW s \in Seq(D), NEW S
  PROVE  /\ Kept(s, S) \in Seq(D \cap S) /\ ToSet(Kept(s, S)) = ToSet(s) \cap S
         /\ IsInjective(s) => IsInjective(Kept(s, S))
<1> DEFINE I == {i \in DOMAIN s : s[i] \in S}
           n == Cardinality(I)
           At(k) == CHOOSE i \in I : Rank(I, i) = k
           t == Kept(s, S)
<1>1. DOMAIN s = 1 .. Len(s) /\ Len(s) \in Nat /\ \A i \in DOMAIN s : s[i] \in D
  BY LenProperties, ElementOfSeq
<1>2. I \in SUBSET Int /\ IsFiniteSet(I)
  <2>1. IsFiniteSet(DOMAIN s) /\ I \in SUBSET DOMAIN s
    BY <1>1, FS_Interval
  <2> QED BY <1>1, <2>1, FS_Subset
<1>3. n \in Nat
  BY <1>2, FS_CardinalityType
<1>4. t = [k \in 1 .. n |-> s[At(k)]]
  BY DEF Kept
<1>5. \A i \in I : i \in DOMAIN s /\ s[i] \in S
  OBVIOUS
<1>6. \A i \in DOMAIN s : s[i] \in S => i \in I
  OBVIOUS
<1>7. \A k \in 1 .. n : At(k) \in I /\ Rank(I, At(k)) = k
  <2> TAKE k \in 1 .. n
  <2>1. \E i \in I : Rank(I, i) = k
    BY <1>2, Ranks
  <2> QED BY <2>1
<1>8. \A i \in I : Rank(I, i) \in 1 .. n /\ At(Rank(I, i)) = i
  <2> TAKE i \in I
  <2>1. Rank(I, i) \in 1 .. n
    BY <1>2, Ranks
  <2>2. At(Rank(I, i)) \in I /\ Rank(I, At(Rank(I, i))) = Rank(I, i)
    BY <1>7, <2>1
  <2> DEFINE j == At(Rank(I, i))
  <2>3. ~(i < j) /\ ~(j < i) /\ i \in Int /\ j \in Int
    <3>1. Rank(I, i) \in Int /\ Rank(I, j) = Rank(I, i) /\ j \in I
      BY <1>3, <2>1, <2>2
    <3> HIDE DEF j, I
    <3>2. (i < j => Rank(I, i) < Rank(I, j)) /\ (j < i => Rank(I, j) < Rank(I, i))
      BY <1>2, <3>1, Ranks
    <3> QED BY <1>2, <3>1, <3>2
  <2>4. j = i
    <3> HIDE DEF j
    <3> QED BY <2>3
  <2> QED BY <2>1, <2>4
<1> HIDE DEF I, n, At, t
<1>9. t \in Seq(D \cap S)
  <2>1. t \in [1 .. n -> D \cap S]
    BY <1>1, <1>4, <1>5, <1>7
  <2> QED BY <1>3, <2>1, SeqDef
<1>10. DOMAIN t = 1 .. n
  BY <1>4
<1>11. ToSet(t) \subseteq ToSet(s) \cap S
  <2>1. SUFFICES ASSUME NEW x \in ToSet(t) PROVE x \in ToSet(s) \cap S
    OBVIOUS
  <2>2. PICK k \in 1 .. n : x = s[At(k)]
    BY <1>4, <1>10, <2>1 DEF ToSet
  <2> QED BY <1>5, <1>7, <2>2 DEF ToSet
<1>12. ToSet(s) \cap S \subseteq ToSet(t)
  <2>1. SUFFICES ASSUME NEW x \in ToSet(s) \cap S PROVE x \in ToSet(t)
    OBVIOUS
  <2>2. PICK i \in DOMAIN s : x = s[i]
    BY <2>1 DEF ToSet
  <2>3. i \in I
    BY <1>6, <2>1, <2>2
  <2>4. t[Rank(I, i)] = x /\ Rank(I, i) \in DOMAIN t
    BY <1>4, <1>8, <1>10, <2>2, <2>3
  <2> QED BY <2>4 DEF ToSet
<1>13. ASSUME IsInjective(s) PROVE IsInjective(t)
  <2>1. SUFFICES ASSUME NEW k \in 1 .. n, NEW l \in 1 .. n, t[k] = t[l] PROVE k = l
    BY <1>10 DEF IsInjective
  <2>2. s[At(k)] = s[At(l)] /\ At(k) \in DOMAIN s /\ At(l) \in DOMAIN s
    BY <1>4, <1>5, <1>7, <2>1
  <2>3. At(k) = At(l)
    BY <1>13, <2>2 DEF IsInjective
  <2> QED BY <1>7, <2>3
<1> QED BY <1>9, <1>11, <1>12, <1>13 DEF t

(* Two sequences joined: their elements, and none twice if none is in both. *)
LEMMA ConcatToSet ==
  ASSUME NEW D, NEW s \in Seq(D), NEW t \in Seq(D)
  PROVE  /\ s \o t \in Seq(D) /\ Len(s \o t) = Len(s) + Len(t) /\ Len(s) \in Nat /\ Len(t) \in Nat
         /\ ToSet(s \o t) = ToSet(s) \cup ToSet(t)
         /\ \A i \in 1 .. Len(s) : (s \o t)[i] = s[i]
         /\ \A i \in 1 .. Len(t) : (s \o t)[Len(s) + i] = t[i]
         /\ IsInjective(s) /\ IsInjective(t) /\ ToSet(s) \cap ToSet(t) = {} => IsInjective(s \o t)
<1> DEFINE u == s \o t
           m == Len(s)
           n == Len(t)
<1>1. m \in Nat /\ n \in Nat /\ DOMAIN s = 1 .. m /\ DOMAIN t = 1 .. n
  BY LenProperties
<1>2. /\ u \in Seq(D) /\ Len(u) = m + n
      /\ \A i \in 1 .. m + n : u[i] = IF i <= m THEN s[i] ELSE t[i - m]
  BY ConcatProperties
<1>3. DOMAIN u = 1 .. m + n
  BY <1>2, LenProperties
<1> HIDE DEF u, m, n
<1>4. \A i \in 1 .. m : i \in 1 .. m + n /\ u[i] = s[i]
  BY <1>1, <1>2
<1>5. \A i \in 1 .. n : m + i \in 1 .. m + n /\ u[m + i] = t[i]
  <2> TAKE i \in 1 .. n
  <2>1. m + i \in 1 .. m + n /\ ~(m + i <= m) /\ m + i - m = i
    BY <1>1
  <2>2. PICK j \in 1 .. m + n : j = m + i
    BY <2>1
  <2>3. u[j] = IF j <= m THEN s[j] ELSE t[j - m]
    BY <1>2
  <2>4. ~(j <= m) /\ j - m = i
    BY <1>1, <2>1, <2>2
  <2>5. u[j] = t[i]
    BY <2>3, <2>4
  <2> QED BY <2>1, <2>2, <2>5
<1>6. \A i \in 1 .. m + n : (i \in 1 .. m /\ u[i] = s[i]) \/ (i - m \in 1 .. n /\ u[i] = t[i - m])
  BY <1>1, <1>2
<1>7. ToSet(u) = ToSet(s) \cup ToSet(t)
  <2>1. ASSUME NEW x \in ToSet(u) PROVE x \in ToSet(s) \cup ToSet(t)
    <3>1. PICK i \in 1 .. m + n : x = u[i]
      BY <1>3, <2>1 DEF ToSet
    <3> QED BY <1>1, <1>6, <3>1 DEF ToSet
  <2>2. ASSUME NEW x \in ToSet(s) PROVE x \in ToSet(u)
    BY <1>1, <1>3, <1>4, <2>2 DEF ToSet
  <2>3. ASSUME NEW x \in ToSet(t) PROVE x \in ToSet(u)
    BY <1>1, <1>3, <1>5, <2>3 DEF ToSet
  <2> QED BY <2>1, <2>2, <2>3
<1>8. ASSUME IsInjective(s), IsInjective(t), ToSet(s) \cap ToSet(t) = {} PROVE IsInjective(u)
  <2>1. SUFFICES ASSUME NEW i \in 1 .. m + n, NEW j \in 1 .. m + n, u[i] = u[j] PROVE i = j
    BY <1>3 DEF IsInjective
  <2>2. \A a \in 1 .. m, b \in 1 .. n : s[a] # t[b]
    BY <1>1, <1>8 DEF ToSet
  <2>3. CASE i \in 1 .. m /\ u[i] = s[i]
    <3>1. j \in 1 .. m /\ u[j] = s[j]
      BY <1>6, <2>1, <2>2, <2>3
    <3> QED BY <1>1, <1>8, <2>1, <2>3, <3>1 DEF IsInjective
  <2>4. CASE i - m \in 1 .. n /\ u[i] = t[i - m]
    <3>1. j - m \in 1 .. n /\ u[j] = t[j - m]
      BY <1>6, <2>1, <2>2, <2>4
    <3>2. i - m = j - m
      BY <1>1, <1>8, <2>1, <2>4, <3>1 DEF IsInjective
    <3> QED BY <1>1, <3>2
  <2> QED BY <1>6, <2>3, <2>4
<1> QED BY <1>1, <1>2, <1>4, <1>5, <1>7, <1>8 DEF u, m, n

(* Part of a sequence: its elements are the sequence's. *)
LEMMA SubToSet ==
  ASSUME NEW D, NEW s \in Seq(D), NEW m \in Nat, m >= 1, NEW n \in Nat, n <= Len(s)
  PROVE  /\ SubSeq(s, m, n) \in Seq(D) /\ ToSet(SubSeq(s, m, n)) \subseteq ToSet(s)
         /\ Len(SubSeq(s, m, n)) = IF m <= n THEN n - m + 1 ELSE 0
         /\ DOMAIN SubSeq(s, m, n) = 1 .. n - m + 1
         /\ \A i \in 1 .. n - m + 1 : m + i - 1 \in DOMAIN s /\ SubSeq(s, m, n)[i] = s[m + i - 1]
         /\ IsInjective(s) => IsInjective(SubSeq(s, m, n))
<1> DEFINE u == SubSeq(s, m, n)
           l == Len(s)
<1>1. l \in Nat /\ DOMAIN s = 1 .. l /\ \A i \in 1 .. l : s[i] \in D
  BY LenProperties, ElementOfSeq
<1> HIDE DEF l
<1>2. n <= l /\ \A i \in m .. n : s[i] \in D
  BY <1>1 DEF l
<1>3. /\ u \in Seq(D) /\ Len(u) = IF m <= n THEN n - m + 1 ELSE 0
      /\ \A i \in 1 .. n - m + 1 : u[i] = s[m + i - 1]
  BY <1>2, SubSeqProperties
<1> HIDE DEF u
<1>4. DOMAIN u = 1 .. n - m + 1
  <2>1. DOMAIN u = 1 .. Len(u)
    BY <1>3, LenProperties
  <2> QED BY <1>3, <2>1
<1>5. \A i \in 1 .. n - m + 1 : m + i - 1 \in DOMAIN s /\ u[i] = s[m + i - 1]
  BY <1>1, <1>2, <1>3
<1>6. ToSet(u) \subseteq ToSet(s)
  <2>1. SUFFICES ASSUME NEW x \in ToSet(u) PROVE x \in ToSet(s)
    OBVIOUS
  <2>2. PICK i \in 1 .. n - m + 1 : x = u[i]
    BY <1>4, <2>1 DEF ToSet
  <2> QED BY <1>5, <2>2 DEF ToSet
<1>7. ASSUME IsInjective(s) PROVE IsInjective(u)
  <2>1. SUFFICES ASSUME NEW i \in 1 .. n - m + 1, NEW j \in 1 .. n - m + 1, u[i] = u[j] PROVE i = j
    BY <1>4 DEF IsInjective
  <2>2. m + i - 1 = m + j - 1
    BY <1>5, <1>7, <2>1 DEF IsInjective
  <2> QED BY <2>2
<1> QED BY <1>3, <1>4, <1>5, <1>6, <1>7 DEF u

(* A sequence with one element more. *)
LEMMA AppendToSet ==
  ASSUME NEW s, s \in Seq(ToSet(s)), NEW e
  PROVE  /\ Append(s, e) \in Seq(ToSet(Append(s, e))) /\ Len(Append(s, e)) = Len(s) + 1
         /\ Len(s) \in Nat /\ DOMAIN s = 1 .. Len(s) /\ DOMAIN Append(s, e) = 1 .. Len(s) + 1
         /\ \A i \in 1 .. Len(s) : Append(s, e)[i] = s[i]
         /\ Append(s, e)[Len(s) + 1] = e
<1> DEFINE D == ToSet(s) \cup {e}
           u == Append(s, e)
<1>1. s \in Seq(D) /\ e \in D
  BY SeqMonotonic
<1>2. Len(s) \in Nat /\ DOMAIN s = 1 .. Len(s)
  BY LenProperties
<1>3. /\ u \in Seq(D) /\ Len(u) = Len(s) + 1 /\ \A i \in 1 .. Len(s) : u[i] = s[i]
      /\ u[Len(s) + 1] = e
  BY <1>1, AppendProperties
<1>4. u \in [1 .. Len(s) + 1 -> D] /\ DOMAIN u = 1 .. Len(s) + 1
  BY <1>3, LenProperties
<1> HIDE DEF u, D
<1>5. u \in [1 .. Len(s) + 1 -> ToSet(u)]
  BY <1>4 DEF ToSet
<1>6. u \in Seq(ToSet(u))
  BY <1>2, <1>5, SeqDef
<1> QED BY <1>2, <1>3, <1>4, <1>6 DEF u

(* A sequence without its last element. *)
LEMMA FrontFacts ==
  ASSUME NEW s, s \in Seq(ToSet(s)), s # <<>>
  PROVE  /\ Front(s) \in Seq(ToSet(Front(s))) /\ Len(s) \in Nat /\ Len(s) >= 1 /\ DOMAIN s = 1 .. Len(s)
         /\ Len(Front(s)) = Len(s) - 1 /\ DOMAIN Front(s) = 1 .. Len(s) - 1
         /\ \A i \in 1 .. Len(s) - 1 : Front(s)[i] = s[i]
<1> DEFINE l == Len(s)
           u == Front(s)
<1>1. l \in Nat \ {0}
  BY EmptySeq
<1>2. DOMAIN s = 1 .. l
  BY LenProperties
<1>3. /\ u \in Seq(ToSet(s)) /\ Len(u) = (IF 1 <= l - 1 THEN l - 1 - 1 + 1 ELSE 0)
      /\ DOMAIN u = 1 .. l - 1 - 1 + 1
      /\ \A i \in 1 .. l - 1 - 1 + 1 : u[i] = s[1 + i - 1]
  <2>1. l - 1 \in Nat /\ l - 1 <= l
    BY <1>1
  <2> QED BY <2>1, SubToSet DEF Front
<1> HIDE DEF l, u
<1>4. Len(u) = l - 1 /\ DOMAIN u = 1 .. l - 1 /\ \A i \in 1 .. l - 1 : u[i] = s[i]
  BY <1>1, <1>3
<1>5. u \in [1 .. l - 1 -> ToSet(s)]
  BY <1>3, <1>4, LenProperties
<1>6. u \in [1 .. l - 1 -> ToSet(u)]
  BY <1>4, <1>5 DEF ToSet
<1>7. l - 1 \in Nat /\ l \in Nat /\ l >= 1
  BY <1>1
<1>8. u \in Seq(ToSet(u))
  BY <1>6, <1>7, SeqDef
<1> QED BY <1>2, <1>4, <1>7, <1>8 DEF l, u

-----------------------------------------------------------------------------
(* The names that an import looks up for the first time. *)
Sym == FuncSym \cup DataSym
(* Unknown names are split into functions, main's or not, and data; none is *)
(* in GOT, and with the ones that are, they are all that the library        *)
(* imports.                                                                 *)
LEMMA NewNames ==
  ASSUME NEW p \in Lib, NEW k \in 0 .. All(p)
  PROVE  /\ Unknown(p, k) \in Seq(Sym \ DOMAIN got)
         /\ NewFuncs(p, k) \in Seq(FuncSym \ (DOMAIN got \cup ToSet(MainTable)))
         /\ NewData(p, k) \in Seq(DataSym \ DOMAIN got)
         /\ IsInjective(NewFuncs(p, k))
         /\ ToSet(NewFuncs(p, k)) = (ToSet(Unknown(p, k)) \cap FuncSym) \ ToSet(MainTable)
         /\ ToSet(NewData(p, k)) = ToSet(Unknown(p, k)) \cap DataSym
         /\ k = All(p) => ToSet(GotImports[p]) \subseteq DOMAIN got \cup ToSet(Unknown(p, k))
<1> DEFINE imports == GotImports[p]
           sub == SubSeq(imports, 1, k)
           u == Unknown(p, k)
<1>1. imports \in Seq(Sym) /\ IsInjective(imports) /\ Len(imports) \in Nat
  BY LibraryAssumption, LenProperties DEF Sym
<1>2. k \in Nat /\ k <= Len(imports) /\ 1 \in Nat /\ 1 >= 1
  BY <1>1 DEF All
<1>3. k = All(p) => sub = imports
  BY <1>1, SubSeqFull DEF All
<1> HIDE DEF imports
<1>4. sub \in Seq(Sym) /\ IsInjective(sub)
  BY <1>1, <1>2, SubToSet
<1>5. u = Kept(sub, Sym \ DOMAIN got)
  BY DEF Unknown, imports, Sym
<1> HIDE DEF sub, u
<1>6. u \in Seq(Sym \cap (Sym \ DOMAIN got)) /\ ToSet(u) = ToSet(sub) \cap (Sym \ DOMAIN got) /\ IsInjective(u)
  BY <1>4, <1>5, KeptFacts
<1>7. u \in Seq(Sym \ DOMAIN got)
  BY <1>6, SeqMonotonic
<1>8. /\ Kept(u, FuncSym \ ToSet(MainTable)) \in Seq((Sym \ DOMAIN got) \cap (FuncSym \ ToSet(MainTable)))
      /\ ToSet(Kept(u, FuncSym \ ToSet(MainTable))) = ToSet(u) \cap (FuncSym \ ToSet(MainTable))
      /\ IsInjective(Kept(u, FuncSym \ ToSet(MainTable)))
  BY <1>6, <1>7, KeptFacts
<1>9. /\ Kept(u, DataSym) \in Seq((Sym \ DOMAIN got) \cap DataSym)
      /\ ToSet(Kept(u, DataSym)) = ToSet(u) \cap DataSym
  BY <1>7, KeptFacts
<1>10. NewFuncs(p, k) = Kept(u, FuncSym \ ToSet(MainTable)) /\ NewData(p, k) = Kept(u, DataSym)
  BY DEF NewFuncs, NewData, u
<1>11. NewFuncs(p, k) \in Seq(FuncSym \ (DOMAIN got \cup ToSet(MainTable)))
  <2>1. (Sym \ DOMAIN got) \cap (FuncSym \ ToSet(MainTable)) \subseteq FuncSym \ (DOMAIN got \cup ToSet(MainTable))
    OBVIOUS
  <2> QED BY <1>8, <1>10, <2>1, SeqMonotonic
<1>12. NewData(p, k) \in Seq(DataSym \ DOMAIN got)
  <2>1. (Sym \ DOMAIN got) \cap DataSym \subseteq DataSym \ DOMAIN got
    OBVIOUS
  <2> QED BY <1>9, <1>10, <2>1, SeqMonotonic
<1>13. k = All(p) => ToSet(imports) \subseteq DOMAIN got \cup ToSet(u)
  <2>1. ToSet(imports) \subseteq Sym
    BY <1>1, LenProperties, ElementOfSeq DEF ToSet
  <2> QED BY <1>3, <1>6, <2>1
<1>14. /\ ToSet(NewFuncs(p, k)) = (ToSet(u) \cap FuncSym) \ ToSet(MainTable)
       /\ ToSet(NewData(p, k)) = ToSet(u) \cap DataSym
  BY <1>8, <1>9, <1>10
<1> QED BY <1>7, <1>8, <1>10, <1>11, <1>12, <1>13, <1>14 DEF u, imports

(* The slots that are handed out are free and different, and are behind    *)
(* the library's part of the table or were freed before.                   *)
LEMMA SlotFacts ==
  ASSUME TypeOK, AvailableAreFree, NEW p \in Lib
  PROVE  /\ next \in Nat /\ Prepared(p) \in Nat /\ next <= Prepared(p)
         /\ PartOf(p) = next .. Prepared(p) - 1
         /\ Len(available) \in Nat
         /\ \A x \in DOMAIN table \cup ToSet(available) : x \in Nat /\ x < next
         /\ \A i \in Nat \ {0} :
              /\ Slot(p, i) \in Nat /\ Slot(p, i) \notin DOMAIN table \cup PartOf(p)
              /\ \/ i <= Len(available) /\ Slot(p, i) = available[i] /\ Slot(p, i) \in ToSet(available)
                 \/ i > Len(available) /\ Slot(p, i) = Prepared(p) + i - Len(available) - 1 /\ Slot(p, i) >= Prepared(p)
         /\ \A i, j \in Nat \ {0} : i # j => Slot(p, i) # Slot(p, j)
<1> DEFINE l == Len(available)
           q == Prepared(p)
<1>1. next \in Nat /\ q \in Nat /\ next <= q /\ PartOf(p) = next .. q - 1
  BY LibraryAssumption DEF TypeOK, Prepared, PartOf
<1>2. l \in Nat /\ DOMAIN available = 1 .. l /\ \A i \in 1 .. l : available[i] \in Nat
  BY LenProperties, ElementOfSeq DEF TypeOK
<1>3. \A x \in DOMAIN table \cup ToSet(available) : x \in Nat /\ x < next
  BY <1>1 DEF AvailableAreFree, Index, TypeOK
<1>4. \A i \in Nat \ {0} : Slot(p, i) = IF i <= l THEN available[i] ELSE q + i - l - 1
  BY DEF Slot
<1> HIDE DEF l, q
<1>5. ASSUME NEW i \in Nat \ {0}
      PROVE  /\ Slot(p, i) \in Nat /\ Slot(p, i) \notin DOMAIN table \cup PartOf(p)
             /\ \/ i <= l /\ Slot(p, i) = available[i] /\ Slot(p, i) \in ToSet(available)
                \/ i > l /\ Slot(p, i) = q + i - l - 1 /\ Slot(p, i) >= q
  <2>1. CASE i <= l
    <3>1. i \in 1 .. l
      BY <1>2, <2>1
    <3>2. Slot(p, i) = available[i] /\ available[i] \in ToSet(available) /\ available[i] \in Nat
      BY <1>2, <1>4, <2>1, <3>1 DEF ToSet
    <3>3. available[i] \notin DOMAIN table /\ available[i] < next
      BY <1>3, <3>2 DEF AvailableAreFree
    <3> QED BY <1>1, <2>1, <3>2, <3>3
  <2>2. CASE i > l
    <3>1. ~(i <= l) /\ q + i - l - 1 \in Nat /\ q + i - l - 1 >= q
      BY <1>1, <1>2, <2>2
    <3>2. Slot(p, i) = q + i - l - 1
      BY <1>4, <3>1
    <3> QED BY <1>1, <1>3, <2>2, <3>1, <3>2
  <2> QED BY <1>2, <2>1, <2>2
<1>6. ASSUME NEW i \in Nat \ {0}, NEW j \in Nat \ {0}, Slot(p, i) = Slot(p, j) PROVE i = j
  <2>1. CASE i <= l /\ j <= l
    <3>1. i \in DOMAIN available /\ j \in DOMAIN available
      BY <1>2, <2>1
    <3>2. available[i] = available[j]
      BY <1>4, <1>6, <2>1
    <3> QED BY <3>1, <3>2 DEF AvailableAreFree, IsInjective
  <2>2. CASE i > l /\ j > l
    <3>1. ~(i <= l) /\ ~(j <= l)
      BY <1>2, <2>2
    <3>2. q + i - l - 1 = q + j - l - 1
      BY <1>4, <1>6, <3>1
    <3> QED BY <1>1, <1>2, <3>2
  <2>3. ASSUME NEW a \in Nat \ {0}, NEW b \in Nat \ {0}, a <= l, b > l PROVE Slot(p, a) # Slot(p, b)
    <3>1. Slot(p, a) \in ToSet(available)
      BY <1>2, <1>5, <2>3
    <3>2. Slot(p, a) < next /\ Slot(p, a) \in Nat
      BY <1>3, <3>1
    <3>3. Slot(p, b) >= q /\ Slot(p, b) \in Nat
      BY <1>2, <1>5, <2>3
    <3> QED BY <1>1, <3>2, <3>3
  <2> QED BY <1>2, <1>6, <2>1, <2>2, <2>3
<1> QED BY <1>1, <1>2, <1>3, <1>5, <1>6 DEF l, q

(* What is left once n slots are handed out. *)
LEMMA TakeFacts ==
  ASSUME TypeOK, AvailableAreFree, NEW p \in Lib, NEW n \in Nat, TakeSlots(p, n)
  PROVE  /\ available' \in Seq(Nat) /\ IsInjective(available') /\ ToSet(available') \subseteq ToSet(available)
         /\ next' \in Nat /\ next' >= Prepared(p) /\ next' >= next
         /\ \A i \in 1 .. n : Slot(p, i) \notin ToSet(available') /\ Slot(p, i) < next'
<1> DEFINE l == Len(available)
           q == Prepared(p)
<1>1. /\ available' = SubSeq(available, n + 1, l)
      /\ next' = q + (IF n > l THEN n - l ELSE 0)
      /\ available \in Seq(Nat) /\ IsInjective(available)
  BY DEF TakeSlots, Behind, TypeOK, AvailableAreFree
<1>2. q \in Nat /\ next \in Nat /\ next <= q /\ l \in Nat /\ DOMAIN available = 1 .. l
  BY SlotFacts, LenProperties DEF TypeOK
<1>3. /\ available' \in Seq(Nat) /\ IsInjective(available') /\ ToSet(available') \subseteq ToSet(available)
      /\ DOMAIN available' = 1 .. l - (n + 1) + 1
      /\ \A i \in 1 .. l - (n + 1) + 1 : n + 1 + i - 1 \in DOMAIN available /\ available'[i] = available[n + 1 + i - 1]
  <2>1. PICK m \in Nat : m = n + 1
    OBVIOUS
  <2>2. m >= 1 /\ l <= Len(available) /\ l \in Nat
    BY <1>2, <2>1
  <2> HIDE DEF l
  <2>0. available \in Seq(Nat) /\ IsInjective(available)
    BY <1>1
  <2>3. /\ SubSeq(available, m, l) \in Seq(Nat) /\ ToSet(SubSeq(available, m, l)) \subseteq ToSet(available)
        /\ DOMAIN SubSeq(available, m, l) = 1 .. l - m + 1
        /\ \A i \in 1 .. l - m + 1 : m + i - 1 \in DOMAIN available
                                   /\ SubSeq(available, m, l)[i] = available[m + i - 1]
        /\ IsInjective(SubSeq(available, m, l))
    BY <2>0, <2>2, SubToSet
  <2> QED BY <1>1, <2>1, <2>3
<1> HIDE DEF l, q
<1>4. next' \in Nat /\ next' >= q /\ next' >= next
  BY <1>1, <1>2
<1>5. ASSUME NEW i \in 1 .. n PROVE Slot(p, i) \notin ToSet(available') /\ Slot(p, i) < next'
  <2>1. i \in Nat \ {0} /\ i <= n
    OBVIOUS
  <2>2. CASE i <= l
    <3>1. Slot(p, i) = available[i] /\ Slot(p, i) \in ToSet(available)
      BY <1>2, <2>1, <2>2, SlotFacts DEF l
    <3>2. Slot(p, i) < next /\ Slot(p, i) \in Nat
      BY <3>1, SlotFacts
    <3>3. i \in DOMAIN available
      BY <1>2, <2>1, <2>2
    <3>4. ASSUME Slot(p, i) \in ToSet(available') PROVE FALSE
      <4>1. PICK j \in 1 .. l - (n + 1) + 1 : Slot(p, i) = available'[j]
        BY <1>3, <3>4 DEF ToSet
      <4>2. available[i] = available[n + 1 + j - 1] /\ n + 1 + j - 1 \in DOMAIN available
        BY <1>3, <3>1, <4>1
      <4>3. i = n + 1 + j - 1
        BY <1>1, <3>3, <4>2 DEF IsInjective
      <4> QED BY <2>1, <4>3
    <3> QED BY <1>2, <1>4, <3>2, <3>4
  <2>3. CASE i > l
    <3>1. Slot(p, i) = q + i - l - 1 /\ Slot(p, i) >= q
      BY <1>2, <2>1, <2>3, SlotFacts DEF l, q
    <3>2. Slot(p, i) < next'
      BY <1>1, <1>2, <2>1, <2>3, <3>1
    <3>3. Slot(p, i) \in ToSet(available) => Slot(p, i) < next
      BY SlotFacts
    <3>4. Slot(p, i) \in Nat
      BY <2>1, SlotFacts
    <3> QED BY <1>2, <1>3, <3>1, <3>2, <3>3, <3>4
  <2> QED BY <1>2, <2>1, <2>2, <2>3
<1> QED BY <1>3, <1>4, <1>5 DEF q

(* What an import leaves in GOT: what was there, the slots that were handed *)
(* out for the new functions, main's slots for its own, and data without a  *)
(* value.                                                                   *)
LEMMA GotReadFacts ==
  ASSUME TypeOK, AvailableAreFree, NEW p \in Lib, NEW k \in 0 .. All(p)
  PROVE  /\ DOMAIN GotRead(p, k) = DOMAIN got \cup ToSet(Unknown(p, k))
         /\ DOMAIN GotRead(p, k) \subseteq FuncSym \cup DataSym
         /\ \A s \in DOMAIN got : GotRead(p, k)[s] = got[s]
         /\ \A i \in DOMAIN NewFuncs(p, k) : GotRead(p, k)[NewFuncs(p, k)[i]] = Slot(p, i)
         /\ \A s \in ToSet(Unknown(p, k)) :
              /\ s \in DataSym => GotRead(p, k)[s] = NoAddress
              /\ s \in FuncSym /\ s \in ToSet(MainTable) =>
                   GotRead(p, k)[s] \in DOMAIN MainTable /\ MainTable[GotRead(p, k)[s]] = s
         /\ \A s \in DOMAIN GotRead(p, k) :
              GotRead(p, k)[s] \in (IF s \in DataSym THEN NoAddress .. loads ELSE Nat)
<1> DEFINE u == Unknown(p, k)
           w == NewFuncs(p, k)
           g == GotRead(p, k)
<1>1. /\ u \in Seq(Sym \ DOMAIN got) /\ w \in Seq(FuncSym \ (DOMAIN got \cup ToSet(MainTable)))
      /\ IsInjective(w) /\ ToSet(w) = (ToSet(u) \cap FuncSym) \ ToSet(MainTable)
  BY NewNames
<1>2. ToSet(u) \subseteq Sym \ DOMAIN got
  BY <1>1, LenProperties, ElementOfSeq DEF ToSet
<1>3. DOMAIN w = 1 .. Len(w) /\ Len(w) \in Nat
  BY <1>1, LenProperties
<1>4. /\ DOMAIN g = DOMAIN got \cup ToSet(u)
      /\ \A s \in DOMAIN got : g[s] = got[s]
      /\ \A s \in ToSet(u) : g[s] = GotEntry(p, k, s)
  BY <1>2 DEF GotRead
<1>5. /\ FuncSym \cap DataSym = {} /\ DOMAIN got \subseteq FuncSym \cup DataSym /\ loads \in Nat
      /\ \A s \in DOMAIN got : got[s] \in (IF s \in DataSym THEN NoAddress .. loads ELSE Nat)
  BY KindAssumption DEF TypeOK
<1>6. \A s \in ToSet(u) : GotEntry(p, k, s) =
        IF s \in DataSym THEN NoAddress
        ELSE IF s \in ToSet(MainTable) THEN MainSlot(s)
        ELSE Slot(p, CHOOSE i \in DOMAIN w : w[i] = s)
  BY DEF GotEntry
<1> HIDE DEF u, w, g
<1>7. ASSUME NEW i \in DOMAIN w PROVE g[w[i]] = Slot(p, i)
  <2>1. w[i] \in ToSet(w)
    BY DEF ToSet
  <2>2. w[i] \in ToSet(u) /\ w[i] \notin DataSym /\ w[i] \notin ToSet(MainTable)
    BY <1>1, <1>5, <2>1
  <2>3. (CHOOSE j \in DOMAIN w : w[j] = w[i]) = i
    BY <1>1 DEF IsInjective
  <2> QED BY <1>4, <1>6, <2>2, <2>3
<1>8. \A s \in ToSet(u) : s \in DataSym => g[s] = NoAddress
  BY <1>4, <1>6
<1>9. ASSUME NEW s \in ToSet(u), s \in FuncSym, s \in ToSet(MainTable)
      PROVE  g[s] \in DOMAIN MainTable /\ MainTable[g[s]] = s
  <2>1. g[s] = MainSlot(s)
    BY <1>4, <1>5, <1>6, <1>9
  <2>2. \E i \in DOMAIN MainTable : MainTable[i] = s
    BY <1>9 DEF ToSet
  <2> QED BY <2>1, <2>2 DEF MainSlot
<1>10. ASSUME NEW s \in DOMAIN g PROVE g[s] \in (IF s \in DataSym THEN NoAddress .. loads ELSE Nat)
  <2>1. CASE s \in DOMAIN got
    BY <1>4, <1>5, <2>1
  <2>2. CASE s \in ToSet(u) /\ s \in DataSym
    BY <1>5, <1>8, <2>2 DEF NoAddress
  <2>3. CASE s \in ToSet(u) /\ s \notin DataSym /\ s \in ToSet(MainTable)
    <3>1. s \in FuncSym
      BY <1>2, <2>3 DEF Sym
    <3>2. DOMAIN MainTable = 1 .. Len(MainTable)
      BY MainAssumption, LenProperties
    <3>3. g[s] \in 1 .. Len(MainTable)
      BY <1>9, <2>3, <3>1, <3>2
    <3> QED BY <2>3, <3>3
  <2>4. CASE s \in ToSet(u) /\ s \notin DataSym /\ s \notin ToSet(MainTable)
    <3>1. s \in ToSet(w)
      BY <1>1, <1>2, <2>4 DEF Sym
    <3>2. PICK i \in DOMAIN w : s = w[i]
      BY <3>1 DEF ToSet
    <3>3. i \in Nat \ {0}
      BY <1>3, <3>2
    <3>4. Slot(p, i) \in Nat
      BY <3>3, SlotFacts
    <3> QED BY <1>7, <2>4, <3>2, <3>4
  <2> QED BY <1>4, <2>1, <2>2, <2>3, <2>4
<1>11. DOMAIN g \subseteq FuncSym \cup DataSym
  BY <1>2, <1>4, <1>5 DEF Sym
<1> QED BY <1>4, <1>7, <1>8, <1>9, <1>10, <1>11 DEF u, w, g

(* The names that wait for a slot to be set, after the first k imports of p *)
(* were looked up and n slots or more were handed out.                      *)
Waiting(p, k) == funcMap \o NewFuncs(p, k)
(* Each of these names has a slot of its own, not set and not available. *)
LEMMA WaitingFacts ==
  ASSUME TypeOK, AvailableAreFree, ReservedAreFree, NEW p \in Lib, NEW k \in 0 .. All(p),
         NEW n \in Nat, n >= Len(NewFuncs(p, k)), TakeSlots(p, n)
  PROVE  /\ Waiting(p, k) \in Seq(FuncSym \cap DOMAIN GotRead(p, k)) /\ IsInjective(Waiting(p, k))
         /\ DOMAIN Waiting(p, k) = 1 .. Len(Waiting(p, k)) /\ Len(Waiting(p, k)) \in Nat
         /\ \A i \in DOMAIN Waiting(p, k) :
              LET x == GotRead(p, k)[Waiting(p, k)[i]] IN
              /\ x \in Nat /\ x \notin DOMAIN table \cup PartOf(p)
              /\ x \notin ToSet(available') /\ x < next'
              /\ \A m \in Nat : m > Len(NewFuncs(p, k)) => x # Slot(p, m)
         /\ \A i, j \in DOMAIN Waiting(p, k) :
              GotRead(p, k)[Waiting(p, k)[i]] = GotRead(p, k)[Waiting(p, k)[j]] => i = j
<1> DEFINE w == NewFuncs(p, k)
           v == Waiting(p, k)
           g == GotRead(p, k)
           a == Len(funcMap)
           b == Len(w)
<1>1. /\ w \in Seq(FuncSym \ (DOMAIN got \cup ToSet(MainTable))) /\ IsInjective(w)
      /\ ToSet(w) = (ToSet(Unknown(p, k)) \cap FuncSym) \ ToSet(MainTable)
  BY NewNames
<1>2. funcMap \in Seq(FuncSym \cap DOMAIN got) /\ IsInjective(funcMap)
  BY DEF TypeOK, ReservedAreFree
<1>3. /\ DOMAIN g = DOMAIN got \cup ToSet(Unknown(p, k))
      /\ \A s \in DOMAIN got : g[s] = got[s]
      /\ \A i \in DOMAIN w : g[w[i]] = Slot(p, i)
  BY GotReadFacts
<1> HIDE DEF w, g
<1>4. /\ a \in Nat /\ DOMAIN funcMap = 1 .. a /\ \A i \in 1 .. a : funcMap[i] \in FuncSym \cap DOMAIN got
      /\ b \in Nat /\ DOMAIN w = 1 .. b /\ \A i \in 1 .. b : w[i] \in FuncSym \ DOMAIN got
  BY <1>1, <1>2, LenProperties, ElementOfSeq
<1>5. funcMap \in Seq(FuncSym \cap DOMAIN g) /\ w \in Seq(FuncSym \cap DOMAIN g)
  <2>1. FuncSym \cap DOMAIN got \subseteq FuncSym \cap DOMAIN g
    BY <1>3
  <2>2. w \in Seq(ToSet(w))
    <3>1. w \in [1 .. b -> ToSet(w)]
      BY <1>1, <1>4 DEF ToSet
    <3> QED BY <1>4, <3>1, SeqDef
  <2>3. ToSet(w) \subseteq FuncSym \cap DOMAIN g
    BY <1>1, <1>3
  <2> QED BY <1>2, <2>1, <2>2, <2>3, SeqMonotonic
<1>6. ToSet(funcMap) \cap ToSet(w) = {}
  BY <1>4 DEF ToSet
<1>7. /\ v \in Seq(FuncSym \cap DOMAIN g) /\ Len(v) = a + b /\ IsInjective(v)
      /\ \A i \in 1 .. a : v[i] = funcMap[i]
      /\ \A i \in 1 .. b : v[a + i] = w[i]
  BY <1>1, <1>2, <1>5, <1>6, ConcatToSet DEF Waiting, w
<1> HIDE DEF a, b, v
<1>8. DOMAIN v = 1 .. a + b
  BY <1>7, LenProperties
<1>9. \A i \in 1 .. a : g[v[i]] = got[funcMap[i]]
  BY <1>3, <1>4, <1>7
<1>10. \A i \in 1 .. b : g[v[a + i]] = Slot(p, i)
  BY <1>3, <1>4, <1>7
<1>11. /\ next \in Nat /\ Prepared(p) \in Nat /\ next <= Prepared(p) /\ PartOf(p) = next .. Prepared(p) - 1
       /\ ToSet(available') \subseteq ToSet(available) /\ next' \in Nat /\ next' >= next
  BY SlotFacts, TakeFacts
<1>12. ASSUME NEW i \in 1 .. a
       PROVE  /\ g[v[i]] \in Nat /\ g[v[i]] < next /\ g[v[i]] \notin DOMAIN table \cup ToSet(available)
              /\ \A m \in Nat \ {0} : g[v[i]] # Slot(p, m)
  <2> DEFINE x == got[funcMap[i]]
  <2>1. x \in Reserved
    BY <1>4 DEF Reserved
  <2>2. x \in 0 .. next - 1 /\ x \notin DOMAIN table \cup ToSet(available)
    BY <2>1 DEF ReservedAreFree, Index
  <2>3. x \in Nat /\ x < next
    BY <1>11, <2>2
  <2>4. g[v[i]] = x
    BY <1>9
  <2> HIDE DEF x
  <2>5. ASSUME NEW m \in Nat \ {0} PROVE x # Slot(p, m)
    <3>1. Slot(p, m) \in ToSet(available) \/ (Slot(p, m) \in Nat /\ Slot(p, m) >= Prepared(p))
      BY SlotFacts
    <3> QED BY <1>11, <2>2, <2>3, <3>1
  <2> QED BY <2>2, <2>3, <2>4, <2>5
<1>13. ASSUME NEW i \in 1 .. b
       PROVE  /\ Slot(p, i) \in Nat /\ Slot(p, i) \notin DOMAIN table \cup PartOf(p)
              /\ Slot(p, i) \notin ToSet(available') /\ Slot(p, i) < next'
              /\ \A m \in Nat \ {0} : m # i => Slot(p, i) # Slot(p, m)
  <2>1. i \in Nat \ {0} /\ i \in 1 .. n
    BY <1>4 DEF b, w
  <2> QED BY <2>1, SlotFacts, TakeFacts
<1>14. ASSUME NEW i \in 1 .. a + b
       PROVE  i \in 1 .. a \/ \E j \in 1 .. b : i = a + j
  <2>1. i \in 1 .. a \/ (i - a \in 1 .. b /\ i = a + (i - a))
    BY <1>4
  <2> QED BY <2>1
<1>15. ASSUME NEW i \in 1 .. a + b
       PROVE  /\ g[v[i]] \in Nat /\ g[v[i]] \notin DOMAIN table \cup PartOf(p)
              /\ g[v[i]] \notin ToSet(available') /\ g[v[i]] < next'
              /\ \A m \in Nat : m > b => g[v[i]] # Slot(p, m)
  <2>1. CASE i \in 1 .. a
    <3>1. /\ g[v[i]] \in Nat /\ g[v[i]] < next /\ g[v[i]] \notin DOMAIN table \cup ToSet(available)
          /\ \A m \in Nat \ {0} : g[v[i]] # Slot(p, m)
      BY <1>12, <2>1
    <3>2. g[v[i]] \notin PartOf(p) /\ g[v[i]] < next'
      BY <1>11, <3>1
    <3>3. \A m \in Nat : m > b => m \in Nat \ {0}
      BY <1>4
    <3> QED BY <1>11, <3>1, <3>2, <3>3
  <2>2. CASE \E j \in 1 .. b : i = a + j
    <3>1. PICK j \in 1 .. b : i = a + j
      BY <2>2
    <3>2. g[v[i]] = Slot(p, j)
      BY <1>10, <3>1
    <3>3. \A m \in Nat : m > b => m \in Nat \ {0} /\ m # j
      BY <1>4
    <3> QED BY <1>13, <3>2, <3>3
  <2> QED BY <1>14, <2>1, <2>2
<1>16. ASSUME NEW i \in 1 .. a + b, NEW j \in 1 .. a + b, g[v[i]] = g[v[j]] PROVE i = j
  <2>1. CASE i \in 1 .. a /\ j \in 1 .. a
    <3>1. got[funcMap[i]] = got[funcMap[j]]
      BY <1>9, <1>16, <2>1
    <3> QED BY <1>4, <2>1, <3>1 DEF ReservedAreFree, IsInjective
  <2>2. ASSUME NEW x \in 1 .. a, NEW y \in 1 .. b PROVE g[v[x]] # g[v[a + y]]
    <3>1. y \in Nat \ {0}
      BY <1>4
    <3> QED BY <1>10, <1>12, <3>1
  <2>3. CASE (\E x \in 1 .. b : i = a + x) /\ (\E y \in 1 .. b : j = a + y)
    <3>1. PICK x \in 1 .. b, y \in 1 .. b : i = a + x /\ j = a + y
      BY <2>3
    <3>2. Slot(p, x) = Slot(p, y) /\ y \in Nat \ {0}
      BY <1>4, <1>10, <1>16, <3>1
    <3> QED BY <1>13, <3>1, <3>2
  <2> QED BY <1>14, <1>16, <2>1, <2>2, <2>3
<1>17. DOMAIN v = 1 .. Len(v) /\ Len(v) \in Nat
  BY <1>4, <1>7, <1>8
<1> QED BY <1>7, <1>8, <1>15, <1>16, <1>17 DEF v, g, w, b

(* The slots that loading p uses: those of the names that wait, and those of *)
(* its other exports.                                                        *)
LEMMA NewSlots ==
  ASSUME TypeOK, AvailableAreFree, ReservedAreFree, NEW p \in Lib,
         TakeSlots(p, Len(NewFuncs(p, All(p))) + Len(Fresh(p)))
  PROVE  /\ Pending(p) \in Seq(FuncSym \cap DOMAIN GotRead(p, All(p))) /\ IsInjective(Pending(p))
         /\ DOMAIN Pending(p) = 1 .. Len(Pending(p)) /\ Len(Pending(p)) \in Nat
         /\ Fresh(p) \in Seq(FuncSym) /\ IsInjective(Fresh(p))
         /\ DOMAIN Fresh(p) = 1 .. Len(Fresh(p)) /\ Len(Fresh(p)) \in Nat
         /\ ToSet(Fresh(p)) = ToSet(Exports[p]) \ ToSet(Pending(p))
         /\ \A i \in 1 .. Len(Pending(p)) :
              LET x == GotRead(p, All(p))[Pending(p)[i]] IN
              /\ x \in Nat /\ x \notin DOMAIN table \cup PartOf(p)
              /\ x \notin ToSet(available') /\ x < next'
              /\ \A m \in 1 .. Len(Fresh(p)) : x # FreshSlot(p, m)
         /\ \A i, j \in 1 .. Len(Pending(p)) :
              GotRead(p, All(p))[Pending(p)[i]] = GotRead(p, All(p))[Pending(p)[j]] => i = j
         /\ \A i \in 1 .. Len(Fresh(p)) :
              LET x == FreshSlot(p, i) IN
              /\ x \in Nat /\ x \notin DOMAIN table \cup PartOf(p)
              /\ x \notin ToSet(available') /\ x < next'
         /\ \A i, j \in 1 .. Len(Fresh(p)) : FreshSlot(p, i) = FreshSlot(p, j) => i = j
<1> DEFINE b == Len(NewFuncs(p, All(p)))
           c == Len(Fresh(p))
           v == Pending(p)
           g == GotRead(p, All(p))
<1>1. All(p) \in 0 .. All(p)
  <2>1. GotImports[p] \in Seq(FuncSym \cup DataSym)
    BY LibraryAssumption
  <2> QED BY <2>1, LenProperties DEF All
<1>2. b \in Nat
  BY <1>1, NewNames, LenProperties
<1>3. /\ Exports[p] \in Seq(FuncSym) /\ IsInjective(Exports[p])
      /\ \A i \in DOMAIN Exports[p] : Exports[p][i] \in FuncSym
  BY LibraryAssumption, LenProperties, ElementOfSeq
<1>4. /\ Fresh(p) \in Seq(FuncSym \cap (FuncSym \ ToSet(v))) /\ IsInjective(Fresh(p))
      /\ ToSet(Fresh(p)) = ToSet(Exports[p]) \cap (FuncSym \ ToSet(v))
  BY <1>3, KeptFacts DEF Fresh
<1>5. Fresh(p) \in Seq(FuncSym) /\ ToSet(Fresh(p)) = ToSet(Exports[p]) \ ToSet(v)
  <2>1. ToSet(Exports[p]) \subseteq FuncSym
    BY <1>3 DEF ToSet
  <2> QED BY <1>4, <2>1, SeqMonotonic
<1>6. c \in Nat /\ DOMAIN Fresh(p) = 1 .. c
  BY <1>5, LenProperties
<1>7. b + c \in Nat /\ b + c >= b
  BY <1>2, <1>6
<1>8. v = Waiting(p, All(p))
  BY DEF Pending, Waiting
<1>9. \A m \in 1 .. c : FreshSlot(p, m) = Slot(p, b + m) /\ b + m \in Nat \ {0} /\ b + m > b /\ b + m \in 1 .. b + c
  BY <1>2, <1>6 DEF FreshSlot
<1>10. /\ v \in Seq(FuncSym \cap DOMAIN g) /\ IsInjective(v) /\ DOMAIN v = 1 .. Len(v) /\ Len(v) \in Nat
       /\ \A i \in DOMAIN v :
              LET x == g[v[i]] IN
              /\ x \in Nat /\ x \notin DOMAIN table \cup PartOf(p)
              /\ x \notin ToSet(available') /\ x < next'
              /\ \A m \in Nat : m > b => x # Slot(p, m)
       /\ \A i, j \in DOMAIN v : g[v[i]] = g[v[j]] => i = j
  BY <1>1, <1>7, <1>8, WaitingFacts
<1>11. ASSUME NEW i \in 1 .. c
       PROVE  LET x == FreshSlot(p, i) IN
              /\ x \in Nat /\ x \notin DOMAIN table \cup PartOf(p)
              /\ x \notin ToSet(available') /\ x < next'
  <2>1. PICK m \in Nat \ {0} : m = b + i
    BY <1>9
  <2>2. FreshSlot(p, i) = Slot(p, m) /\ m \in 1 .. b + c
    BY <1>9, <2>1
  <2>3. Slot(p, m) \in Nat /\ Slot(p, m) \notin DOMAIN table \cup PartOf(p)
    BY SlotFacts
  <2>4. Slot(p, m) \notin ToSet(available') /\ Slot(p, m) < next'
    BY <1>7, <2>2, TakeFacts
  <2> QED BY <2>2, <2>3, <2>4
<1>12. ASSUME NEW i \in 1 .. c, NEW j \in 1 .. c, FreshSlot(p, i) = FreshSlot(p, j) PROVE i = j
  <2>1. b + i = b + j
    BY <1>9, <1>12, SlotFacts
  <2> QED BY <1>2, <2>1
<1>13. \A i \in DOMAIN v, m \in 1 .. c : g[v[i]] # FreshSlot(p, m)
  BY <1>9, <1>10
<1> HIDE DEF b, c, v, g
<1> QED BY <1>4, <1>5, <1>6, <1>10, <1>11, <1>12, <1>13 DEF c, v, g

(* The library that is asked first is one of those that have the name. *)
LEMMA FirstOffer ==
  ASSUME TypeOK, IsFiniteSet(DOMAIN libs), NEW p \in Lib, NEW H \in SUBSET DOMAIN libs, H # {}
  PROVE  NeededFirst(p, H) \in H
<1> DEFINE at == {i \in DOMAIN Needs[p] : Loaded(Needs[p][i]) /\ HandleOf(Needs[p][i]) \in H}
<1>1. NeededFirst(p, H) = IF at # {} THEN HandleOf(Needs[p][Min(at)]) ELSE Min(H)
  BY DEF NeededFirst
<1>2. CASE at # {}
  <2>1. DOMAIN Needs[p] = 1 .. Len(Needs[p]) /\ Len(Needs[p]) \in Nat
    BY LibraryAssumption, LenProperties
  <2>2. IsFiniteSet(DOMAIN Needs[p]) /\ at \in SUBSET DOMAIN Needs[p]
    BY <2>1, FS_Interval
  <2>3. at \in SUBSET Int /\ IsFiniteSet(at)
    BY <2>1, <2>2, FS_Subset
  <2>4. Min(at) \in at
    BY <1>2, <2>3, LeastGreatest
  <2> QED BY <1>1, <1>2, <2>4
<1>3. CASE at = {}
  <2>1. H \in SUBSET Int /\ IsFiniteSet(H)
    BY FS_Subset DEF TypeOK, Handle
  <2>2. Min(H) \in H
    BY <2>1, LeastGreatest
  <2> QED BY <1>1, <1>3, <2>2
<1> QED BY <1>2, <1>3

(* dlsym gives a pointer of the library for the name. *)
LEMMA DlsymFacts ==
  ASSUME NEW h \in DOMAIN libs, NEW s, Named(libs[h], s) # {}
  PROVE  /\ \E i \in DOMAIN libs[h].ptrs : libs[h].ptrs[i].sym = s /\ Dlsym(h, s) = libs[h].ptrs[i].slot
         /\ Dlsym(h, s) \in SlotsOf(h)
<1> DEFINE N == Named(libs[h], s)
<1>1. PICK i \in N : i = CHOOSE j \in N : TRUE
  OBVIOUS
<1>2. Dlsym(h, s) = libs[h].ptrs[i].slot
  BY <1>1 DEF Dlsym
<1>3. i \in DOMAIN libs[h].ptrs /\ libs[h].ptrs[i].sym = s
  BY DEF Named
<1>4. Slots(libs[h])[i] = libs[h].ptrs[i].slot /\ i \in DOMAIN Slots(libs[h])
  BY <1>3 DEF Slots
<1> QED BY <1>2, <1>3, <1>4 DEF SlotsOf, ToSet

(* What a name is resolved to: a function of the new library, what a pointer *)
(* of an open library points to, or a function of main.                      *)
LEMMA ResolveFacts ==
  ASSUME TypeOK, OwnedAreSet, IsFiniteSet(DOMAIN libs), NEW p \in Lib, NEW s \in FuncSym
  PROVE  /\ Resolve(p, s) \in [of : MainInstance .. loads + 1, sym : FuncSym \cup {Element}]
         /\ s \in ToSet(Exports[p]) => Resolve(p, s) = Function(loads + 1, s)
         /\ \/ Resolve(p, s) = Function(loads + 1, s)
            \/ Resolve(p, s) = Function(MainInstance, s)
            \/ \E h \in DOMAIN libs : \E i \in DOMAIN libs[h].ptrs :
                 /\ libs[h].ptrs[i].sym = s /\ libs[h].ptrs[i].slot \in SlotsOf(h)
                 /\ libs[h].ptrs[i].slot \in DOMAIN table
                 /\ Resolve(p, s) = table[libs[h].ptrs[i].slot]
<1>1. loads \in Nat
  BY DEF TypeOK
<1>2. CASE s \in ToSet(Exports[p])
  <2>1. Resolve(p, s) = Function(loads + 1, s)
    BY <1>2 DEF Resolve
  <2>2. Function(loads + 1, s) \in [of : MainInstance .. loads + 1, sym : FuncSym \cup {Element}]
    BY <1>1 DEF Function, MainInstance
  <2> QED BY <2>1, <2>2
<1>3. CASE s \notin ToSet(Exports[p]) /\ Offers(s) # {}
  <2> DEFINE h == NeededFirst(p, Offers(s))
  <2>1. h \in Offers(s)
    BY <1>3, FirstOffer DEF Offers
  <2>2. h \in DOMAIN libs /\ Named(libs[h], s) # {}
    BY <2>1 DEF Offers
  <2>3. PICK i \in DOMAIN libs[h].ptrs : libs[h].ptrs[i].sym = s /\ Dlsym(h, s) = libs[h].ptrs[i].slot
    BY <2>2, DlsymFacts
  <2>4. Dlsym(h, s) \in SlotsOf(h) /\ SlotsOf(h) \subseteq DOMAIN table
    BY <2>2, DlsymFacts DEF OwnedAreSet
  <2>5. Resolve(p, s) = table[Dlsym(h, s)]
    BY <1>3 DEF Resolve
  <2>6. table[Dlsym(h, s)] \in [of : MainInstance .. loads, sym : FuncSym \cup {Element}]
    BY <2>4 DEF TypeOK
  <2>7. MainInstance .. loads \subseteq MainInstance .. loads + 1
    BY <1>1 DEF MainInstance
  <2>8. Resolve(p, s) \in [of : MainInstance .. loads + 1, sym : FuncSym \cup {Element}]
    BY <2>5, <2>6, <2>7
  <2> HIDE DEF h
  <2> QED BY <1>3, <2>2, <2>3, <2>4, <2>5, <2>8
<1>4. CASE s \notin ToSet(Exports[p]) /\ Offers(s) = {}
  <2>1. Resolve(p, s) = Function(MainInstance, s)
    BY <1>4 DEF Resolve
  <2>2. Function(MainInstance, s) \in [of : MainInstance .. loads + 1, sym : FuncSym \cup {Element}]
    BY <1>1 DEF Function, MainInstance
  <2> QED BY <1>4, <2>1, <2>2
<1> QED BY <1>2, <1>3, <1>4

(* The table when the first n names that wait are set: what was set stays, *)
(* and each new slot has its own function.                                 *)
LEMMA TableFacts ==
  ASSUME TypeOK, AvailableAreFree, ReservedAreFree, OwnedAreSet, IsFiniteSet(DOMAIN libs), NEW p \in Lib,
         TakeSlots(p, Len(NewFuncs(p, All(p))) + Len(Fresh(p))),
         NEW n \in 0 .. Len(Pending(p))
  PROVE  /\ \A x : x \in DOMAIN TableWith(p, n) <=>
              \/ x \in DOMAIN table \cup PartOf(p)
              \/ \E i \in 1 .. Len(Fresh(p)) : x = FreshSlot(p, i)
              \/ \E i \in 1 .. n : x = GotRead(p, All(p))[Pending(p)[i]]
         /\ \A x \in DOMAIN table : TableWith(p, n)[x] = table[x]
         /\ \A i \in 1 .. n : TableWith(p, n)[GotRead(p, All(p))[Pending(p)[i]]] = Resolve(p, Pending(p)[i])
         /\ \A i \in 1 .. Len(Fresh(p)) : TableWith(p, n)[FreshSlot(p, i)] = Function(loads + 1, Fresh(p)[i])
         /\ \A x \in PartOf(p) : TableWith(p, n)[x] = Function(loads + 1, Element)
         /\ \A x \in DOMAIN TableWith(p, n) :
              TableWith(p, n)[x] \in [of : MainInstance .. loads + 1, sym : FuncSym \cup {Element}]
<1> DEFINE v == Pending(p)
           f == Fresh(p)
           G(i) == GotRead(p, All(p))[Pending(p)[i]]
           F(i) == FreshSlot(p, i)
           exported == [i \in 1 .. Len(f) |-> F(i)]
           named == [i \in 1 .. n |-> G(i)]
           set == PartOf(p) \cup ToSet(exported) \cup ToSet(named)
           Value(x) ==
             IF x \in ToSet(named) THEN Resolve(p, v[CHOOSE i \in 1 .. n : named[i] = x])
             ELSE IF x \in ToSet(exported)
               THEN Function(loads + 1, f[CHOOSE i \in DOMAIN exported : exported[i] = x])
             ELSE Function(loads + 1, Element)
           t == TableWith(p, n)
<1>1. t = [x \in DOMAIN table \cup set |-> IF x \in set THEN Value(x) ELSE table[x]]
  BY DEF TableWith
<1>2. /\ v \in Seq(FuncSym \cap DOMAIN GotRead(p, All(p))) /\ DOMAIN v = 1 .. Len(v) /\ Len(v) \in Nat
      /\ f \in Seq(FuncSym) /\ DOMAIN f = 1 .. Len(f) /\ Len(f) \in Nat
      /\ \A i \in 1 .. Len(v) : G(i) \notin DOMAIN table \cup PartOf(p) /\ \A m \in 1 .. Len(f) : G(i) # F(m)
      /\ \A i, j \in 1 .. Len(v) : G(i) = G(j) => i = j
      /\ \A i \in 1 .. Len(f) : F(i) \notin DOMAIN table \cup PartOf(p)
      /\ \A i, j \in 1 .. Len(f) : F(i) = F(j) => i = j
  BY NewSlots
<1>3. (\A i \in 1 .. n : i \in 1 .. Len(v)) /\ (\A i \in 1 .. Len(v) : v[i] \in FuncSym) /\ (\A i \in 1 .. Len(f) : f[i] \in FuncSym)
  <2>1. \A i \in 1 .. n : i \in 1 .. Len(v)
    BY <1>2
  <2>2. (\A i \in 1 .. Len(v) : v[i] \in FuncSym) /\ (\A i \in 1 .. Len(f) : f[i] \in FuncSym)
    BY <1>2, ElementOfSeq
  <2> QED BY <2>1, <2>2
<1>4. \A x : x \in ToSet(named) <=> \E i \in 1 .. n : x = G(i)
  BY DEF ToSet
<1>5. \A x : x \in ToSet(exported) <=> \E i \in 1 .. Len(f) : x = F(i)
  BY DEF ToSet
<1>6. \A x \in PartOf(p) : x \in Nat /\ x >= next /\ next \in Nat
  BY SlotFacts
<1>7. \A x \in DOMAIN table : x \notin PartOf(p)
  <2> TAKE x \in DOMAIN table
  <2>1. x \in Nat /\ x < next
    BY SlotFacts
  <2> QED BY <1>6, <2>1
<1> HIDE DEF G, F, v, f
<1>8. \A i \in 1 .. n : Value(G(i)) = Resolve(p, v[i])
  <2> TAKE i \in 1 .. n
  <2>1. (CHOOSE j \in 1 .. n : named[j] = G(i)) = i
    BY <1>2, <1>3
  <2>2. G(i) \in ToSet(named)
    BY <1>4
  <2> QED BY <2>1, <2>2
<1>9. \A i \in 1 .. Len(f) : Value(F(i)) = Function(loads + 1, f[i])
  <2> TAKE i \in 1 .. Len(f)
  <2>1. (CHOOSE j \in DOMAIN exported : exported[j] = F(i)) = i
    BY <1>2
  <2>2. F(i) \in ToSet(exported) /\ F(i) \notin ToSet(named)
    BY <1>2, <1>3, <1>4, <1>5
  <2> QED BY <2>1, <2>2
<1>10. \A x \in PartOf(p) : Value(x) = Function(loads + 1, Element)
  <2> TAKE x \in PartOf(p)
  <2>1. \A i \in 1 .. n : G(i) # x
    <3> TAKE i \in 1 .. n
    <3>1. i \in 1 .. Len(v)
      BY <1>3
    <3> QED BY <1>2, <3>1
  <2>2. \A i \in 1 .. Len(f) : F(i) # x
    BY <1>2
  <2>3. x \notin ToSet(named) /\ x \notin ToSet(exported)
    BY <1>4, <1>5, <2>1, <2>2
  <2> QED BY <2>3
<1> HIDE DEF named, exported, Value, t
<1>11. \A x : x \in DOMAIN t <=>
              \/ x \in DOMAIN table \cup PartOf(p)
              \/ \E i \in 1 .. Len(f) : x = F(i)
              \/ \E i \in 1 .. n : x = G(i)
  BY <1>1, <1>4, <1>5
<1>12. \A x \in DOMAIN table : t[x] = table[x]
  <2> TAKE x \in DOMAIN table
  <2>1. x \notin set
    BY <1>2, <1>3, <1>4, <1>5, <1>7
  <2> QED BY <1>1, <2>1
<1>13. \A i \in 1 .. n : t[G(i)] = Resolve(p, v[i])
  BY <1>1, <1>4, <1>8
<1>14. \A i \in 1 .. Len(f) : t[F(i)] = Function(loads + 1, f[i])
  BY <1>1, <1>5, <1>9
<1>15. \A x \in PartOf(p) : t[x] = Function(loads + 1, Element)
  BY <1>1, <1>10
<1> DEFINE R == [of : MainInstance .. loads + 1, sym : FuncSym \cup {Element}]
<1>16. /\ loads \in Nat /\ MainInstance .. loads \subseteq MainInstance .. loads + 1
       /\ loads + 1 \in MainInstance .. loads + 1
  BY DEF TypeOK, MainInstance
<1>17. ASSUME NEW x \in DOMAIN t PROVE t[x] \in R
  <2>1. CASE x \in DOMAIN table
    <3>1. table[x] \in [of : MainInstance .. loads, sym : FuncSym \cup {Element}]
      BY <2>1 DEF TypeOK
    <3> QED BY <1>12, <1>16, <2>1, <3>1
  <2>2. CASE x \in PartOf(p)
    BY <1>15, <1>16, <2>2 DEF Function
  <2>3. ASSUME NEW i \in 1 .. Len(f), x = F(i) PROVE t[x] \in R
    <3>1. t[x] = Function(loads + 1, f[i]) /\ f[i] \in FuncSym
      BY <1>3, <1>14, <2>3
    <3> QED BY <1>16, <3>1 DEF Function
  <2>4. ASSUME NEW i \in 1 .. n, x = G(i) PROVE t[x] \in R
    BY <1>3, <1>13, <2>4, ResolveFacts
  <2> QED BY <1>11, <2>1, <2>2, <2>3, <2>4
<1> QED BY <1>11, <1>12, <1>13, <1>14, <1>15, <1>17 DEF t, v, f, G, F

(* Data: an open library's, main's, or no value yet. *)
LEMMA DataFacts ==
  ASSUME TypeOK, AvailableAreFree, IsFiniteSet(DOMAIN libs), NEW p \in Lib
  PROVE  /\ \A s : DataResolve(p, s) \in MainInstance .. loads + 1
         /\ \A s : \/ DataResolve(p, s) = loads + 1 /\ s \in DataExports[p]
                   \/ \E h \in DataOffers(s) : DataResolve(p, s) = libs[h].load
                   \/ DataResolve(p, s) = MainInstance /\ (DataResolvable(p, s) => s \in MainData)
         /\ PendingData(p) \in Seq(DataSym \cap DOMAIN GotRead(p, All(p)))
         /\ DOMAIN PendingData(p) = 1 .. Len(PendingData(p)) /\ Len(PendingData(p)) \in Nat
         /\ ToSet(PendingData(p)) = ToSet(memMap) \cup (ToSet(Unknown(p, All(p))) \cap DataSym)
<1>1. ASSUME NEW s
      PROVE  /\ DataResolve(p, s) \in MainInstance .. loads + 1
             /\ \/ DataResolve(p, s) = loads + 1 /\ s \in DataExports[p]
                \/ \E h \in DataOffers(s) : DataResolve(p, s) = libs[h].load
                \/ DataResolve(p, s) = MainInstance /\ (DataResolvable(p, s) => s \in MainData)
  <2>1. loads \in Nat
    BY DEF TypeOK
  <2>2. CASE s \in DataExports[p]
    BY <2>1, <2>2 DEF DataResolve, MainInstance
  <2>3. CASE s \notin DataExports[p] /\ DataOffers(s) # {}
    <3>1. NeededFirst(p, DataOffers(s)) \in DataOffers(s)
      BY <2>3, FirstOffer DEF DataOffers
    <3>2. PICK h \in DataOffers(s) : DataResolve(p, s) = libs[h].load
      BY <2>3, <3>1 DEF DataResolve
    <3>3. libs[h].load \in MainInstance .. loads
      BY DEF TypeOK, DataOffers
    <3> QED BY <2>1, <3>2, <3>3 DEF MainInstance
  <2>4. CASE s \notin DataExports[p] /\ DataOffers(s) = {}
    BY <2>1, <2>4 DEF DataResolve, DataResolvable, MainInstance
  <2> QED BY <2>2, <2>3, <2>4
<1>2. All(p) \in 0 .. All(p)
  <2>1. GotImports[p] \in Seq(FuncSym \cup DataSym)
    BY LibraryAssumption
  <2> QED BY <2>1, LenProperties DEF All
<1> DEFINE w == NewData(p, All(p))
           D == DataSym \cap DOMAIN GotRead(p, All(p))
<1>3. w \in Seq(DataSym \ DOMAIN got) /\ ToSet(w) = ToSet(Unknown(p, All(p))) \cap DataSym
  BY <1>2, NewNames
<1>4. DOMAIN GotRead(p, All(p)) = DOMAIN got \cup ToSet(Unknown(p, All(p)))
  BY <1>2, GotReadFacts
<1>5. w \in Seq(D)
  <2>1. DOMAIN w = 1 .. Len(w) /\ Len(w) \in Nat
    BY <1>3, LenProperties
  <2>2. \A i \in DOMAIN w : w[i] \in ToSet(w)
    BY DEF ToSet
  <2>3. \A i \in DOMAIN w : w[i] \in D
    BY <1>3, <1>4, <2>2
  <2>4. w \in [1 .. Len(w) -> D]
    BY <1>3, <2>1, <2>3, LenProperties
  <2> QED BY <2>1, <2>4, SeqDef
<1>6. memMap \in Seq(D)
  <2>1. memMap \in Seq(DataSym \cap DOMAIN got) /\ DataSym \cap DOMAIN got \subseteq D
    BY <1>4 DEF TypeOK
  <2> QED BY <2>1, SeqMonotonic
<1> HIDE DEF w, D
<1>7. memMap \o w \in Seq(D) /\ ToSet(memMap \o w) = ToSet(memMap) \cup ToSet(w)
  BY <1>5, <1>6, ConcatToSet
<1>8. PendingData(p) = memMap \o w
  BY DEF PendingData, w
<1>9. DOMAIN PendingData(p) = 1 .. Len(PendingData(p)) /\ Len(PendingData(p)) \in Nat
  BY <1>7, <1>8, LenProperties
<1> QED BY <1>1, <1>3, <1>7, <1>8, <1>9 DEF D

(* GOT when the first n data that wait are resolved. *)
LEMMA GotFacts ==
  ASSUME TypeOK, AvailableAreFree, IsFiniteSet(DOMAIN libs), NEW p \in Lib,
         NEW n \in 0 .. Len(PendingData(p))
  PROVE  /\ DOMAIN GotWith(p, n) = DOMAIN GotRead(p, All(p))
         /\ \A s \in DOMAIN GotRead(p, All(p)) : s \notin {PendingData(p)[i] : i \in 1 .. n} =>
              GotWith(p, n)[s] = GotRead(p, All(p))[s]
         /\ \A i \in 1 .. n : GotWith(p, n)[PendingData(p)[i]] = DataResolve(p, PendingData(p)[i])
         /\ \A s \in FuncSym \cap DOMAIN GotRead(p, All(p)) : GotWith(p, n)[s] = GotRead(p, All(p))[s]
         /\ \A s \in DOMAIN GotWith(p, n) :
              GotWith(p, n)[s] \in (IF s \in DataSym THEN NoAddress .. loads + 1 ELSE Nat)
<1> DEFINE d == PendingData(p)
           g == GotRead(p, All(p))
           resolved == {d[i] : i \in 1 .. n}
           w == GotWith(p, n)
<1>1. w = [s \in DOMAIN g |-> IF s \in resolved THEN DataResolve(p, s) ELSE g[s]]
  BY DEF GotWith
<1>2. All(p) \in 0 .. All(p)
  <2>1. GotImports[p] \in Seq(FuncSym \cup DataSym)
    BY LibraryAssumption
  <2> QED BY <2>1, LenProperties DEF All
<1>3. \A s \in DOMAIN g : g[s] \in (IF s \in DataSym THEN NoAddress .. loads ELSE Nat)
  BY <1>2, GotReadFacts
<1>4. d \in Seq(DataSym \cap DOMAIN g) /\ DOMAIN d = 1 .. Len(d) /\ Len(d) \in Nat
  BY DataFacts
<1> HIDE DEF d, g, w
<1>5. \A i \in 1 .. n : d[i] \in DataSym \cap DOMAIN g
  <2> TAKE i \in 1 .. n
  <2>1. i \in 1 .. Len(d)
    BY <1>4 DEF d
  <2> QED BY <1>4, <2>1, ElementOfSeq
<1>6. resolved \subseteq DataSym \cap DOMAIN g
  BY <1>5
<1>7. \A i \in 1 .. n : d[i] \in resolved
  OBVIOUS
<1> HIDE DEF resolved
<1>8. DOMAIN w = DOMAIN g /\ \A s \in DOMAIN g : s \notin resolved => w[s] = g[s]
  BY <1>1
<1>9. \A s \in FuncSym \cap DOMAIN g : w[s] = g[s]
  BY <1>6, <1>8, KindAssumption
<1>10. \A i \in 1 .. n : w[d[i]] = DataResolve(p, d[i])
  BY <1>1, <1>5, <1>7
<1>11. ASSUME NEW s \in DOMAIN g PROVE w[s] \in (IF s \in DataSym THEN NoAddress .. loads + 1 ELSE Nat)
  <2>1. CASE s \in resolved
    <3>1. w[s] = DataResolve(p, s) /\ s \in DataSym
      BY <1>1, <1>6, <2>1
    <3>2. DataResolve(p, s) \in MainInstance .. loads + 1
      BY DataFacts
    <3> QED BY <3>1, <3>2 DEF MainInstance, NoAddress
  <2>2. CASE s \notin resolved
    <3>1. w[s] = g[s] /\ loads \in Nat
      BY <1>8, <2>2 DEF TypeOK
    <3>2. CASE s \in DataSym
      <4>1. g[s] \in NoAddress .. loads
        BY <1>3, <3>2
      <4> QED BY <3>1, <3>2, <4>1 DEF NoAddress
    <3>3. CASE s \notin DataSym
      BY <1>3, <3>1, <3>3
    <3> QED BY <3>2, <3>3
  <2> QED BY <2>1, <2>2
<1> QED BY <1>8, <1>9, <1>10, <1>11 DEF d, g, w, resolved

-----------------------------------------------------------------------------
(* One owner for each slot *)

(* The types of the linker's own state. *)
LinkerType ==
  /\ DOMAIN table \subseteq Nat /\ next \in Nat /\ available \in Seq(Nat) /\ loads \in Nat \ {0}
  /\ \A x \in DOMAIN table :
       table[x] \in [of : MainInstance .. loads, sym : FuncSym \cup {Element}]
  /\ DOMAIN got \subseteq FuncSym \cup DataSym
  /\ \A s \in DOMAIN got : got[s] \in (IF s \in DataSym THEN NoAddress .. loads ELSE Nat)
  /\ funcMap \in Seq(FuncSym \cap DOMAIN got) /\ memMap \in Seq(DataSym \cap DOMAIN got)

(* Loading a library leaves one owner for each slot, whether all its names *)
(* are resolved or only the first n.                                       *)
LEMMA SlotsAfterLoading ==
  ASSUME SlotInv, NEW p \in Lib, Instantiate(p), NEW n \in 0 .. Len(Pending(p)),
         table' = TableWith(p, n), funcMap' = SubSeq(Pending(p), n + 1, Len(Pending(p))),
         DOMAIN got' = DOMAIN GotRead(p, All(p)),
         \A s \in DOMAIN got' : got'[s] \in (IF s \in DataSym THEN NoAddress .. loads + 1 ELSE Nat),
         \A s \in FuncSym \cap DOMAIN got' : got'[s] = GotRead(p, All(p))[s],
         memMap' \in Seq(DataSym \cap DOMAIN got')
  PROVE  /\ LinkerType' /\ AvailableAreFree' /\ ReservedAreFree' /\ MainSound'
         /\ loads' = loads + 1
         /\ \A x \in DOMAIN table : x \in DOMAIN table' /\ table'[x] = table[x]
<1> DEFINE v == Pending(p)
           f == Fresh(p)
           l == Len(Pending(p))
           G(i) == GotRead(p, All(p))[Pending(p)[i]]
           F(i) == FreshSlot(p, i)
<1>1. /\ TypeOK /\ AvailableAreFree /\ ReservedAreFree /\ OwnedAreSet /\ IsFiniteSet(DOMAIN libs) /\ MainSound
      /\ TakeSlots(p, Len(NewFuncs(p, All(p))) + Len(Fresh(p)))
      /\ loads' = loads + 1 /\ loads \in Nat
  BY DEF SlotInv, SlotsSound, Instantiate, TypeOK
<1>2. All(p) \in 0 .. All(p)
  <2>1. GotImports[p] \in Seq(FuncSym \cup DataSym)
    BY LibraryAssumption
  <2> QED BY <2>1, LenProperties DEF All
<1>3. Len(NewFuncs(p, All(p))) + Len(f) \in Nat
  <2>1. Len(NewFuncs(p, All(p))) \in Nat
    BY <1>2, NewNames, LenProperties
  <2>2. Len(f) \in Nat
    BY <1>1, NewSlots
  <2> QED BY <2>1, <2>2
<1>4. /\ available' \in Seq(Nat) /\ IsInjective(available') /\ ToSet(available') \subseteq ToSet(available)
      /\ next' \in Nat /\ next' >= Prepared(p) /\ next' >= next
  BY <1>1, <1>3, TakeFacts
<1>5. /\ next \in Nat /\ Prepared(p) \in Nat /\ next <= Prepared(p) /\ PartOf(p) = next .. Prepared(p) - 1
      /\ \A x \in DOMAIN table \cup ToSet(available) : x \in Nat /\ x < next
  BY <1>1, SlotFacts
<1>6. /\ v \in Seq(FuncSym \cap DOMAIN got') /\ IsInjective(v) /\ DOMAIN v = 1 .. l /\ l \in Nat
      /\ \A i \in 1 .. l : /\ G(i) \in Nat /\ G(i) \notin DOMAIN table \cup PartOf(p)
                          /\ G(i) \notin ToSet(available') /\ G(i) < next'
                          /\ \A m \in 1 .. Len(f) : G(i) # F(m)
      /\ \A i, j \in 1 .. l : G(i) = G(j) => i = j
      /\ \A i \in 1 .. Len(f) : /\ F(i) \in Nat /\ F(i) \notin ToSet(available') /\ F(i) < next'
  BY <1>1, NewSlots
<1>7. \A i \in 1 .. l : v[i] \in FuncSym \cap DOMAIN got' /\ got'[v[i]] = G(i)
  <2> TAKE i \in 1 .. l
  <2>1. v[i] \in FuncSym \cap DOMAIN got'
    BY <1>6, ElementOfSeq
  <2> QED BY <2>1
<1>8. /\ \A x : x \in DOMAIN table' <=>
              \/ x \in DOMAIN table \cup PartOf(p)
              \/ \E i \in 1 .. Len(f) : x = F(i)
              \/ \E i \in 1 .. n : x = G(i)
      /\ \A x \in DOMAIN table : table'[x] = table[x]
      /\ \A x \in DOMAIN table' : table'[x] \in [of : MainInstance .. loads', sym : FuncSym \cup {Element}]
  BY <1>1, TableFacts
<1>9. /\ funcMap' \in Seq(FuncSym \cap DOMAIN got') /\ IsInjective(funcMap')
      /\ DOMAIN funcMap' = 1 .. l - n
      /\ \A i \in 1 .. l - n : n + i \in 1 .. l /\ funcMap'[i] = v[n + i]
  <2>1. PICK m \in Nat : m = n + 1
    OBVIOUS
  <2>2. m >= 1 /\ l \in Nat /\ l <= Len(v) /\ v \in Seq(FuncSym \cap DOMAIN got') /\ IsInjective(v)
    BY <1>6, <2>1
  <2>3. funcMap' = SubSeq(v, m, l)
    BY <2>1
  <2> HIDE DEF v, l
  <2>4. /\ SubSeq(v, m, l) \in Seq(FuncSym \cap DOMAIN got') /\ DOMAIN SubSeq(v, m, l) = 1 .. l - m + 1
        /\ \A i \in 1 .. l - m + 1 : m + i - 1 \in DOMAIN v /\ SubSeq(v, m, l)[i] = v[m + i - 1]
        /\ IsInjective(SubSeq(v, m, l))
    BY <2>2, SubToSet
  <2>5. l - m + 1 = l - n
    BY <2>1, <2>2
  <2>6. \A i \in 1 .. l - n : m + i - 1 = n + i
    BY <2>1
  <2>7. DOMAIN v = 1 .. l
    BY <1>6 DEF v, l
  <2> QED BY <2>3, <2>4, <2>5, <2>6, <2>7
<1> HIDE DEF v, f, l, G, F
<1>10. \A i \in 1 .. n : i \in 1 .. l
  BY <1>6 DEF l
<1>11. ASSUME NEW x \in DOMAIN table' PROVE x \in Nat /\ x < next' /\ x \notin ToSet(available')
  <2>1. CASE x \in DOMAIN table
    <3>1. x \in Nat /\ x < next /\ x \notin ToSet(available)
      BY <1>1, <1>5, <2>1 DEF AvailableAreFree
    <3> QED BY <1>4, <1>5, <3>1
  <2>2. CASE x \in PartOf(p)
    <3>1. x \in Nat /\ x >= next /\ x < Prepared(p)
      BY <1>5, <2>2
    <3>2. x \notin ToSet(available)
      BY <1>5, <3>1
    <3> QED BY <1>4, <1>5, <3>1, <3>2
  <2>3. ASSUME NEW i \in 1 .. Len(f), x = F(i) PROVE x \in Nat /\ x < next' /\ x \notin ToSet(available')
    BY <1>6, <2>3
  <2>4. ASSUME NEW i \in 1 .. n, x = G(i) PROVE x \in Nat /\ x < next' /\ x \notin ToSet(available')
    BY <1>6, <1>10, <2>4
  <2> QED BY <1>8, <2>1, <2>2, <2>3, <2>4
<1>12. LinkerType'
  <2>1. DOMAIN table' \subseteq Nat
    BY <1>11
  <2>2. DOMAIN got' \subseteq FuncSym \cup DataSym
    BY <1>1, <1>2, GotReadFacts
  <2> QED BY <1>1, <1>4, <1>8, <1>9, <2>1, <2>2 DEF LinkerType
<1>13. AvailableAreFree'
  <2>1. ToSet(available') \cup DOMAIN table' \subseteq 0 .. next' - 1
    <3>1. ASSUME NEW x \in ToSet(available') PROVE x \in Nat /\ x < next'
      <4>1. x \in Nat /\ x < next
        BY <1>4, <1>5
      <4> QED BY <1>4, <1>5, <4>1
    <3>2. \A x \in ToSet(available') \cup DOMAIN table' : x \in Nat /\ x < next'
      BY <1>11, <3>1
    <3> QED BY <1>4, <3>2
  <2>2. ToSet(available') \cap DOMAIN table' = {}
    BY <1>11
  <2> QED BY <1>4, <2>1, <2>2 DEF AvailableAreFree, Index
<1>14. \A i \in 1 .. l - n : n + i \in 1 .. l /\ n + i > n /\ got'[funcMap'[i]] = G(n + i)
  BY <1>6, <1>7, <1>9
<1>15. ReservedAreFree'
  <2>1. \A i \in DOMAIN funcMap' :
          LET x == got'[funcMap'[i]] IN x \in Nat /\ x < next' /\ x \notin DOMAIN table' /\ x \notin ToSet(available')
    <3>1. SUFFICES ASSUME NEW i \in 1 .. l - n
                   PROVE  LET x == got'[funcMap'[i]] IN
                          x \in Nat /\ x < next' /\ x \notin DOMAIN table' /\ x \notin ToSet(available')
      BY <1>9
    <3>2. PICK k \in 1 .. l : k = n + i
      BY <1>14
    <3>3. got'[funcMap'[i]] = G(k)
      BY <1>14, <3>2
    <3>4. \A j \in 1 .. n : G(k) # G(j)
      <4>1. \A j \in 1 .. n : j # k
        BY <3>2
      <4> QED BY <1>6, <1>10, <4>1
    <3>5. G(k) \notin DOMAIN table'
      BY <1>6, <1>8, <3>4
    <3> QED BY <1>6, <3>3, <3>5
  <2>2. \A i, j \in DOMAIN funcMap' : got'[funcMap'[i]] = got'[funcMap'[j]] => i = j
    <3>1. SUFFICES ASSUME NEW i \in DOMAIN funcMap', NEW j \in DOMAIN funcMap',
                          got'[funcMap'[i]] = got'[funcMap'[j]]
                   PROVE  i = j
      OBVIOUS
    <3>3. i \in 1 .. l - n /\ j \in 1 .. l - n
      BY <1>9
    <3>4. G(n + i) = G(n + j)
      BY <1>14, <3>1, <3>3
    <3>2. n + i = n + j
      BY <1>6, <1>14, <3>3, <3>4
    <3> QED BY <3>2, <3>3
  <2>3. IsInjective([i \in DOMAIN funcMap' |-> got'[funcMap'[i]]])
    BY <2>2 DEF IsInjective
  <2>4. Reserved' \cap (DOMAIN table' \cup ToSet(available')) = {}
    BY <2>1 DEF Reserved
  <2>5. Reserved' \subseteq 0 .. next' - 1
    <3>1. \A x \in Reserved' : x \in Nat /\ x < next'
      BY <2>1 DEF Reserved
    <3> QED BY <1>4, <3>1
  <2> QED BY <1>9, <2>3, <2>4, <2>5 DEF ReservedAreFree, Index
<1>16. MainSound'
  BY <1>1, <1>8 DEF MainSound
<1> QED BY <1>1, <1>8, <1>12, <1>13, <1>15, <1>16

(* The types of what is not the linker's own. *)
OtherType ==
  /\ DOMAIN libs \subseteq Handle
  /\ \A h \in DOMAIN libs : /\ libs[h].path \in Path /\ libs[h].load \in MainInstance .. loads
                           /\ libs[h].ptrs \in Seq([sym : FuncSym, slot : Nat])
  /\ \A i \in DOMAIN frames : frames[i].path \in Lib /\ frames[i].need \in Nat
  /\ ending \in BOOLEAN /\ clean \in BOOLEAN
  /\ tries \in 0 .. MaxTries /\ started \in 0 .. MaxRuns

(* TypeOK in two parts: the linker's variables and the others. *)
LEMMA TypeParts == TypeOK <=> LinkerType /\ OtherType
BY DEF TypeOK, LinkerType, OtherType

(* The dlopen that is on top of those under way. *)
LEMMA TopFacts ==
  ASSUME FramesSound, frames # <<>>
  PROVE  /\ Len(frames) \in Nat \ {0} /\ Len(frames) \in DOMAIN frames /\ DOMAIN frames = 1 .. Len(frames)
         /\ Top.path \in Lib /\ Top.need \in Nat \ {0} /\ ~Loaded(Top.path)
         /\ Top.need <= Len(Needs[Top.path]) + 1
         /\ \A j \in 1 .. Top.need - 1 : Loaded(Needs[Top.path][j])
<1>1. frames \in Seq([path : Lib, need : Nat \ {0}])
  BY DEF FramesSound
<1>2. Len(frames) \in Nat \ {0}
  BY <1>1, EmptySeq
<1>3. DOMAIN frames = 1 .. Len(frames) /\ Len(frames) \in 1 .. Len(frames)
  BY <1>1, <1>2, LenProperties
<1>4. Top \in [path : Lib, need : Nat \ {0}] /\ Top = frames[Len(frames)]
  BY <1>1, <1>3, ElementOfSeq DEF Top
<1> QED BY <1>2, <1>3, <1>4 DEF FramesSound

(* With no dlopen under way nothing waits. *)
LEMMA NoFrames == frames = <<>> => FramesSound
<1>1. SUFFICES ASSUME frames = <<>> PROVE FramesSound
  OBVIOUS
<1>2. frames \in Seq([path : Lib, need : Nat \ {0}]) /\ DOMAIN frames = {}
  BY <1>1, EmptySeq
<1> QED BY <1>1, <1>2 DEF FramesSound

(* The same after a step. *)
LEMMA NoFramesNext == frames' = <<>> => FramesSound'
<1>1. SUFFICES ASSUME frames' = <<>> PROVE FramesSound'
  OBVIOUS
<1>2. frames' \in Seq([path : Lib, need : Nat \ {0}]) /\ DOMAIN frames' = {}
  BY <1>1, EmptySeq
<1> QED BY <1>1, <1>2 DEF FramesSound

(* A step that leaves the linker's variables alone leaves what holds of     *)
(* them.                                                                    *)
LEMMA LinkerKept ==
  ASSUME SlotInv, UNCHANGED <<table, available, next, got, funcMap, memMap, loads>>
  PROVE  /\ LinkerType' /\ AvailableAreFree' /\ ReservedAreFree' /\ MainSound'
         /\ UNCHANGED <<table, available, next, got, funcMap, memMap, loads>>
<1>1. UNCHANGED <<table, available, next, got, funcMap, memMap, loads>>
  OBVIOUS
<1>2. TypeOK /\ AvailableAreFree /\ ReservedAreFree /\ MainSound
  BY DEF SlotInv, SlotsSound
<1>3. LinkerType'
  BY <1>1, <1>2 DEF TypeOK, LinkerType
<1>4. AvailableAreFree'
  BY <1>1, <1>2 DEF AvailableAreFree, Index
<1>5. Reserved' = Reserved
  BY <1>1 DEF Reserved
<1>6. ReservedAreFree'
  BY <1>1, <1>2, <1>5 DEF ReservedAreFree, Index
<1>7. MainSound'
  BY <1>1, <1>2 DEF MainSound
<1> QED BY <1>1, <1>3, <1>4, <1>6, <1>7

(* What holds of the libraries stays as long as the same ones are open and *)
(* their slots are set.                                                    *)
LEMMA LibrariesKept ==
  ASSUME SlotInv, libs' = libs, DOMAIN table \subseteq DOMAIN table', loads' \in Nat, loads' >= loads
  PROVE  /\ OwnedAreSet' /\ OneHandle' /\ IsFiniteSet(DOMAIN libs')
         /\ DOMAIN libs' \subseteq Handle
         /\ \A h \in DOMAIN libs' : /\ libs'[h].path \in Path /\ libs'[h].load \in MainInstance .. loads'
                                   /\ libs'[h].ptrs \in Seq([sym : FuncSym, slot : Nat])
         /\ \A p : Loaded(p)' <=> Loaded(p)
<1>1. TypeOK /\ OwnedAreSet /\ OneHandle /\ IsFiniteSet(DOMAIN libs)
  BY DEF SlotInv, SlotsSound
<1>2. \A h : SlotsOf(h)' = SlotsOf(h)
  BY DEF SlotsOf, Slots
<1>3. OwnedAreSet'
  BY <1>1, <1>2 DEF OwnedAreSet, Slots
<1>4. OneHandle'
  BY <1>1 DEF OneHandle
<1>5. MainInstance .. loads \subseteq MainInstance .. loads'
  BY <1>1 DEF TypeOK, MainInstance
<1>6. \A h \in DOMAIN libs' : /\ libs'[h].path \in Path /\ libs'[h].load \in MainInstance .. loads'
                              /\ libs'[h].ptrs \in Seq([sym : FuncSym, slot : Nat])
  BY <1>1, <1>5 DEF TypeOK
<1>7. \A p : Loaded(p)' <=> Loaded(p)
  BY DEF Loaded
<1> QED BY <1>1, <1>3, <1>4, <1>6, <1>7 DEF TypeOK

(* A dlopen that throws leaves the invariant, if it left it for the         *)
(* linker's variables.                                                      *)
LEMMA AfterFailure ==
  ASSUME SlotInv, Throws, LinkerType', AvailableAreFree', ReservedAreFree', MainSound',
         DOMAIN table \subseteq DOMAIN table', loads' >= loads
  PROVE  SlotInv'
<1>1. /\ frames' = <<>> /\ clean' = FALSE
      /\ UNCHANGED <<libs, runs, ending, tries, started>>
  BY DEF Throws
<1>2. TypeOK /\ RunsSound
  BY DEF SlotInv, SlotsSound
<1>3. loads' \in Nat
  BY DEF LinkerType
<1>4. /\ OwnedAreSet' /\ OneHandle' /\ IsFiniteSet(DOMAIN libs')
      /\ DOMAIN libs' \subseteq Handle
      /\ \A h \in DOMAIN libs' : /\ libs'[h].path \in Path /\ libs'[h].load \in MainInstance .. loads'
                                /\ libs'[h].ptrs \in Seq([sym : FuncSym, slot : Nat])
  BY <1>1, <1>3, LibrariesKept
<1>5. OtherType'
  <2>1. DOMAIN frames' = {}
    BY <1>1
  <2> QED BY <1>1, <1>2, <1>4, <2>1 DEF TypeOK, OtherType
<1>6. TypeOK'
  BY <1>5 DEF TypeOK, LinkerType, OtherType
<1>7. FramesSound'
  BY <1>1, NoFramesNext
<1>8. RunsSound'
  BY <1>1, <1>2 DEF RunsSound
<1> QED BY <1>4, <1>6, <1>7, <1>8 DEF SlotInv, SlotsSound

(* A file that is not a library changes nothing but the dlopens under way. *)
LEMMA NotALibraryStep == SlotInv /\ NotALibrary => SlotInv'
<1>1. SUFFICES ASSUME SlotInv, NotALibrary PROVE SlotInv'
  OBVIOUS
<1>2. Throws /\ UNCHANGED <<table, available, next, got, funcMap, memMap, loads>> /\ loads \in Nat
  BY <1>1 DEF NotALibrary, SlotInv, SlotsSound, TypeOK
<1>3. LinkerType' /\ AvailableAreFree' /\ ReservedAreFree' /\ MainSound'
  BY <1>1, <1>2, LinkerKept
<1> QED BY <1>1, <1>2, <1>3, AfterFailure

(* An import that fails leaves the slots it took reserved for the names. *)
LEMMA ImportFailsStep == ASSUME NEW k \in Nat, SlotInv, ImportFails(k) PROVE SlotInv'
<1> DEFINE p == Top.path
           g == GotRead(p, k)
           v == Waiting(p, k)
           b == Len(NewFuncs(p, k))
<1>1. /\ frames # <<>> /\ k <= All(p) /\ TakeSlots(p, b) /\ got' = g
      /\ funcMap' = v /\ memMap' = memMap \o NewData(p, k) /\ Throws /\ UNCHANGED <<table, loads>>
  BY DEF ImportFails, NeedsDone, All, Waiting
<1>2. /\ TypeOK /\ AvailableAreFree /\ ReservedAreFree /\ MainSound /\ FramesSound /\ loads \in Nat
  BY DEF SlotInv, SlotsSound, TypeOK
<1>3. p \in Lib
  BY <1>1, <1>2, TopFacts
<1>4. k \in 0 .. All(p)
  <2>1. GotImports[p] \in Seq(FuncSym \cup DataSym)
    BY <1>3, LibraryAssumption
  <2>2. All(p) \in Nat
    BY <2>1, LenProperties DEF All
  <2> HIDE DEF p
  <2> QED BY <1>1, <2>2
<1> HIDE DEF p
<1>5. b \in Nat
  BY <1>3, <1>4, NewNames, LenProperties
<1>6. /\ available' \in Seq(Nat) /\ IsInjective(available') /\ ToSet(available') \subseteq ToSet(available)
      /\ next' \in Nat /\ next' >= Prepared(p) /\ next' >= next
  BY <1>1, <1>2, <1>3, <1>5, TakeFacts
<1>7. /\ next \in Nat /\ \A x \in DOMAIN table \cup ToSet(available) : x \in Nat /\ x < next
  BY <1>2, <1>3, SlotFacts
<1>8. /\ v \in Seq(FuncSym \cap DOMAIN g) /\ IsInjective(v)
      /\ \A i \in DOMAIN v : /\ g[v[i]] \in Nat /\ g[v[i]] \notin DOMAIN table
                            /\ g[v[i]] \notin ToSet(available') /\ g[v[i]] < next'
      /\ \A i, j \in DOMAIN v : g[v[i]] = g[v[j]] => i = j
  <2>1. b >= b /\ b = Len(NewFuncs(p, k))
    BY <1>5
  <2>2. b \in Nat /\ k \in 0 .. All(p) /\ p \in Lib /\ TakeSlots(p, b)
    BY <1>1, <1>3, <1>4, <1>5
  <2> HIDE DEF b
  <2> QED BY <1>2, <2>1, <2>2, WaitingFacts
<1>9. /\ DOMAIN g = DOMAIN got \cup ToSet(Unknown(p, k)) /\ DOMAIN g \subseteq FuncSym \cup DataSym
      /\ \A s \in DOMAIN g : g[s] \in (IF s \in DataSym THEN NoAddress .. loads ELSE Nat)
  BY <1>2, <1>3, <1>4, GotReadFacts
<1>10. memMap' \in Seq(DataSym \cap DOMAIN got')
  <2> DEFINE w == NewData(p, k)
             D == DataSym \cap DOMAIN got'
  <2>1. w \in Seq(DataSym \ DOMAIN got) /\ ToSet(w) = ToSet(Unknown(p, k)) \cap DataSym
    BY <1>3, <1>4, NewNames
  <2>2. w \in Seq(D)
    <3>1. DOMAIN w = 1 .. Len(w) /\ Len(w) \in Nat
      BY <2>1, LenProperties
    <3>2. \A i \in DOMAIN w : w[i] \in ToSet(w)
      BY DEF ToSet
    <3>3. \A i \in DOMAIN w : w[i] \in D
      BY <1>1, <1>9, <2>1, <3>2
    <3>4. w \in [1 .. Len(w) -> D]
      BY <2>1, <3>1, <3>3, LenProperties
    <3> QED BY <3>1, <3>4, SeqDef
  <2>3. memMap \in Seq(D)
    <3>1. memMap \in Seq(DataSym \cap DOMAIN got) /\ DataSym \cap DOMAIN got \subseteq D
      BY <1>1, <1>2, <1>9 DEF TypeOK
    <3> QED BY <3>1, SeqMonotonic
  <2> HIDE DEF w, D
  <2>4. memMap \o w \in Seq(D)
    BY <2>2, <2>3, ConcatToSet
  <2> QED BY <1>1, <2>4 DEF w, D
<1> HIDE DEF g, v, b
<1>11. LinkerType'
  BY <1>1, <1>2, <1>6, <1>8, <1>9, <1>10 DEF LinkerType, TypeOK
<1>12. AvailableAreFree'
  <2>1. \A x \in ToSet(available') \cup DOMAIN table' : x \in Nat /\ x < next'
    <3> TAKE x \in ToSet(available') \cup DOMAIN table'
    <3>1. x \in Nat /\ x < next
      BY <1>1, <1>6, <1>7
    <3> QED BY <1>6, <1>7, <3>1
  <2>2. ToSet(available') \cup DOMAIN table' \subseteq 0 .. next' - 1
    BY <1>6, <2>1
  <2>3. ToSet(available') \cap DOMAIN table' = {}
    BY <1>1, <1>2, <1>6 DEF AvailableAreFree
  <2> QED BY <1>6, <2>2, <2>3 DEF AvailableAreFree, Index
<1>13. ReservedAreFree'
  <2>1. Reserved' = {g[v[i]] : i \in DOMAIN v}
    BY <1>1 DEF Reserved
  <2>2. \A x \in Reserved' : x \in Nat /\ x < next' /\ x \notin DOMAIN table' /\ x \notin ToSet(available')
    BY <1>1, <1>8, <2>1
  <2>3. Reserved' \subseteq 0 .. next' - 1
    BY <1>6, <2>2
  <2>4. IsInjective([i \in DOMAIN funcMap' |-> got'[funcMap'[i]]])
    BY <1>1, <1>8 DEF IsInjective
  <2>5. IsInjective(funcMap')
    BY <1>1, <1>8
  <2>6. Reserved' \cap (DOMAIN table' \cup ToSet(available')) = {}
    BY <2>2
  <2> QED BY <2>3, <2>4, <2>5, <2>6 DEF ReservedAreFree, Index
<1>14. MainSound'
  BY <1>1, <1>2 DEF MainSound
<1>15. DOMAIN table \subseteq DOMAIN table' /\ loads' >= loads
  BY <1>1, <1>2
<1> QED BY <1>1, <1>11, <1>12, <1>13, <1>14, <1>15, AfterFailure

(* The number of names a library imports. *)
LEMMA AllIndex == \A p \in Lib : All(p) \in Nat /\ All(p) \in 0 .. All(p)
<1> TAKE p \in Lib
<1>1. GotImports[p] \in Seq(FuncSym \cup DataSym)
  BY LibraryAssumption
<1> QED BY <1>1, LenProperties DEF All

(* A function that cannot be resolved: the names behind it keep their       *)
(* reserved slots.                                                          *)
LEMMA UnresolvedFunctionStep == SlotInv /\ UnresolvedFunction => SlotInv'
<1>1. SUFFICES ASSUME SlotInv, UnresolvedFunction PROVE SlotInv'
  OBVIOUS
<1> DEFINE p == Top.path
<1>2. /\ frames # <<>> /\ Instantiate(p) /\ Throws
      /\ got' = GotRead(p, All(p)) /\ memMap' = PendingData(p)
  BY <1>1 DEF UnresolvedFunction, NeedsDone
<1>3. PICK n \in 0 .. Len(Pending(p)) - 1 :
        table' = TableWith(p, n) /\ funcMap' = SubSeq(Pending(p), n + 1, Len(Pending(p)))
  BY <1>1 DEF UnresolvedFunction
<1>4. TypeOK /\ AvailableAreFree /\ FramesSound /\ IsFiniteSet(DOMAIN libs) /\ loads \in Nat
  BY <1>1 DEF SlotInv, SlotsSound, TypeOK
<1>5. p \in Lib /\ All(p) \in 0 .. All(p)
  BY <1>2, <1>4, TopFacts, AllIndex
<1> HIDE DEF p
<1>6. \A s \in DOMAIN got' : got'[s] \in (IF s \in DataSym THEN NoAddress .. loads ELSE Nat)
  BY <1>2, <1>4, <1>5, GotReadFacts
<1>7. \A s \in DOMAIN got' : got'[s] \in (IF s \in DataSym THEN NoAddress .. loads + 1 ELSE Nat)
  <2>1. NoAddress .. loads \subseteq NoAddress .. loads + 1
    BY <1>4 DEF NoAddress
  <2> QED BY <1>6, <2>1
<1>8. memMap' \in Seq(DataSym \cap DOMAIN got')
  BY <1>2, <1>4, <1>5, DataFacts
<1>9. n \in 0 .. Len(Pending(p))
  <2>1. Len(Pending(p)) \in Nat
    BY <1>1, <1>2, <1>5, NewSlots DEF SlotInv, SlotsSound, Instantiate
  <2> QED BY <2>1
<1>10. /\ LinkerType' /\ AvailableAreFree' /\ ReservedAreFree' /\ MainSound' /\ loads' = loads + 1
       /\ \A x \in DOMAIN table : x \in DOMAIN table' /\ table'[x] = table[x]
  <2>1. DOMAIN got' = DOMAIN GotRead(p, All(p)) /\ \A s \in FuncSym \cap DOMAIN got' : got'[s] = GotRead(p, All(p))[s]
    BY <1>2
  <2> QED BY <1>1, <1>2, <1>3, <1>5, <1>7, <1>8, <1>9, <2>1, SlotsAfterLoading
<1>11. DOMAIN table \subseteq DOMAIN table' /\ loads' >= loads
  BY <1>4, <1>10
<1> QED BY <1>1, <1>2, <1>10, <1>11, AfterFailure

(* When all names have their functions, GOT may have any data. *)
LEMMA SlotsAfterLinking ==
  ASSUME SlotInv, NEW p \in Lib, Instantiate(p), funcMap' = <<>>,
         table' = TableWith(p, Len(Pending(p))),
         NEW n \in 0 .. Len(PendingData(p)), got' = GotWith(p, n),
         memMap' \in Seq(DataSym \cap DOMAIN got')
  PROVE  /\ LinkerType' /\ AvailableAreFree' /\ ReservedAreFree' /\ MainSound' /\ loads' = loads + 1
         /\ \A x \in DOMAIN table : x \in DOMAIN table' /\ table'[x] = table[x]
<1>1. TypeOK /\ AvailableAreFree /\ IsFiniteSet(DOMAIN libs)
  BY DEF SlotInv, SlotsSound
<1>2. Pending(p) \in Seq(FuncSym \cap DOMAIN GotRead(p, All(p))) /\ Len(Pending(p)) \in Nat
  BY NewSlots DEF SlotInv, SlotsSound, Instantiate
<1>3. /\ DOMAIN got' = DOMAIN GotRead(p, All(p))
      /\ \A s \in DOMAIN got' : got'[s] \in (IF s \in DataSym THEN NoAddress .. loads + 1 ELSE Nat)
      /\ \A s \in FuncSym \cap DOMAIN got' : got'[s] = GotRead(p, All(p))[s]
  BY <1>1, GotFacts
<1> DEFINE v == Pending(p)
           l == Len(Pending(p))
<1>4. l \in 0 .. l
  BY <1>2
<1>5. funcMap' = SubSeq(v, l + 1, l)
  <2> DEFINE D == FuncSym \cap DOMAIN GotRead(p, All(p))
  <2>1. PICK m \in Nat : m = l + 1
    BY <1>2
  <2>2. v \in Seq(D) /\ l <= Len(v) /\ l \in Nat /\ m >= 1
    BY <1>2, <2>1
  <2>3. m > l
    BY <1>2, <2>1
  <2> HIDE DEF v, l, D
  <2>4. SubSeq(v, m, l) \in Seq(D) /\ Len(SubSeq(v, m, l)) = IF m <= l THEN l - m + 1 ELSE 0
    BY <2>2, SubToSet
  <2>5. Len(SubSeq(v, m, l)) = 0
    BY <2>2, <2>3, <2>4
  <2>6. SubSeq(v, m, l) = <<>>
    BY <2>4, <2>5, EmptySeq
  <2> QED BY <2>1, <2>6
<1> HIDE DEF v, l
<1> QED BY <1>3, <1>4, <1>5, SlotsAfterLoading DEF v, l

(* A datum that cannot be resolved: the functions are all set by then. *)
LEMMA UnresolvedDataStep == SlotInv /\ UnresolvedData => SlotInv'
<1>1. SUFFICES ASSUME SlotInv, UnresolvedData PROVE SlotInv'
  OBVIOUS
<1> DEFINE p == Top.path
           d == PendingData(p)
<1>2. /\ frames # <<>> /\ Instantiate(p) /\ Throws /\ funcMap' = <<>>
      /\ table' = TableWith(p, Len(Pending(p)))
  BY <1>1 DEF UnresolvedData, NeedsDone
<1>3. PICK n \in 0 .. Len(d) - 1 : got' = GotWith(p, n) /\ memMap' = SubSeq(d, n + 2, Len(d))
  BY <1>1 DEF UnresolvedData
<1>4. TypeOK /\ AvailableAreFree /\ FramesSound /\ IsFiniteSet(DOMAIN libs) /\ loads \in Nat
  BY <1>1 DEF SlotInv, SlotsSound, TypeOK
<1>5. p \in Lib
  BY <1>2, <1>4, TopFacts
<1> HIDE DEF p
<1>6. d \in Seq(DataSym \cap DOMAIN GotRead(p, All(p))) /\ Len(d) \in Nat
  BY <1>4, <1>5, DataFacts
<1> HIDE DEF d
<1>7. n \in 0 .. Len(d)
  BY <1>6
<1>8. DOMAIN got' = DOMAIN GotRead(p, All(p))
  BY <1>3, <1>4, <1>5, <1>7, GotFacts DEF d
<1>9. memMap' \in Seq(DataSym \cap DOMAIN got')
  <2> DEFINE D == DataSym \cap DOMAIN GotRead(p, All(p))
             l == Len(d)
  <2>1. PICK m \in Nat : m = n + 2
    OBVIOUS
  <2>2. d \in Seq(D) /\ l <= Len(d) /\ l \in Nat /\ m >= 1
    BY <1>6, <2>1
  <2> HIDE DEF D, l
  <2>3. SubSeq(d, m, l) \in Seq(D)
    BY <2>2, SubToSet
  <2> QED BY <1>3, <1>8, <2>1, <2>3 DEF D, l
<1>10. /\ LinkerType' /\ AvailableAreFree' /\ ReservedAreFree' /\ MainSound' /\ loads' = loads + 1
       /\ \A x \in DOMAIN table : x \in DOMAIN table' /\ table'[x] = table[x]
  BY <1>1, <1>2, <1>3, <1>5, <1>7, <1>9, SlotsAfterLinking DEF d
<1>11. DOMAIN table \subseteq DOMAIN table' /\ loads' >= loads
  BY <1>4, <1>10
<1> QED BY <1>1, <1>2, <1>10, <1>11, AfterFailure

(* What linking p leaves. *)
LEMMA LinkFacts ==
  ASSUME SlotInv, NEW p \in Lib, Link(p)
  PROVE  /\ LinkerType' /\ AvailableAreFree' /\ ReservedAreFree' /\ MainSound' /\ loads' = loads + 1
         /\ \A x \in DOMAIN table : x \in DOMAIN table' /\ table'[x] = table[x]
<1>1. TypeOK /\ AvailableAreFree /\ IsFiniteSet(DOMAIN libs)
  BY DEF SlotInv, SlotsSound
<1>2. Len(PendingData(p)) \in 0 .. Len(PendingData(p))
  BY <1>1, DataFacts
<1>3. /\ Instantiate(p) /\ table' = TableWith(p, Len(Pending(p)))
      /\ got' = GotWith(p, Len(PendingData(p))) /\ funcMap' = <<>> /\ memMap' = <<>>
  BY DEF Link
<1>4. memMap' \in Seq(DataSym \cap DOMAIN got')
  BY <1>3, EmptySeq
<1> QED BY <1>2, <1>3, <1>4, SlotsAfterLinking

(* A constructor that throws: the table and GOT are as after a load, but    *)
(* there is no library.                                                     *)
LEMMA CtorsFailStep == SlotInv /\ CtorsFail => SlotInv'
<1>1. SUFFICES ASSUME SlotInv, CtorsFail PROVE SlotInv'
  OBVIOUS
<1>2. frames # <<>> /\ Link(Top.path) /\ Throws
  BY <1>1 DEF CtorsFail, NeedsDone
<1>3. FramesSound /\ loads \in Nat
  BY <1>1 DEF SlotInv, SlotsSound, TypeOK
<1>4. Top.path \in Lib
  BY <1>2, <1>3, TopFacts
<1>5. /\ LinkerType' /\ AvailableAreFree' /\ ReservedAreFree' /\ MainSound' /\ loads' = loads + 1
      /\ \A x \in DOMAIN table : x \in DOMAIN table' /\ table'[x] = table[x]
  BY <1>1, <1>2, <1>4, LinkFacts
<1>6. DOMAIN table \subseteq DOMAIN table' /\ loads' >= loads
  BY <1>3, <1>5
<1> QED BY <1>1, <1>2, <1>5, <1>6, AfterFailure

(* A library that is opened has a handle of its own. *)
LEMMA NewHandle ==
  ASSUME TypeOK, IsFiniteSet(DOMAIN libs), NEW p, NEW i, NEW ptrs, libs' = WithLibrary(p, i, ptrs)
  PROVE  /\ NextHandle \in Handle /\ NextHandle \notin DOMAIN libs
         /\ DOMAIN libs' = DOMAIN libs \cup {NextHandle} /\ IsFiniteSet(DOMAIN libs')
         /\ libs'[NextHandle] = [path |-> p, load |-> i, ptrs |-> ptrs]
         /\ \A h \in DOMAIN libs : libs'[h] = libs[h]
         /\ \A q : Loaded(q)' <=> Loaded(q) \/ q = p
<1> DEFINE I == {0} \cup DOMAIN libs
           n == NextHandle
<1>1. I \in SUBSET Int /\ I # {} /\ IsFiniteSet(I) /\ \A h \in DOMAIN libs : h \in Nat \ {0}
  <2>1. I = DOMAIN libs \cup {0} /\ \A h \in DOMAIN libs : h \in Nat \ {0}
    BY DEF TypeOK, Handle
  <2>2. IsFiniteSet(DOMAIN libs \cup {0})
    BY FS_AddElement
  <2> QED BY <2>1, <2>2
<1>2. Max(I) \in I /\ \A h \in I : h <= Max(I)
  BY <1>1, LeastGreatest
<1>3. n = Max(I) + 1
  BY DEF NextHandle
<1>4. Max(I) \in Nat
  BY <1>1, <1>2
<1>5. n \in Handle /\ n \notin DOMAIN libs
  BY <1>2, <1>3, <1>4 DEF Handle
<1> HIDE DEF n, I
<1>6. libs' = [h \in DOMAIN libs \cup {n} |-> IF h = n THEN [path |-> p, load |-> i, ptrs |-> ptrs] ELSE libs[h]]
  BY DEF WithLibrary, n
<1>7. /\ DOMAIN libs' = DOMAIN libs \cup {n} /\ libs'[n] = [path |-> p, load |-> i, ptrs |-> ptrs]
      /\ \A h \in DOMAIN libs : libs'[h] = libs[h]
  BY <1>5, <1>6
<1>8. IsFiniteSet(DOMAIN libs')
  BY <1>7, FS_AddElement
<1>9. ASSUME NEW q PROVE Loaded(q)' <=> Loaded(q) \/ q = p
  <2>1. Loaded(q)' <=> \E h \in DOMAIN libs' : libs'[h].path = q
    BY DEF Loaded
  <2>2. Loaded(q) <=> \E h \in DOMAIN libs : libs[h].path = q
    BY DEF Loaded
  <2>3. libs'[n].path = p
    BY <1>7
  <2> QED BY <1>7, <2>1, <2>2, <2>3
<1> QED BY <1>5, <1>7, <1>8, <1>9 DEF n

(* symToPtr of a library that is loaded: its names and their slots. *)
LEMMA PointersFacts ==
  ASSUME SlotInv, NEW p \in Lib, Instantiate(p), table' = TableWith(p, Len(Pending(p)))
  PROVE  /\ Pointers(p) \in Seq([sym : FuncSym, slot : Nat])
         /\ \A j \in DOMAIN Pointers(p) :
              \/ \E i \in 1 .. Len(Fresh(p)) :
                   /\ Pointers(p)[j].sym = Fresh(p)[i] /\ Pointers(p)[j].slot = FreshSlot(p, i)
              \/ \E i \in 1 .. Len(Pending(p)) :
                   /\ Pointers(p)[j].sym = Pending(p)[i]
                   /\ Pointers(p)[j].slot = GotRead(p, All(p))[Pending(p)[i]]
         /\ \A i, j \in DOMAIN Pointers(p) : Pointers(p)[i].slot = Pointers(p)[j].slot => i = j
         /\ \A j \in DOMAIN Pointers(p) : Pointers(p)[j].slot \in DOMAIN table' \ DOMAIN table
         /\ \A s \in ToSet(Fresh(p)) \cup ToSet(Pending(p)) : \E j \in DOMAIN Pointers(p) : Pointers(p)[j].sym = s
<1> DEFINE P == [sym : FuncSym, slot : Nat]
           v == Pending(p)
           f == Fresh(p)
           l == Len(Pending(p))
           c == Len(Fresh(p))
           G(i) == GotRead(p, All(p))[Pending(p)[i]]
           F(i) == FreshSlot(p, i)
           s1 == [i \in 1 .. c |-> [sym |-> f[i], slot |-> F(i)]]
           s2 == [i \in 1 .. l |-> [sym |-> v[i], slot |-> G(i)]]
           u == Pointers(p)
<1>1. /\ TypeOK /\ AvailableAreFree /\ ReservedAreFree /\ OwnedAreSet /\ IsFiniteSet(DOMAIN libs)
      /\ TakeSlots(p, Len(NewFuncs(p, All(p))) + Len(Fresh(p)))
  BY DEF SlotInv, SlotsSound, Instantiate
<1>2. u = s1 \o s2
  BY DEF Pointers
<1>3. /\ v \in Seq(FuncSym \cap DOMAIN GotRead(p, All(p))) /\ DOMAIN v = 1 .. l /\ l \in Nat
      /\ f \in Seq(FuncSym) /\ DOMAIN f = 1 .. c /\ c \in Nat
      /\ \A i \in 1 .. l : G(i) \in Nat /\ G(i) \notin DOMAIN table /\ \A m \in 1 .. c : G(i) # F(m)
      /\ \A i, j \in 1 .. l : G(i) = G(j) => i = j
      /\ \A i \in 1 .. c : F(i) \in Nat /\ F(i) \notin DOMAIN table
      /\ \A i, j \in 1 .. c : F(i) = F(j) => i = j
  BY <1>1, NewSlots
<1>4. /\ \A i \in 1 .. c : F(i) \in DOMAIN table'
      /\ \A i \in 1 .. l : G(i) \in DOMAIN table'
  <2>1. l \in 0 .. l
    BY <1>3
  <2>2. \A x : x \in DOMAIN table' <=>
              \/ x \in DOMAIN table \cup PartOf(p)
              \/ \E i \in 1 .. c : x = F(i)
              \/ \E i \in 1 .. l : x = G(i)
    BY <1>1, <2>1, TableFacts
  <2> QED BY <2>2
<1> HIDE DEF v, f, l, c, G, F
<1>5. (\A i \in 1 .. c : f[i] \in FuncSym) /\ (\A i \in 1 .. l : v[i] \in FuncSym)
  BY <1>3, ElementOfSeq
<1>6. s1 \in Seq(P) /\ s2 \in Seq(P) /\ Len(s1) = c /\ Len(s2) = l
  <2>1. s1 \in [1 .. c -> P] /\ s2 \in [1 .. l -> P]
    BY <1>3, <1>5
  <2>2. s1 \in Seq(P) /\ s2 \in Seq(P)
    BY <1>3, <2>1, SeqDef
  <2>3. DOMAIN s1 = 1 .. c /\ DOMAIN s2 = 1 .. l
    OBVIOUS
  <2> QED BY <1>3, <2>2, <2>3, LenProperties
<1>7. /\ \A i \in 1 .. c : s1[i].sym = f[i] /\ s1[i].slot = F(i)
      /\ \A i \in 1 .. l : s2[i].sym = v[i] /\ s2[i].slot = G(i)
  OBVIOUS
<1> HIDE DEF s1, s2, P, u
<1>8. /\ u \in Seq(P) /\ Len(u) = c + l
      /\ \A i \in 1 .. c : u[i] = s1[i]
      /\ \A i \in 1 .. l : u[c + i] = s2[i]
  <2>1. s1 \o s2 \in Seq(P) /\ Len(s1 \o s2) = Len(s1) + Len(s2)
    BY <1>6, ConcatToSet
  <2>2. \A i \in 1 .. Len(s1) : (s1 \o s2)[i] = s1[i]
    BY <1>6, ConcatToSet
  <2>3. \A i \in 1 .. Len(s2) : (s1 \o s2)[Len(s1) + i] = s2[i]
    BY <1>6, ConcatToSet
  <2> QED BY <1>2, <1>6, <2>1, <2>2, <2>3
<1>9. DOMAIN u = 1 .. c + l
  BY <1>8, LenProperties
<1>10. \A j \in 1 .. c + l : j \in 1 .. c \/ \E i \in 1 .. l : j = c + i
  <2> TAKE j \in 1 .. c + l
  <2>1. j \in 1 .. c \/ (j - c \in 1 .. l /\ j = c + (j - c))
    BY <1>3
  <2> QED BY <2>1
<1>11. /\ \A i \in 1 .. c : i \in 1 .. c + l /\ u[i].sym = f[i] /\ u[i].slot = F(i)
       /\ \A i \in 1 .. l : c + i \in 1 .. c + l /\ u[c + i].sym = v[i] /\ u[c + i].slot = G(i)
  <2>1. (\A i \in 1 .. c : i \in 1 .. c + l) /\ (\A i \in 1 .. l : c + i \in 1 .. c + l)
    BY <1>3
  <2> QED BY <1>7, <1>8, <2>1
<1>12. \A j \in DOMAIN u :
         \/ \E i \in 1 .. c : u[j].sym = f[i] /\ u[j].slot = F(i)
         \/ \E i \in 1 .. l : u[j].sym = v[i] /\ u[j].slot = G(i)
  <2> TAKE j \in DOMAIN u
  <2>1. CASE j \in 1 .. c
    BY <1>11, <2>1
  <2>2. ASSUME NEW i \in 1 .. l, j = c + i PROVE u[j].sym = v[i] /\ u[j].slot = G(i)
    BY <1>11, <2>2
  <2> QED BY <1>9, <1>10, <2>1, <2>2
<1>13. \A i, j \in DOMAIN u : u[i].slot = u[j].slot => i = j
  <2>1. SUFFICES ASSUME NEW i \in DOMAIN u, NEW j \in DOMAIN u, u[i].slot = u[j].slot PROVE i = j
    OBVIOUS
  <2>2. CASE i \in 1 .. c /\ j \in 1 .. c
    BY <1>3, <1>11, <2>1, <2>2
  <2>3. \A x \in 1 .. c, y \in 1 .. l : u[x].slot # u[c + y].slot
    <3> TAKE x \in 1 .. c, y \in 1 .. l
    <3>1. G(y) # F(x)
      BY <1>3
    <3> QED BY <1>11, <3>1
  <2>4. ASSUME NEW x \in 1 .. l, NEW y \in 1 .. l, i = c + x, j = c + y PROVE i = j
    <3>1. G(x) = G(y)
      BY <1>11, <2>1, <2>4
    <3> QED BY <1>3, <2>4, <3>1
  <2> QED BY <1>9, <1>10, <2>1, <2>2, <2>3, <2>4
<1>14. \A j \in DOMAIN u : u[j].slot \in DOMAIN table' \ DOMAIN table
  BY <1>3, <1>4, <1>12
<1>15. \A s \in ToSet(f) \cup ToSet(v) : \E j \in DOMAIN u : u[j].sym = s
  <2>1. ASSUME NEW s \in ToSet(f) PROVE \E j \in DOMAIN u : u[j].sym = s
    <3>1. PICK i \in 1 .. c : s = f[i]
      BY <1>3, <2>1 DEF ToSet
    <3> QED BY <1>9, <1>11, <3>1
  <2>2. ASSUME NEW s \in ToSet(v) PROVE \E j \in DOMAIN u : u[j].sym = s
    <3>1. PICK i \in 1 .. l : s = v[i]
      BY <1>3, <2>2 DEF ToSet
    <3>2. c + i \in DOMAIN u /\ u[c + i].sym = s
      BY <1>9, <1>11, <3>1
    <3> QED BY <3>2
  <2> QED BY <2>1, <2>2
<1> QED BY <1>8, <1>12, <1>13, <1>14, <1>15 DEF P, u, v, f, l, c, G, F

(* What waits for the library that was loaded goes on; no dlopen further    *)
(* down is of the same library, for it would wait for one that is open.     *)
LEMMA FramesAfterLoad ==
  ASSUME SlotInv, Load
  PROVE  /\ frames' \in Seq([path : Lib, need : Nat \ {0}]) /\ FramesSound'
         /\ \A i \in DOMAIN frames' : frames'[i].path \in Lib /\ frames'[i].need \in Nat
<1> DEFINE p == Top.path
           l == Len(frames)
           R == [path : Lib, need : Nat \ {0}]
<1>1. /\ frames # <<>> /\ Top.need > Len(Needs[p])
      /\ libs' = WithLibrary(p, loads + 1, Pointers(p)) /\ frames' = Front(frames)
      /\ ending' = ending
  BY DEF Load, NeedsDone
<1>2. /\ TypeOK /\ FramesSound /\ IsFiniteSet(DOMAIN libs)
      /\ frames \in Seq(R)
  BY DEF SlotInv, SlotsSound, FramesSound
<1>3. /\ l \in Nat \ {0} /\ l \in DOMAIN frames /\ DOMAIN frames = 1 .. l
      /\ p \in Lib /\ Top.need \in Nat \ {0} /\ ~Loaded(p)
      /\ Top.need <= Len(Needs[p]) + 1
      /\ \A j \in 1 .. Top.need - 1 : Loaded(Needs[p][j])
  BY <1>1, <1>2, TopFacts
<1>4. Len(Needs[p]) \in Nat
  BY <1>3, LibraryAssumption, LenProperties
<1>5. \A j \in 1 .. Len(Needs[p]) : Loaded(Needs[p][j])
  <2>1. Top.need - 1 = Len(Needs[p])
    <3>1. PICK m, n : m = Len(Needs[p]) /\ n = Top.need
      OBVIOUS
    <3>2. m \in Nat /\ n \in Nat /\ n > m /\ n <= m + 1
      BY <1>1, <1>3, <1>4, <3>1
    <3> QED BY <3>1, <3>2
  <2> QED BY <1>3, <2>1
<1>6. \A q : (\E h \in DOMAIN libs' : libs'[h].path = q) <=> Loaded(q) \/ q = p
  BY <1>1, <1>2, NewHandle DEF Loaded
<1>7. /\ Len(frames') = l - 1 /\ DOMAIN frames' = 1 .. l - 1
      /\ \A i \in 1 .. l - 1 : frames'[i] = frames[i]
      /\ frames' \in Seq(R)
  <2>1. frames \in Seq(ToSet(frames)) 
    <3>1. frames \in [1 .. l -> ToSet(frames)]
      BY <1>2, <1>3, LenProperties DEF ToSet
    <3> QED BY <1>3, <3>1, SeqDef
  <2>2. /\ Len(Front(frames)) = l - 1 /\ DOMAIN Front(frames) = 1 .. l - 1
        /\ \A i \in 1 .. l - 1 : Front(frames)[i] = frames[i]
    BY <1>1, <2>1, FrontFacts
  <2>3. \A i \in 1 .. l : frames[i] \in R
    BY <1>2, <1>3, ElementOfSeq
  <2>4. frames' \in Seq(ToSet(frames'))
    BY <1>1, <2>1, FrontFacts
  <2>5. frames' \in [1 .. l - 1 -> ToSet(frames')] /\ l - 1 \in Nat
    BY <1>1, <1>3, <2>2, <2>4, LenProperties
  <2>6. \A i \in 1 .. l - 1 : i \in 1 .. l /\ frames'[i] = frames[i]
    BY <1>1, <1>3, <2>2
  <2>7. frames' \in [1 .. l - 1 -> R]
    BY <2>3, <2>5, <2>6
  <2> HIDE DEF l, R
  <2>8. frames' \in Seq(R)
    <3>1. PICK n \in Nat : n = l - 1
      BY <2>5
    <3>2. frames' \in [1 .. n -> R]
      BY <2>7, <3>1
    <3> QED BY <3>2, SeqDef
  <2> QED BY <1>1, <2>2, <2>8
<1>8. /\ \A i \in 1 .. l : /\ ~Loaded(frames[i].path) /\ frames[i].need <= Len(Needs[frames[i].path]) + 1
                          /\ \A j \in 1 .. frames[i].need - 1 : Loaded(Needs[frames[i].path][j])
                          /\ frames[i].path \in Lib /\ frames[i].need \in Nat \ {0}
      /\ \A i \in 1 .. l : i < l => /\ frames[i].need <= Len(Needs[frames[i].path])
                                   /\ frames[i + 1].path = Needs[frames[i].path][frames[i].need]
  <2>1. \A i \in 1 .. l : frames[i] \in R
    BY <1>2, <1>3, ElementOfSeq
  <2> QED BY <1>2, <1>3, <2>1 DEF FramesSound, Waits
<1>16. \A i \in 1 .. l : frames[i].path \in Lib /\ frames[i].need \in Nat \ {0}
  <2> TAKE i \in 1 .. l
  <2>1. frames[i] \in [path : Lib, need : Nat \ {0}]
    BY <1>2, <1>3, ElementOfSeq DEF R
  <2> QED BY <2>1
<1>17. \A i \in 1 .. l : i < l => /\ frames[i].need <= Len(Needs[frames[i].path])
                                /\ frames[i + 1].path = Needs[frames[i].path][frames[i].need]
  BY <1>8
<1>18. \A i \in 1 .. l : frames[i].need <= Len(Needs[frames[i].path]) + 1
  BY <1>8
<1> DEFINE Open(q) == \E h \in DOMAIN libs' : libs'[h].path = q
<1> HIDE DEF p, l, R, Open
<1>9. ASSUME NEW i \in 1 .. l - 1 PROVE i \in 1 .. l /\ i < l /\ i + 1 \in 1 .. l
  BY <1>3
<1>10. ASSUME NEW i \in 1 .. l - 1 PROVE frames[i].path # p
  <2>1. SUFFICES ASSUME frames[i].path = p PROVE FALSE
    OBVIOUS
  <2>2. i \in 1 .. l /\ i < l /\ i + 1 \in 1 .. l
    BY <1>9
  <2>0. frames[i].need \in Nat \ {0} /\ frames[i].need <= Len(Needs[p]) /\ frames[i + 1].path = Needs[p][frames[i].need]
    BY <1>16, <1>17, <2>1, <2>2
  <2>3. frames[i].need \in 1 .. Len(Needs[p])
    BY <1>4, <2>0
  <2>4. Loaded(frames[i + 1].path)
    BY <1>5, <2>0, <2>3
  <2> QED BY <1>8, <2>2, <2>4
<1>11. \A i \in 1 .. l - 1 :
         /\ ~Open(frames'[i].path) /\ frames'[i].need <= Len(Needs[frames'[i].path]) + 1
         /\ \A j \in 1 .. frames'[i].need - 1 : Open(Needs[frames'[i].path][j])
         /\ i < l - 1 => /\ frames'[i].need <= Len(Needs[frames'[i].path])
                         /\ frames'[i + 1].path = Needs[frames'[i].path][frames'[i].need]
         /\ frames'[i].path \in Lib /\ frames'[i].need \in Nat
  <2> TAKE i \in 1 .. l - 1
  <2>1. frames'[i] = frames[i] /\ i \in 1 .. l /\ i < l
    BY <1>7, <1>9
  <2>2. i < l - 1 => i + 1 \in 1 .. l - 1 /\ frames'[i + 1] = frames[i + 1]
    BY <1>3, <1>7
  <2>3. ~Open(frames[i].path)
    BY <1>6, <1>8, <1>10, <2>1 DEF Open
  <2>4. \A j \in 1 .. frames[i].need - 1 : Open(Needs[frames[i].path][j])
    BY <1>6, <1>8, <2>1 DEF Open
  <2>5. frames[i].need <= Len(Needs[frames[i].path]) + 1 /\ frames[i].path \in Lib /\ frames[i].need \in Nat
    <3>1. frames[i].path \in Lib /\ frames[i].need \in Nat \ {0}
      BY <1>16, <2>1
    <3>2. frames[i].need \in Nat
      BY <3>1
    <3>3. frames[i].need <= Len(Needs[frames[i].path]) + 1
      BY <1>18, <2>1
    <3> QED BY <3>1, <3>2, <3>3
  <2>6. frames[i].need <= Len(Needs[frames[i].path]) /\ frames[i + 1].path = Needs[frames[i].path][frames[i].need]
    BY <1>17, <2>1
  <2> QED BY <2>1, <2>2, <2>3, <2>4, <2>5, <2>6
<1>13. ASSUME frames' # <<>> PROVE ~ending'
  BY <1>1, <1>2 DEF FramesSound
<1>14. FramesSound'
  <2>1. frames' \in Seq([path : Lib, need : Nat \ {0}])
    BY <1>7 DEF R
  <2>2. \A i \in DOMAIN frames' :
          /\ ~Open(frames'[i].path) /\ frames'[i].need <= Len(Needs[frames'[i].path]) + 1
          /\ \A j \in 1 .. frames'[i].need - 1 : Open(Needs[frames'[i].path][j])
          /\ i < Len(frames') => /\ frames'[i].need <= Len(Needs[frames'[i].path])
                                 /\ frames'[i + 1].path = Needs[frames'[i].path][frames'[i].need]
    BY <1>7, <1>11
  <2>3. frames' # <<>> => ~ending'
    BY <1>13
  <2> QED BY <2>1, <2>2, <2>3 DEF FramesSound, Loaded, Waits, Open
<1>15. \A i \in DOMAIN frames' : frames'[i].path \in Lib /\ frames'[i].need \in Nat
  BY <1>7, <1>11
<1> QED BY <1>7, <1>14, <1>15 DEF R

(* A new library with slots of its own. *)
LEMMA LibraryAdded ==
  ASSUME SlotInv, NEW p \in Path, ~Loaded(p), loads' \in Nat, loads' >= loads,
         NEW i \in MainInstance .. loads', NEW ptrs \in Seq([sym : FuncSym, slot : Nat]),
         libs' = WithLibrary(p, i, ptrs), DOMAIN table \subseteq DOMAIN table',
         \A a, b \in DOMAIN ptrs : ptrs[a].slot = ptrs[b].slot => a = b,
         \A a \in DOMAIN ptrs : ptrs[a].slot \in DOMAIN table' \ DOMAIN table
  PROVE  /\ OwnedAreSet' /\ OneHandle' /\ IsFiniteSet(DOMAIN libs')
         /\ DOMAIN libs' \subseteq Handle
         /\ \A h \in DOMAIN libs' : /\ libs'[h].path \in Path /\ libs'[h].load \in MainInstance .. loads'
                                   /\ libs'[h].ptrs \in Seq([sym : FuncSym, slot : Nat])
<1>0. PICK n : n = NextHandle
  OBVIOUS
<1>1. TypeOK /\ OwnedAreSet /\ OneHandle /\ IsFiniteSet(DOMAIN libs) /\ MainSound
  BY DEF SlotInv, SlotsSound
<1>2. /\ n \in Handle /\ n \notin DOMAIN libs
      /\ DOMAIN libs' = DOMAIN libs \cup {n} /\ IsFiniteSet(DOMAIN libs')
      /\ libs'[n] = [path |-> p, load |-> i, ptrs |-> ptrs]
      /\ \A h \in DOMAIN libs : libs'[h] = libs[h]
  <2>1. /\ NextHandle \in Handle /\ NextHandle \notin DOMAIN libs
        /\ DOMAIN libs' = DOMAIN libs \cup {NextHandle} /\ IsFiniteSet(DOMAIN libs')
        /\ libs'[NextHandle] = [path |-> p, load |-> i, ptrs |-> ptrs]
        /\ \A h \in DOMAIN libs : libs'[h] = libs[h]
    BY <1>1, NewHandle
  <2> QED BY <1>0, <2>1
<1>3. libs'[n].path = p /\ libs'[n].load = i /\ libs'[n].ptrs = ptrs
  BY <1>2
<1>4. OneHandle'
  <2>1. \A h \in DOMAIN libs : libs'[h].path # p
    BY <1>2 DEF Loaded
  <2> QED BY <1>1, <1>2, <1>3, <2>1 DEF OneHandle
<1>5. DOMAIN libs' \subseteq Handle
  BY <1>1, <1>2 DEF TypeOK
<1>6. \A h \in DOMAIN libs' : /\ libs'[h].path \in Path /\ libs'[h].load \in MainInstance .. loads'
                              /\ libs'[h].ptrs \in Seq([sym : FuncSym, slot : Nat])
  <2>1. MainInstance .. loads \subseteq MainInstance .. loads'
    BY <1>1 DEF TypeOK, MainInstance
  <2>2. \A h \in DOMAIN libs : /\ libs[h].path \in Path /\ libs[h].load \in MainInstance .. loads'
                               /\ libs[h].ptrs \in Seq([sym : FuncSym, slot : Nat])
    BY <1>1, <2>1 DEF TypeOK
  <2> QED BY <1>2, <1>3, <2>2
<1>7. \A h \in DOMAIN libs : SlotsOf(h)' = SlotsOf(h) /\ Slots(libs'[h]) = Slots(libs[h])
  BY <1>2 DEF SlotsOf, Slots
<1>8. Slots(libs'[n]) = [a \in DOMAIN ptrs |-> ptrs[a].slot]
  BY <1>3 DEF Slots
<1>9. IsInjective(Slots(libs'[n])) /\ ToSet(Slots(libs'[n])) \subseteq DOMAIN table' \ DOMAIN table
  BY <1>8 DEF IsInjective, ToSet
<1>10. \A h \in DOMAIN libs : SlotsOf(h) \subseteq DOMAIN table
  BY <1>1 DEF OwnedAreSet
<1>11. DOMAIN MainTable \subseteq DOMAIN table
  BY <1>1 DEF MainSound
<1>12. \A h \in DOMAIN libs' : /\ IsInjective(Slots(libs'[h])) /\ SlotsOf(h)' \subseteq DOMAIN table'
                               /\ SlotsOf(h)' \cap DOMAIN MainTable = {}
  <2>1. \A h \in DOMAIN libs : /\ IsInjective(Slots(libs'[h])) /\ SlotsOf(h)' \subseteq DOMAIN table'
                               /\ SlotsOf(h)' \cap DOMAIN MainTable = {}
    BY <1>1, <1>7, <1>10 DEF OwnedAreSet
  <2>2. /\ IsInjective(Slots(libs'[n])) /\ SlotsOf(n)' \subseteq DOMAIN table'
        /\ SlotsOf(n)' \cap DOMAIN MainTable = {}
    BY <1>9, <1>11 DEF SlotsOf
  <2> QED BY <1>2, <2>1, <2>2
<1>13. \A h, k \in DOMAIN libs' : h # k => SlotsOf(h)' \cap SlotsOf(k)' = {}
  <2>1. \A h, k \in DOMAIN libs : h # k => SlotsOf(h)' \cap SlotsOf(k)' = {}
    BY <1>1, <1>7 DEF OwnedAreSet
  <2>2. \A h \in DOMAIN libs : ToSet(Slots(libs'[h])) \cap ToSet(Slots(libs'[n])) = {}
    <3> TAKE h \in DOMAIN libs
    <3>1. ToSet(Slots(libs'[h])) \subseteq DOMAIN table
      BY <1>7, <1>10 DEF SlotsOf
    <3> QED BY <1>9, <3>1
  <2> QED BY <1>2, <2>1, <2>2 DEF SlotsOf
<1>14. OwnedAreSet'
  BY <1>12, <1>13 DEF OwnedAreSet
<1> QED BY <1>2, <1>4, <1>5, <1>6, <1>14

(* A library that loads owns the slots that were set for it. *)
LEMMA LoadStep == SlotInv /\ Load => SlotInv'
<1>1. SUFFICES ASSUME SlotInv, Load PROVE SlotInv'
  OBVIOUS
<1> DEFINE p == Top.path
<1>2. /\ frames # <<>> /\ Link(p) /\ libs' = WithLibrary(p, loads + 1, Pointers(p))
      /\ UNCHANGED <<runs, ending, tries, clean, started>>
  BY <1>1 DEF Load, NeedsDone
<1>3. FramesSound /\ TypeOK /\ RunsSound /\ loads \in Nat
  BY <1>1 DEF SlotInv, SlotsSound, TypeOK
<1>4. p \in Lib /\ ~Loaded(p)
  BY <1>2, <1>3, TopFacts
<1>5. /\ frames' \in Seq([path : Lib, need : Nat \ {0}]) /\ FramesSound'
      /\ \A i \in DOMAIN frames' : frames'[i].path \in Lib /\ frames'[i].need \in Nat
  BY <1>1, FramesAfterLoad
<1> HIDE DEF p
<1>6. /\ LinkerType' /\ AvailableAreFree' /\ ReservedAreFree' /\ MainSound' /\ loads' = loads + 1
      /\ \A x \in DOMAIN table : x \in DOMAIN table' /\ table'[x] = table[x]
  BY <1>1, <1>2, <1>4, LinkFacts
<1>7. Instantiate(p) /\ table' = TableWith(p, Len(Pending(p)))
  BY <1>2 DEF Link
<1>8. /\ Pointers(p) \in Seq([sym : FuncSym, slot : Nat])
      /\ \A i, j \in DOMAIN Pointers(p) : Pointers(p)[i].slot = Pointers(p)[j].slot => i = j
      /\ \A j \in DOMAIN Pointers(p) : Pointers(p)[j].slot \in DOMAIN table' \ DOMAIN table
  BY <1>1, <1>4, <1>7, PointersFacts
<1>9. /\ OwnedAreSet' /\ OneHandle' /\ IsFiniteSet(DOMAIN libs')
      /\ DOMAIN libs' \subseteq Handle
      /\ \A h \in DOMAIN libs' : /\ libs'[h].path \in Path /\ libs'[h].load \in MainInstance .. loads'
                                /\ libs'[h].ptrs \in Seq([sym : FuncSym, slot : Nat])
  <2>1. p \in Path /\ loads' \in Nat /\ loads' >= loads /\ loads + 1 \in MainInstance .. loads'
    BY <1>3, <1>4, <1>6 DEF Path, MainInstance
  <2>2. DOMAIN table \subseteq DOMAIN table'
    BY <1>6
  <2> QED BY <1>1, <1>2, <1>4, <1>8, <2>1, <2>2, LibraryAdded
<1>10. OtherType'
  BY <1>2, <1>3, <1>5, <1>9 DEF TypeOK, OtherType
<1>11. TypeOK'
  BY <1>6, <1>10 DEF TypeOK, LinkerType, OtherType
<1>12. RunsSound'
  BY <1>2, <1>3 DEF RunsSound
<1> QED BY <1>5, <1>6, <1>9, <1>11, <1>12 DEF SlotInv, SlotsSound

(* Main's handle owns no slots of its own. *)
LEMMA OpenMainStep == SlotInv /\ OpenMain => SlotInv'
<1>1. SUFFICES ASSUME SlotInv, OpenMain PROVE SlotInv'
  OBVIOUS
<1>2. /\ frames = <<>> /\ ~Loaded(Main)
      /\ libs' = WithLibrary(Main, MainInstance, <<>>)
      /\ UNCHANGED <<table, available, next, got, funcMap, memMap, loads>>
      /\ UNCHANGED <<frames, runs, ending, tries, clean, started>>
  BY <1>1 DEF OpenMain, Idle
<1>3. TypeOK /\ RunsSound /\ loads \in Nat
  BY <1>1 DEF SlotInv, SlotsSound, TypeOK
<1>4. LinkerType' /\ AvailableAreFree' /\ ReservedAreFree' /\ MainSound'
  BY <1>1, <1>2, LinkerKept
<1>5. DOMAIN MainTable = 1 .. Len(MainTable)
  BY MainAssumption, LenProperties
<1> DEFINE P == [sym : FuncSym, slot : Nat]
           none == [path |-> Main, load |-> MainInstance, ptrs |-> <<>>]
<1>6. <<>> \in Seq(P) /\ DOMAIN <<>> = {}
  BY EmptySeq
<1> HIDE DEF P
<1>7. /\ OwnedAreSet' /\ OneHandle' /\ IsFiniteSet(DOMAIN libs')
      /\ DOMAIN libs' \subseteq Handle
      /\ \A h \in DOMAIN libs' : /\ libs'[h].path \in Path /\ libs'[h].load \in MainInstance .. loads'
                                /\ libs'[h].ptrs \in Seq(P)
  <2>1. Main \in Path /\ loads' \in Nat /\ loads' >= loads /\ MainInstance \in MainInstance .. loads'
    BY <1>2, <1>3 DEF Path, MainInstance, TypeOK
  <2>2. DOMAIN table \subseteq DOMAIN table'
    BY <1>2
  <2>3. PICK e \in Seq(P) : e = <<>>
    BY <1>6
  <2>4. DOMAIN e = {} /\ libs' = WithLibrary(Main, MainInstance, e)
    BY <1>2, <1>6, <2>3
  <2> QED BY <1>1, <1>2, <2>1, <2>2, <2>4, LibraryAdded DEF P
<1>9. OtherType'
  BY <1>2, <1>3, <1>7 DEF TypeOK, OtherType, P
<1>10. TypeOK'
  BY <1>4, <1>9 DEF TypeOK, LinkerType, OtherType
<1>11. FramesSound'
  BY <1>2, NoFramesNext
<1>12. RunsSound'
  BY <1>2, <1>3 DEF RunsSound
<1> QED BY <1>4, <1>7, <1>10, <1>11, <1>12 DEF SlotInv, SlotsSound

(* Steps that leave the linker as it is. *)
LEMMA LinkerAsItIs ==
  ASSUME SlotInv, UNCHANGED linker, UNCHANGED loads,
         \A i \in DOMAIN frames' : frames'[i].path \in Lib /\ frames'[i].need \in Nat,
         ending' \in BOOLEAN, clean' \in BOOLEAN,
         tries' \in 0 .. MaxTries, started' \in 0 .. MaxRuns,
         FramesSound', RunsSound'
  PROVE  SlotInv'
<1>1. UNCHANGED <<table, available, next, got, funcMap, memMap, libs, loads>>
  BY DEF linker
<1>2. TypeOK
  BY DEF SlotInv, SlotsSound
<1>3. LinkerType' /\ AvailableAreFree' /\ ReservedAreFree' /\ MainSound'
  BY <1>1, LinkerKept
<1>4. /\ OwnedAreSet' /\ OneHandle' /\ IsFiniteSet(DOMAIN libs')
      /\ DOMAIN libs' \subseteq Handle
      /\ \A h \in DOMAIN libs' : /\ libs'[h].path \in Path /\ libs'[h].load \in MainInstance .. loads'
                                /\ libs'[h].ptrs \in Seq([sym : FuncSym, slot : Nat])
  <2>1. DOMAIN table \subseteq DOMAIN table' /\ loads' \in Nat /\ loads' >= loads
    BY <1>1, <1>2 DEF TypeOK
  <2> QED BY <1>1, <2>1, LibrariesKept
<1>5. OtherType'
  BY <1>4 DEF OtherType
<1>6. TypeOK'
  BY <1>3, <1>5 DEF TypeOK, LinkerType, OtherType
<1> QED BY <1>3, <1>4, <1>6 DEF SlotInv, SlotsSound

(* A dlopen begins. *)
LEMMA BeginOpenStep == ASSUME NEW p \in Lib, SlotInv, BeginOpen(p) PROVE SlotInv'
<1> DEFINE R == [path : Lib, need : Nat \ {0}]
           r == [path |-> p, need |-> 1]
<1>1. /\ ~ending /\ tries < MaxTries /\ ~Loaded(p)
      /\ tries' = tries + 1 /\ frames' = <<r>>
      /\ UNCHANGED linker /\ UNCHANGED <<runs, ending, loads, clean, started>>
  BY DEF BeginOpen, Idle
<1>2. TypeOK /\ RunsSound /\ MaxTries \in Nat
  BY BoundAssumption DEF SlotInv, SlotsSound
<1>3. r \in R
  OBVIOUS
<1>4. frames' \in Seq(R) /\ Len(frames') = 1 /\ DOMAIN frames' = 1 .. 1 /\ frames'[1] = r
  BY <1>1, <1>3
<1>5. Len(Needs[p]) \in Nat
  BY LibraryAssumption, LenProperties
<1>6. r.path = p /\ r.need = 1
  OBVIOUS
<1> HIDE DEF r, R
<1>7. \A h : h \in DOMAIN libs' => libs'[h].path # p
  BY <1>1 DEF Loaded, linker
<1>8. FramesSound'
  <2>1. \A i \in DOMAIN frames' : i = 1 /\ frames'[i].path = p /\ frames'[i].need = 1 /\ ~(i < Len(frames'))
    BY <1>4, <1>6
  <2>2. 1 <= Len(Needs[p]) + 1 /\ 1 .. 1 - 1 = {}
    BY <1>5
  <2>3. \A i \in DOMAIN frames' : /\ frames'[i].need <= Len(Needs[frames'[i].path]) + 1
                                  /\ 1 .. frames'[i].need - 1 = {}
    BY <2>1, <2>2
  <2>4. ~ending'
    BY <1>1
  <2>5. frames' \in Seq([path : Lib, need : Nat \ {0}])
    BY <1>4 DEF R
  <2> QED BY <1>7, <2>1, <2>3, <2>4, <2>5 DEF FramesSound, Loaded
<1>9. RunsSound'
  BY <1>1, <1>2 DEF RunsSound
<1>10. tries' \in 0 .. MaxTries
  BY <1>1, <1>2 DEF TypeOK
<1>11. \A i \in DOMAIN frames' : frames'[i].path \in Lib /\ frames'[i].need \in Nat
  BY <1>4, <1>6
<1>12. ending' \in BOOLEAN /\ clean' \in BOOLEAN /\ started' \in 0 .. MaxRuns
  BY <1>1, <1>2 DEF TypeOK
<1> QED BY <1>1, <1>8, <1>9, <1>10, <1>11, <1>12, LinkerAsItIs

(* The dlopen on top goes on to its next library, or waits for it. *)
LEMMA OpenNeededStep == SlotInv /\ OpenNeeded => SlotInv'
<1>1. SUFFICES ASSUME SlotInv, OpenNeeded PROVE SlotInv'
  OBVIOUS
<1> DEFINE R == [path : Lib, need : Nat \ {0}]
           l == Len(frames)
           m == Needs[Top.path][Top.need]
           r == [path |-> m, need |-> 1]
<1>2. /\ frames # <<>> /\ ~(Top.need > Len(Needs[Top.path]))
      /\ frames' = IF Loaded(m) THEN [frames EXCEPT ![l].need = @ + 1] ELSE Append(frames, r)
      /\ UNCHANGED linker /\ UNCHANGED <<runs, ending, loads, tries, clean, started>>
  BY <1>1 DEF OpenNeeded, NeedsDone
<1>3. TypeOK /\ RunsSound /\ FramesSound /\ frames \in Seq(R)
  BY <1>1 DEF SlotInv, SlotsSound, FramesSound
<1>4. /\ l \in Nat \ {0} /\ l \in DOMAIN frames /\ DOMAIN frames = 1 .. l
      /\ Top.path \in Lib /\ Top.need \in Nat \ {0} /\ Top = frames[l]
  BY <1>2, <1>3, TopFacts DEF Top
<1>5. Top.need \in 1 .. Len(Needs[Top.path]) /\ Len(Needs[Top.path]) \in Nat
  <2>1. Len(Needs[Top.path]) \in Nat
    BY <1>4, LibraryAssumption, LenProperties
  <2> QED BY <1>2, <1>4, <2>1
<1>6. m \in Lib
  <2>1. Needs[Top.path] \in Seq(Lib)
    BY <1>4, LibraryAssumption
  <2> QED BY <1>5, <2>1, ElementOfSeq
<1>7. \A i \in 1 .. l : frames[i] \in R
  BY <1>3, <1>4, ElementOfSeq
<1>8. \A i \in 1 .. l : ~Loaded(frames[i].path) /\ frames[i].need <= Len(Needs[frames[i].path]) + 1
  BY <1>3, <1>4 DEF FramesSound
<1>9. \A i \in 1 .. l : \A j \in 1 .. frames[i].need - 1 : Loaded(Needs[frames[i].path][j])
  BY <1>3, <1>4 DEF FramesSound
<1>10. \A i \in 1 .. l : i < l => /\ frames[i].need <= Len(Needs[frames[i].path])
                                  /\ frames[i + 1].path = Needs[frames[i].path][frames[i].need]
  BY <1>3, <1>4 DEF FramesSound, Waits
<1>11. ~ending
  BY <1>2, <1>3 DEF FramesSound
<1>12. \A p : (\E h \in DOMAIN libs' : libs'[h].path = p) <=> Loaded(p)
  BY <1>2 DEF linker, Loaded
<1> HIDE DEF R, l, m
<1>13. CASE Loaded(m)
  <2>1. frames' = [frames EXCEPT ![l].need = @ + 1]
    BY <1>2, <1>13
  <2>2. /\ DOMAIN frames' = 1 .. l /\ \A i \in 1 .. l : i # l => frames'[i] = frames[i]
        /\ frames'[l] = [frames[l] EXCEPT !.need = @ + 1]
    BY <1>4, <2>1
  <2>3. frames[l] \in [path : Lib, need : Nat \ {0}]
    BY <1>4, <1>7 DEF R
  <2>4. frames'[l].path = frames[l].path /\ frames'[l].need = frames[l].need + 1 /\ frames'[l] \in [path : Lib, need : Nat \ {0}]
    BY <2>2, <2>3
  <2>5. \A i \in 1 .. l : frames'[i] \in R /\ frames'[i].path = frames[i].path
    BY <1>7, <2>2, <2>4 DEF R
  <2>6. frames' \in Seq(R) /\ Len(frames') = l
    <3>1. frames' = [i \in 1 .. l |-> frames'[i]]
      BY <1>4, <2>1, <2>2
    <3>2. frames' \in [1 .. l -> R]
      BY <2>5, <3>1
    <3>3. l \in Nat
      BY <1>4
    <3>4. frames' \in Seq(R)
      BY <3>2, <3>3, SeqDef
    <3> QED BY <2>2, <3>3, <3>4, LenProperties
  <2>7. \A i \in 1 .. l : /\ frames'[i].need <= Len(Needs[frames'[i].path]) + 1
                          /\ \A j \in 1 .. frames'[i].need - 1 : Loaded(Needs[frames'[i].path][j])
    <3> TAKE i \in 1 .. l
    <3>1. CASE i # l
      BY <1>8, <1>9, <2>2, <3>1
    <3>2. CASE i = l
      <4>1. frames'[i].need = Top.need + 1 /\ frames'[i].path = Top.path
        BY <1>4, <2>4, <3>2
      <4>2. \A j \in 1 .. Top.need : Loaded(Needs[Top.path][j])
        <5> TAKE j \in 1 .. Top.need
        <5>1. j \in 1 .. Top.need - 1 \/ j = Top.need
          BY <1>4
        <5>2. \A k \in 1 .. Top.need - 1 : Loaded(Needs[Top.path][k])
          BY <1>4, <1>9
        <5> QED BY <1>13, <5>1, <5>2 DEF m
      <4>3. Top.need + 1 - 1 = Top.need /\ Top.need + 1 <= Len(Needs[Top.path]) + 1
        BY <1>5
      <4>4. frames'[i].need - 1 = Top.need
        BY <1>4, <4>1
      <4> QED BY <4>1, <4>2, <4>3, <4>4
    <3> QED BY <3>1, <3>2
  <2>8. \A i \in 1 .. l : i < l => /\ frames'[i].need <= Len(Needs[frames'[i].path])
                                   /\ frames'[i + 1].path = Needs[frames'[i].path][frames'[i].need]
    <3> TAKE i \in 1 .. l
    <3>1. SUFFICES ASSUME i < l PROVE /\ frames'[i].need <= Len(Needs[frames'[i].path])
                                      /\ frames'[i + 1].path = Needs[frames'[i].path][frames'[i].need]
      OBVIOUS
    <3>2. i # l /\ i + 1 \in 1 .. l
      BY <1>4, <3>1
    <3>3. frames'[i] = frames[i] /\ frames'[i + 1].path = frames[i + 1].path
      BY <2>2, <2>5, <3>2
    <3> QED BY <1>10, <3>1, <3>3
  <2>10. ~ending'
    BY <1>2, <1>11
  <2>14. \A i \in 1 .. l : ~Loaded(frames'[i].path)
    BY <1>8, <2>5
  <2>15. DOMAIN frames' = 1 .. l /\ frames' \in Seq([path : Lib, need : Nat \ {0}])
    BY <2>2, <2>6 DEF R
  <2>16. \A i \in DOMAIN frames' : i < Len(frames') => /\ frames'[i].need <= Len(Needs[frames'[i].path])
                                                      /\ frames'[i + 1].path = Waits(i)'
    BY <2>6, <2>8, <2>15 DEF Waits
  <2>11. FramesSound'
    BY <1>12, <2>7, <2>10, <2>14, <2>15, <2>16 DEF FramesSound, Loaded
  <2>12. \A i \in DOMAIN frames' : frames'[i].path \in Lib /\ frames'[i].need \in Nat
    BY <2>2, <2>5 DEF R
  <2>13. RunsSound'
    BY <1>2, <1>3 DEF RunsSound
  <2> QED BY <1>1, <1>2, <1>3, <2>11, <2>12, <2>13, LinkerAsItIs DEF TypeOK
<1>14. CASE ~Loaded(m)
  <2>1. frames' = Append(frames, r) /\ r \in R /\ r.path = m /\ r.need = 1
    BY <1>2, <1>6, <1>14 DEF R
  <2> HIDE DEF r
  <2>2. /\ frames' \in Seq(R) /\ Len(frames') = l + 1 /\ \A i \in 1 .. l : frames'[i] = frames[i]
        /\ frames'[l + 1] = r
    BY <1>3, <2>1, AppendProperties DEF l
  <2>3. DOMAIN frames' = 1 .. l + 1
    BY <2>2, LenProperties
  <2>4. \A i \in DOMAIN frames' : i \in 1 .. l \/ i = l + 1
    BY <1>4, <2>3
  <2>5. Len(Needs[m]) \in Nat
    BY <1>6, LibraryAssumption, LenProperties
  <2>6. \A i \in DOMAIN frames' : /\ ~Loaded(frames'[i].path)
                                  /\ frames'[i].need <= Len(Needs[frames'[i].path]) + 1
                                  /\ \A j \in 1 .. frames'[i].need - 1 : Loaded(Needs[frames'[i].path][j])
    <3> TAKE i \in DOMAIN frames'
    <3>1. CASE i \in 1 .. l
      BY <1>8, <1>9, <2>2, <3>1
    <3>2. CASE i = l + 1
      <4>1. frames'[i].path = m /\ frames'[i].need = 1
        BY <2>1, <2>2, <3>2
      <4> QED BY <1>14, <2>5, <4>1
    <3> QED BY <2>4, <3>1, <3>2
  <2>7. \A i \in DOMAIN frames' : i < Len(frames') =>
          /\ frames'[i].need <= Len(Needs[frames'[i].path])
          /\ frames'[i + 1].path = Needs[frames'[i].path][frames'[i].need]
    <3> TAKE i \in DOMAIN frames'
    <3>1. SUFFICES ASSUME i < l + 1
                   PROVE  /\ frames'[i].need <= Len(Needs[frames'[i].path])
                          /\ frames'[i + 1].path = Needs[frames'[i].path][frames'[i].need]
      BY <2>2
    <3>2. i \in 1 .. l
      BY <1>4, <2>3, <3>1
    <3>3. CASE i = l
      <4>1. frames'[i] = Top /\ frames'[i + 1].path = m
        BY <1>4, <2>1, <2>2, <3>2, <3>3
      <4> QED BY <1>5, <4>1 DEF m
    <3>4. CASE i # l
      <4>1. i < l /\ i + 1 \in 1 .. l
        BY <1>4, <3>2, <3>4
      <4>2. frames'[i] = frames[i] /\ frames'[i + 1] = frames[i + 1]
        BY <2>2, <3>2, <4>1
      <4> QED BY <1>10, <3>2, <4>1, <4>2
    <3> QED BY <3>3, <3>4
  <2>9. ~ending'
    BY <1>2, <1>11
  <2>10. FramesSound'
    BY <1>12, <2>2, <2>6, <2>7, <2>9 DEF FramesSound, Waits, Loaded, R
  <2>11. \A i \in DOMAIN frames' : frames'[i].path \in Lib /\ frames'[i].need \in Nat
    <3> TAKE i \in DOMAIN frames'
    <3>1. frames'[i] \in [path : Lib, need : Nat \ {0}]
      BY <2>2, ElementOfSeq, <2>3 DEF R
    <3> QED BY <3>1
  <2>12. RunsSound'
    BY <1>2, <1>3 DEF RunsSound
  <2> QED BY <1>1, <1>2, <1>3, <2>10, <2>11, <2>12, LinkerAsItIs DEF TypeOK
<1> QED BY <1>13, <1>14

(* Closing a library frees its slots. *)
LEMMA UnloadFacts ==
  ASSUME SlotInv, NEW h \in DOMAIN libs, Unload(h), UNCHANGED <<next, got, funcMap, memMap, loads>>
  PROVE  /\ LinkerType' /\ AvailableAreFree' /\ ReservedAreFree' /\ MainSound'
         /\ OwnedAreSet' /\ OneHandle' /\ IsFiniteSet(DOMAIN libs')
         /\ DOMAIN libs' \subseteq Handle
         /\ \A k \in DOMAIN libs' : /\ libs'[k].path \in Path /\ libs'[k].load \in MainInstance .. loads'
                                   /\ libs'[k].ptrs \in Seq([sym : FuncSym, slot : Nat])
         /\ DOMAIN libs' = DOMAIN libs \ {h} /\ \A k \in DOMAIN libs' : libs'[k] = libs[k]
         /\ DOMAIN table' = DOMAIN table \ SlotsOf(h) /\ \A x \in DOMAIN table' : table'[x] = table[x]
<1> DEFINE o == Slots(libs[h])
           f == Freed(libs[h])
           S == SlotsOf(h)
<1>1. /\ TypeOK /\ AvailableAreFree /\ ReservedAreFree /\ OwnedAreSet /\ OneHandle /\ MainSound
      /\ IsFiniteSet(DOMAIN libs)
  BY DEF SlotInv, SlotsSound
<1>2. /\ table' = [x \in DOMAIN table \ S |-> table[x]]
      /\ available' = available \o f
      /\ libs' = [k \in DOMAIN libs \ {h} |-> libs[k]] /\ clean' = FALSE
  BY DEF Unload, Without, SlotsOf
<1>3. o \in Seq(Nat) /\ IsInjective(o) /\ ToSet(o) = S
  <2>1. libs[h].ptrs \in Seq([sym : FuncSym, slot : Nat])
    BY <1>1 DEF TypeOK
  <2>2. PICK n \in Nat : DOMAIN libs[h].ptrs = 1 .. n
    BY <2>1, LenProperties
  <2>3. \A i \in 1 .. n : libs[h].ptrs[i] \in [sym : FuncSym, slot : Nat]
    BY <2>1, <2>2, LenProperties, ElementOfSeq
  <2>4. o \in [1 .. n -> Nat]
    BY <2>2, <2>3 DEF Slots
  <2>5. o \in Seq(Nat)
    BY <2>4, SeqDef
  <2>6. IsInjective(o)
    BY <1>1 DEF OwnedAreSet
  <2> QED BY <2>5, <2>6 DEF SlotsOf
<1>4. S \subseteq DOMAIN table /\ S \cap DOMAIN MainTable = {}
  BY <1>1 DEF OwnedAreSet
<1>5. f = Kept(o, Nat \ ToSet(available))
  BY DEF Freed
<1> HIDE DEF o, f, S
<1>6. f \in Seq(Nat) /\ ToSet(f) = S /\ IsInjective(f)
  <2>1. /\ f \in Seq(Nat \cap (Nat \ ToSet(available))) /\ ToSet(f) = ToSet(o) \cap (Nat \ ToSet(available))
        /\ IsInjective(f)
    BY <1>3, <1>5, KeptFacts
  <2>2. f \in Seq(Nat)
    BY <2>1, SeqMonotonic
  <2>3. S \subseteq Nat \ ToSet(available)
    BY <1>1, <1>4 DEF AvailableAreFree, TypeOK
  <2> QED BY <1>3, <2>1, <2>2, <2>3
<1>7. available \in Seq(Nat) /\ IsInjective(available) /\ ToSet(available) \cap DOMAIN table = {}
  BY <1>1 DEF TypeOK, AvailableAreFree
<1>8. available' \in Seq(Nat) /\ ToSet(available') = ToSet(available) \cup S /\ IsInjective(available')
  <2>1. ToSet(available) \cap ToSet(f) = {}
    BY <1>4, <1>6, <1>7
  <2>2. /\ available \o f \in Seq(Nat) /\ ToSet(available \o f) = ToSet(available) \cup ToSet(f)
        /\ IsInjective(available \o f)
    BY <1>6, <1>7, <2>1, ConcatToSet
  <2> QED BY <1>2, <1>6, <2>2
<1>9. DOMAIN table' = DOMAIN table \ S /\ \A x \in DOMAIN table' : table'[x] = table[x]
  BY <1>2
<1>10. DOMAIN libs' = DOMAIN libs \ {h} /\ \A k \in DOMAIN libs' : libs'[k] = libs[k]
  BY <1>2
<1>11. UNCHANGED <<next, got, funcMap, memMap, loads>>
  OBVIOUS
<1>12. LinkerType'
  BY <1>1, <1>8, <1>9, <1>11 DEF LinkerType, TypeOK
<1>13. AvailableAreFree'
  <2>1. ToSet(available') \cup DOMAIN table' \subseteq Index
    BY <1>1, <1>4, <1>8, <1>9 DEF AvailableAreFree
  <2>2. ToSet(available') \cap DOMAIN table' = {}
    BY <1>7, <1>8, <1>9
  <2> QED BY <1>8, <1>11, <2>1, <2>2 DEF AvailableAreFree, Index
<1>14. ReservedAreFree'
  <2>1. Reserved' = Reserved
    BY <1>11 DEF Reserved
  <2>2. Reserved' \cap (DOMAIN table' \cup ToSet(available')) = {}
    BY <1>1, <1>4, <1>8, <1>9, <2>1 DEF ReservedAreFree
  <2> QED BY <1>1, <1>11, <2>1, <2>2 DEF ReservedAreFree, Index
<1>15. MainSound'
  BY <1>1, <1>4, <1>9 DEF MainSound
<1>16. \A k \in DOMAIN libs' : SlotsOf(k)' = SlotsOf(k) /\ Slots(libs'[k]) = Slots(libs[k]) /\ k \in DOMAIN libs /\ k # h
  BY <1>10 DEF SlotsOf, Slots
<1>17. OwnedAreSet'
  <2>1. \A k \in DOMAIN libs' : SlotsOf(k) \cap S = {}
    BY <1>1, <1>16 DEF OwnedAreSet, S
  <2>2. \A k \in DOMAIN libs' : /\ IsInjective(Slots(libs'[k])) /\ SlotsOf(k)' \subseteq DOMAIN table'
                                /\ SlotsOf(k)' \cap DOMAIN MainTable = {}
    BY <1>1, <1>9, <1>16, <2>1 DEF OwnedAreSet
  <2>3. \A k, j \in DOMAIN libs' : k # j => SlotsOf(k)' \cap SlotsOf(j)' = {}
    BY <1>1, <1>16 DEF OwnedAreSet
  <2> QED BY <2>2, <2>3 DEF OwnedAreSet
<1>18. OneHandle'
  BY <1>1, <1>10 DEF OneHandle
<1>19. IsFiniteSet(DOMAIN libs')
  BY <1>1, <1>10, FS_Subset
<1>20. /\ DOMAIN libs' \subseteq Handle
       /\ \A k \in DOMAIN libs' : /\ libs'[k].path \in Path /\ libs'[k].load \in MainInstance .. loads'
                                 /\ libs'[k].ptrs \in Seq([sym : FuncSym, slot : Nat])
  BY <1>1, <1>10, <1>11 DEF TypeOK
<1> QED BY <1>9, <1>10, <1>12, <1>13, <1>14, <1>15, <1>17, <1>18, <1>19, <1>20 DEF S

(* A closed library leaves what is saved of the programs that wait.        *)
LEMMA ShutFacts ==
  ASSUME RunsSound, NEW h
  PROVE  /\ Shut(h) \in Seq(ToSet(Shut(h))) /\ DOMAIN Shut(h) = DOMAIN runs /\ Len(Shut(h)) = Len(runs)
         /\ \A i \in DOMAIN runs :
              /\ DOMAIN Shut(h)[i] = {"libs", "got", "clean", "shut"}
              /\ Shut(h)[i].libs = runs[i].libs /\ Shut(h)[i].got = runs[i].got
              /\ Shut(h)[i].clean = runs[i].clean /\ runs[i].shut \subseteq Shut(h)[i].shut
              /\ Held(Shut(h)[i]) = Held(runs[i]) \ {h}
<1> DEFINE n == Len(runs)
           u == Shut(h)
<1>1. n \in Nat /\ DOMAIN runs = 1 .. n
  BY LenProperties DEF RunsSound
<1> HIDE DEF n
<1>2. DOMAIN u = DOMAIN runs
  BY DEF Shut
<1>3. u \in [1 .. n -> ToSet(u)]
  BY <1>1 DEF Shut, ToSet
<1>4. u \in Seq(ToSet(u)) /\ Len(u) = n
  <2> HIDE DEF u
  <2>1. u \in Seq(ToSet(u))
    BY <1>1, <1>3, SeqDef
  <2> QED BY <1>1, <1>2, <2>1, LenProperties
<1>5. ASSUME NEW i \in DOMAIN runs
      PROVE  /\ DOMAIN u[i] = {"libs", "got", "clean", "shut"}
             /\ u[i].libs = runs[i].libs /\ u[i].got = runs[i].got /\ u[i].clean = runs[i].clean
             /\ u[i].shut = IF h \in DOMAIN runs[i].libs THEN runs[i].shut \cup {h} ELSE runs[i].shut
  <2>1. DOMAIN runs[i] = {"libs", "got", "clean", "shut"}
    BY DEF RunsSound
  <2>2. u[i] = IF h \in DOMAIN runs[i].libs THEN [runs[i] EXCEPT !.shut = @ \cup {h}] ELSE runs[i]
    BY DEF Shut
  <2> HIDE DEF u
  <2>3. CASE h \in DOMAIN runs[i].libs
    <3>1. u[i] = [runs[i] EXCEPT !.shut = @ \cup {h}]
      BY <2>2, <2>3
    <3> QED BY <2>1, <2>3, <3>1
  <2>4. CASE h \notin DOMAIN runs[i].libs
    BY <2>1, <2>2, <2>4
  <2> QED BY <2>3, <2>4
<1> HIDE DEF u
<1>6. \A i \in DOMAIN runs : runs[i].shut \subseteq u[i].shut /\ Held(u[i]) = Held(runs[i]) \ {h}
  BY <1>5 DEF Held
<1> QED BY <1>2, <1>4, <1>5, <1>6 DEF n, u

(* A program closes a library. *)
LEMMA DlcloseStep == ASSUME NEW h \in DOMAIN libs, SlotInv, Dlclose(h) PROVE SlotInv'
<1>1. /\ frames = <<>> /\ ~ending /\ Unload(h) /\ runs' = Shut(h)
      /\ UNCHANGED <<next, got, funcMap, memMap, loads>>
      /\ UNCHANGED <<frames, ending, tries, started>>
  BY DEF Dlclose, Idle
<1>2. TypeOK /\ RunsSound
  BY DEF SlotInv, SlotsSound
<1>3. /\ LinkerType' /\ AvailableAreFree' /\ ReservedAreFree' /\ MainSound'
      /\ OwnedAreSet' /\ OneHandle' /\ IsFiniteSet(DOMAIN libs')
      /\ DOMAIN libs' \subseteq Handle
      /\ \A k \in DOMAIN libs' : /\ libs'[k].path \in Path /\ libs'[k].load \in MainInstance .. loads'
                                /\ libs'[k].ptrs \in Seq([sym : FuncSym, slot : Nat])
  BY <1>1, UnloadFacts
<1>5. clean' \in BOOLEAN
  BY <1>1 DEF Unload
<1>6. OtherType'
  BY <1>1, <1>2, <1>3, <1>5 DEF TypeOK, OtherType
<1>7. TypeOK'
  BY <1>3, <1>6 DEF TypeOK, LinkerType, OtherType
<1>8. FramesSound'
  BY <1>1, NoFramesNext
<1>9. RunsSound'
  <2>1. /\ runs' \in Seq(ToSet(runs')) /\ DOMAIN runs' = DOMAIN runs
        /\ \A i \in DOMAIN runs : /\ DOMAIN runs'[i] = {"libs", "got", "clean", "shut"}
                                 /\ runs'[i].clean = runs[i].clean
    BY <1>1, <1>2, ShutFacts
  <2>2. ~ending'
    BY <1>1
  <2> QED BY <1>2, <2>1, <2>2 DEF RunsSound
<1> QED BY <1>3, <1>7, <1>8, <1>9 DEF SlotInv, SlotsSound

(* The end of a run closes a library that the program left open. *)
LEMMA CloseNewStep == SlotInv /\ CloseNew => SlotInv'
<1>1. SUFFICES ASSUME SlotInv, CloseNew PROVE SlotInv'
  OBVIOUS
<1>2. /\ frames = <<>> /\ runs # <<>> /\ ending' = TRUE
      /\ UNCHANGED <<next, got, funcMap, memMap, loads>>
      /\ UNCHANGED <<frames, runs, tries, started>>
  BY <1>1 DEF CloseNew
<1>3. PICK h \in DOMAIN libs : Unload(h)
  BY <1>1 DEF CloseNew, NewHandles
<1>4. TypeOK /\ RunsSound
  BY <1>1 DEF SlotInv, SlotsSound
<1>5. /\ LinkerType' /\ AvailableAreFree' /\ ReservedAreFree' /\ MainSound'
      /\ OwnedAreSet' /\ OneHandle' /\ IsFiniteSet(DOMAIN libs')
      /\ DOMAIN libs' \subseteq Handle
      /\ \A k \in DOMAIN libs' : /\ libs'[k].path \in Path /\ libs'[k].load \in MainInstance .. loads'
                                /\ libs'[k].ptrs \in Seq([sym : FuncSym, slot : Nat])
  BY <1>1, <1>2, <1>3, UnloadFacts
<1>6. clean' \in BOOLEAN
  BY <1>3 DEF Unload
<1>7. OtherType'
  BY <1>2, <1>4, <1>5, <1>6 DEF TypeOK, OtherType
<1>8. TypeOK'
  BY <1>5, <1>7 DEF TypeOK, LinkerType, OtherType
<1>9. FramesSound'
  BY <1>2, NoFramesNext
<1>10. RunsSound'
  BY <1>2, <1>4 DEF RunsSound
<1> QED BY <1>5, <1>8, <1>9, <1>10 DEF SlotInv, SlotsSound

(* The saved states stay in a sequence. *)
LEMMA BeginRunStep == SlotInv /\ BeginRun => SlotInv'
<1> DEFINE r == [libs |-> libs, got |-> got, clean |-> clean, shut |-> {}]
<1>1. SUFFICES ASSUME SlotInv, BeginRun PROVE SlotInv'
  OBVIOUS
<1>2. /\ frames = <<>> /\ ~ending /\ started < MaxRuns /\ started' = started + 1
      /\ runs' = Append(runs, r)
      /\ UNCHANGED linker /\ UNCHANGED <<frames, ending, loads, tries, clean>>
  BY <1>1 DEF BeginRun, Idle
<1>3. TypeOK /\ RunsSound /\ MaxRuns \in Nat
  BY <1>1, BoundAssumption DEF SlotInv, SlotsSound
<1>4. DOMAIN r = {"libs", "got", "clean", "shut"} /\ r.clean = clean
  OBVIOUS
<1> HIDE DEF r
<1>5. started' \in 0 .. MaxRuns
  BY <1>2, <1>3 DEF TypeOK
<1>6. RunsSound'
  <2> DEFINE n == Len(runs)
  <2>1. runs \in Seq(ToSet(runs))
    BY <1>3 DEF RunsSound
  <2>2. /\ runs' \in Seq(ToSet(runs')) /\ DOMAIN runs = 1 .. n /\ n \in Nat
        /\ DOMAIN runs' = 1 .. n + 1 /\ \A i \in 1 .. n : runs'[i] = runs[i]
        /\ runs'[n + 1] = r
    BY <1>2, <2>1, AppendToSet
  <2> HIDE DEF n
  <2>3. r.clean \in BOOLEAN
    BY <1>3, <1>4 DEF TypeOK
  <2>4. \A i \in DOMAIN runs' : i \in 1 .. n \/ i = n + 1
    BY <2>2
  <2>5. \A i \in DOMAIN runs' : /\ DOMAIN runs'[i] = {"libs", "got", "clean", "shut"}
                               /\ runs'[i].clean \in BOOLEAN
    BY <1>3, <1>4, <2>2, <2>3, <2>4 DEF RunsSound
  <2>6. ~ending'
    BY <1>2
  <2> QED BY <2>2, <2>5, <2>6 DEF RunsSound
<1>7. FramesSound'
  BY <1>2, NoFramesNext
<1>8. /\ \A i \in DOMAIN frames' : frames'[i].path \in Lib /\ frames'[i].need \in Nat
      /\ ending' \in BOOLEAN /\ clean' \in BOOLEAN /\ tries' \in 0 .. MaxTries
  BY <1>2, <1>3 DEF TypeOK
<1> QED BY <1>1, <1>2, <1>5, <1>6, <1>7, <1>8, LinkerAsItIs

(* The names that are forgotten leave their slots to nobody. *)
LEMMA EndRunStep == SlotInv /\ EndRun => SlotInv'
<1> DEFINE saved == Last(runs)
           old == DOMAIN saved.got
           n == Len(runs)
<1>1. SUFFICES ASSUME SlotInv, EndRun PROVE SlotInv'
  OBVIOUS
<1>2. /\ frames = <<>> /\ runs # <<>> /\ runs' = Front(runs) /\ ending' = FALSE
      /\ got' = Without(got, DOMAIN got \ old) /\ funcMap' = Kept(funcMap, old)
      /\ memMap' = Kept(memMap, old)
      /\ clean' = (saved.clean /\ saved.shut = {})
      /\ UNCHANGED <<table, available, next, libs, frames, loads, tries, started>>
  BY <1>1 DEF EndRun, ForgetNew
<1>3. TypeOK /\ RunsSound /\ AvailableAreFree /\ ReservedAreFree /\ MainSound
  BY <1>1 DEF SlotInv, SlotsSound
<1>4. /\ n \in Nat /\ n >= 1 /\ DOMAIN runs = 1 .. n /\ saved = runs[n]
      /\ runs' \in Seq(ToSet(runs')) /\ DOMAIN runs' = 1 .. n - 1
      /\ \A i \in 1 .. n - 1 : runs'[i] = runs[i]
  <2>1. runs \in Seq(ToSet(runs))
    BY <1>3 DEF RunsSound
  <2> QED BY <1>2, <2>1, FrontFacts DEF Last
<1> HIDE DEF saved, n
<1>5. clean' \in BOOLEAN
  BY <1>2
<1>6. RunsSound'
  <2>1. \A i \in 1 .. n - 1 : i \in DOMAIN runs
    BY <1>4
  <2> QED BY <1>2, <1>3, <1>4, <2>1 DEF RunsSound
<1> HIDE DEF old
<1>7. DOMAIN got' = DOMAIN got \cap old /\ \A s \in DOMAIN got' : got'[s] = got[s]
  <2>1. got' = [s \in DOMAIN got \ (DOMAIN got \ old) |-> got[s]]
    BY <1>2 DEF Without
  <2> QED BY <2>1
<1>8. funcMap \in Seq(FuncSym \cap DOMAIN got) /\ IsInjective(funcMap) /\ memMap \in Seq(DataSym \cap DOMAIN got)
  BY <1>3 DEF TypeOK, ReservedAreFree
<1>9. /\ funcMap' \in Seq(FuncSym \cap DOMAIN got') /\ IsInjective(funcMap')
      /\ ToSet(funcMap') = ToSet(funcMap) \cap old
      /\ memMap' \in Seq(DataSym \cap DOMAIN got')
  <2>1. /\ Kept(funcMap, old) \in Seq((FuncSym \cap DOMAIN got) \cap old)
        /\ ToSet(Kept(funcMap, old)) = ToSet(funcMap) \cap old /\ IsInjective(Kept(funcMap, old))
    BY <1>8, KeptFacts
  <2>2. Kept(memMap, old) \in Seq((DataSym \cap DOMAIN got) \cap old)
    BY <1>8, KeptFacts
  <2>3. /\ (FuncSym \cap DOMAIN got) \cap old \subseteq FuncSym \cap DOMAIN got'
        /\ (DataSym \cap DOMAIN got) \cap old \subseteq DataSym \cap DOMAIN got'
    BY <1>7
  <2>4. Kept(funcMap, old) \in Seq(FuncSym \cap DOMAIN got') /\ Kept(memMap, old) \in Seq(DataSym \cap DOMAIN got')
    BY <2>1, <2>2, <2>3, SeqMonotonic
  <2> QED BY <1>2, <2>1, <2>4
<1>10. \A i \in DOMAIN funcMap' : \E j \in DOMAIN funcMap :
         funcMap[j] = funcMap'[i] /\ got'[funcMap'[i]] = got[funcMap[j]]
  <2> TAKE i \in DOMAIN funcMap'
  <2>1. funcMap'[i] \in ToSet(funcMap')
    BY DEF ToSet
  <2>2. PICK j \in DOMAIN funcMap : funcMap[j] = funcMap'[i]
    BY <1>9, <2>1 DEF ToSet
  <2>3. funcMap'[i] \in DOMAIN got'
    <3>1. DOMAIN funcMap' = 1 .. Len(funcMap')
      BY <1>9, LenProperties
    <3> QED BY <1>9, <3>1, ElementOfSeq
  <2> QED BY <1>7, <2>2, <2>3
<1>11. ReservedAreFree'
  <2>1. Reserved' \subseteq Reserved
    BY <1>10 DEF Reserved
  <2>2. \A i, j \in DOMAIN funcMap' : got'[funcMap'[i]] = got'[funcMap'[j]] => i = j
    <3>1. SUFFICES ASSUME NEW i \in DOMAIN funcMap', NEW j \in DOMAIN funcMap',
                          got'[funcMap'[i]] = got'[funcMap'[j]]
                   PROVE  i = j
      OBVIOUS
    <3>2. PICK a \in DOMAIN funcMap : funcMap[a] = funcMap'[i] /\ got'[funcMap'[i]] = got[funcMap[a]]
      BY <1>10
    <3>3. PICK b \in DOMAIN funcMap : funcMap[b] = funcMap'[j] /\ got'[funcMap'[j]] = got[funcMap[b]]
      BY <1>10
    <3>4. a = b
      BY <1>3, <3>1, <3>2, <3>3 DEF ReservedAreFree, IsInjective
    <3> QED BY <1>9, <3>2, <3>3, <3>4 DEF IsInjective
  <2>3. IsInjective([i \in DOMAIN funcMap' |-> got'[funcMap'[i]]])
    BY <2>2 DEF IsInjective
  <2> QED BY <1>2, <1>3, <1>9, <2>1, <2>3 DEF ReservedAreFree, Index
<1>12. AvailableAreFree' /\ MainSound'
  BY <1>2, <1>3 DEF AvailableAreFree, Index, MainSound
<1>13. LinkerType'
  BY <1>2, <1>3, <1>7, <1>9 DEF LinkerType, TypeOK
<1>14. /\ OwnedAreSet' /\ OneHandle' /\ IsFiniteSet(DOMAIN libs')
       /\ DOMAIN libs' \subseteq Handle
       /\ \A h \in DOMAIN libs' : /\ libs'[h].path \in Path /\ libs'[h].load \in MainInstance .. loads'
                                 /\ libs'[h].ptrs \in Seq([sym : FuncSym, slot : Nat])
  <2>1. DOMAIN table \subseteq DOMAIN table' /\ loads' \in Nat /\ loads' >= loads
    BY <1>2, <1>3 DEF TypeOK
  <2> QED BY <1>1, <1>2, <2>1, LibrariesKept
<1>15. OtherType'
  BY <1>2, <1>3, <1>5, <1>14 DEF OtherType, TypeOK
<1>16. TypeOK'
  BY <1>13, <1>15 DEF TypeOK, LinkerType, OtherType
<1>17. FramesSound'
  BY <1>2, NoFramesNext
<1> QED BY <1>6, <1>11, <1>12, <1>14, <1>16, <1>17 DEF SlotInv, SlotsSound

(* At first only main's functions are set. *)
LEMMA SlotsAtStart == Init => SlotInv
<1>1. SUFFICES ASSUME Init PROVE SlotInv
  OBVIOUS
<1> DEFINE l == Len(MainTable)
<1>2. l \in Nat /\ DOMAIN MainTable = 1 .. l /\ \A i \in 1 .. l : MainTable[i] \in FuncSym
  BY MainAssumption, LenProperties, ElementOfSeq
<1> HIDE DEF l
<1>3. /\ table = [i \in 1 .. l |-> Function(MainInstance, MainTable[i])]
      /\ available = <<>> /\ next = l + 1
      /\ DOMAIN got = {} /\ funcMap = <<>> /\ memMap = <<>>
      /\ DOMAIN libs = {} /\ frames = <<>> /\ runs = <<>> /\ ending = FALSE
      /\ loads = 1 /\ tries = 0 /\ clean = TRUE /\ started = 0
  BY <1>1 DEF Init, l, MainInstance
<1>4. MaxTries \in Nat /\ MaxRuns \in Nat
  BY BoundAssumption
<1>5. DOMAIN table = 1 .. l /\ \A x \in 1 .. l : table[x] = Function(MainInstance, MainTable[x])
  BY <1>3
<1>6. \A x \in 1 .. l : table[x] \in [of : MainInstance .. loads, sym : FuncSym \cup {Element}]
  BY <1>2, <1>3, <1>5 DEF Function, MainInstance
<1>7. /\ available \in Seq(Nat) /\ ToSet(available) = {} /\ IsInjective(available)
      /\ funcMap \in Seq(FuncSym \cap DOMAIN got) /\ memMap \in Seq(DataSym \cap DOMAIN got)
      /\ IsInjective(funcMap) /\ DOMAIN funcMap = {}
      /\ runs \in Seq(ToSet(runs)) /\ DOMAIN runs = {} /\ DOMAIN frames = {}
  BY <1>3, EmptySeq DEF ToSet, IsInjective
<1>8. LinkerType
  <2>1. DOMAIN table \subseteq Nat /\ next \in Nat /\ loads \in Nat \ {0}
    BY <1>2, <1>3, <1>5
  <2>2. \A x \in DOMAIN table : table[x] \in [of : MainInstance .. loads, sym : FuncSym \cup {Element}]
    BY <1>5, <1>6
  <2> QED BY <1>3, <1>7, <2>1, <2>2 DEF LinkerType
<1>9. OtherType
  <2>1. 0 \in 0 .. MaxTries /\ 0 \in 0 .. MaxRuns
    BY <1>4
  <2>2. tries \in 0 .. MaxTries /\ started \in 0 .. MaxRuns
    BY <1>3, <2>1
  <2>3. ending \in BOOLEAN /\ clean \in BOOLEAN
    BY <1>3
  <2> QED BY <1>3, <1>7, <2>2, <2>3 DEF OtherType
<1>10. TypeOK
  BY <1>8, <1>9, TypeParts
<1>11. AvailableAreFree
  BY <1>2, <1>3, <1>5, <1>7 DEF AvailableAreFree, Index
<1>12. ReservedAreFree
  BY <1>7 DEF ReservedAreFree, Reserved, IsInjective
<1>13. OwnedAreSet /\ OneHandle /\ IsFiniteSet(DOMAIN libs)
  BY <1>3, FS_EmptySet DEF OwnedAreSet, OneHandle
<1>14. FramesSound
  BY <1>3, NoFrames
<1>15. RunsSound
  BY <1>3, <1>7 DEF RunsSound
<1>16. MainSound
  BY <1>2, <1>5 DEF MainSound
<1> QED BY <1>10, <1>11, <1>12, <1>13, <1>14, <1>15, <1>16 DEF SlotInv, SlotsSound

(* Every step keeps the owners of the slots. *)
LEMMA SlotsStep == SlotInv /\ [Next]_vars => SlotInv'
<1>1. SUFFICES ASSUME SlotInv, [Next]_vars PROVE SlotInv'
  OBVIOUS
<1>2. CASE Opens
  BY <1>1, <1>2, OpenMainStep, BeginOpenStep DEF Opens
<1>3. CASE Linking
  <2>1. ASSUME NEW k \in 0 .. (IF frames = <<>> THEN 0 ELSE All(Top.path)), ImportFails(k) PROVE SlotInv'
    BY <1>1, <2>1, ImportFailsStep
  <2> QED BY <1>1, <1>3, <2>1, OpenNeededStep, NotALibraryStep, UnresolvedFunctionStep,
             UnresolvedDataStep, CtorsFailStep, LoadStep DEF Linking
<1>4. CASE \E h \in DOMAIN libs : Dlclose(h)
  BY <1>1, <1>4, DlcloseStep
<1>5. CASE BeginRun \/ CloseNew \/ EndRun
  BY <1>1, <1>5, BeginRunStep, CloseNewStep, EndRunStep
<1>6. CASE UNCHANGED vars
  <2>1. UNCHANGED linker /\ UNCHANGED <<frames, runs, ending, loads, tries, clean, started>>
    BY <1>6 DEF vars
  <2>2. TypeOK /\ RunsSound /\ FramesSound
    BY <1>1 DEF SlotInv, SlotsSound
  <2>3. FramesSound'
    <3>1. libs' = libs
      BY <2>1 DEF linker
    <3> QED BY <2>1, <2>2, <3>1 DEF FramesSound, Waits, Loaded
  <2>4. RunsSound'
    BY <2>1, <2>2 DEF RunsSound
  <2> QED BY <1>1, <2>1, <2>2, <2>3, <2>4, LinkerAsItIs DEF TypeOK
<1> QED BY <1>1, <1>2, <1>3, <1>4, <1>5, <1>6 DEF Next

(* Each slot of the function table has one owner, and no slot that is set is *)
(* handed out: setting an index that is set cannot happen, whatever was      *)
(* opened, closed, run in place, or failed before.                           *)
THEOREM SlotsStay == Spec => []SlotsSound
<1>1. Init => SlotInv
  BY SlotsAtStart
<1>2. SlotInv /\ [Next]_vars => SlotInv'
  BY SlotsStep
<1>3. SlotInv => SlotsSound
  BY DEF SlotInv
<1> QED BY <1>1, <1>2, <1>3, PTL DEF Spec

-----------------------------------------------------------------------------
(* The functions that the pointers of a library point to *)

(* Opening sets slots and changes none. *)
LEMMA TableGrows ==
  ASSUME SlotInv, Opens \/ Linking
  PROVE  \A x \in DOMAIN table : x \in DOMAIN table' /\ table'[x] = table[x]
<1> DEFINE p == Top.path
           Grows == \A x \in DOMAIN table : x \in DOMAIN table' /\ table'[x] = table[x]
<1>1. CASE Opens
  BY <1>1 DEF Opens, OpenMain, BeginOpen, linker
<1>2. CASE OpenNeeded \/ NotALibrary
  BY <1>2 DEF OpenNeeded, NotALibrary, linker
<1>3. ASSUME NEW k, ImportFails(k) PROVE Grows
  BY <1>3 DEF ImportFails
<1>4. TypeOK /\ AvailableAreFree /\ ReservedAreFree /\ OwnedAreSet /\ IsFiniteSet(DOMAIN libs) /\ FramesSound
  BY DEF SlotInv, SlotsSound
<1>5. ASSUME frames # <<>>, Instantiate(p) PROVE p \in Lib /\ Len(Pending(p)) \in Nat
  <2>1. p \in Lib
    BY <1>4, <1>5, TopFacts
  <2> QED BY <1>4, <1>5, <2>1, NewSlots DEF Instantiate
<1>6. ASSUME NEW n \in 0 .. Len(Pending(p)), frames # <<>>, Instantiate(p), table' = TableWith(p, n) PROVE Grows
  <2>1. p \in Lib /\ TakeSlots(p, Len(NewFuncs(p, All(p))) + Len(Fresh(p)))
    BY <1>5, <1>6 DEF Instantiate
  <2> HIDE DEF p
  <2>2. \A x : x \in DOMAIN TableWith(p, n) <=>
              \/ x \in DOMAIN table \cup PartOf(p)
              \/ \E i \in 1 .. Len(Fresh(p)) : x = FreshSlot(p, i)
              \/ \E i \in 1 .. n : x = GotRead(p, All(p))[Pending(p)[i]]
    BY <1>4, <2>1, TableFacts
  <2>3. \A x \in DOMAIN table : TableWith(p, n)[x] = table[x]
    BY <1>4, <2>1, TableFacts
  <2> QED BY <1>6, <2>2, <2>3
<1> HIDE DEF Grows
<1>7. CASE UnresolvedFunction
  <2>1. frames # <<>> /\ Instantiate(p)
    BY <1>7 DEF UnresolvedFunction, NeedsDone
  <2>2. PICK n \in 0 .. Len(Pending(p)) - 1 : table' = TableWith(p, n)
    BY <1>7 DEF UnresolvedFunction
  <2>3. n \in 0 .. Len(Pending(p))
    <3>1. Len(Pending(p)) \in Nat
      BY <1>5, <2>1
    <3> HIDE DEF p
    <3> QED BY <3>1
  <2>4. Grows
    BY <1>6, <2>1, <2>2, <2>3
  <2> QED BY <2>4 DEF Grows
<1>8. CASE UnresolvedData \/ CtorsFail \/ Load
  <2>1. frames # <<>> /\ Instantiate(p) /\ table' = TableWith(p, Len(Pending(p)))
    BY <1>8 DEF UnresolvedData, CtorsFail, Load, Link, NeedsDone
  <2>2. Len(Pending(p)) \in 0 .. Len(Pending(p))
    BY <1>5, <2>1
  <2>3. Grows
    BY <1>6, <2>1, <2>2
  <2> QED BY <2>3 DEF Grows
<1>9. Grows => \A x \in DOMAIN table : x \in DOMAIN table' /\ table'[x] = table[x]
  BY DEF Grows
<1> QED BY <1>1, <1>2, <1>3, <1>7, <1>8, <1>9 DEF Linking

(* A library that stays open keeps its pointers, and its slots their         *)
(* functions; main keeps its own.                                            *)
LEMMA OwnedKept ==
  ASSUME SlotInv, [Next]_vars
  PROVE  /\ \A h \in DOMAIN libs \cap DOMAIN libs' :
              libs'[h] = libs[h] /\ \A x \in SlotsOf(h) : x \in DOMAIN table' /\ table'[x] = table[x]
         /\ \A x \in DOMAIN MainTable : x \in DOMAIN table' /\ table'[x] = table[x]
<1> DEFINE Keeps == /\ \A h \in DOMAIN libs \cap DOMAIN libs' :
                         libs'[h] = libs[h] /\ \A x \in SlotsOf(h) : x \in DOMAIN table' /\ table'[x] = table[x]
                    /\ \A x \in DOMAIN MainTable : x \in DOMAIN table' /\ table'[x] = table[x]
<1> SUFFICES Keeps
  OBVIOUS
<1>1. /\ TypeOK /\ IsFiniteSet(DOMAIN libs) /\ MainSound
      /\ \A h \in DOMAIN libs : SlotsOf(h) \subseteq DOMAIN table /\ SlotsOf(h) \cap DOMAIN MainTable = {}
      /\ \A h, k \in DOMAIN libs : h # k => SlotsOf(h) \cap SlotsOf(k) = {}
  BY DEF SlotInv, SlotsSound, OwnedAreSet
<1>2. DOMAIN MainTable \subseteq DOMAIN table
  BY <1>1 DEF MainSound
<1>3. ASSUME \A x \in DOMAIN table : x \in DOMAIN table' /\ table'[x] = table[x],
             \A h \in DOMAIN libs \cap DOMAIN libs' : libs'[h] = libs[h]
      PROVE  Keeps
  BY <1>1, <1>2, <1>3
<1>4. ASSUME NEW h \in DOMAIN libs, Unload(h), UNCHANGED <<next, got, funcMap, memMap, loads>> PROVE Keeps
  <2>1. /\ DOMAIN libs' = DOMAIN libs \ {h} /\ \A k \in DOMAIN libs' : libs'[k] = libs[k]
        /\ DOMAIN table' = DOMAIN table \ SlotsOf(h) /\ \A x \in DOMAIN table' : table'[x] = table[x]
    BY <1>4, UnloadFacts
  <2> QED BY <1>1, <1>2, <2>1
<1> HIDE DEF Keeps
<1>5. CASE Opens \/ Linking
  <2>1. \A x \in DOMAIN table : x \in DOMAIN table' /\ table'[x] = table[x]
    BY <1>5, TableGrows
  <2>2. libs' = libs \/ (\E p, i, ptrs : libs' = WithLibrary(p, i, ptrs))
    <3>1. Opens => libs' = libs \/ (\E p, i, ptrs : libs' = WithLibrary(p, i, ptrs))
      BY DEF Opens, OpenMain, BeginOpen, linker
    <3>2. Linking => libs' = libs \/ (\E p, i, ptrs : libs' = WithLibrary(p, i, ptrs))
      BY DEF Linking, OpenNeeded, NotALibrary, ImportFails, UnresolvedFunction, UnresolvedData, CtorsFail,
             Load, Throws, linker
    <3> QED BY <1>5, <3>1, <3>2
  <2>3. \A h \in DOMAIN libs \cap DOMAIN libs' : libs'[h] = libs[h]
    <3>1. ASSUME NEW p, NEW i, NEW ptrs, libs' = WithLibrary(p, i, ptrs) PROVE \A h \in DOMAIN libs : libs'[h] = libs[h]
      BY <1>1, <3>1, NewHandle
    <3> QED BY <2>2, <3>1
  <2> QED BY <1>3, <2>1, <2>3
<1>6. CASE \E h \in DOMAIN libs : Dlclose(h)
  BY <1>4, <1>6 DEF Dlclose
<1>7. CASE CloseNew
  BY <1>4, <1>7 DEF CloseNew, NewHandles
<1>8. CASE BeginRun \/ EndRun \/ UNCHANGED vars
  <2>1. UNCHANGED <<table, libs>>
    BY <1>8 DEF BeginRun, EndRun, vars, linker
  <2> QED BY <1>3, <2>1
<1> QED BY <1>5, <1>6, <1>7, <1>8 DEF Next

(* Only main and the library on top of the dlopens under way get a handle. *)
LEMMA OneLibraryAdded ==
  ASSUME SlotInv, [Next]_vars, NEW h \in DOMAIN libs' \ DOMAIN libs
  PROVE  /\ DOMAIN libs' = DOMAIN libs \cup {h}
         /\ \/ OpenMain /\ libs'[h] = [path |-> Main, load |-> MainInstance, ptrs |-> <<>>]
            \/ Load /\ libs'[h] = [path |-> Top.path, load |-> loads + 1, ptrs |-> Pointers(Top.path)]
<1>1. TypeOK /\ IsFiniteSet(DOMAIN libs)
  BY DEF SlotInv, SlotsSound
<1>2. ASSUME NEW p, NEW i, NEW ptrs, libs' = WithLibrary(p, i, ptrs)
      PROVE  DOMAIN libs' = DOMAIN libs \cup {h} /\ libs'[h] = [path |-> p, load |-> i, ptrs |-> ptrs]
  <2>1. /\ DOMAIN libs' = DOMAIN libs \cup {NextHandle}
        /\ libs'[NextHandle] = [path |-> p, load |-> i, ptrs |-> ptrs]
    BY <1>1, <1>2, NewHandle
  <2> QED BY <2>1
<1>3. CASE Opens
  <2>1. OpenMain
    BY <1>3 DEF Opens, BeginOpen, linker
  <2>2. PICK p, i, ptrs : p = Main /\ i = MainInstance /\ ptrs = <<>>
    OBVIOUS
  <2>3. libs' = WithLibrary(p, i, ptrs)
    BY <2>1, <2>2 DEF OpenMain
  <2>4. DOMAIN libs' = DOMAIN libs \cup {h} /\ libs'[h] = [path |-> p, load |-> i, ptrs |-> ptrs]
    BY <1>2, <2>3
  <2> QED BY <2>1, <2>2, <2>4
<1>4. CASE Linking
  <2>1. Load
    BY <1>4 DEF Linking, OpenNeeded, NotALibrary, ImportFails, UnresolvedFunction, UnresolvedData, CtorsFail,
           Throws, linker
  <2>2. PICK p, i, ptrs : p = Top.path /\ i = loads + 1 /\ ptrs = Pointers(Top.path)
    OBVIOUS
  <2>3. libs' = WithLibrary(p, i, ptrs)
    BY <2>1, <2>2 DEF Load
  <2>4. DOMAIN libs' = DOMAIN libs \cup {h} /\ libs'[h] = [path |-> p, load |-> i, ptrs |-> ptrs]
    BY <1>2, <2>3
  <2> QED BY <2>1, <2>2, <2>4
<1>5. ASSUME \/ \E k \in DOMAIN libs : Dlclose(k)
             \/ BeginRun \/ CloseNew \/ EndRun \/ UNCHANGED vars
      PROVE  FALSE
  <2>1. DOMAIN libs' \subseteq DOMAIN libs
    BY <1>5 DEF Dlclose, Unload, Without, BeginRun, CloseNew, EndRun, NewHandles, vars, linker
  <2> QED BY <2>1
<1> QED BY <1>3, <1>4, <1>5 DEF Next

(* The pointers of a library that is loaded are to its own functions, or to *)
(* what the pointers of other libraries or main's names are to.             *)
LEMMA NewPointers ==
  ASSUME SlotInv, PtrsSound, NEW p \in Lib, Link(p)
  PROVE  /\ \A j \in DOMAIN Pointers(p) :
              LET e == Pointers(p)[j] IN
              /\ table'[e.slot].sym = e.sym
              /\ e.sym \in ToSet(Exports[p]) => table'[e.slot] = Function(loads + 1, e.sym)
              /\ \/ table'[e.slot].of \in {MainInstance, loads + 1}
                 \/ \E h \in DOMAIN libs : \E x \in SlotsOf(h) : table'[e.slot] = table[x]
         /\ \A s \in ToSet(Exports[p]) : \E j \in DOMAIN Pointers(p) : Pointers(p)[j].sym = s
<1> DEFINE v == Pending(p)
           f == Fresh(p)
           l == Len(Pending(p))
           c == Len(Fresh(p))
           G(i) == GotRead(p, All(p))[Pending(p)[i]]
           F(i) == FreshSlot(p, i)
           u == Pointers(p)
           Good(e) ==
              /\ table'[e.slot].sym = e.sym
              /\ e.sym \in ToSet(Exports[p]) => table'[e.slot] = Function(loads + 1, e.sym)
              /\ \/ table'[e.slot].of \in {MainInstance, loads + 1}
                 \/ \E h \in DOMAIN libs : \E x \in SlotsOf(h) : table'[e.slot] = table[x]
<1>1. /\ TypeOK /\ AvailableAreFree /\ ReservedAreFree /\ OwnedAreSet /\ IsFiniteSet(DOMAIN libs)
      /\ Instantiate(p) /\ table' = TableWith(p, l)
      /\ TakeSlots(p, Len(NewFuncs(p, All(p))) + Len(Fresh(p)))
  BY DEF SlotInv, SlotsSound, Link, Instantiate
<1>2. /\ v \in Seq(FuncSym \cap DOMAIN GotRead(p, All(p))) /\ DOMAIN v = 1 .. l /\ l \in Nat
      /\ f \in Seq(FuncSym) /\ DOMAIN f = 1 .. c
      /\ ToSet(f) = ToSet(Exports[p]) \ ToSet(v)
  BY <1>1, NewSlots
<1>3. /\ \A i \in 1 .. l : table'[G(i)] = Resolve(p, v[i])
      /\ \A i \in 1 .. c : table'[F(i)] = Function(loads + 1, f[i])
  <2>1. l \in 0 .. l
    BY <1>2
  <2> QED BY <1>1, <2>1, TableFacts
<1>4. /\ \A j \in DOMAIN u :
           \/ \E i \in 1 .. c : u[j].sym = f[i] /\ u[j].slot = F(i)
           \/ \E i \in 1 .. l : u[j].sym = v[i] /\ u[j].slot = G(i)
      /\ \A s \in ToSet(f) \cup ToSet(v) : \E j \in DOMAIN u : u[j].sym = s
  BY <1>1, PointersFacts
<1>5. \A i \in 1 .. l : v[i] \in FuncSym
  BY <1>2, ElementOfSeq
<1> HIDE DEF v, f, l, c, G, F, u
<1>6. ASSUME NEW j \in DOMAIN u, NEW i \in 1 .. c, u[j].sym = f[i], u[j].slot = F(i) PROVE Good(u[j])
  <2>1. table'[u[j].slot] = [of |-> loads + 1, sym |-> u[j].sym]
    BY <1>3, <1>6 DEF Function
  <2> QED BY <2>1 DEF Function
<1>7. ASSUME NEW j \in DOMAIN u, NEW i \in 1 .. l, u[j].sym = v[i], u[j].slot = G(i) PROVE Good(u[j])
  <2> DEFINE s == v[i]
             r == Resolve(p, v[i])
  <2>1. table'[u[j].slot] = r /\ u[j].sym = s /\ s \in FuncSym
    BY <1>3, <1>5, <1>7
  <2>2. /\ s \in ToSet(Exports[p]) => r = Function(loads + 1, s)
        /\ \/ r = Function(loads + 1, s)
           \/ r = Function(MainInstance, s)
           \/ \E h \in DOMAIN libs : \E k \in DOMAIN libs[h].ptrs :
                 /\ libs[h].ptrs[k].sym = s /\ libs[h].ptrs[k].slot \in SlotsOf(h)
                 /\ libs[h].ptrs[k].slot \in DOMAIN table
                 /\ r = table[libs[h].ptrs[k].slot]
    BY <1>1, <2>1, ResolveFacts
  <2> HIDE DEF s, r
  <2>3. CASE r = Function(loads + 1, s) \/ r = Function(MainInstance, s)
    <3>1. r.sym = s /\ r.of \in {MainInstance, loads + 1}
      BY <2>3 DEF Function
    <3> QED BY <2>1, <2>2, <3>1
  <2>4. ASSUME NEW h \in DOMAIN libs, NEW k \in DOMAIN libs[h].ptrs,
               libs[h].ptrs[k].sym = s, libs[h].ptrs[k].slot \in SlotsOf(h), r = table[libs[h].ptrs[k].slot]
        PROVE  Good(u[j])
    <3>1. r.sym = s
      BY <2>4 DEF PtrsSound
    <3> QED BY <2>1, <2>2, <2>4, <3>1
  <2> QED BY <2>2, <2>3, <2>4
<1> HIDE DEF Good
<1>8. \A j \in DOMAIN u : Good(u[j])
  BY <1>4, <1>6, <1>7
<1>9. \A s \in ToSet(Exports[p]) : \E j \in DOMAIN u : u[j].sym = s
  BY <1>2, <1>4
<1> QED BY <1>8, <1>9 DEF Good, u

(* Every step keeps the pointers of the open libraries. *)
LEMMA PtrsStep == SlotInv /\ PtrsSound /\ [Next]_vars => PtrsSound'
<1>1. SUFFICES ASSUME SlotInv, PtrsSound, [Next]_vars PROVE PtrsSound'
  OBVIOUS
<1> DEFINE Good(l) ==
      /\ \A i \in DOMAIN l.ptrs :
           LET e == l.ptrs[i] IN
           /\ table'[e.slot].sym = e.sym
           /\ l.path \in Lib /\ e.sym \in ToSet(Exports[l.path]) => table'[e.slot] = Function(l.load, e.sym)
      /\ l.path \in Lib => \A s \in ToSet(Exports[l.path]) : Named(l, s) # {}
<1>2. ASSUME NEW h \in DOMAIN libs' \cap DOMAIN libs PROVE Good(libs'[h])
  <2>1. libs'[h] = libs[h] /\ \A x \in SlotsOf(h) : table'[x] = table[x]
    BY <1>1, OwnedKept
  <2>2. \A i \in DOMAIN libs[h].ptrs : libs[h].ptrs[i].slot \in SlotsOf(h)
    BY DEF SlotsOf, Slots, ToSet
  <2> QED BY <1>1, <2>1, <2>2 DEF PtrsSound
<1>3. ASSUME NEW h \in DOMAIN libs' \ DOMAIN libs PROVE Good(libs'[h])
  <2>1. \/ OpenMain /\ libs'[h] = [path |-> Main, load |-> MainInstance, ptrs |-> <<>>]
        \/ Load /\ libs'[h] = [path |-> Top.path, load |-> loads + 1, ptrs |-> Pointers(Top.path)]
    BY <1>1, <1>3, OneLibraryAdded
  <2>2. CASE libs'[h] = [path |-> Main, load |-> MainInstance, ptrs |-> <<>>]
    <3>1. DOMAIN libs'[h].ptrs = {} /\ libs'[h].path \notin Lib
      BY <2>2, KindAssumption
    <3> QED BY <3>1
  <2>3. CASE Load /\ libs'[h] = [path |-> Top.path, load |-> loads + 1, ptrs |-> Pointers(Top.path)]
    <3> DEFINE p == Top.path
    <3>1. frames # <<>> /\ Link(p) /\ FramesSound
      BY <1>1, <2>3 DEF Load, NeedsDone, SlotInv
    <3>2. p \in Lib
      BY <3>1, TopFacts
    <3>3. libs'[h].path = p /\ libs'[h].load = loads + 1 /\ libs'[h].ptrs = Pointers(p)
      BY <2>3
    <3> HIDE DEF p
    <3>4. /\ \A j \in DOMAIN Pointers(p) :
              LET e == Pointers(p)[j] IN
              /\ table'[e.slot].sym = e.sym
              /\ e.sym \in ToSet(Exports[p]) => table'[e.slot] = Function(loads + 1, e.sym)
          /\ \A s \in ToSet(Exports[p]) : \E j \in DOMAIN Pointers(p) : Pointers(p)[j].sym = s
      BY <1>1, <3>1, <3>2, NewPointers
    <3>5. \A s \in ToSet(Exports[p]) : Named(libs'[h], s) # {}
      BY <3>3, <3>4 DEF Named
    <3> QED BY <3>3, <3>4, <3>5
  <2> QED BY <2>1, <2>2, <2>3
<1> HIDE DEF Good
<1>4. \A h \in DOMAIN libs' : Good(libs'[h])
  BY <1>2, <1>3
<1> QED BY <1>4 DEF PtrsSound, Good, Named

(* dlsym on an open library finds the library's own function, whatever was *)
(* opened and closed around it.                                            *)
THEOREM ExportsStay == Spec => []ExportsGood
<1>1. Init => SlotInv /\ PtrsSound
  <2>1. Init => PtrsSound
    BY DEF Init, PtrsSound
  <2> QED BY <2>1, SlotsAtStart
<1>2. SlotInv /\ PtrsSound /\ [Next]_vars => (SlotInv /\ PtrsSound)'
  BY SlotsStep, PtrsStep
<1>3. SlotInv /\ PtrsSound => ExportsGood
  <2>1. SUFFICES ASSUME SlotInv, PtrsSound, NEW h \in DOMAIN libs, libs[h].path \in Lib,
                        NEW s \in ToSet(Exports[libs[h].path])
                 PROVE  Dlsym(h, s) \in DOMAIN table /\ table[Dlsym(h, s)] = Function(libs[h].load, s)
    BY DEF ExportsGood
  <2>2. Named(libs[h], s) # {}
    BY <2>1 DEF PtrsSound
  <2>3. Dlsym(h, s) \in SlotsOf(h) /\ SlotsOf(h) \subseteq DOMAIN table
    BY <2>1, <2>2, DlsymFacts DEF SlotInv, SlotsSound, OwnedAreSet
  <2>4. PICK i \in DOMAIN libs[h].ptrs : libs[h].ptrs[i].sym = s /\ Dlsym(h, s) = libs[h].ptrs[i].slot
    BY <2>2, DlsymFacts
  <2> QED BY <2>1, <2>3, <2>4 DEF PtrsSound
<1> QED BY <1>1, <1>2, <1>3, PTL DEF Spec

-----------------------------------------------------------------------------
(* Programs run in place *)

(* Opening adds names to GOT and gives values to those that have none; only *)
(* a new name becomes one that waits.                                       *)
GotGrows ==
  /\ DOMAIN got \subseteq DOMAIN got' /\ got' = [s \in DOMAIN got' |-> got'[s]]
  /\ \A s \in DOMAIN got : s \notin ToSet(memMap) => got'[s] = got[s]
  /\ ToSet(funcMap') \cap DOMAIN got \subseteq ToSet(funcMap)
  /\ ToSet(memMap') \cap DOMAIN got \subseteq ToSet(memMap)

(* GOT grows while a library is imported. *)
LEMMA GotReadGrows ==
  ASSUME TypeOK, AvailableAreFree, NEW p \in Lib, NEW k \in 0 .. All(p),
         got' = GotRead(p, k),
         ToSet(funcMap') \subseteq ToSet(Waiting(p, k)),
         ToSet(memMap') \subseteq ToSet(memMap \o NewData(p, k))
  PROVE  GotGrows
<1> DEFINE w == NewFuncs(p, k)
           d == NewData(p, k)
           S == FuncSym \cup DataSym
<1>1. /\ w \in Seq(FuncSym \ (DOMAIN got \cup ToSet(MainTable))) /\ d \in Seq(DataSym \ DOMAIN got)
      /\ ToSet(w) \subseteq ToSet(Unknown(p, k)) /\ ToSet(d) \subseteq ToSet(Unknown(p, k))
      /\ Unknown(p, k) \in Seq(Sym \ DOMAIN got)
  BY NewNames
<1>2. ToSet(Unknown(p, k)) \cap DOMAIN got = {}
  BY <1>1, LenProperties, ElementOfSeq DEF ToSet
<1>3. /\ DOMAIN got' = DOMAIN got \cup ToSet(Unknown(p, k)) /\ \A s \in DOMAIN got : got'[s] = got[s]
  <2>1. DOMAIN GotRead(p, k) = DOMAIN got \cup ToSet(Unknown(p, k))
    BY GotReadFacts
  <2>2. \A s \in DOMAIN got : GotRead(p, k)[s] = got[s]
    BY GotReadFacts
  <2> QED BY <2>1, <2>2
<1>4. got' = [s \in DOMAIN got' |-> got'[s]]
  BY DEF GotRead
<1>5. funcMap \in Seq(S) /\ memMap \in Seq(S) /\ w \in Seq(S) /\ d \in Seq(S)
  <2>1. funcMap \in Seq(FuncSym \cap DOMAIN got) /\ memMap \in Seq(DataSym \cap DOMAIN got)
    BY DEF TypeOK
  <2>2. /\ FuncSym \cap DOMAIN got \subseteq S /\ DataSym \cap DOMAIN got \subseteq S
        /\ FuncSym \ (DOMAIN got \cup ToSet(MainTable)) \subseteq S /\ DataSym \ DOMAIN got \subseteq S
    OBVIOUS
  <2> HIDE DEF S, w, d
  <2> QED BY <1>1, <2>1, <2>2, SeqMonotonic
<1> HIDE DEF w, d, S
<1>6. ToSet(funcMap \o w) = ToSet(funcMap) \cup ToSet(w) /\ ToSet(memMap \o d) = ToSet(memMap) \cup ToSet(d)
  BY <1>5, ConcatToSet
<1>7. ToSet(funcMap') \cap DOMAIN got \subseteq ToSet(funcMap) /\ ToSet(memMap') \cap DOMAIN got \subseteq ToSet(memMap)
  BY <1>1, <1>2, <1>6 DEF Waiting, w, d
<1> QED BY <1>3, <1>4, <1>7 DEF GotGrows

(* GOT grows when the data are resolved. *)
LEMMA GotWithGrows ==
  ASSUME TypeOK, AvailableAreFree, IsFiniteSet(DOMAIN libs), NEW p \in Lib,
         NEW n \in 0 .. Len(PendingData(p)), got' = GotWith(p, n),
         funcMap' = <<>>, ToSet(memMap') \subseteq ToSet(PendingData(p))
  PROVE  GotGrows
<1> DEFINE d == PendingData(p)
           resolved == {PendingData(p)[i] : i \in 1 .. n}
<1>1. /\ DOMAIN got' = DOMAIN GotRead(p, All(p))
      /\ \A s \in DOMAIN GotRead(p, All(p)) : s \notin resolved => got'[s] = GotRead(p, All(p))[s]
  BY GotFacts
<1>2. All(p) \in 0 .. All(p)
  BY AllIndex
<1>3. DOMAIN GotRead(p, All(p)) = DOMAIN got \cup ToSet(Unknown(p, All(p))) /\ \A s \in DOMAIN got : GotRead(p, All(p))[s] = got[s]
  BY <1>2, GotReadFacts
<1>4. ToSet(Unknown(p, All(p))) \cap DOMAIN got = {}
  <2>1. Unknown(p, All(p)) \in Seq(Sym \ DOMAIN got)
    BY <1>2, NewNames
  <2> QED BY <2>1, LenProperties, ElementOfSeq DEF ToSet
<1>5. ToSet(d) = ToSet(memMap) \cup (ToSet(Unknown(p, All(p))) \cap DataSym) /\ DOMAIN d = 1 .. Len(d) /\ Len(d) \in Nat
  BY DataFacts
<1> HIDE DEF d
<1>6. resolved \subseteq ToSet(d)
  <2>1. \A i \in 1 .. n : i \in DOMAIN d
    BY <1>5 DEF d
  <2> QED BY <2>1 DEF ToSet, d
<1> HIDE DEF resolved
<1>7. \A s \in DOMAIN got : s \notin ToSet(memMap) => got'[s] = got[s]
  BY <1>1, <1>3, <1>4, <1>5, <1>6
<1>8. got' = [s \in DOMAIN got' |-> got'[s]]
  BY DEF GotWith
<1>9. ToSet(memMap') \cap DOMAIN got \subseteq ToSet(memMap)
  BY <1>4, <1>5 DEF d
<1>10. ToSet(funcMap') = {}
  BY EmptySeq DEF ToSet
<1> QED BY <1>1, <1>3, <1>7, <1>8, <1>9, <1>10 DEF GotGrows

(* Every step but the end of a run lets GOT grow. *)
LEMMA GotKept ==
  ASSUME SlotInv, got = [s \in DOMAIN got |-> got[s]], [Next]_vars, ~EndRun
  PROVE  GotGrows
<1> DEFINE p == Top.path
<1>1. TypeOK /\ AvailableAreFree /\ ReservedAreFree /\ IsFiniteSet(DOMAIN libs) /\ FramesSound
  BY DEF SlotInv, SlotsSound
<1>2. ASSUME UNCHANGED <<got, funcMap, memMap>> PROVE GotGrows
  BY <1>2 DEF GotGrows
<1>3. CASE Opens \/ OpenNeeded \/ NotALibrary \/ BeginRun \/ CloseNew \/ UNCHANGED vars
  <2>1. UNCHANGED <<got, funcMap, memMap>>
    BY <1>3 DEF Opens, OpenMain, BeginOpen, OpenNeeded, NotALibrary, BeginRun, CloseNew, vars, linker
  <2> QED BY <1>2, <2>1
<1>4. CASE \E h \in DOMAIN libs : Dlclose(h)
  <2>1. UNCHANGED <<got, funcMap, memMap>>
    BY <1>4 DEF Dlclose
  <2> QED BY <1>2, <2>1
<1>5. frames # <<>> => p \in Lib
  BY <1>1, TopFacts
<1>6. ASSUME NEW k \in Nat, ImportFails(k) PROVE GotGrows
  <2>1. /\ frames # <<>> /\ k <= All(p) /\ got' = GotRead(p, k)
        /\ funcMap' = Waiting(p, k) /\ memMap' = memMap \o NewData(p, k)
    BY <1>6 DEF ImportFails, NeedsDone, All, Waiting
  <2>2. p \in Lib /\ All(p) \in Nat
    BY <1>5, <2>1, AllIndex
  <2> HIDE DEF p
  <2>3. k \in 0 .. All(p)
    BY <2>1, <2>2
  <2> QED BY <1>1, <2>1, <2>2, <2>3, GotReadGrows
<1>7. CASE UnresolvedFunction
  <2>1. /\ frames # <<>> /\ Instantiate(p) /\ got' = GotRead(p, All(p)) /\ memMap' = PendingData(p)
    BY <1>7 DEF UnresolvedFunction, NeedsDone
  <2>2. PICK n \in 0 .. Len(Pending(p)) - 1 : funcMap' = SubSeq(Pending(p), n + 1, Len(Pending(p)))
    BY <1>7 DEF UnresolvedFunction
  <2>3. p \in Lib /\ All(p) \in 0 .. All(p)
    BY <1>5, <2>1, AllIndex
  <2> DEFINE v == Pending(p)
             l == Len(v)
             D == FuncSym \cap DOMAIN GotRead(p, All(p))
  <2>4. v \in Seq(D) /\ l \in Nat
    BY <1>1, <2>1, <2>3, NewSlots DEF Instantiate
  <2>5. PICK m \in Nat : m = n + 1
    OBVIOUS
  <2> HIDE DEF p
  <2>6. l <= Len(v) /\ m >= 1 /\ l \in Nat
    BY <2>4, <2>5
  <2> HIDE DEF v, l, D
  <2>7. ToSet(SubSeq(v, m, l)) \subseteq ToSet(v)
    BY <2>4, <2>6, SubToSet
  <2>8. ToSet(funcMap') \subseteq ToSet(Waiting(p, All(p)))
    BY <2>2, <2>5, <2>7 DEF v, l, Pending, Waiting
  <2>9. ToSet(memMap') \subseteq ToSet(memMap \o NewData(p, All(p)))
    BY <2>1 DEF PendingData
  <2> QED BY <1>1, <2>1, <2>3, <2>8, <2>9, GotReadGrows
<1>8. CASE UnresolvedData
  <2> DEFINE d == PendingData(p)
             l == Len(d)
             D == DataSym \cap DOMAIN GotRead(p, All(p))
  <2>1. frames # <<>> /\ funcMap' = <<>>
    BY <1>8 DEF UnresolvedData, NeedsDone
  <2>2. PICK n \in 0 .. l - 1 : got' = GotWith(p, n) /\ memMap' = SubSeq(d, n + 2, l)
    BY <1>8 DEF UnresolvedData
  <2>3. p \in Lib
    BY <1>5, <2>1
  <2>4. d \in Seq(D) /\ l \in Nat
    BY <1>1, <2>3, DataFacts
  <2>5. PICK m \in Nat : m = n + 2
    OBVIOUS
  <2> HIDE DEF p
  <2>6. l <= Len(d) /\ m >= 1 /\ l \in Nat /\ n \in 0 .. l
    BY <2>4, <2>5
  <2> HIDE DEF d, l, D
  <2>7. ToSet(SubSeq(d, m, l)) \subseteq ToSet(d)
    BY <2>4, <2>6, SubToSet
  <2>8. ToSet(memMap') \subseteq ToSet(PendingData(p)) /\ n \in 0 .. Len(PendingData(p))
    BY <2>2, <2>5, <2>6, <2>7 DEF d, l
  <2> QED BY <1>1, <2>1, <2>2, <2>3, <2>8, GotWithGrows
<1>9. CASE CtorsFail \/ Load
  <2>1. frames # <<>> /\ Link(p)
    BY <1>9 DEF CtorsFail, Load, NeedsDone
  <2>2. p \in Lib
    BY <1>5, <2>1
  <2>3. got' = GotWith(p, Len(PendingData(p))) /\ funcMap' = <<>> /\ memMap' = <<>>
    BY <2>1 DEF Link
  <2> HIDE DEF p
  <2>4. Len(PendingData(p)) \in 0 .. Len(PendingData(p))
    BY <1>1, <2>2, DataFacts
  <2>5. ToSet(memMap') = {}
    BY <2>3, EmptySeq DEF ToSet
  <2> QED BY <1>1, <2>2, <2>3, <2>4, <2>5, GotWithGrows
<1>10. CASE Linking
  BY <1>3, <1>6, <1>7, <1>8, <1>9, <1>10 DEF Linking
<1> QED BY <1>3, <1>4, <1>10 DEF Next

(* All but the end of a run leave what is saved of the programs that wait,  *)
(* but for a library that is closed.                                        *)
LEMMA RunsKept ==
  ASSUME SlotInv, [Next]_vars, ~EndRun
  PROVE  /\ \E C : \A i \in DOMAIN runs :
              /\ i \in DOMAIN runs' /\ runs'[i].libs = runs[i].libs /\ runs'[i].got = runs[i].got
              /\ runs'[i].clean = runs[i].clean /\ runs[i].shut \subseteq runs'[i].shut
              /\ Held(runs'[i]) = Held(runs[i]) \ C
         /\ BeginRun \/ (DOMAIN runs' = DOMAIN runs /\ Len(runs') = Len(runs))
<1> DEFINE Keeps(C) == \A i \in DOMAIN runs :
              /\ i \in DOMAIN runs' /\ runs'[i].libs = runs[i].libs /\ runs'[i].got = runs[i].got
              /\ runs'[i].clean = runs[i].clean /\ runs[i].shut \subseteq runs'[i].shut
              /\ Held(runs'[i]) = Held(runs[i]) \ C
<1>1. RunsSound /\ runs \in Seq(ToSet(runs))
  BY DEF SlotInv, RunsSound
<1>2. ASSUME \A i \in DOMAIN runs : i \in DOMAIN runs' /\ runs'[i] = runs[i] PROVE Keeps({})
  BY <1>2 DEF Held
<1>3. CASE \E h \in DOMAIN libs : Dlclose(h)
  <2>1. PICK h \in DOMAIN libs : runs' = Shut(h)
    BY <1>3 DEF Dlclose
  <2>2. Keeps({h}) /\ DOMAIN runs' = DOMAIN runs /\ Len(runs') = Len(runs)
    BY <1>1, <2>1, ShutFacts
  <2> QED BY <2>2
<1>4. CASE BeginRun
  <2>1. PICK r : runs' = Append(runs, r)
    BY <1>4 DEF BeginRun
  <2>2. /\ DOMAIN runs = 1 .. Len(runs) /\ DOMAIN runs' = 1 .. Len(runs) + 1 /\ Len(runs) \in Nat
        /\ \A i \in 1 .. Len(runs) : runs'[i] = runs[i]
    BY <1>1, <2>1, AppendToSet
  <2>3. \A i \in DOMAIN runs : i \in DOMAIN runs' /\ runs'[i] = runs[i]
    BY <2>2
  <2> HIDE DEF Keeps
  <2>4. Keeps({})
    BY <1>2, <2>3
  <2> QED BY <1>4, <2>4 DEF Keeps
<1>5. CASE Opens \/ Linking \/ CloseNew \/ UNCHANGED vars
  <2>1. runs' = runs
    <3>1. Opens => runs' = runs
      BY DEF Opens, OpenMain, BeginOpen
    <3>2. Linking => runs' = runs
      BY DEF Linking, OpenNeeded, NotALibrary, ImportFails, UnresolvedFunction, UnresolvedData, CtorsFail,
             Load, Throws
    <3> QED BY <1>5, <3>1, <3>2 DEF CloseNew, vars
  <2>2. Keeps({})
    BY <1>2, <2>1
  <2> QED BY <2>1, <2>2
<1> QED BY <1>3, <1>4, <1>5 DEF Next

(* A handle that goes is none that a program that waits still holds.        *)
LEMMA ClosedHandles ==
  ASSUME SlotInv, SavedSound, [Next]_vars, NEW h \in DOMAIN libs \ DOMAIN libs'
  PROVE  ~EndRun /\ clean' = FALSE /\ \A i \in DOMAIN runs : h \notin Held(runs'[i])
<1>0. ~EndRun
  BY DEF EndRun
<1>1. ASSUME NEW k \in DOMAIN libs, Unload(k) PROVE h = k /\ clean' = FALSE
  BY <1>1 DEF Unload, Without
<1>2. CASE \E k \in DOMAIN libs : Dlclose(k)
  <2>1. PICK k \in DOMAIN libs : Unload(k) /\ runs' = Shut(k)
    BY <1>2 DEF Dlclose
  <2>2. \A i \in DOMAIN runs : Held(runs'[i]) = Held(runs[i]) \ {k}
    BY <2>1, ShutFacts DEF SlotInv
  <2> QED BY <1>0, <1>1, <2>1, <2>2
<1>3. CASE CloseNew
  <2>1. PICK k \in NewHandles : Unload(k)
    BY <1>3 DEF CloseNew
  <2>2. k \in DOMAIN libs /\ k \notin DOMAIN runs[Len(runs)].libs
    BY <2>1 DEF NewHandles, Last
  <2>3. runs # <<>> /\ runs' = runs
    BY <1>3 DEF CloseNew
  <2>4. runs \in Seq(ToSet(runs))
    BY DEF SlotInv, RunsSound
  <2>5. DOMAIN runs = 1 .. Len(runs) /\ Len(runs) \in Nat
    BY <2>4, LenProperties
  <2>6. \A i \in DOMAIN runs : Len(runs) \in DOMAIN runs /\ i <= Len(runs)
    BY <2>5
  <2>7. \A i \in DOMAIN runs : Held(runs[i]) \subseteq Held(runs[Len(runs)])
    BY <2>6 DEF SavedSound
  <2>8. k \notin Held(runs[Len(runs)])
    BY <2>2 DEF Held
  <2> QED BY <1>0, <1>1, <2>1, <2>2, <2>3, <2>7, <2>8
<1>4. ASSUME NEW p, NEW i, NEW ptrs, libs' = WithLibrary(p, i, ptrs) PROVE FALSE
  BY <1>4, NewHandle DEF SlotInv, SlotsSound
<1>5. CASE Opens
  <2>1. libs' = libs \/ (\E p, i, ptrs : libs' = WithLibrary(p, i, ptrs))
    BY <1>5 DEF Opens, OpenMain, BeginOpen, linker
  <2> QED BY <1>4, <2>1
<1>6. CASE Linking
  <2>1. libs' = libs \/ (\E p, i, ptrs : libs' = WithLibrary(p, i, ptrs))
    BY <1>6 DEF Linking, OpenNeeded, NotALibrary, ImportFails, UnresolvedFunction, UnresolvedData, CtorsFail,
           Load, Throws, linker
  <2> QED BY <1>4, <2>1
<1>7. CASE BeginRun \/ EndRun \/ UNCHANGED vars
  <2>1. libs' = libs
    BY <1>7 DEF BeginRun, EndRun, vars, linker
  <2> QED BY <2>1
<1> QED BY <1>2, <1>3, <1>5, <1>6, <1>7 DEF Next

(* What was saved stays true while the programs run. *)
LEMMA SavedKept ==
  ASSUME SlotInv, SavedSound, [Next]_vars, ~EndRun, NEW i \in DOMAIN runs, NEW r, r = runs'[i]
  PROVE  SavedOf(r)'
<1>1. PICK q : q = runs[i]
  OBVIOUS
<1>2. SavedOf(q) /\ got = [s \in DOMAIN got |-> got[s]]
  BY <1>1 DEF SavedSound
<1>3. r.libs = q.libs /\ r.got = q.got /\ r.clean = q.clean /\ Held(r) \subseteq Held(q)
  BY <1>1, RunsKept
<1>4. GotGrows
  BY <1>2, GotKept
<1>5. \A h \in Held(r) : h \in DOMAIN libs'
  <2>1. SUFFICES ASSUME NEW h \in Held(r), h \notin DOMAIN libs' PROVE FALSE
    OBVIOUS
  <2>2. h \in DOMAIN libs \ DOMAIN libs'
    BY <1>2, <1>3, <2>1 DEF SavedOf
  <2> QED BY <2>1, <2>2, ClosedHandles
<1>6. \A h \in Held(r) : libs'[h] = r.libs[h]
  <2> TAKE h \in Held(r)
  <2>1. h \in DOMAIN libs \cap DOMAIN libs' /\ libs[h] = r.libs[h]
    BY <1>2, <1>3, <1>5 DEF SavedOf
  <2> QED BY <2>1, OwnedKept
<1>7. DOMAIN r.got \subseteq DOMAIN got' /\ r.got = [s \in DOMAIN r.got |-> r.got[s]]
  BY <1>2, <1>3, <1>4 DEF SavedOf, GotGrows
<1>8. ASSUME r.clean, NEW s \in DOMAIN r.got PROVE got'[s] = r.got[s] /\ s \notin ToSet(funcMap') \cup ToSet(memMap')
  <2>1. s \in DOMAIN got /\ got[s] = r.got[s] /\ s \notin ToSet(funcMap) \cup ToSet(memMap)
    BY <1>2, <1>3, <1>8 DEF SavedOf
  <2> QED BY <1>4, <2>1 DEF GotGrows
<1> QED BY <1>5, <1>6, <1>7, <1>8 DEF SavedOf

(* The end of a run gives its parent what was saved, and leaves what the    *)
(* programs further down saved.                                             *)
LEMMA EndRunRestores ==
  ASSUME SlotInv, SavedSound, EndRun
  PROVE  /\ Len(runs) \in Nat \ {0} /\ DOMAIN runs = 1 .. Len(runs) /\ Len(runs) \in DOMAIN runs
         /\ DOMAIN runs' = 1 .. Len(runs) - 1 /\ \A i \in 1 .. Len(runs) - 1 : i \in DOMAIN runs /\ runs'[i] = runs[i]
         /\ Last(runs) = runs[Len(runs)]
         /\ UNCHANGED <<libs, table>> /\ clean' = (Last(runs).clean /\ Last(runs).shut = {})
         /\ DOMAIN libs' \subseteq DOMAIN Last(runs).libs
         /\ \A h \in Held(Last(runs)) : h \in DOMAIN libs' /\ libs'[h] = Last(runs).libs[h]
         /\ got' = [s \in DOMAIN got' |-> got'[s]] /\ DOMAIN got' = DOMAIN Last(runs).got
         /\ \A s \in DOMAIN got' : got'[s] = got[s]
         /\ ToSet(funcMap') \subseteq ToSet(funcMap) /\ ToSet(memMap') \subseteq ToSet(memMap)
         /\ Last(runs).clean => got' = Last(runs).got /\ funcMap' = <<>> /\ memMap' = <<>>
<1> DEFINE r == Last(runs)
           n == Len(runs)
           old == DOMAIN r.got
<1>1. /\ runs # <<>> /\ runs' = Front(runs) /\ DOMAIN libs \ DOMAIN r.libs = {}
      /\ got' = Without(got, DOMAIN got \ old) /\ funcMap' = Kept(funcMap, old) /\ memMap' = Kept(memMap, old)
      /\ clean' = (r.clean /\ r.shut = {}) /\ UNCHANGED <<libs, table>>
  BY DEF EndRun, ForgetNew, NewHandles
<1>2. runs \in Seq(ToSet(runs)) /\ TypeOK
  BY DEF SlotInv, SlotsSound, RunsSound
<1>3. /\ n \in Nat /\ n >= 1 /\ DOMAIN runs = 1 .. n /\ r = runs[n]
      /\ DOMAIN runs' = 1 .. n - 1 /\ \A i \in 1 .. n - 1 : runs'[i] = runs[i]
  BY <1>1, <1>2, FrontFacts DEF Last
<1> HIDE DEF r, n
<1>4. n \in Nat \ {0} /\ n \in DOMAIN runs /\ \A i \in 1 .. n - 1 : i \in DOMAIN runs
  BY <1>3
<1>5. SavedOf(r)
  BY <1>3, <1>4 DEF SavedSound
<1>6. DOMAIN libs \subseteq DOMAIN r.libs /\ \A h \in Held(r) : h \in DOMAIN libs /\ libs[h] = r.libs[h]
  BY <1>1, <1>5 DEF SavedOf
<1>7. /\ got' = [s \in DOMAIN got' |-> got'[s]] /\ DOMAIN got' = old
      /\ \A s \in DOMAIN got' : got'[s] = got[s]
  <2>1. old \subseteq DOMAIN got
    BY <1>5 DEF SavedOf
  <2>2. got' = [s \in DOMAIN got \ (DOMAIN got \ old) |-> got[s]]
    BY <1>1 DEF Without
  <2> HIDE DEF old
  <2>3. DOMAIN got \ (DOMAIN got \ old) = old
    BY <2>1
  <2> QED BY <2>2, <2>3
<1>8. /\ funcMap' \in Seq(FuncSym \cap DOMAIN got \cap old) /\ ToSet(funcMap') = ToSet(funcMap) \cap old
      /\ memMap' \in Seq(DataSym \cap DOMAIN got \cap old) /\ ToSet(memMap') = ToSet(memMap) \cap old
  <2>1. funcMap \in Seq(FuncSym \cap DOMAIN got) /\ memMap \in Seq(DataSym \cap DOMAIN got)
    BY <1>2 DEF TypeOK
  <2> HIDE DEF old
  <2>2. /\ Kept(funcMap, old) \in Seq(FuncSym \cap DOMAIN got \cap old)
        /\ ToSet(Kept(funcMap, old)) = ToSet(funcMap) \cap old
    BY <2>1, KeptFacts
  <2>3. /\ Kept(memMap, old) \in Seq(DataSym \cap DOMAIN got \cap old)
        /\ ToSet(Kept(memMap, old)) = ToSet(memMap) \cap old
    BY <2>1, KeptFacts
  <2> QED BY <1>1, <2>2, <2>3
<1>9. ASSUME r.clean PROVE got' = r.got /\ funcMap' = <<>> /\ memMap' = <<>>
  <2>1. \A s \in old : got[s] = r.got[s] /\ s \notin ToSet(funcMap) \cup ToSet(memMap)
    BY <1>5, <1>9 DEF SavedOf
  <2>2. r.got = [s \in old |-> r.got[s]]
    BY <1>5 DEF SavedOf
  <2>3. got' = r.got
    BY <1>7, <2>1, <2>2
  <2>4. ToSet(funcMap') = {} /\ ToSet(memMap') = {}
    BY <1>8, <2>1
  <2>5. ASSUME NEW D, NEW s \in Seq(D), ToSet(s) = {} PROVE s = <<>>
    <3>1. DOMAIN s = 1 .. Len(s) /\ Len(s) \in Nat
      BY LenProperties
    <3>2. DOMAIN s = {}
      BY <2>5 DEF ToSet
    <3>3. Len(s) = 0
      BY <3>1, <3>2
    <3> QED BY <3>3, EmptySeq
  <2> QED BY <1>8, <2>3, <2>4, <2>5
<1> QED BY <1>1, <1>3, <1>4, <1>6, <1>7, <1>8, <1>9 DEF r, n

(* Every step keeps what was saved of the programs that wait. *)
LEMMA SavedStep == SlotInv /\ SavedSound /\ [Next]_vars => SavedSound'
<1>1. SUFFICES ASSUME SlotInv, SavedSound, [Next]_vars PROVE SavedSound'
  OBVIOUS
<1> DEFINE IsFunction == got' = [s \in DOMAIN got' |-> got'[s]]
           NoneWait == clean' => funcMap' = <<>> /\ memMap' = <<>>
<1>2. /\ got = [s \in DOMAIN got |-> got[s]]
      /\ clean => funcMap = <<>> /\ memMap = <<>>
      /\ \A i, j \in DOMAIN runs : i <= j => /\ Held(runs[i]) \subseteq Held(runs[j])
                                             /\ DOMAIN runs[i].got \subseteq DOMAIN runs[j].got
      /\ \A i \in DOMAIN runs : SavedOf(runs[i])
  BY <1>1 DEF SavedSound
<1>3. ASSUME ~EndRun PROVE IsFunction
  BY <1>1, <1>2, <1>3, GotKept DEF GotGrows
<1>4. ASSUME ~EndRun PROVE NoneWait
  <2>1. Opens \/ OpenNeeded \/ BeginRun \/ UNCHANGED vars => UNCHANGED <<clean, funcMap, memMap>>
    BY DEF Opens, OpenMain, BeginOpen, OpenNeeded, BeginRun, vars, linker
  <2>2. (\E h \in DOMAIN libs : Dlclose(h)) \/ CloseNew => clean' = FALSE
    BY DEF Dlclose, CloseNew, Unload
  <2>3. Linking => OpenNeeded \/ clean' = FALSE \/ (funcMap' = <<>> /\ memMap' = <<>>)
    BY DEF Linking, NotALibrary, ImportFails, UnresolvedFunction, UnresolvedData, CtorsFail, Load, Link, Throws
  <2> QED BY <1>1, <1>2, <1>4, <2>1, <2>2, <2>3 DEF Next
<1> HIDE DEF IsFunction, NoneWait
<1>5. ASSUME ~EndRun, NEW i \in DOMAIN runs PROVE SavedOf(runs[i])'
  <2>1. PICK r : r = runs'[i]
    OBVIOUS
  <2>2. SavedOf(r)'
    BY <1>1, <1>5, <2>1, SavedKept
  <2> QED BY <2>1, <2>2 DEF SavedOf, Held
<1>6. ASSUME ~EndRun, NEW i \in DOMAIN runs, NEW j \in DOMAIN runs, i <= j
      PROVE  /\ Held(runs'[i]) \subseteq Held(runs'[j])
             /\ DOMAIN runs'[i].got \subseteq DOMAIN runs'[j].got
  <2>1. PICK C : \A k \in DOMAIN runs : Held(runs'[k]) = Held(runs[k]) \ C /\ runs'[k].got = runs[k].got
    BY <1>1, <1>6, RunsKept
  <2> QED BY <1>2, <1>6, <2>1
<1>7. CASE ~EndRun /\ ~BeginRun
  <2>1. DOMAIN runs' = DOMAIN runs
    BY <1>1, <1>7, RunsKept
  <2>2. \A i \in DOMAIN runs' : SavedOf(runs[i])'
    BY <1>7, <1>5, <2>1
  <2>3. \A i, j \in DOMAIN runs' : i <= j => /\ Held(runs'[i]) \subseteq Held(runs'[j])
                                             /\ DOMAIN runs'[i].got \subseteq DOMAIN runs'[j].got
    BY <1>7, <1>6, <2>1
  <2>4. \A i, j \in DOMAIN runs' : i <= j => Held(runs[i])' \subseteq Held(runs[j])'
    BY <2>3 DEF Held
  <2> QED BY <1>3, <1>4, <1>7, <2>2, <2>3, <2>4 DEF SavedSound, IsFunction, NoneWait
<1>8. CASE BeginRun /\ ~EndRun
  <2> DEFINE n == Len(runs)
  <2>1. PICK r : r = [libs |-> libs, got |-> got, clean |-> clean, shut |-> {}]
    OBVIOUS
  <2>2. runs' = Append(runs, r) /\ UNCHANGED <<libs, got, funcMap, memMap>>
    BY <1>8, <2>1 DEF BeginRun, linker
  <2>3. r.libs = libs /\ r.got = got /\ r.clean = clean /\ Held(r) = DOMAIN libs
    BY <2>1 DEF Held
  <2>4. runs \in Seq(ToSet(runs))
    BY <1>1 DEF SlotInv, RunsSound
  <2>5. /\ n \in Nat /\ DOMAIN runs = 1 .. n /\ DOMAIN runs' = 1 .. n + 1
        /\ \A i \in 1 .. n : runs'[i] = runs[i]
        /\ runs'[n + 1] = r
    BY <2>2, <2>4, AppendToSet
  <2> HIDE DEF n
  <2>6. SavedOf(r)'
    <3>1. r.clean => funcMap' = <<>> /\ memMap' = <<>>
      BY <1>2, <2>2, <2>3
    <3>2. \A s \in Seq({}) : ToSet(s) = {}
      BY LenProperties, ElementOfSeq DEF ToSet
    <3>3. r.clean => ToSet(funcMap') = {} /\ ToSet(memMap') = {}
      BY <3>1, <3>2, EmptySeq
    <3> QED BY <1>2, <2>2, <2>3, <3>3 DEF SavedOf
  <2>8. \A i \in DOMAIN runs' : i \in 1 .. n \/ i = n + 1
    BY <2>5
  <2>9. \A i \in DOMAIN runs' : SavedOf(runs[i])'
    <3>1. ASSUME NEW i \in DOMAIN runs', i = n + 1 PROVE SavedOf(runs[i])'
      <4>1. r = runs'[i]
        BY <2>5, <3>1
      <4> QED BY <2>6, <4>1 DEF SavedOf, Held
    <3> QED BY <1>8, <1>5, <2>5, <2>8, <3>1
  <2>10. \A i, j \in DOMAIN runs' : i <= j => /\ Held(runs'[i]) \subseteq Held(runs'[j])
                                              /\ DOMAIN runs'[i].got \subseteq DOMAIN runs'[j].got
    <3>1. SUFFICES ASSUME NEW i \in DOMAIN runs', NEW j \in DOMAIN runs', i <= j
                   PROVE  /\ Held(runs'[i]) \subseteq Held(runs'[j])
                          /\ DOMAIN runs'[i].got \subseteq DOMAIN runs'[j].got
      OBVIOUS
    <3>2. CASE i \in 1 .. n /\ j \in 1 .. n
      BY <1>8, <1>6, <2>5, <3>1, <3>2
    <3>3. CASE i \in 1 .. n /\ j = n + 1
      <4>1. SavedOf(runs[i]) /\ runs'[i] = runs[i] /\ runs'[j] = r
        BY <1>2, <2>5, <3>3
      <4> QED BY <2>3, <4>1 DEF SavedOf
    <3>4. CASE i = n + 1
      <4>1. j = i
        BY <2>5, <2>8, <3>1, <3>4
      <4> QED BY <4>1
    <3> QED BY <2>8, <3>2, <3>3, <3>4
  <2>11. \A i, j \in DOMAIN runs' : i <= j => Held(runs[i])' \subseteq Held(runs[j])'
    BY <2>10 DEF Held
  <2> QED BY <1>3, <1>4, <1>8, <2>9, <2>10, <2>11 DEF SavedSound, IsFunction, NoneWait
<1>9. CASE EndRun
  <2> DEFINE n == Len(runs)
  <2>1. /\ n \in Nat \ {0} /\ DOMAIN runs = 1 .. n /\ n \in DOMAIN runs
        /\ DOMAIN runs' = 1 .. n - 1 /\ \A i \in 1 .. n - 1 : i \in DOMAIN runs /\ runs'[i] = runs[i]
        /\ UNCHANGED libs /\ clean' = (runs[n].clean /\ runs[n].shut = {})
        /\ got' = [s \in DOMAIN got' |-> got'[s]] /\ DOMAIN got' = DOMAIN runs[n].got
        /\ \A s \in DOMAIN got' : got'[s] = got[s]
        /\ ToSet(funcMap') \subseteq ToSet(funcMap) /\ ToSet(memMap') \subseteq ToSet(memMap)
        /\ runs[n].clean => funcMap' = <<>> /\ memMap' = <<>>
    BY <1>1, <1>9, EndRunRestores
  <2> HIDE DEF n
  <2>2. \A i \in DOMAIN runs' : SavedOf(runs[i])'
    <3> TAKE i \in DOMAIN runs'
    <3>1. PICK r : r = runs[i]
      OBVIOUS
    <3>2. r = runs'[i] /\ i \in DOMAIN runs /\ i <= n
      BY <2>1, <3>1
    <3>3. SavedOf(r) /\ DOMAIN r.got \subseteq DOMAIN runs[n].got
      BY <1>2, <2>1, <3>1, <3>2
    <3>4. SavedOf(r)'
      BY <2>1, <3>3 DEF SavedOf
    <3> QED BY <3>2, <3>4 DEF SavedOf, Held
  <2>3. \A i, j \in DOMAIN runs' : i <= j => /\ Held(runs'[i]) \subseteq Held(runs'[j])
                                             /\ DOMAIN runs'[i].got \subseteq DOMAIN runs'[j].got
    BY <1>2, <2>1
  <2>4. \A i, j \in DOMAIN runs' : i <= j => Held(runs[i])' \subseteq Held(runs[j])'
    BY <2>3 DEF Held
  <2> QED BY <2>1, <2>2, <2>3, <2>4 DEF SavedSound
<1> QED BY <1>7, <1>8, <1>9

(* At first no program waits. *)
LEMMA SavedAtStart == Init => SavedSound
<1>1. SUFFICES ASSUME Init PROVE SavedSound
  OBVIOUS
<1>2. DOMAIN runs = {}
  BY <1>1, EmptySeq DEF Init
<1> QED BY <1>1, <1>2 DEF Init, SavedSound

(* The end of a program run in place leaves its parent with the libraries   *)
(* it had, but for those of them that programs run in place closed, and     *)
(* with its GOT if its own dlopens all succeeded.                           *)
THEOREM RunsRestore == Spec => RunRestores
<1>1. Init => SlotInv /\ SavedSound
  BY SlotsAtStart, SavedAtStart
<1>2. SlotInv /\ SavedSound /\ [Next]_vars => (SlotInv /\ SavedSound)'
  BY SlotsStep, SavedStep
<1> DEFINE Restored ==
      LET saved == Last(runs) IN
      /\ DOMAIN libs' \subseteq DOMAIN saved.libs
      /\ \A h \in DOMAIN saved.libs \ saved.shut : h \in DOMAIN libs' /\ libs'[h] = saved.libs[h]
      /\ saved.clean => got' = saved.got /\ funcMap' = <<>> /\ memMap' = <<>>
<1>3. SlotInv /\ SavedSound /\ [Next]_vars => [Len(runs') < Len(runs) => Restored]_vars
  <2>1. SUFFICES ASSUME SlotInv, SavedSound, [Next]_vars, Len(runs') < Len(runs) PROVE Restored
    OBVIOUS
  <2>2. runs \in Seq(ToSet(runs))
    BY <2>1 DEF SlotInv, RunsSound
  <2>3. Len(runs) \in Nat
    BY <2>2, LenProperties
  <2>4. ~BeginRun
    <3>1. \A r : Len(Append(runs, r)) = Len(runs) + 1
      BY <2>2, AppendToSet
    <3> QED BY <2>1, <2>3, <3>1 DEF BeginRun
  <2>5. EndRun
    BY <2>1, <2>3, <2>4, RunsKept
  <2> QED BY <2>1, <2>5, EndRunRestores DEF Held
<1> QED BY <1>1, <1>2, <1>3, PTL DEF Spec, RunRestores

-----------------------------------------------------------------------------
(* What the names in GOT point to *)

(* Names stay good for libraries that stay open.                            *)
LEMMA GoodKept ==
  ASSUME SlotInv, [Next]_vars, NEW some \in SUBSET DOMAIN libs, some \subseteq DOMAIN libs', NEW names,
         \A s \in names : got'[s] = got[s], GoodFor(some, names)
  PROVE  GoodFor(some, names)'
<1>1. /\ \A h \in some : libs'[h] = libs[h] /\ \A x \in SlotsOf(h) : table'[x] = table[x]
      /\ \A x \in DOMAIN MainTable : table'[x] = table[x]
  BY OwnedKept
<1>2. \A h \in some : \A x : x \in SlotsOf(h)' <=> x \in SlotsOf(h)
  BY <1>1 DEF SlotsOf, Slots, ToSet
<1>3. ASSUME NEW s \in names PROVE PointsInto(some, s)'
  <2>1. got'[s] = got[s] /\ PointsInto(some, s)
    BY DEF GoodFor
  <2>2. CASE s \in DataSym
    BY <1>1, <2>1, <2>2 DEF PointsInto
  <2>3. CASE s \notin DataSym
    BY <1>1, <1>2, <2>1, <2>3 DEF PointsInto
  <2> QED BY <2>2, <2>3
<1>4. ASSUME NEW h \in some, NEW x, x \in SlotsOf(h)'
      PROVE  table'[x].of = MainInstance \/ \E k \in some : table'[x].of = libs'[k].load
  <2>1. x \in SlotsOf(h) /\ table'[x] = table[x]
    BY <1>1, <1>2, <1>4
  <2> QED BY <1>1, <2>1 DEF GoodFor
<1>5. \A h \in some : libs'[h].path \in Lib => ToSet(GotImports[libs'[h].path]) \subseteq names
  BY <1>1 DEF GoodFor
<1> QED BY <1>3, <1>4, <1>5 DEF GoodFor

(* A library that loads has all its names resolved, if no dlopen has left   *)
(* names that wait.                                                         *)
LEMMA LoadIsGood ==
  ASSUME SlotInv, PtrsSound, Load, [Next]_vars, funcMap = <<>>, memMap = <<>>, GoodFor(DOMAIN libs, DOMAIN got)
  PROVE  GoodFor(DOMAIN libs, DOMAIN got)'
<1>1. PICK p : p = Top.path
  OBVIOUS
<1>2. /\ TypeOK /\ AvailableAreFree /\ ReservedAreFree /\ OwnedAreSet /\ IsFiniteSet(DOMAIN libs) /\ FramesSound
      /\ frames # <<>> /\ Link(p)
  BY <1>1 DEF SlotInv, SlotsSound, Load, NeedsDone
<1>3. p \in Lib /\ All(p) \in 0 .. All(p)
  BY <1>1, <1>2, TopFacts, AllIndex
<1>4. PICK u, i : u = Pointers(p) /\ i = loads + 1
  OBVIOUS
<1>5. PICK n : n = NextHandle
  OBVIOUS
<1>6. /\ n \notin DOMAIN libs /\ DOMAIN libs' = DOMAIN libs \cup {n}
      /\ libs'[n].path = p /\ libs'[n].load = i /\ libs'[n].ptrs = u
      /\ \A h \in DOMAIN libs : libs'[h] = libs[h]
  <2>1. libs' = WithLibrary(p, i, u)
    BY <1>1, <1>4 DEF Load
  <2>2. libs'[n] = [path |-> p, load |-> i, ptrs |-> u]
    BY <1>2, <1>5, <2>1, NewHandle
  <2>3. n \notin DOMAIN libs /\ DOMAIN libs' = DOMAIN libs \cup {n}
    BY <1>2, <1>5, <2>1, NewHandle
  <2>4. \A h \in DOMAIN libs : libs'[h] = libs[h]
    BY <1>2, <1>5, <2>1, NewHandle
  <2> QED BY <2>2, <2>3, <2>4
<1>7. /\ MainSound' /\ \A x \in DOMAIN table : table'[x] = table[x]
  BY <1>2, <1>3, LinkFacts
<1>8. /\ Instantiate(p) /\ table' = TableWith(p, Len(Pending(p))) /\ got' = GotWith(p, Len(PendingData(p)))
      /\ DataLinksTo(p, Len(PendingData(p))) /\ funcMap' = <<>> /\ memMap' = <<>>
      /\ TakeSlots(p, Len(NewFuncs(p, All(p))) + Len(Fresh(p)))
  BY <1>2 DEF Link, Instantiate
<1> DEFINE d == PendingData(p)
           v == Pending(p)
           g == GotRead(p, All(p))
           new == ToSet(Unknown(p, All(p)))
<1>9. \A s \in Seq({}) : ToSet(s) = {}
  BY LenProperties, ElementOfSeq DEF ToSet
<1>10. ToSet(funcMap) = {} /\ ToSet(memMap) = {}
  BY <1>9, EmptySeq
<1>11. /\ DOMAIN d = 1 .. Len(d) /\ Len(d) \in 0 .. Len(d) /\ ToSet(d) = new \cap DataSym
  <2>1. DOMAIN d = 1 .. Len(d) /\ Len(d) \in Nat
    BY <1>2, <1>3, DataFacts
  <2>2. ToSet(d) = ToSet(memMap) \cup (new \cap DataSym)
    BY <1>2, <1>3, DataFacts
  <2> HIDE DEF d, new
  <2> QED BY <1>10, <2>1, <2>2
<1>12. /\ DOMAIN g = DOMAIN got \cup new /\ DOMAIN g \subseteq Sym
       /\ \A s \in new : s \in FuncSym /\ s \in ToSet(MainTable) => g[s] \in DOMAIN MainTable /\ MainTable[g[s]] = s
  <2>1. DOMAIN g = DOMAIN got \cup new
    BY <1>2, <1>3, GotReadFacts
  <2>2. DOMAIN g \subseteq FuncSym \cup DataSym
    BY <1>2, <1>3, GotReadFacts
  <2>3. ASSUME NEW s \in new, s \in FuncSym, s \in ToSet(MainTable)
        PROVE  g[s] \in DOMAIN MainTable /\ MainTable[g[s]] = s
    <3>1. \A t \in new :
            /\ t \in DataSym => g[t] = NoAddress
            /\ t \in FuncSym /\ t \in ToSet(MainTable) => g[t] \in DOMAIN MainTable /\ MainTable[g[t]] = t
      BY <1>2, <1>3, GotReadFacts
    <3> HIDE DEF new, g
    <3> QED BY <2>3, <3>1
  <2> QED BY <2>1, <2>2, <2>3 DEF Sym
<1>13. /\ DOMAIN got' = DOMAIN g
       /\ \A j \in 1 .. Len(d) : got'[d[j]] = DataResolve(p, d[j])
       /\ \A s \in FuncSym \cap DOMAIN g : got'[s] = g[s]
  BY <1>2, <1>3, <1>8, <1>11, GotFacts
<1>14. \A s \in DOMAIN got : got'[s] = got[s]
  <2>1. ToSet(memMap') \subseteq ToSet(PendingData(p))
    BY <1>8, <1>9, EmptySeq
  <2>2. GotGrows
    BY <1>2, <1>3, <1>8, <1>11, <2>1, GotWithGrows
  <2> QED BY <1>10, <2>2 DEF GotGrows
<1>15. /\ ToSet(v) = (new \cap FuncSym) \ ToSet(MainTable)
       /\ ToSet(Fresh(p)) = ToSet(Exports[p]) \ ToSet(v)
       /\ DOMAIN v = 1 .. Len(v) /\ DOMAIN Fresh(p) = 1 .. Len(Fresh(p))
  <2>1. /\ NewFuncs(p, All(p)) \in Seq(FuncSym \ (DOMAIN got \cup ToSet(MainTable)))
        /\ ToSet(NewFuncs(p, All(p))) = (new \cap FuncSym) \ ToSet(MainTable)
    BY <1>3, NewNames
  <2>2. v = NewFuncs(p, All(p))
    BY <2>1, ConcatEmptySeq DEF Pending
  <2> QED BY <1>2, <1>3, <1>8, <2>1, <2>2, NewSlots
<1>16. /\ \A j \in DOMAIN u :
            \/ \E k \in 1 .. Len(Fresh(p)) : u[j].sym = Fresh(p)[k]
            \/ \E k \in 1 .. Len(v) : u[j].sym = v[k] /\ u[j].slot = g[v[k]]
       /\ \A s \in ToSet(v) : \E j \in DOMAIN u : u[j].sym = s
  <2>1. \A j \in DOMAIN Pointers(p) :
           \/ \E k \in 1 .. Len(Fresh(p)) :
                Pointers(p)[j].sym = Fresh(p)[k] /\ Pointers(p)[j].slot = FreshSlot(p, k)
           \/ \E k \in 1 .. Len(v) : Pointers(p)[j].sym = v[k] /\ Pointers(p)[j].slot = g[v[k]]
    BY <1>3, <1>8, PointersFacts
  <2>2. \A s \in ToSet(Fresh(p)) \cup ToSet(v) : \E j \in DOMAIN Pointers(p) : Pointers(p)[j].sym = s
    BY <1>3, <1>8, PointersFacts
  <2> HIDE DEF v, g
  <2>3. \A j \in DOMAIN u :
           \/ \E k \in 1 .. Len(Fresh(p)) : u[j].sym = Fresh(p)[k] /\ u[j].slot = FreshSlot(p, k)
           \/ \E k \in 1 .. Len(v) : u[j].sym = v[k] /\ u[j].slot = g[v[k]]
    BY <1>4, <2>1
  <2>4. \A s \in ToSet(Fresh(p)) \cup ToSet(v) : \E j \in DOMAIN u : u[j].sym = s
    BY <1>4, <2>2
  <2> QED BY <2>3, <2>4
<1>17. /\ \A j \in DOMAIN u :
            /\ table'[u[j].slot].sym = u[j].sym
            /\ \/ table'[u[j].slot].of \in {MainInstance, loads + 1}
               \/ \E h \in DOMAIN libs : \E x \in SlotsOf(h) : table'[u[j].slot] = table[x]
  BY <1>2, <1>3, <1>4, NewPointers
<1>18. \A x : x \in SlotsOf(n)' <=> \E j \in DOMAIN u : x = u[j].slot
  BY <1>6 DEF SlotsOf, Slots, ToSet
<1>19. \A h \in DOMAIN libs : \A x : x \in SlotsOf(h)' <=> x \in SlotsOf(h)
  BY <1>6 DEF SlotsOf, Slots, ToSet
<1>20. \A h \in DOMAIN libs : \A x \in SlotsOf(h) : x \in DOMAIN table /\ table'[x] = table[x]
  BY <1>2, <1>7 DEF OwnedAreSet
<1>21. GoodFor(DOMAIN libs, DOMAIN got)
  OBVIOUS
<1> HIDE DEF d, v, g, new
<1>22. ASSUME NEW s \in new, s \in DataSym PROVE PointsInto(DOMAIN libs, s)'
  <2>1. s \in ToSet(d)
    BY <1>11, <1>22
  <2>2. PICK j \in 1 .. Len(d) : d[j] = s
    BY <1>11, <2>1 DEF ToSet
  <2>3. got'[s] = DataResolve(p, s) /\ DataResolvable(p, s)
    BY <1>8, <1>13, <2>2 DEF DataLinksTo, d
  <2>4. \/ DataResolve(p, s) = loads + 1 /\ s \in DataExports[p]
        \/ \E h \in DataOffers(s) : DataResolve(p, s) = libs[h].load
        \/ DataResolve(p, s) = MainInstance /\ s \in MainData
    BY <1>2, <1>3, <2>3, DataFacts
  <2>5. CASE DataResolve(p, s) = loads + 1 /\ s \in DataExports[p]
    <3>1. n \in DOMAIN libs' /\ libs'[n].path \in Lib /\ got'[s] = libs'[n].load /\ s \in DataExports[libs'[n].path]
      BY <1>3, <1>4, <1>6, <2>3, <2>5
    <3> QED BY <1>22, <3>1 DEF PointsInto
  <2>6. CASE \E h \in DataOffers(s) : DataResolve(p, s) = libs[h].load
    <3>1. PICK h \in DataOffers(s) : DataResolve(p, s) = libs[h].load
      BY <2>6
    <3>2. h \in DOMAIN libs /\ libs[h].path \in Lib /\ s \in DataExports[libs[h].path]
      BY DEF DataOffers
    <3>3. h \in DOMAIN libs' /\ libs'[h].path \in Lib /\ got'[s] = libs'[h].load /\ s \in DataExports[libs'[h].path]
      BY <1>6, <2>3, <3>1, <3>2
    <3> QED BY <1>22, <3>3 DEF PointsInto
  <2>7. CASE DataResolve(p, s) = MainInstance /\ s \in MainData
    BY <1>22, <2>3, <2>7 DEF PointsInto
  <2> QED BY <2>4, <2>5, <2>6, <2>7
<1>23. ASSUME NEW s \in new, s \in FuncSym PROVE PointsInto(DOMAIN libs, s)'
  <2>1. got'[s] = g[s] /\ s \notin DataSym
    BY <1>12, <1>13, <1>23, KindAssumption
  <2>2. CASE s \in ToSet(MainTable)
    <3>1. PICK x : x = g[s]
      OBVIOUS
    <3>2. x \in DOMAIN MainTable /\ MainTable[x] = s
      BY <1>12, <1>23, <2>2, <3>1
    <3>3. table'[x].sym = s
      <4>1. table'[x] = Function(MainInstance, MainTable[x])
        BY <1>7, <3>2 DEF MainSound
      <4> QED BY <3>2, <4>1 DEF Function
    <3> QED BY <2>1, <3>1, <3>2, <3>3 DEF PointsInto
  <2>3. CASE s \notin ToSet(MainTable)
    <3>1. s \in ToSet(v)
      BY <1>15, <1>23, <2>3
    <3>2. PICK j \in DOMAIN u : u[j].sym = s
      BY <1>16, <3>1
    <3>3. ASSUME NEW k \in 1 .. Len(Fresh(p)) PROVE s # Fresh(p)[k]
      <4>1. Fresh(p)[k] \in ToSet(Fresh(p))
        BY <1>15 DEF ToSet
      <4> QED BY <1>15, <3>1, <4>1
    <3>4. u[j].slot = g[s]
      BY <1>16, <3>2, <3>3
    <3>5. n \in DOMAIN libs' /\ got'[s] \in SlotsOf(n)' /\ table'[got'[s]].sym = s
      BY <1>6, <1>17, <1>18, <2>1, <3>2, <3>4
    <3> QED BY <2>1, <3>5 DEF PointsInto
  <2> QED BY <2>2, <2>3
<1>24. ASSUME NEW s \in DOMAIN got PROVE PointsInto(DOMAIN libs, s)'
  <2>1. PointsInto(DOMAIN libs, s) /\ got'[s] = got[s]
    BY <1>14, <1>21 DEF GoodFor
  <2>2. CASE s \in DataSym
    BY <1>6, <2>1, <2>2 DEF PointsInto
  <2>3. CASE s \notin DataSym
    <3>1. \A x \in DOMAIN MainTable : x \in DOMAIN table
      BY DEF SlotInv, MainSound
    <3>2. table'[got[s]] = table[got[s]]
      BY <1>7, <1>20, <2>1, <2>3, <3>1 DEF PointsInto
    <3>3. got[s] \in DOMAIN MainTable \/ \E h \in DOMAIN libs' : got[s] \in SlotsOf(h)'
      BY <1>6, <1>19, <2>1, <2>3 DEF PointsInto
    <3> QED BY <2>1, <2>3, <3>2, <3>3 DEF PointsInto
  <2> QED BY <2>2, <2>3
<1>25. ASSUME NEW h \in DOMAIN libs, NEW x \in SlotsOf(h)
       PROVE  table[x].of = MainInstance \/ \E k \in DOMAIN libs' : table[x].of = libs'[k].load
  BY <1>6, <1>21 DEF GoodFor
<1>26. ASSUME NEW h \in DOMAIN libs', NEW x, x \in SlotsOf(h)'
       PROVE  table'[x].of = MainInstance \/ \E k \in DOMAIN libs' : table'[x].of = libs'[k].load
  <2>1. CASE h = n
    <3>1. PICK j \in DOMAIN u : x = u[j].slot
      BY <1>18, <1>26, <2>1
    <3>2. \/ table'[x].of \in {MainInstance, i}
          \/ \E k \in DOMAIN libs : \E y \in SlotsOf(k) : table'[x] = table[y]
      BY <1>4, <1>17, <3>1
    <3>3. n \in DOMAIN libs' /\ libs'[n].load = i
      BY <1>6
    <3> QED BY <1>25, <3>2, <3>3
  <2>2. CASE h \in DOMAIN libs
    <3>1. x \in SlotsOf(h) /\ table'[x] = table[x]
      BY <1>19, <1>20, <1>26, <2>2
    <3> QED BY <1>25, <2>2, <3>1
  <2> QED BY <1>6, <2>1, <2>2
<1>27. ASSUME NEW h \in DOMAIN libs', libs'[h].path \in Lib PROVE ToSet(GotImports[libs'[h].path]) \subseteq DOMAIN got'
  <2>1. CASE h = n
    <3>1. ToSet(GotImports[p]) \subseteq DOMAIN got \cup ToSet(Unknown(p, All(p)))
      BY <1>3, NewNames
    <3> QED BY <1>6, <1>12, <1>13, <2>1, <3>1 DEF new
  <2>2. CASE h \in DOMAIN libs
    BY <1>6, <1>12, <1>13, <1>21, <1>27, <2>2 DEF GoodFor
  <2> QED BY <1>6, <2>1, <2>2
<1>28. \A s \in DOMAIN got' : PointsInto(DOMAIN libs, s)'
  <2>1. \A s \in DOMAIN got' : s \in DOMAIN got \/ (s \in new /\ (s \in DataSym \/ s \in FuncSym))
    BY <1>12, <1>13 DEF Sym
  <2> QED BY <1>22, <1>23, <1>24, <2>1
<1> QED BY <1>26, <1>27, <1>28 DEF GoodFor

(* What was saved of a program whose dlopens all succeeded stays good, as   *)
(* long as nobody closes its libraries.                                     *)
LEMMA SavedStaysGood ==
  ASSUME SlotInv, SavedSound, GotSound, [Next]_vars, NEW i \in DOMAIN runs,
         NEW r, r = runs[i], r.clean, r.shut = {}, i \in DOMAIN runs' => runs'[i].shut = {}
  PROVE  GoodFor(DOMAIN r.libs, DOMAIN r.got)'
<1>1. SavedOf(r) /\ GoodFor(DOMAIN r.libs, DOMAIN r.got) /\ Held(r) = DOMAIN r.libs
  BY DEF SavedSound, GotSound, Held
<1>2. /\ DOMAIN r.libs \in SUBSET DOMAIN libs
      /\ \A s \in DOMAIN r.got : got[s] = r.got[s]
  BY <1>1 DEF SavedOf
<1>3. DOMAIN r.libs \subseteq DOMAIN libs' /\ \A s \in DOMAIN r.got : got'[s] = got[s]
  <2>1. CASE ~EndRun
    <3>1. PICK q : q = runs'[i]
      OBVIOUS
    <3>2. SavedOf(q)'
      BY <2>1, <3>1, SavedKept
    <3>3. q.libs = r.libs /\ q.got = r.got /\ q.clean = r.clean /\ i \in DOMAIN runs'
      BY <2>1, <3>1, RunsKept
    <3>4. Held(q) = DOMAIN r.libs
      BY <3>1, <3>3 DEF Held
    <3> QED BY <1>2, <3>2, <3>3, <3>4 DEF SavedOf
  <2>2. CASE EndRun
    <3>1. /\ Len(runs) \in DOMAIN runs /\ Last(runs) = runs[Len(runs)] /\ libs' = libs
          /\ DOMAIN got' = DOMAIN Last(runs).got /\ \A s \in DOMAIN got' : got'[s] = got[s]
      BY <2>2, EndRunRestores
    <3>2. DOMAIN runs = 1 .. Len(runs) /\ Len(runs) \in Nat
      BY <2>2, EndRunRestores
    <3>3. DOMAIN r.got \subseteq DOMAIN runs[Len(runs)].got
      BY <3>1, <3>2 DEF SavedSound
    <3> QED BY <1>2, <3>1, <3>3
  <2> QED BY <2>1, <2>2
<1>4. PICK some, names : some = DOMAIN r.libs /\ names = DOMAIN r.got
  OBVIOUS
<1>5. GoodFor(some, names)'
  BY <1>1, <1>2, <1>3, <1>4, GoodKept
<1> QED BY <1>4, <1>5 DEF GoodFor, PointsInto

(* What the running program has stays good while its dlopens succeed.       *)
LEMMA OwnStaysGood ==
  ASSUME SlotInv, PtrsSound, SavedSound, GotSound, [Next]_vars, clean'
  PROVE  GoodFor(DOMAIN libs, DOMAIN got)'
<1>1. clean => GoodFor(DOMAIN libs, DOMAIN got) /\ funcMap = <<>> /\ memMap = <<>>
  BY DEF GotSound, SavedSound
<1>2. PICK some, names : some = DOMAIN libs /\ names = DOMAIN got
  OBVIOUS
<1>3. CASE Load
  <2>1. clean
    BY <1>3 DEF Load
  <2> QED BY <1>1, <1>3, <2>1, LoadIsGood
<1>4. ASSUME clean, UNCHANGED <<libs, got>> PROVE GoodFor(DOMAIN libs, DOMAIN got)'
  <2>1. GoodFor(some, names)'
    BY <1>1, <1>2, <1>4, GoodKept
  <2> QED BY <1>2, <1>4, <2>1 DEF GoodFor, PointsInto
<1>5. CASE OpenMain
  <2>1. clean /\ got' = got
    BY <1>5 DEF OpenMain
  <2>2. PICK h, l : h = NextHandle /\ l = [path |-> Main, load |-> MainInstance, ptrs |-> <<>>]
    OBVIOUS
  <2>3. DOMAIN libs' = DOMAIN libs \cup {h} /\ libs'[h] = l
    <3>1. PICK p, i, ptrs : p = Main /\ i = MainInstance /\ ptrs = <<>>
      OBVIOUS
    <3>2. libs' = WithLibrary(p, i, ptrs) /\ TypeOK /\ IsFiniteSet(DOMAIN libs)
      BY <1>5, <3>1 DEF OpenMain, SlotInv, SlotsSound
    <3>3. DOMAIN libs' = DOMAIN libs \cup {NextHandle}
      BY <3>2, NewHandle
    <3>4. libs'[NextHandle] = [path |-> p, load |-> i, ptrs |-> ptrs]
      BY <3>2, NewHandle
    <3> QED BY <2>2, <3>1, <3>3, <3>4
  <2>4. some \subseteq DOMAIN libs'
    BY <1>2, <2>3
  <2>5. GoodFor(some, names)'
    BY <1>1, <1>2, <2>1, <2>4, GoodKept
  <2>6. libs'[h].path \notin Lib /\ \A x : x \notin SlotsOf(h)'
    BY <2>2, <2>3, KindAssumption DEF SlotsOf, Slots, ToSet
  <2>7. ASSUME NEW s \in DOMAIN got' PROVE PointsInto(DOMAIN libs, s)'
    <3>1. PointsInto(some, s)'
      BY <1>2, <2>1, <2>5, <2>7 DEF GoodFor
    <3> QED BY <1>2, <2>4, <3>1 DEF PointsInto
  <2>8. \A k \in DOMAIN libs' : \A x : x \in SlotsOf(k)' =>
          table'[x].of = MainInstance \/ \E j \in DOMAIN libs' : table'[x].of = libs'[j].load
    BY <1>2, <2>3, <2>5, <2>6 DEF GoodFor
  <2>9. \A k \in DOMAIN libs' : libs'[k].path \in Lib => ToSet(GotImports[libs'[k].path]) \subseteq DOMAIN got'
    BY <1>2, <2>1, <2>3, <2>5, <2>6 DEF GoodFor
  <2> QED BY <2>7, <2>8, <2>9 DEF GoodFor
<1>6. CASE EndRun
  <2>1. /\ Len(runs) \in DOMAIN runs /\ Last(runs) = runs[Len(runs)]
        /\ Last(runs).clean /\ Last(runs).shut = {} /\ DOMAIN got' = DOMAIN Last(runs).got
        /\ Len(runs) \notin DOMAIN runs'
    <3>1. clean' = (Last(runs).clean /\ Last(runs).shut = {})
      BY <1>6, EndRunRestores
    <3>2. DOMAIN runs' = 1 .. Len(runs) - 1 /\ Len(runs) \in Nat
      BY <1>6, EndRunRestores
    <3>3. Len(runs) \notin DOMAIN runs'
      BY <3>2
    <3> QED BY <1>6, <3>1, <3>3, EndRunRestores
  <2>2. PICK r : r = runs[Len(runs)]
    OBVIOUS
  <2>3. DOMAIN libs' = DOMAIN r.libs
    BY <1>6, <2>1, <2>2, EndRunRestores DEF Held
  <2>4. GoodFor(DOMAIN r.libs, DOMAIN r.got)'
    BY <2>1, <2>2, SavedStaysGood
  <2> QED BY <2>1, <2>2, <2>3, <2>4 DEF GoodFor, PointsInto
<1>7. CASE Opens /\ ~OpenMain
  <2>1. UNCHANGED <<clean, libs, got>>
    BY <1>7 DEF Opens, BeginOpen, linker
  <2> QED BY <1>4, <2>1
<1>8. CASE Linking /\ ~Load
  <2>1. UNCHANGED <<clean, libs, got>>
    BY <1>8 DEF Linking, OpenNeeded, NotALibrary, ImportFails, UnresolvedFunction, UnresolvedData, CtorsFail,
           Throws, linker
  <2> QED BY <1>4, <2>1
<1>9. CASE (\E h \in DOMAIN libs : Dlclose(h)) \/ CloseNew
  <2>1. clean' = FALSE
    BY <1>9 DEF Dlclose, CloseNew, Unload
  <2> QED BY <2>1
<1>10. CASE BeginRun \/ UNCHANGED vars
  <2>1. UNCHANGED <<clean, libs, got>>
    BY <1>10 DEF BeginRun, vars, linker
  <2> QED BY <1>4, <2>1
<1> QED BY <1>3, <1>5, <1>6, <1>7, <1>8, <1>9, <1>10 DEF Next

(* Every step keeps the names good, the running program's and the saved     *)
(* ones.                                                                    *)
LEMMA GotStep == SlotInv /\ PtrsSound /\ SavedSound /\ GotSound /\ [Next]_vars => GotSound'
<1>1. SUFFICES ASSUME SlotInv, PtrsSound, SavedSound, GotSound, [Next]_vars PROVE GotSound'
  OBVIOUS
<1>2. clean' => GoodFor(DOMAIN libs, DOMAIN got)'
  BY <1>1, OwnStaysGood
<1>3. ASSUME NEW i \in DOMAIN runs, i \in DOMAIN runs', runs'[i].clean, runs'[i].shut = {}
      PROVE  GoodFor(DOMAIN runs[i].libs, DOMAIN runs[i].got)'
  <2>1. PICK r : r = runs[i]
    OBVIOUS
  <2>2. /\ runs'[i].libs = r.libs /\ runs'[i].got = r.got /\ runs'[i].clean = r.clean
        /\ r.shut \subseteq runs'[i].shut
    <3>1. CASE EndRun
      BY <1>1, <1>3, <2>1, <3>1, EndRunRestores
    <3>2. CASE ~EndRun
      BY <1>1, <2>1, <3>2, RunsKept
    <3> QED BY <3>1, <3>2
  <2>3. r.clean /\ r.shut = {}
    BY <1>3, <2>2
  <2>4. GoodFor(DOMAIN r.libs, DOMAIN r.got)'
    BY <1>1, <1>3, <2>1, <2>3, SavedStaysGood
  <2> QED BY <2>2, <2>4 DEF GoodFor, PointsInto
<1>4. runs \in Seq(ToSet(runs))
  BY <1>1 DEF SlotInv, RunsSound
<1>5. CASE BeginRun
  <2>1. PICK r : r = [libs |-> libs, got |-> got, clean |-> clean, shut |-> {}]
    OBVIOUS
  <2>2. runs' = Append(runs, r) /\ UNCHANGED <<libs, got, clean>>
    BY <1>5, <2>1 DEF BeginRun, linker
  <2>3. r.libs = libs /\ r.got = got /\ r.clean = clean
    BY <2>1
  <2>4. PICK n : n = Len(runs)
    OBVIOUS
  <2>5. /\ n \in Nat /\ DOMAIN runs = 1 .. n /\ DOMAIN runs' = 1 .. n + 1
        /\ \A i \in 1 .. n : runs'[i] = runs[i]
        /\ runs'[n + 1] = r
    BY <1>4, <2>2, <2>4, AppendToSet
  <2>6. ASSUME NEW i \in DOMAIN runs', runs'[i].clean, runs'[i].shut = {}
        PROVE  GoodFor(DOMAIN runs[i].libs, DOMAIN runs[i].got)'
    <3>1. CASE i \in DOMAIN runs
      BY <1>3, <2>5, <2>6, <3>1
    <3>2. CASE i = n + 1
      <4>1. runs'[i] = r /\ clean'
        BY <2>2, <2>3, <2>5, <2>6, <3>2
      <4>2. DOMAIN runs'[i].libs = DOMAIN libs' /\ DOMAIN runs'[i].got = DOMAIN got'
        BY <2>2, <2>3, <4>1
      <4> QED BY <1>2, <4>1, <4>2 DEF GoodFor, PointsInto
    <3> QED BY <2>5, <3>1, <3>2
  <2> QED BY <1>2, <2>6 DEF GotSound
<1>6. CASE EndRun
  <2>1. /\ DOMAIN runs = 1 .. Len(runs) /\ DOMAIN runs' = 1 .. Len(runs) - 1 /\ Len(runs) \in Nat
        /\ \A i \in 1 .. Len(runs) - 1 : i \in DOMAIN runs /\ runs'[i] = runs[i]
    BY <1>1, <1>6, EndRunRestores
  <2> QED BY <1>2, <1>3, <2>1 DEF GotSound
<1>7. CASE ~BeginRun /\ ~EndRun
  <2>1. DOMAIN runs' = DOMAIN runs
    BY <1>1, <1>7, RunsKept
  <2> QED BY <1>2, <1>3, <2>1 DEF GotSound
<1> QED BY <1>5, <1>6, <1>7

(* The whole invariant holds at first. *)
LEMMA LinkAtStart == Init => LinkInv
<1>1. SUFFICES ASSUME Init PROVE LinkInv
  OBVIOUS
<1>2. SlotInv /\ SavedSound /\ PtrsSound
  BY <1>1, SlotsAtStart, SavedAtStart DEF Init, PtrsSound
<1>3. DOMAIN runs = {}
  BY <1>1, EmptySeq DEF Init
<1>4. DOMAIN libs = {} /\ DOMAIN got = {}
  BY <1>1 DEF Init
<1>5. GotSound
  BY <1>3, <1>4 DEF GotSound, GoodFor
<1> QED BY <1>2, <1>5 DEF LinkInv

(* Between dlopens, a program whose dlopens all succeeded and whose          *)
(* libraries nobody closed has good pointers in all of them, whatever else   *)
(* the programs did that ran in its memory.                                  *)
THEOREM PointersStay == Spec => []PointersGood
<1>1. Init => LinkInv
  BY LinkAtStart
<1>2. LinkInv /\ [Next]_vars => LinkInv'
  BY SlotsStep, PtrsStep, SavedStep, GotStep DEF LinkInv
<1>3. LinkInv => PointersGood
  <2>1. SUFFICES ASSUME LinkInv, clean, NEW h \in DOMAIN libs, libs[h].path \in Lib,
                        NEW s \in ToSet(GotImports[libs[h].path])
                 PROVE  s \in DOMAIN got /\ PointsRight(s)
    BY DEF PointersGood, AllPointRight
  <2>2. GoodFor(DOMAIN libs, DOMAIN got) /\ SlotInv
    BY <2>1 DEF LinkInv, GotSound
  <2>3. s \in DOMAIN got /\ PointsInto(DOMAIN libs, s)
    BY <2>1, <2>2 DEF GoodFor
  <2>4. CASE s \in DataSym
    BY <2>3, <2>4 DEF PointsInto, PointsRight
  <2>5. CASE s \notin DataSym /\ got[s] \in DOMAIN MainTable
    <3>1. got[s] \in DOMAIN table /\ table[got[s]].of = MainInstance
      <4>1. PICK x \in DOMAIN MainTable : x = got[s]
        BY <2>5
      <4>2. x \in DOMAIN table /\ table[x] = Function(MainInstance, MainTable[x])
        BY <2>2 DEF SlotInv, MainSound
      <4>3. table[x].of = MainInstance
        BY <4>2 DEF Function
      <4> QED BY <4>1, <4>2, <4>3
    <3>2. table[got[s]].sym = s
      BY <2>3, <2>5 DEF PointsInto
    <3> QED BY <2>3, <2>5, <3>1, <3>2 DEF PointsRight, Instances
  <2>6. CASE s \notin DataSym /\ \E k \in DOMAIN libs : got[s] \in SlotsOf(k)
    <3>1. PICK k \in DOMAIN libs : got[s] \in SlotsOf(k)
      BY <2>6
    <3>2. got[s] \in DOMAIN table
      BY <2>2, <3>1 DEF SlotInv, SlotsSound, OwnedAreSet
    <3>3. table[got[s]].of = MainInstance \/ \E j \in DOMAIN libs : table[got[s]].of = libs[j].load
      BY <2>2, <3>1 DEF GoodFor
    <3>4. table[got[s]].sym = s
      BY <2>3, <2>6 DEF PointsInto
    <3> QED BY <2>3, <2>6, <3>2, <3>3, <3>4 DEF PointsRight, Instances
  <2>7. s \in DataSym \/ got[s] \in DOMAIN MainTable \/ \E k \in DOMAIN libs : got[s] \in SlotsOf(k)
    BY <2>3 DEF PointsInto
  <2> QED BY <2>4, <2>5, <2>6, <2>7
<1> QED BY <1>1, <1>2, <1>3, PTL DEF Spec

===============================================================================
