----------------------------- MODULE FdTableProofs -----------------------------
(***************************************************************************)
(* What holds of FdTable for tables and hosts of any size, and any number  *)
(* of calls, programs run in place and children.                           *)
(***************************************************************************)
EXTENDS FdTable, SequenceTheorems, FiniteSetTheorems, TLAPS

-----------------------------------------------------------------------------
(* The inductive invariant *)

Number == Native \cup Virtual
File == Nat
Partial(V) == UNION {[D -> V] : D \in SUBSET (0 .. TableMax)}
Saved == [table : Partial(Number), meant : Partial(File)]

Types ==
  /\ files \in Nat
  /\ host \in [Number -> {Closed} \cup 0 .. (files - 1)]
  /\ FD_MAP \in Partial(Number) /\ meant \in Partial(File)
  /\ saved \in Seq(Saved)
  /\ \A k \in kids, g \in Std : k.real[g] \in Native /\ k.meant[g] \in File
  /\ lost \subseteq {n \in Number : host[n] # Closed}

(* Neither a child nor Node.js relies on the number n. *)
Alone(n) ==
  /\ n \in KidReals => <<Kid, n>> \in wrong
  /\ n \in Own => <<Node, n>> \in wrong

(* What is not in wrong keeps its file, and shares its number only with    *)
(* descriptors of the tables.                                              *)
EntrySound(d, g) ==
  \/ <<d, g>> \in wrong
  \/ /\ g \in DOMAIN TableAt(d) <=> g \in DOMAIN MeantAt(d)
     /\ g \in DOMAIN TableAt(d) => /\ host[TableAt(d)[g]] = MeantAt(d)[g]
                                   /\ Alone(TableAt(d)[g])
KidSound(k, g) ==
  \/ <<Kid, k.real[g]>> \in wrong
  \/ /\ host[k.real[g]] = k.meant[g]
     /\ k.real[g] \in Own => <<Node, k.real[g]>> \in wrong
     /\ \A j \in kids \ {k} : k.real[g] \notin RealsOf(j)

TablesSound == \A d \in 0 .. Depth, g \in 0 .. TableMax : EntrySound(d, g)
KidsSound == \A k \in kids, g \in Std : KidSound(k, g)
NodeSound == \A n \in Own : <<Node, n>> \in wrong \/ host[n] = n
Sound == TablesSound /\ KidsSound /\ NodeSound

FdInv == Types /\ Sound /\ NothingForgotten

-----------------------------------------------------------------------------
(* Tables *)

(* A table is a function from some descriptors. *)
LEMMA OfPartial ==
  ASSUME NEW V, NEW f \in Partial(V)
  PROVE  /\ DOMAIN f \subseteq 0 .. TableMax
         /\ \A g \in DOMAIN f : f[g] \in V
         /\ f = [g \in DOMAIN f |-> f[g]]
BY DEF Partial

(* A descriptor is set. *)
LEMMA WithPartial ==
  ASSUME NEW V, NEW f \in Partial(V), NEW g \in 0 .. TableMax, NEW v \in V
  PROVE  /\ With(f, g, v) \in Partial(V)
         /\ DOMAIN With(f, g, v) = DOMAIN f \cup {g}
         /\ With(f, g, v)[g] = v
         /\ \A x \in DOMAIN f \ {g} : With(f, g, v)[x] = f[x]
<1>1. DOMAIN f \cup {g} \in SUBSET (0 .. TableMax) /\ \A x \in DOMAIN f : f[x] \in V
  BY OfPartial
<1>2. With(f, g, v) \in [DOMAIN f \cup {g} -> V]
  BY <1>1 DEF With
<1>3. With(f, g, v) \in Partial(V)
  BY <1>1, <1>2 DEF Partial
<1> QED
  BY <1>3 DEF With

Differ(t, f, g, v) ==
  DOMAIN t = DOMAIN f \cup {g} /\ t[g] = v /\ \A x \in DOMAIN f \ {g} : t[x] = f[x]
(* The same of a table that is given by an equation. *)
LEMMA TableSet ==
  ASSUME NEW V, NEW f \in Partial(V), NEW g \in 0 .. TableMax, NEW v \in V,
         NEW t, t = With(f, g, v)
  PROVE  t \in Partial(V) /\ Differ(t, f, g, v)
BY WithPartial DEF Differ

(* A descriptor is removed. *)
LEMMA WithoutPartial ==
  ASSUME NEW V, NEW f \in Partial(V), NEW g
  PROVE  /\ Without(f, g) \in Partial(V)
         /\ DOMAIN Without(f, g) = DOMAIN f \ {g}
         /\ \A x \in DOMAIN f \ {g} : Without(f, g)[x] = f[x]
<1>1. DOMAIN f \ {g} \in SUBSET (0 .. TableMax) /\ \A x \in DOMAIN f : f[x] \in V
  BY OfPartial
<1>2. Without(f, g) \in [DOMAIN f \ {g} -> V]
  BY <1>1 DEF Without
<1>3. Without(f, g) \in Partial(V)
  BY <1>1, <1>2 DEF Partial
<1> QED
  BY <1>3 DEF Without

(* The numbers and constants. *)
LEMMA Numbers ==
  /\ Start \in Nat /\ TableMax \in Nat /\ HostMax \in Nat /\ Start <= TableMax
  /\ Own \subseteq Native /\ Native \subseteq Nat /\ Number \subseteq Nat /\ Native \subseteq Number
  /\ Closed \notin Nat /\ Kid < 0 /\ Node < 0 /\ Kid # Node /\ Closed \in Int
  /\ Std \subseteq Nat /\ Std \subseteq 0 .. TableMax
  /\ Closed \notin File /\ \A n \in Nat : n \in File
<1>1. Start \in Nat /\ TableMax \in Nat /\ HostMax \in Nat /\ Start <= TableMax
  BY NumberAssumption
<1>2. Own \subseteq Native /\ Virtual \subseteq Nat
  BY NumberAssumption
<1>3. Native \subseteq Nat /\ Std \subseteq Nat /\ Std \subseteq 0 .. TableMax
  BY <1>1 DEF Native, Std
<1> QED
  BY <1>1, <1>2, <1>3 DEF Number, File, Closed, Kid, Node

(* The tables of all depths. *)
LEMMA TableTypes ==
  ASSUME Types
  PROVE  /\ Depth \in Nat
         /\ \A d \in 0 .. Depth : TableAt(d) \in Partial(Number) /\ MeantAt(d) \in Partial(File)
<1>1. Len(saved) \in Nat /\ \A i \in 1 .. Len(saved) : saved[i] \in Saved
  BY LenProperties, ElementOfSeq DEF Types
<1>2. ASSUME NEW d \in 0 .. Depth PROVE TableAt(d) \in Partial(Number) /\ MeantAt(d) \in Partial(File)
  <2>1. CASE d = Depth
    BY <2>1 DEF Types, TableAt, MeantAt
  <2>2. CASE d # Depth
    <3>1. saved[d + 1] \in Saved
      BY <1>1, <1>2, <2>2 DEF Depth
    <3> QED
      BY <2>2, <3>1 DEF TableAt, MeantAt, Saved
  <2> QED
    BY <2>1, <2>2
<1> QED
  BY <1>1, <1>2 DEF Depth

(* Who has a number. *)
LEMMA EntryHolds ==
  ASSUME NEW d \in 0 .. Depth, NEW g \in 0 .. TableMax, g \in DOMAIN TableAt(d)
  PROVE  <<d, g>> \in Holders(TableAt(d)[g])
<1>1. <<d, g>> \in Entries
  BY DEF Entries
<1>2. <<d, g>> \in EntriesOf(TableAt(d)[g])
  BY <1>1 DEF EntriesOf
<1> QED
  BY <1>2 DEF Holders

(* A child's or Node.js's number is held by that child or Node.js. *)
LEMMA OthersHold ==
  ASSUME NEW n
  PROVE  /\ n \in KidReals => <<Kid, n>> \in Holders(n)
         /\ n \in Own => <<Node, n>> \in Holders(n)
BY DEF Holders

(* Nobody else has a number. *)
LEMMA HoldersAre ==
  ASSUME NEW n, NEW e \in Holders(n)
  PROVE  \/ \E d \in 0 .. Depth, g \in 0 .. TableMax :
              e = <<d, g>> /\ g \in DOMAIN TableAt(d) /\ TableAt(d)[g] = n
         \/ e = <<Kid, n>> /\ n \in KidReals
         \/ e = <<Node, n>> /\ n \in Own
<1>1. CASE e \in EntriesOf(n)
  <2>1. PICK d \in 0 .. Depth, g \in 0 .. TableMax : e = <<d, g>>
    BY <1>1 DEF EntriesOf, Entries
  <2> QED
    BY <1>1, <2>1 DEF EntriesOf
<1>2. CASE e \in {<<Kid, n>>} \cap {<<Kid, m>> : m \in KidReals}
  BY <1>2
<1>3. CASE e \in {<<Node, n>>} \cap {<<Node, m>> : m \in Own}
  BY <1>3
<1> QED
  BY <1>1, <1>2, <1>3 DEF Holders

(* A child's numbers. *)
LEMMA KidHolds ==
  ASSUME NEW k \in kids, NEW g \in Std
  PROVE  k.real[g] \in KidReals /\ k.real[g] \in RealsOf(k)
BY DEF KidReals, RealsOf

(* The numbers of the children are numbers of some child. *)
LEMMA KidRealsAre ==
  ASSUME NEW n \in KidReals
  PROVE  \E k \in kids, g \in Std : n = k.real[g]
BY DEF KidReals

(* Whoever has a number that is closed is known to be wrong. *)
LEMMA ClosedIsWrong ==
  ASSUME Types, Sound, NEW n \in Number, host[n] = Closed, NEW e \in Holders(n)
  PROVE  e \in wrong
<1>1. ASSUME NEW d \in 0 .. Depth, NEW g \in 0 .. TableMax,
             e = <<d, g>>, g \in DOMAIN TableAt(d), TableAt(d)[g] = n
      PROVE  e \in wrong
  <2>1. EntrySound(d, g)
    BY DEF Sound, TablesSound
  <2>2. g \in DOMAIN MeantAt(d) => MeantAt(d)[g] \in File
    BY TableTypes, OfPartial
  <2> QED
    BY <1>1, <2>1, <2>2, Numbers DEF EntrySound
<1>2. CASE e = <<Kid, n>> /\ n \in KidReals
  <2>1. PICK k \in kids, g \in Std : n = k.real[g]
    BY <1>2, KidRealsAre
  <2>2. KidSound(k, g) /\ k.meant[g] \in File
    BY DEF Sound, KidsSound, Types
  <2> QED
    BY <1>2, <2>1, <2>2, Numbers DEF KidSound
<1>3. CASE e = <<Node, n>> /\ n \in Own
  BY <1>3, Numbers DEF Sound, NodeSound
<1> QED
  BY <1>1, <1>2, <1>3, HoldersAre

(* A closed number is nobody's but of those that are wrong. *)
LEMMA ClosedIsAlone ==
  ASSUME Types, Sound, NEW n \in Number, host[n] = Closed
  PROVE  Alone(n)
BY ClosedIsWrong, OthersHold DEF Alone

(* Steps of the running program, which change some of its descriptors.     *)
LEMMA CallKeepsSound ==
  ASSUME Types, Sound, UNCHANGED <<saved, kids>>,
         NEW G \in SUBSET (0 .. TableMax),
         \A n \in Number : host'[n] # host[n] =>
           \A e \in Holders(n) : e \in wrong' \/ \E g \in G : e = Here(g),
         \A e \in wrong : e \in wrong' \/ \E g \in G : e = Here(g),
         \A g \in (0 .. TableMax) \ G :
           /\ g \in DOMAIN FD_MAP' <=> g \in DOMAIN FD_MAP
           /\ g \in DOMAIN FD_MAP => FD_MAP'[g] = FD_MAP[g]
           /\ g \in DOMAIN meant' <=> g \in DOMAIN meant
           /\ g \in DOMAIN meant => meant'[g] = meant[g],
         \A g \in G : EntrySound(Depth, g)'
  PROVE  Sound'
<1>1. Depth' = Depth /\ Depth \in Nat /\ KidReals' = KidReals
  BY TableTypes DEF Depth, KidReals
<1>2. \A n : (<<Kid, n>> \in wrong => <<Kid, n>> \in wrong')
             /\ (<<Node, n>> \in wrong => <<Node, n>> \in wrong')
  BY <1>1, Numbers DEF Here
<1>3. \A n : Alone(n) => Alone(n)'
  BY <1>1, <1>2 DEF Alone
<1>4. ASSUME NEW d \in 0 .. Depth, NEW g \in 0 .. TableMax, d # Depth \/ g \notin G
      PROVE  EntrySound(d, g)'
  <2>1. /\ g \in DOMAIN TableAt(d)' <=> g \in DOMAIN TableAt(d)
        /\ g \in DOMAIN TableAt(d) => TableAt(d)'[g] = TableAt(d)[g]
        /\ g \in DOMAIN MeantAt(d)' <=> g \in DOMAIN MeantAt(d)
        /\ g \in DOMAIN MeantAt(d) => MeantAt(d)'[g] = MeantAt(d)[g]
    BY <1>1, <1>4 DEF TableAt, MeantAt
  <2>2. \A h \in G : <<d, g>> # Here(h)
    BY <1>4 DEF Here
  <2>3. <<d, g>> \in wrong => <<d, g>> \in wrong'
    BY <2>2
  <2>4. EntrySound(d, g)
    BY DEF Sound, TablesSound
  <2>5. CASE g \in DOMAIN TableAt(d)
    <3>1. TableAt(d)[g] \in Number
      BY <2>5, TableTypes, OfPartial
    <3>2. host'[TableAt(d)[g]] = host[TableAt(d)[g]] \/ <<d, g>> \in wrong'
      BY <2>2, <2>5, <3>1, EntryHolds
    <3> QED
      BY <1>3, <2>1, <2>3, <2>4, <2>5, <3>2 DEF EntrySound
  <2>6. CASE g \notin DOMAIN TableAt(d)
    BY <2>1, <2>3, <2>4, <2>6 DEF EntrySound
  <2> QED
    BY <2>5, <2>6
<1>5. TablesSound'
  BY <1>1, <1>4 DEF TablesSound
<1>6. ASSUME NEW k \in kids, NEW g \in Std PROVE KidSound(k, g)'
  <2>1. KidSound(k, g) /\ k.real[g] \in KidReals /\ k.real[g] \in Number
    BY KidHolds, Numbers DEF Sound, KidsSound, Types
  <2>2. <<Kid, k.real[g]>> \in Holders(k.real[g])
    BY <2>1, OthersHold
  <2>3. \A h \in G : <<Kid, k.real[g]>> # Here(h)
    BY <1>1, Numbers DEF Here
  <2>4. host'[k.real[g]] = host[k.real[g]] \/ <<Kid, k.real[g]>> \in wrong'
    BY <2>1, <2>2, <2>3
  <2> QED
    BY <1>2, <2>1, <2>4 DEF KidSound, RealsOf
<1>7. KidsSound'
  BY <1>6 DEF KidsSound
<1>8. ASSUME NEW n \in Own PROVE <<Node, n>> \in wrong' \/ host'[n] = n
  <2>1. <<Node, n>> \in Holders(n) /\ n \in Number
    BY OthersHold, Numbers
  <2>2. \A h \in G : <<Node, n>> # Here(h)
    BY <1>1, Numbers DEF Here
  <2> QED
    BY <1>2, <2>1, <2>2 DEF Sound, NodeSound
<1>9. NodeSound'
  BY <1>8 DEF NodeSound
<1> QED
  BY <1>5, <1>7, <1>9 DEF Sound

(* Someone has the number n besides the descriptors G. *)
Elsewhere(n, G) == \E e \in Holders(n) : \A h \in G : e # Here(h)

(* The same steps forget no number. *)
LEMMA CallForgetsNone ==
  ASSUME Types, Types', NothingForgotten, UNCHANGED <<saved, kids>>,
         NEW G \in SUBSET (0 .. TableMax),
         \A g \in (0 .. TableMax) \ G :
           /\ g \in DOMAIN FD_MAP' <=> g \in DOMAIN FD_MAP
           /\ g \in DOMAIN FD_MAP => FD_MAP'[g] = FD_MAP[g],
         \A n \in Number : host'[n] # Closed =>
           \/ n \in lost'
           \/ \E g \in G : g \in DOMAIN FD_MAP' /\ FD_MAP'[g] = n
           \/ /\ host[n] # Closed /\ (n \in lost => n \in lost')
              /\ \A g \in G : g \in DOMAIN FD_MAP /\ FD_MAP[g] = n =>
                   Elsewhere(n, G)
  PROVE  NothingForgotten'
<1>1. Depth' = Depth /\ Depth \in Nat /\ KidReals' = KidReals
  BY TableTypes DEF Depth, KidReals
<1>2. ASSUME NEW n \in Number, host'[n] # Closed PROVE Holders(n)' # {} \/ n \in lost'
  <2>1. ASSUME NEW g \in 0 .. TableMax, g \in DOMAIN FD_MAP', FD_MAP'[g] = n
        PROVE  Holders(n)' # {}
    <3>1. Depth \in 0 .. Depth /\ TableAt(Depth)' = FD_MAP'
      BY <1>1 DEF TableAt
    <3>2. <<Depth, g>> \in EntriesOf(n)'
      BY <1>1, <2>1, <3>1 DEF EntriesOf, Entries
    <3> QED
      BY <3>2 DEF Holders
  <2>2. CASE \E g \in G : g \in DOMAIN FD_MAP' /\ FD_MAP'[g] = n
    BY <2>1, <2>2
  <2>3. CASE /\ host[n] # Closed /\ (n \in lost => n \in lost')
             /\ \A g \in G : g \in DOMAIN FD_MAP /\ FD_MAP[g] = n =>
                  Elsewhere(n, G)
    <3>1. CASE n \in lost
      BY <2>3, <3>1
    <3>2. CASE Holders(n) # {}
      <4>1. PICK e \in Holders(n) :
              \A h \in G : e = Here(h) => ~(h \in DOMAIN FD_MAP /\ FD_MAP[h] = n)
        BY <2>3, <3>2 DEF Elsewhere
      <4>2. ASSUME NEW d \in 0 .. Depth, NEW g \in 0 .. TableMax,
                   d # Depth, g \in DOMAIN TableAt(d), TableAt(d)[g] = n
            PROVE  Holders(n)' # {}
        <5>1. TableAt(d)' = TableAt(d)
          BY <1>1, <4>2 DEF TableAt
        <5>2. <<d, g>> \in EntriesOf(n)'
          BY <1>1, <4>2, <5>1 DEF EntriesOf, Entries
        <5> QED
          BY <5>2 DEF Holders
      <4>3. ASSUME NEW g \in 0 .. TableMax, e = Here(g), g \in DOMAIN FD_MAP, FD_MAP[g] = n
            PROVE  Holders(n)' # {}
        <5>1. g \notin G
          BY <4>1, <4>3
        <5>2. g \in DOMAIN FD_MAP' /\ FD_MAP'[g] = n
          BY <4>3, <5>1
        <5> QED
          BY <2>1, <5>2
      <4>4. CASE n \in KidReals \/ n \in Own
        <5>1. <<Kid, n>> \in Holders(n)' \/ <<Node, n>> \in Holders(n)'
          BY <1>1, <4>4 DEF Holders
        <5> QED
          BY <5>1
      <4>5. ASSUME NEW d \in 0 .. Depth, NEW g \in 0 .. TableMax,
                   e = <<d, g>>, g \in DOMAIN TableAt(d), TableAt(d)[g] = n
            PROVE  Holders(n)' # {}
        BY <4>2, <4>3, <4>5 DEF TableAt, Here
      <4> QED
        BY <4>1, <4>4, <4>5, HoldersAre
    <3> QED
      BY <1>1, <2>3, <3>1, <3>2 DEF NothingForgotten, Types
  <2> QED
    BY <1>2, <2>2, <2>3
<1> QED
  BY <1>2 DEF NothingForgotten, Types

(* A descriptor of the running program that is set anew. *)
LEMMA EntrySet ==
  ASSUME UNCHANGED saved, NEW g, g \in DOMAIN FD_MAP', g \in DOMAIN meant',
         NEW n, FD_MAP'[g] = n, host'[n] = meant'[g], Alone(n)'
  PROVE  EntrySound(Depth, g)'
<1>1. Depth' = Depth /\ TableAt(Depth)' = FD_MAP' /\ MeantAt(Depth)' = meant'
  BY DEF TableAt, MeantAt, Depth
<1> QED
  BY <1>1 DEF EntrySound

(* A step that leaves children alone and, outside the descriptors of the   *)
(* program, takes nothing out of wrong, keeps a number alone.              *)
LEMMA AloneStays ==
  ASSUME UNCHANGED kids, Depth \in Nat,
         \A e \in wrong : e \in wrong' \/ \E g \in 0 .. TableMax : e = Here(g),
         NEW n, Alone(n)
  PROVE  Alone(n)'
<1>1. /\ <<Kid, n>> \in wrong => <<Kid, n>> \in wrong'
      /\ <<Node, n>> \in wrong => <<Node, n>> \in wrong'
  BY Numbers DEF Here
<1> QED
  BY <1>1 DEF Alone, KidReals

(* Unused descriptors are numbers of the table. *)
LEMMA UnusedTypes ==
  Unused(FD_MAP) \subseteq (0 .. TableMax) \ DOMAIN FD_MAP
BY Numbers DEF Unused

(* Steps that set one descriptor of the running program.                   *)
LEMMA SetKeeps ==
  ASSUME FdInv, UNCHANGED <<saved, kids>>,
         NEW g \in 0 .. TableMax, NEW real \in Number, NEW file \in File,
         FD_MAP' = With(FD_MAP, g, real), meant' = With(meant, g, file),
         files' \in Nat, host' \in [Number -> {Closed} \cup 0 .. (files' - 1)],
         lost' \subseteq {n \in Number : host'[n] # Closed},
         \A e \in wrong : e \in wrong' \/ e = Here(g),
         \A n \in Number : host'[n] # host[n] =>
           \A e \in Holders(n) : e \in wrong' \/ e = Here(g),
         Here(g) \in wrong' \/ (host'[real] = file /\ (Alone(real) \/ Alone(real)')),
         \A n \in Number \ {real} : host'[n] # Closed =>
           \/ n \in lost'
           \/ /\ host[n] # Closed /\ (n \in lost => n \in lost')
              /\ g \in DOMAIN FD_MAP /\ FD_MAP[g] = n => \E e \in Holders(n) : e # Here(g)
  PROVE  FdInv'
<1>1. Types /\ Sound /\ NothingForgotten /\ FD_MAP \in Partial(Number) /\ meant \in Partial(File)
  BY DEF FdInv, Types
<1>a. /\ FD_MAP' \in Partial(Number) /\ Differ(FD_MAP', FD_MAP, g, real)
      /\ meant' \in Partial(File) /\ Differ(meant', meant, g, file)
  BY Zenon, <1>1, TableSet
<1>2. /\ FD_MAP' \in Partial(Number) /\ DOMAIN FD_MAP' = DOMAIN FD_MAP \cup {g}
      /\ FD_MAP'[g] = real /\ \A x \in DOMAIN FD_MAP \ {g} : FD_MAP'[x] = FD_MAP[x]
  BY Zenon, <1>a DEF Differ
<1>3. /\ meant' \in Partial(File) /\ DOMAIN meant' = DOMAIN meant \cup {g}
      /\ meant'[g] = file /\ \A x \in DOMAIN meant \ {g} : meant'[x] = meant[x]
  BY Zenon, <1>a DEF Differ
<1>4. Types'
  BY <1>1, <1>2, <1>3 DEF Types
<1>5. EntrySound(Depth, g)'
  <2>1. CASE Here(g) \in wrong'
    BY <2>1 DEF Here, EntrySound, Depth
  <2>2. CASE host'[real] = file /\ (Alone(real) \/ Alone(real)')
    <3>1. Depth \in Nat /\ \A e \in wrong : e \in wrong' \/ \E x \in 0 .. TableMax : e = Here(x)
      BY <1>1, TableTypes
    <3>2. Alone(real)'
      BY <2>2, <3>1, AloneStays
    <3> QED
      BY <1>2, <1>3, <2>2, <3>2, EntrySet
  <2> QED
    BY <2>1, <2>2
<1> DEFINE G == {g}
<1>6. G \in SUBSET (0 .. TableMax) /\ \A x \in G : EntrySound(Depth, x)'
  BY <1>5
<1>7. /\ \A e \in wrong : e \in wrong' \/ \E x \in G : e = Here(x)
      /\ \A n \in Number : host'[n] # host[n] =>
           \A e \in Holders(n) : e \in wrong' \/ \E x \in G : e = Here(x)
  OBVIOUS
<1>8. \A x \in (0 .. TableMax) \ G :
        /\ x \in DOMAIN FD_MAP' <=> x \in DOMAIN FD_MAP
        /\ x \in DOMAIN FD_MAP => FD_MAP'[x] = FD_MAP[x]
        /\ x \in DOMAIN meant' <=> x \in DOMAIN meant
        /\ x \in DOMAIN meant => meant'[x] = meant[x]
  BY <1>2, <1>3
<1>9. \A n \in Number : host'[n] # Closed =>
        \/ n \in lost'
        \/ \E x \in G : x \in DOMAIN FD_MAP' /\ FD_MAP'[x] = n
        \/ /\ host[n] # Closed /\ (n \in lost => n \in lost')
           /\ \A x \in G : x \in DOMAIN FD_MAP /\ FD_MAP[x] = n =>
                Elsewhere(n, G)
  BY <1>2 DEF Elsewhere
<1> HIDE DEF G
<1>10. Sound'
  BY <1>1, <1>6, <1>7, <1>8, CallKeepsSound
<1>11. NothingForgotten'
  BY <1>1, <1>4, <1>6, <1>8, <1>9, CallForgetsNone
<1> QED
  BY <1>4, <1>10, <1>11 DEF FdInv

(* Steps that set none. *)
LEMMA NoneSetKeeps ==
  ASSUME FdInv, UNCHANGED <<saved, kids, FD_MAP, meant, wrong>>,
         files' \in Nat, host' \in [Number -> {Closed} \cup 0 .. (files' - 1)],
         lost' \subseteq {n \in Number : host'[n] # Closed}, lost \subseteq lost',
         \A n \in Number : host'[n] # host[n] => host[n] = Closed /\ n \in lost'
  PROVE  FdInv'
<1>1. Types /\ Sound /\ NothingForgotten
  BY DEF FdInv
<1>2. Types'
  BY <1>1 DEF Types
<1>3. \A n \in Number : host'[n] # host[n] => \A e \in Holders(n) : e \in wrong'
  BY <1>1, ClosedIsWrong
<1> DEFINE G == {}
<1>4. /\ G \in SUBSET (0 .. TableMax) /\ \A x \in G : EntrySound(Depth, x)'
      /\ \A n \in Number : host'[n] # host[n] =>
           \A e \in Holders(n) : e \in wrong' \/ \E x \in G : e = Here(x)
      /\ \A n \in Number : host'[n] # Closed =>
           \/ n \in lost'
           \/ \E x \in G : x \in DOMAIN FD_MAP' /\ FD_MAP'[x] = n
           \/ /\ host[n] # Closed /\ (n \in lost => n \in lost')
              /\ \A x \in G : x \in DOMAIN FD_MAP /\ FD_MAP[x] = n =>
                   Elsewhere(n, G)
  BY <1>3
<1> HIDE DEF G
<1>5. Sound'
  BY <1>1, <1>4, CallKeepsSound
<1>6. NothingForgotten'
  BY <1>1, <1>2, <1>4, CallForgetsNone
<1> QED
  BY <1>2, <1>5, <1>6 DEF FdInv

(* path_open *)
LEMMA PathOpenKeeps ==
  ASSUME FdInv, NEW real \in Number, host[real] = Closed, PathOpen(real)
  PROVE  FdInv'
<1>1. Types /\ Sound /\ lost \subseteq {n \in Number : host[n] # Closed}
  BY DEF FdInv, Types
<1>2. /\ files' = files + 1 /\ files \in Nat /\ files \in File /\ UNCHANGED <<saved, kids>>
      /\ host' = [host EXCEPT ![real] = files]
      /\ host \in [Number -> {Closed} \cup 0 .. (files - 1)]
  BY <1>1, Numbers DEF PathOpen, Types
<1>3. /\ files' \in Nat /\ host' \in [Number -> {Closed} \cup 0 .. (files' - 1)]
      /\ host'[real] = files /\ host'[real] # Closed
      /\ \A n \in Number \ {real} : host'[n] = host[n]
  BY <1>2, Numbers
<1>4. Alone(real) /\ \A e \in Holders(real) : e \in wrong
  BY <1>1, ClosedIsWrong, ClosedIsAlone
<1>5. CASE Unused(FD_MAP) = {} /\ lost' = lost \cup {real} /\ UNCHANGED <<FD_MAP, meant, wrong>>
  BY <1>1, <1>2, <1>3, <1>5, NoneSetKeeps
<1>6. ASSUME NEW g \in First(Unused(FD_MAP)), OpenedAs(g, real, files), UNCHANGED lost
      PROVE  FdInv'
  <2>1. g \in 0 .. TableMax /\ g \notin DOMAIN FD_MAP
    BY UnusedTypes DEF First
  <2>2. /\ FD_MAP' = With(FD_MAP, g, real) /\ meant' = With(meant, g, files)
        /\ wrong' = wrong \ {Here(g)} /\ lost' = lost
    BY <1>6 DEF OpenedAs
  <2>3. /\ \A e \in wrong : e \in wrong' \/ e = Here(g)
        /\ \A n \in Number : host'[n] # host[n] =>
             \A e \in Holders(n) : e \in wrong' \/ e = Here(g)
    BY <1>3, <1>4, <2>2
  <2>4. lost' \subseteq {n \in Number : host'[n] # Closed}
    BY <1>1, <1>3, <2>2
  <2> QED
    BY <1>2, <1>3, <1>4, <2>1, <2>2, <2>3, <2>4, SetKeeps
<1> QED
  BY <1>5, <1>6 DEF PathOpen

(* A descriptor that the program may use. *)
LEMMA KnownSound ==
  ASSUME FdInv, NEW old \in Known
  PROVE  /\ old \in 0 .. TableMax /\ old \in DOMAIN FD_MAP /\ FD_MAP[old] \in Number
         /\ meant[old] \in File
         /\ Here(old) \in wrong \/ (host[FD_MAP[old]] = meant[old] /\ Alone(FD_MAP[old]))
<1>1. Types /\ Sound /\ FD_MAP \in Partial(Number) /\ meant \in Partial(File)
  BY DEF FdInv, Types
<1>2. old \in 0 .. TableMax /\ old \in DOMAIN FD_MAP /\ FD_MAP[old] \in Number
  BY <1>1, OfPartial DEF Known
<1>3. old \in DOMAIN meant /\ meant[old] \in File
  BY <1>1, OfPartial DEF Known
<1>4. Depth \in 0 .. Depth
  BY <1>1, TableTypes
<1>5. EntrySound(Depth, old)
  BY <1>1, <1>2, <1>4 DEF Sound, TablesSound
<1>6. TableAt(Depth) = FD_MAP /\ MeantAt(Depth) = meant
  BY DEF TableAt, MeantAt
<1>7. Here(old) \in wrong \/ (host[FD_MAP[old]] = meant[old] /\ Alone(FD_MAP[old]))
  BY <1>2, <1>5, <1>6 DEF EntrySound, Here
<1> QED
  BY <1>2, <1>3, <1>7

(* A duplicate is wrong if its original is. *)
LEMMA DuplicateWrong ==
  ASSUME NEW old, NEW g, NEW real, NEW S, Duplicate(old, g, real, S)
  PROVE  /\ FD_MAP' = With(FD_MAP, g, real) /\ meant' = With(meant, g, meant[old])
         /\ \A e \in wrong \cup S : e \in wrong' \/ e = Here(g)
         /\ Here(old) \in wrong => Here(g) \in wrong'
BY DEF Duplicate

(* dup *)
LEMMA DupKeeps ==
  ASSUME FdInv, NEW old \in Known, Dup(old)
  PROVE  FdInv'
<1>1. /\ Types /\ Sound /\ lost \subseteq {n \in Number : host[n] # Closed}
      /\ files' = files /\ files \in Nat /\ UNCHANGED <<saved, kids, lost>>
      /\ host \in [Number -> {Closed} \cup 0 .. (files - 1)]
  BY DEF FdInv, Types, Dup
<1>2. /\ old \in 0 .. TableMax /\ FD_MAP[old] \in Number /\ meant[old] \in File
      /\ Here(old) \in wrong \/ (host[FD_MAP[old]] = meant[old] /\ Alone(FD_MAP[old]))
  BY KnownSound
<1>3. ASSUME NEW g \in First(Unused(FD_MAP)) PROVE g \in 0 .. TableMax /\ g \notin DOMAIN FD_MAP
  BY UnusedTypes DEF First
<1>4. ASSUME NEW g \in First(Unused(FD_MAP)), NEW n \in First(Free), IsNative(FD_MAP[old]),
             host' = [host EXCEPT ![n] = host[FD_MAP[old]]], Duplicate(old, g, n, {})
      PROVE  FdInv'
  <2>1. n \in Number /\ host[n] = Closed
    BY Numbers DEF First, Free
  <2>2. Alone(n) /\ \A e \in Holders(n) : e \in wrong
    BY <1>1, <2>1, ClosedIsWrong, ClosedIsAlone
  <2>3. /\ host' \in [Number -> {Closed} \cup 0 .. (files' - 1)]
        /\ host'[n] = host[FD_MAP[old]] /\ \A m \in Number \ {n} : host'[m] = host[m]
    BY <1>1, <1>2, <1>4, <2>1
  <2>4. lost' \subseteq {m \in Number : host'[m] # Closed}
    BY <1>1, <2>1, <2>3
  <2>5. /\ FD_MAP' = With(FD_MAP, g, n) /\ meant' = With(meant, g, meant[old])
        /\ \A e \in wrong : e \in wrong' \/ e = Here(g)
        /\ Here(old) \in wrong => Here(g) \in wrong'
    BY <1>4, DuplicateWrong
  <2>6. \A m \in Number : host'[m] # host[m] => \A e \in Holders(m) : e \in wrong' \/ e = Here(g)
    BY <2>2, <2>3, <2>5
  <2>7. Here(g) \in wrong' \/ (host'[n] = meant[old] /\ Alone(n))
    BY <1>2, <2>2, <2>3, <2>5
  <2> QED
    BY <1>1, <1>2, <1>3, <2>1, <2>3, <2>4, <2>5, <2>6, <2>7, SetKeeps
<1>5. ASSUME NEW g \in First(Unused(FD_MAP)), Duplicate(old, g, FD_MAP[old], {}), UNCHANGED host
      PROVE  FdInv'
  <2>1. /\ FD_MAP' = With(FD_MAP, g, FD_MAP[old]) /\ meant' = With(meant, g, meant[old])
        /\ \A e \in wrong : e \in wrong' \/ e = Here(g)
        /\ Here(old) \in wrong => Here(g) \in wrong'
    BY <1>5, DuplicateWrong
  <2>2. Here(g) \in wrong' \/ (host'[FD_MAP[old]] = meant[old] /\ Alone(FD_MAP[old]))
    BY <1>2, <1>5, <2>1
  <2>3. host' \in [Number -> {Closed} \cup 0 .. (files' - 1)] /\ host' = host
    BY <1>1, <1>5
  <2> QED
    BY <1>1, <1>2, <1>3, <2>1, <2>2, <2>3, SetKeeps
<1> QED
  BY <1>4, <1>5 DEF Dup

(* Whoever shares the number of a descriptor that is not wrong, in another *)
(* process, is wrong.                                                      *)
LEMMA SharedIsWrong ==
  ASSUME FdInv, NEW g \in Known, Here(g) \notin wrong, NEW e \in Holders(FD_MAP[g])
  PROVE  e \in wrong \/ \E d \in 0 .. Depth, h \in 0 .. TableMax :
                          e = <<d, h>> /\ h \in DOMAIN TableAt(d) /\ TableAt(d)[h] = FD_MAP[g]
<1>1. Alone(FD_MAP[g])
  BY KnownSound
<1> QED
  BY <1>1, HoldersAre DEF Alone

(* dup2 *)
LEMMA Dup2Keeps ==
  ASSUME FdInv, NEW old \in Known, NEW newfd \in 0 .. TableMax, Dup2(old, newfd)
  PROVE  FdInv'
<1>a. PICK real : real = FD_MAP[old]
  OBVIOUS
<1>b. PICK target : target = DupTarget(newfd)
  OBVIOUS
<1>1. /\ Types /\ Sound /\ lost \subseteq {n \in Number : host[n] # Closed}
      /\ files' = files /\ files \in Nat /\ UNCHANGED <<saved, kids>>
      /\ host \in [Number -> {Closed} \cup 0 .. (files - 1)]
      /\ FD_MAP \in Partial(Number) /\ meant \in Partial(File)
  BY DEF FdInv, Types, Dup2
<1>2. /\ old \in 0 .. TableMax /\ real \in Number /\ meant[old] \in File
      /\ Here(old) \in wrong \/ (host[real] = meant[old] /\ Alone(real))
  BY <1>a, KnownSound
<1>3. newfd \in DOMAIN FD_MAP =>
        target = FD_MAP[newfd] /\ target \in Number /\ Here(newfd) \in Holders(target)
  <2>1. newfd \in DOMAIN FD_MAP => target = FD_MAP[newfd] /\ target \in Number
    BY <1>1, <1>b, OfPartial DEF DupTarget
  <2>2. Depth \in 0 .. Depth /\ TableAt(Depth) = FD_MAP
    BY <1>1, TableTypes DEF TableAt
  <2> QED
    BY <2>1, <2>2, EntryHolds DEF Here
<1>4. CASE IsNative(real) /\ target \in Native
  <2> DEFINE S == IF target = real THEN {} ELSE SpoiledByDup2(newfd)
  <2>1. /\ host' = [host EXCEPT ![target] = host[real]] /\ lost' = lost \ {target}
        /\ Duplicate(old, newfd, target, S)
    BY <1>4, <1>a, <1>b DEF Dup2
  <2>2. target \in Number /\ host[real] # Closed
    BY <1>4, Numbers DEF IsNative
  <2>3. /\ host' \in [Number -> {Closed} \cup 0 .. (files' - 1)]
        /\ host'[target] = host[real] /\ \A n \in Number \ {target} : host'[n] = host[n]
    BY <1>1, <1>2, <2>1, <2>2
  <2>4. lost' \subseteq {n \in Number : host'[n] # Closed}
    BY <1>1, <2>1, <2>3
  <2>5. /\ FD_MAP' = With(FD_MAP, newfd, target) /\ meant' = With(meant, newfd, meant[old])
        /\ \A e \in wrong \cup S : e \in wrong' \/ e = Here(newfd)
        /\ Here(old) \in wrong => Here(newfd) \in wrong'
    BY <2>1, DuplicateWrong
  <2>6. ASSUME target # real, NEW e \in Holders(target) PROVE e \in wrong' \/ e = Here(newfd)
    <3>1. S = SpoiledByDup2(newfd)
      BY <2>6
    <3>2. CASE newfd \notin DOMAIN FD_MAP \/ Here(newfd) \in wrong
      BY <2>5, <2>6, <3>1, <3>2, <1>b DEF SpoiledByDup2
    <3>3. CASE \E d \in 0 .. Depth, h \in 0 .. TableMax : e = <<d, h>>
      BY <2>5, <2>6, <3>1, <3>3, <1>b DEF SpoiledByDup2
    <3>4. CASE /\ newfd \in DOMAIN FD_MAP /\ Here(newfd) \notin wrong
               /\ (e = <<Kid, target>> /\ target \in KidReals) \/ (e = <<Node, target>> /\ target \in Own)
      <4>1. TableAt(Depth) = FD_MAP /\ Depth \in 0 .. Depth
        BY <1>1, TableTypes DEF TableAt
      <4>2. EntrySound(Depth, newfd)
        BY <1>1, <4>1 DEF Sound, TablesSound
      <4>3. Alone(target)
        BY <1>3, <3>4, <4>1, <4>2 DEF EntrySound, Here
      <4> QED
        BY <2>5, <3>4, <4>3 DEF Alone
    <3> QED
      BY <2>6, <3>2, <3>3, <3>4, HoldersAre
  <2>7. \A n \in Number : host'[n] # host[n] => \A e \in Holders(n) : e \in wrong' \/ e = Here(newfd)
    BY <2>2, <2>3, <2>6
  <2>8. Here(newfd) \in wrong' \/ (host'[target] = meant[old] /\ (Alone(target) \/ Alone(target)'))
    <3>1. CASE target = real
      BY <1>2, <2>3, <2>5, <3>1
    <3>2. CASE target # real
      <4>1. KidReals' = KidReals
        BY <1>1 DEF KidReals
      <4>a. Depth \in Nat
        BY <1>1, TableTypes
      <4>2. \A n : <<Kid, n>> # Here(newfd) /\ <<Node, n>> # Here(newfd)
        BY <4>a, Numbers DEF Here
      <4>b. \A e \in Holders(target) : e \in wrong' \/ e = Here(newfd)
        BY <2>6, <3>2
      <4>3. Alone(target)'
        BY <4>1, <4>2, <4>b, OthersHold DEF Alone
      <4> QED
        BY <1>2, <2>3, <2>5, <4>3
    <3> QED
      BY <3>1, <3>2
  <2>9. \A n \in Number \ {target} : host'[n] # Closed =>
          /\ host[n] # Closed /\ (n \in lost => n \in lost')
          /\ newfd \in DOMAIN FD_MAP /\ FD_MAP[newfd] = n => \E e \in Holders(n) : e # Here(newfd)
    BY <1>3, <2>1, <2>3
  <2>10. \A e \in wrong : e \in wrong' \/ e = Here(newfd)
    BY <2>5
  <2> HIDE DEF S
  <2> QED
    BY <1>1, <1>2, <2>2, <2>3, <2>4, <2>5, <2>7, <2>8, <2>9, <2>10, SetKeeps
<1>5. CASE ~(IsNative(real) /\ target \in Native)
  <2>1. /\ Duplicate(old, newfd, real, {}) /\ UNCHANGED host
        /\ lost' = lost \cup (IF real = target THEN {} ELSE Forgotten(newfd))
    BY <1>5, <1>a, <1>b DEF Dup2
  <2>2. /\ FD_MAP' = With(FD_MAP, newfd, real) /\ meant' = With(meant, newfd, meant[old])
        /\ \A e \in wrong : e \in wrong' \/ e = Here(newfd)
        /\ Here(old) \in wrong => Here(newfd) \in wrong'
    BY <2>1, DuplicateWrong
  <2>3. Here(newfd) \in wrong' \/ (host'[real] = meant[old] /\ Alone(real))
    BY <1>2, <2>1, <2>2
  <2>4. Forgotten(newfd) \subseteq {n \in Number : host[n] # Closed}
    BY <1>3 DEF Forgotten
  <2>5. lost' \subseteq {n \in Number : host'[n] # Closed} /\ lost \subseteq lost'
    BY <1>1, <2>1, <2>4
  <2>6. \A n \in Number \ {real} : host'[n] # Closed =>
          \/ n \in lost'
          \/ /\ host[n] # Closed /\ (n \in lost => n \in lost')
             /\ newfd \in DOMAIN FD_MAP /\ FD_MAP[newfd] = n => \E e \in Holders(n) : e # Here(newfd)
    <3>1. ASSUME NEW n \in Number \ {real}, host[n] # Closed, n \notin lost',
                 newfd \in DOMAIN FD_MAP, FD_MAP[newfd] = n
          PROVE  \E e \in Holders(n) : e # Here(newfd)
      <4>1. n \notin Forgotten(newfd) /\ Here(newfd) \in Holders(n)
        BY <1>3, <2>1, <3>1
      <4>2. Holders(n) # {Here(newfd)}
        BY <3>1, <4>1 DEF Forgotten
      <4> QED
        BY <4>1, <4>2
    <3> QED
      BY <2>1, <2>5, <3>1
  <2>7. host' \in [Number -> {Closed} \cup 0 .. (files' - 1)] /\ host' = host
    BY <1>1, <2>1
  <2> QED
    BY <1>1, <1>2, <2>2, <2>3, <2>5, <2>6, <2>7, SetKeeps
<1> QED
  BY <1>4, <1>5

(* A descriptor that is not set is sound when POSIX has it closed too. *)
LEMMA EntryRemoved ==
  ASSUME NEW g, g \notin DOMAIN FD_MAP', g \notin DOMAIN meant'
  PROVE  EntrySound(Depth, g)'
BY DEF EntrySound, TableAt, MeantAt

(* A number is closed only when no other descriptor of the program has it; *)
(* whoever has it besides is put in wrong.                                 *)
LEMMA ClosingSpoils ==
  ASSUME FdInv, NEW g \in Known
  PROVE  /\ host \in [Number -> {Closed} \cup 0 .. (files - 1)]
         /\ HostClosing(g) \in [Number -> {Closed} \cup 0 .. (files - 1)]
         /\ \A n \in Number : HostClosing(g)[n] # Closed => HostClosing(g)[n] = host[n]
         /\ \A n \in Number : HostClosing(g)[n] # host[n] =>
              /\ LastReference(g) /\ n = FD_MAP[g]
              /\ \A e \in Holders(n) : e \in wrong \cup SpoiledByClose(g) \/ e = Here(g)
         /\ LastReference(g) => HostClosing(g)[FD_MAP[g]] = Closed
<1>1. Types /\ host \in [Number -> {Closed} \cup 0 .. (files - 1)]
  BY DEF FdInv, Types
<1>2. g \in 0 .. TableMax /\ g \in DOMAIN FD_MAP /\ FD_MAP[g] \in Number
  BY KnownSound
<1>3. LastReference(g) => HostClosing(g) = [host EXCEPT ![FD_MAP[g]] = Closed]
  BY DEF HostClosing
<1>4. ~LastReference(g) => HostClosing(g) = host
  BY DEF HostClosing
<1>5. ASSUME LastReference(g), NEW e \in Holders(FD_MAP[g])
      PROVE  e \in wrong \cup SpoiledByClose(g) \/ e = Here(g)
  <2>1. CASE Here(g) \in wrong
    BY <1>5, <2>1 DEF SpoiledByClose
  <2>2. ASSUME NEW d \in 0 .. Depth, NEW h \in 0 .. TableMax,
               e = <<d, h>>, h \in DOMAIN TableAt(d), TableAt(d)[h] = FD_MAP[g]
        PROVE  e \in wrong \cup SpoiledByClose(g) \/ e = Here(g)
    <3>1. CASE d = Depth
      <4>1. h \in DOMAIN FD_MAP /\ FD_MAP[h] = FD_MAP[g]
        BY <2>2, <3>1 DEF TableAt
      <4>2. h = g
        BY <1>5, <4>1 DEF LastReference
      <4> QED
        BY <2>2, <3>1, <4>2 DEF Here
    <3>2. CASE d # Depth
      <4>1. Depth \in Nat
        BY <1>1, TableTypes
      <4>2. d \in 0 .. (Depth - 1)
        BY <3>2, <4>1
      <4>3. OfParents(e)
        BY <2>2, <4>2 DEF OfParents
      <4> QED
        BY <1>5, <4>3 DEF SpoiledByClose
    <3> QED
      BY <3>1, <3>2
  <2> QED
    BY <2>1, <2>2, SharedIsWrong
<1> QED
  BY <1>1, <1>2, <1>3, <1>4, <1>5

(* The descriptor of which the number stays open is not the last. *)
LEMMA NotLast ==
  ASSUME Types, NEW g \in DOMAIN FD_MAP, ~LastReference(g)
  PROVE  \E h \in DOMAIN FD_MAP \ {g} :
           h \in 0 .. TableMax /\ FD_MAP[h] = FD_MAP[g] /\ Here(h) \in Holders(FD_MAP[g])
<1>1. PICK h \in DOMAIN FD_MAP \ {g} : FD_MAP[h] = FD_MAP[g]
  BY DEF LastReference
<1>2. h \in 0 .. TableMax
  BY OfPartial DEF Types
<1>3. Depth \in 0 .. Depth /\ TableAt(Depth) = FD_MAP
  BY TableTypes DEF TableAt
<1>4. Here(h) \in Holders(FD_MAP[g])
  BY <1>1, <1>2, <1>3, EntryHolds DEF Here
<1> QED
  BY <1>1, <1>2, <1>4

(* fd_close *)
LEMMA FdCloseKeeps ==
  ASSUME FdInv, NEW g \in Known, FdClose(g)
  PROVE  FdInv'
<1>1. /\ Types /\ Sound /\ NothingForgotten
      /\ lost \subseteq {n \in Number : host[n] # Closed}
      /\ FD_MAP \in Partial(Number) /\ meant \in Partial(File) /\ files \in Nat
  BY DEF FdInv, Types
<1>2. /\ host' = HostClosing(g) /\ FD_MAP' = Without(FD_MAP, g) /\ meant' = Without(meant, g)
      /\ wrong' = (wrong \cup SpoiledByClose(g)) \ {Here(g)}
      /\ lost' = lost \ {n \in lost : host'[n] = Closed}
      /\ UNCHANGED <<saved, kids, files>> /\ g \in DOMAIN FD_MAP
  BY DEF FdClose
<1>3. /\ host \in [Number -> {Closed} \cup 0 .. (files - 1)]
      /\ host' \in [Number -> {Closed} \cup 0 .. (files - 1)]
      /\ \A n \in Number : host'[n] # Closed => host'[n] = host[n]
      /\ \A n \in Number : host'[n] # host[n] =>
           \A e \in Holders(n) : e \in wrong \cup SpoiledByClose(g) \/ e = Here(g)
      /\ LastReference(g) => host'[FD_MAP[g]] = Closed
  BY <1>2, ClosingSpoils
<1>4. /\ FD_MAP' \in Partial(Number) /\ DOMAIN FD_MAP' = DOMAIN FD_MAP \ {g}
      /\ \A x \in DOMAIN FD_MAP \ {g} : FD_MAP'[x] = FD_MAP[x]
  BY <1>1, <1>2, WithoutPartial
<1>5. /\ meant' \in Partial(File) /\ DOMAIN meant' = DOMAIN meant \ {g}
      /\ \A x \in DOMAIN meant \ {g} : meant'[x] = meant[x]
  BY <1>1, <1>2, WithoutPartial
<1>6. Types'
  <2>1. lost' \subseteq {n \in Number : host'[n] # Closed}
    BY <1>1, <1>2
  <2> QED
    BY <1>1, <1>2, <1>3, <1>4, <1>5, <2>1 DEF Types
<1> DEFINE G == {g}
<1>7. G \in SUBSET (0 .. TableMax) /\ \A x \in G : EntrySound(Depth, x)'
  BY <1>4, <1>5, EntryRemoved, KnownSound
<1>8. /\ \A n \in Number : host'[n] # host[n] =>
           \A e \in Holders(n) : e \in wrong' \/ \E x \in G : e = Here(x)
      /\ \A e \in wrong : e \in wrong' \/ \E x \in G : e = Here(x)
  BY <1>2, <1>3
<1>9. \A x \in (0 .. TableMax) \ G :
        /\ x \in DOMAIN FD_MAP' <=> x \in DOMAIN FD_MAP
        /\ x \in DOMAIN FD_MAP => FD_MAP'[x] = FD_MAP[x]
        /\ x \in DOMAIN meant' <=> x \in DOMAIN meant
        /\ x \in DOMAIN meant => meant'[x] = meant[x]
  BY <1>4, <1>5
<1>10. \A n \in Number : host'[n] # Closed =>
        \/ n \in lost'
        \/ \E x \in G : x \in DOMAIN FD_MAP' /\ FD_MAP'[x] = n
        \/ /\ host[n] # Closed /\ (n \in lost => n \in lost')
           /\ \A x \in G : x \in DOMAIN FD_MAP /\ FD_MAP[x] = n => Elsewhere(n, G)
  <2>1. ASSUME NEW n \in Number, host'[n] # Closed, FD_MAP[g] = n PROVE Elsewhere(n, G)
    <3>1. ~LastReference(g)
      BY <1>3, <2>1
    <3>2. PICK h \in DOMAIN FD_MAP \ {g} : Here(h) \in Holders(n)
      BY <1>1, <1>2, <2>1, <3>1, NotLast
    <3> QED
      BY <3>2 DEF Elsewhere, Here
  <2> QED
    BY <1>2, <1>3, <2>1
<1> HIDE DEF G
<1>11. Sound'
  BY <1>1, <1>2, <1>7, <1>8, <1>9, CallKeepsSound
<1>12. NothingForgotten'
  BY <1>1, <1>2, <1>6, <1>7, <1>9, <1>10, CallForgetsNone
<1> QED
  BY <1>6, <1>11, <1>12 DEF FdInv

(* path_open of the terminal *)
LEMMA PathOpenTtyKeeps ==
  ASSUME FdInv, PathOpenTty
  PROVE  FdInv'
<1>1. /\ UNCHANGED <<FD_MAP, meant, saved, host, kids, lost, files>>
      /\ wrong' = wrong \cup {Here(0)}
  BY DEF PathOpenTty
<1>2. Types /\ Sound /\ NothingForgotten
  BY DEF FdInv
<1>3. Types'
  BY <1>1, <1>2 DEF Types
<1> DEFINE G == {}
<1>4. /\ G \in SUBSET (0 .. TableMax) /\ \A x \in G : EntrySound(Depth, x)'
      /\ \A n \in Number : host'[n] # host[n] =>
           \A e \in Holders(n) : e \in wrong' \/ \E x \in G : e = Here(x)
      /\ \A e \in wrong : e \in wrong' \/ \E x \in G : e = Here(x)
      /\ \A n \in Number : host'[n] # Closed =>
           \/ n \in lost'
           \/ \E x \in G : x \in DOMAIN FD_MAP' /\ FD_MAP'[x] = n
           \/ /\ host[n] # Closed /\ (n \in lost => n \in lost')
              /\ \A x \in G : x \in DOMAIN FD_MAP /\ FD_MAP[x] = n => Elsewhere(n, G)
  BY <1>1
<1> HIDE DEF G
<1>5. Sound'
  BY <1>1, <1>2, <1>4, CallKeepsSound
<1>6. NothingForgotten'
  BY <1>1, <1>2, <1>3, <1>4, CallForgetsNone
<1> QED
  BY <1>3, <1>5, <1>6 DEF FdInv

(* fd_close of the terminal *)
LEMMA CloseTtyKeeps ==
  ASSUME FdInv, 0 \in Known, CloseTty
  PROVE  FdInv'
<1>1. /\ Types /\ Sound /\ NothingForgotten
      /\ lost \subseteq {n \in Number : host[n] # Closed}
      /\ FD_MAP \in Partial(Number) /\ files \in Nat
  BY DEF FdInv, Types
<1>2. /\ host' = HostClosing(0) /\ FD_MAP' = Without(FD_MAP, 0)
      /\ wrong' = wrong \cup SpoiledByClose(0) /\ Here(0) \in wrong'
      /\ lost' = lost \ {n \in lost : host'[n] = Closed}
      /\ UNCHANGED <<meant, saved, kids, files>> /\ 0 \in DOMAIN FD_MAP
  BY DEF CloseTty, Known
<1>3. /\ host' \in [Number -> {Closed} \cup 0 .. (files - 1)]
      /\ \A n \in Number : host'[n] # Closed => host'[n] = host[n]
      /\ \A n \in Number : host'[n] # host[n] =>
           \A e \in Holders(n) : e \in wrong \cup SpoiledByClose(0) \/ e = Here(0)
      /\ LastReference(0) => host'[FD_MAP[0]] = Closed
  BY <1>2, ClosingSpoils
<1>4. /\ FD_MAP' \in Partial(Number) /\ DOMAIN FD_MAP' = DOMAIN FD_MAP \ {0}
      /\ \A x \in DOMAIN FD_MAP \ {0} : FD_MAP'[x] = FD_MAP[x]
  BY <1>1, <1>2, WithoutPartial
<1>5. Types'
  <2>1. lost' \subseteq {n \in Number : host'[n] # Closed}
    BY <1>1, <1>2
  <2> QED
    BY <1>1, <1>2, <1>3, <1>4, <2>1 DEF Types
<1> DEFINE G == {0}
<1>6. G \in SUBSET (0 .. TableMax) /\ \A x \in G : EntrySound(Depth, x)'
  <2>1. Depth' = Depth /\ <<Depth, 0>> \in wrong'
    BY <1>2 DEF Depth, Here
  <2>2. 0 \in 0 .. TableMax /\ EntrySound(Depth, 0)'
    BY <2>1, Numbers DEF EntrySound
  <2> QED
    BY <2>2
<1>7. /\ \A n \in Number : host'[n] # host[n] =>
           \A e \in Holders(n) : e \in wrong' \/ \E x \in G : e = Here(x)
      /\ \A e \in wrong : e \in wrong' \/ \E x \in G : e = Here(x)
  BY <1>2, <1>3
<1>8. \A x \in (0 .. TableMax) \ G :
        /\ x \in DOMAIN FD_MAP' <=> x \in DOMAIN FD_MAP
        /\ x \in DOMAIN FD_MAP => FD_MAP'[x] = FD_MAP[x]
        /\ x \in DOMAIN meant' <=> x \in DOMAIN meant
        /\ x \in DOMAIN meant => meant'[x] = meant[x]
  BY <1>2, <1>4
<1>9. \A n \in Number : host'[n] # Closed =>
        \/ n \in lost'
        \/ \E x \in G : x \in DOMAIN FD_MAP' /\ FD_MAP'[x] = n
        \/ /\ host[n] # Closed /\ (n \in lost => n \in lost')
           /\ \A x \in G : x \in DOMAIN FD_MAP /\ FD_MAP[x] = n => Elsewhere(n, G)
  <2>1. ASSUME NEW n \in Number, host'[n] # Closed, FD_MAP[0] = n PROVE Elsewhere(n, G)
    <3>1. ~LastReference(0)
      BY <1>3, <2>1
    <3>2. PICK h \in DOMAIN FD_MAP \ {0} : Here(h) \in Holders(n)
      BY <1>1, <1>2, <2>1, <3>1, NotLast
    <3> QED
      BY <3>2 DEF Elsewhere, Here
  <2> QED
    BY <1>2, <1>3, <2>1
<1> HIDE DEF G
<1>10. Sound'
  BY <1>1, <1>2, <1>6, <1>7, <1>8, CallKeepsSound
<1>11. NothingForgotten'
  BY <1>1, <1>2, <1>5, <1>6, <1>8, <1>9, CallForgetsNone
<1> QED
  BY <1>5, <1>10, <1>11 DEF FdInv

(* fd_renumber *)
LEMMA FdRenumberKeeps ==
  ASSUME FdInv, NEW from \in Known, NEW to \in Known, FdRenumber(from, to)
  PROVE  FdInv'
<1>1. /\ Types /\ Sound /\ NothingForgotten
      /\ lost \subseteq {n \in Number : host[n] # Closed}
      /\ FD_MAP \in Partial(Number) /\ meant \in Partial(File) /\ files \in Nat
  BY DEF FdInv, Types
<1>2. /\ host' = HostClosing(to) /\ FD_MAP' = Without(With(FD_MAP, to, FD_MAP[from]), from)
      /\ meant' = Without(With(meant, to, meant[from]), from)
      /\ wrong' = ((wrong \cup SpoiledByClose(to)) \ {Here(from), Here(to)})
                     \cup (IF Here(from) \in wrong THEN {Here(to)} ELSE {})
      /\ lost' = lost \ {n \in lost : host'[n] = Closed}
      /\ UNCHANGED <<saved, kids, files>> /\ from # to
  BY DEF FdRenumber
<1>3. /\ host \in [Number -> {Closed} \cup 0 .. (files - 1)]
      /\ host' \in [Number -> {Closed} \cup 0 .. (files - 1)]
      /\ \A n \in Number : host'[n] # Closed => host'[n] = host[n]
      /\ \A n \in Number : host'[n] # host[n] =>
           /\ LastReference(to) /\ n = FD_MAP[to]
           /\ \A e \in Holders(n) : e \in wrong \cup SpoiledByClose(to) \/ e = Here(to)
      /\ LastReference(to) => host'[FD_MAP[to]] = Closed
  BY <1>2, ClosingSpoils
<1>4. /\ from \in 0 .. TableMax /\ to \in 0 .. TableMax
      /\ from \in DOMAIN FD_MAP /\ to \in DOMAIN FD_MAP /\ from \in DOMAIN meant
      /\ FD_MAP[from] \in Number /\ meant[from] \in File
      /\ Here(from) \in wrong \/ (host[FD_MAP[from]] = meant[from] /\ Alone(FD_MAP[from]))
  BY KnownSound DEF Known
<1>5. /\ FD_MAP' \in Partial(Number) /\ DOMAIN FD_MAP' = DOMAIN FD_MAP \ {from}
      /\ FD_MAP'[to] = FD_MAP[from]
      /\ \A x \in DOMAIN FD_MAP \ {from, to} : FD_MAP'[x] = FD_MAP[x]
  <2>1. PICK t : t = With(FD_MAP, to, FD_MAP[from])
    OBVIOUS
  <2>2. t \in Partial(Number) /\ Differ(t, FD_MAP, to, FD_MAP[from])
    BY Zenon, <1>1, <1>4, <2>1, TableSet
  <2>3. FD_MAP' = Without(t, from)
    BY <1>2, <2>1
  <2>4. /\ FD_MAP' \in Partial(Number) /\ DOMAIN FD_MAP' = DOMAIN t \ {from}
        /\ \A x \in DOMAIN t \ {from} : FD_MAP'[x] = t[x]
    BY <2>2, <2>3, WithoutPartial
  <2> QED
    BY <1>2, <1>4, <2>2, <2>4 DEF Differ
<1>6. /\ meant' \in Partial(File) /\ DOMAIN meant' = (DOMAIN meant \cup {to}) \ {from}
      /\ meant'[to] = meant[from]
      /\ \A x \in DOMAIN meant \ {from, to} : meant'[x] = meant[x]
  <2>1. PICK t : t = With(meant, to, meant[from])
    OBVIOUS
  <2>2. t \in Partial(File) /\ Differ(t, meant, to, meant[from])
    BY Zenon, <1>1, <1>4, <2>1, TableSet
  <2>3. meant' = Without(t, from)
    BY <1>2, <2>1
  <2>4. /\ meant' \in Partial(File) /\ DOMAIN meant' = DOMAIN t \ {from}
        /\ \A x \in DOMAIN t \ {from} : meant'[x] = t[x]
    BY <2>2, <2>3, WithoutPartial
  <2> QED
    BY <1>2, <1>4, <2>2, <2>4 DEF Differ
<1>7. Types'
  <2>1. lost' \subseteq {n \in Number : host'[n] # Closed}
    BY <1>1, <1>2
  <2> QED
    BY <1>1, <1>2, <1>3, <1>5, <1>6, <2>1 DEF Types
<1> DEFINE G == {from, to}
<1>8. EntrySound(Depth, to)'
  <2>1. CASE Here(from) \in wrong
    <3>1. Here(to) \in wrong'
      BY <1>2, <2>1
    <3> QED
      BY <1>2, <3>1 DEF Here, EntrySound, Depth
  <2>2. CASE host[FD_MAP[from]] = meant[from] /\ Alone(FD_MAP[from])
    <3>1. LastReference(to) => FD_MAP[from] # FD_MAP[to]
      BY <1>2, <1>4 DEF LastReference
    <3>2. host'[FD_MAP[from]] = meant'[to]
      BY <1>3, <1>4, <1>6, <2>2, <3>1
    <3>3. Depth \in Nat /\ \A e \in wrong : e \in wrong' \/ \E x \in 0 .. TableMax : e = Here(x)
      BY <1>1, <1>2, <1>4, TableTypes
    <3>4. PICK n : n = FD_MAP[from]
      OBVIOUS
    <3>5. Alone(n)'
      BY <1>2, <2>2, <3>3, <3>4, AloneStays
    <3> QED
      BY <1>2, <1>4, <1>5, <1>6, <3>2, <3>4, <3>5, EntrySet
  <2> QED
    BY <1>4, <2>1, <2>2
<1>9. G \in SUBSET (0 .. TableMax) /\ \A x \in G : EntrySound(Depth, x)'
  BY <1>4, <1>5, <1>6, <1>8, EntryRemoved
<1>10. /\ \A n \in Number : host'[n] # host[n] =>
           \A e \in Holders(n) : e \in wrong' \/ \E x \in G : e = Here(x)
       /\ \A e \in wrong : e \in wrong' \/ \E x \in G : e = Here(x)
  BY <1>2, <1>3
<1>11. \A x \in (0 .. TableMax) \ G :
        /\ x \in DOMAIN FD_MAP' <=> x \in DOMAIN FD_MAP
        /\ x \in DOMAIN FD_MAP => FD_MAP'[x] = FD_MAP[x]
        /\ x \in DOMAIN meant' <=> x \in DOMAIN meant
        /\ x \in DOMAIN meant => meant'[x] = meant[x]
  BY <1>5, <1>6
<1>12. \A n \in Number : host'[n] # Closed =>
        \/ n \in lost'
        \/ \E x \in G : x \in DOMAIN FD_MAP' /\ FD_MAP'[x] = n
        \/ /\ host[n] # Closed /\ (n \in lost => n \in lost')
           /\ \A x \in G : x \in DOMAIN FD_MAP /\ FD_MAP[x] = n => Elsewhere(n, G)
  <2>1. to \in G /\ to \in DOMAIN FD_MAP' /\ FD_MAP'[to] = FD_MAP[from]
    BY <1>2, <1>4, <1>5
  <2>2. ASSUME NEW n \in Number, host'[n] # Closed, FD_MAP[to] = n, FD_MAP[from] # n
        PROVE  Elsewhere(n, G)
    <3>1. ~LastReference(to)
      BY <1>3, <2>2
    <3>2. PICK h \in DOMAIN FD_MAP \ {to} : FD_MAP[h] = n /\ Here(h) \in Holders(n)
      BY <1>1, <1>4, <2>2, <3>1, NotLast
    <3>3. h \notin G
      BY <2>2, <3>2
    <3> QED
      BY <3>2, <3>3 DEF Elsewhere, Here
  <2> QED
    BY <1>2, <1>3, <2>1, <2>2
<1> HIDE DEF G
<1>13. Sound'
  BY <1>1, <1>2, <1>9, <1>10, <1>11, CallKeepsSound
<1>14. NothingForgotten'
  BY <1>1, <1>2, <1>7, <1>9, <1>11, <1>12, CallForgetsNone
<1> QED
  BY <1>7, <1>13, <1>14 DEF FdInv

(* Steps that set two descriptors of the running program, g and h, to new  *)
(* numbers m and n.                                                        *)
LEMMA TwoSetKeep ==
  ASSUME FdInv, UNCHANGED <<saved, kids>>,
         NEW g \in 0 .. TableMax, NEW h \in 0 .. TableMax, g # h, NEW G, G = {g, h},
         NEW m \in Number, NEW n \in Number, host[m] = Closed, host[n] = Closed, m # n,
         NEW a \in File, NEW b \in File,
         FD_MAP' = With(With(FD_MAP, g, m), h, n), meant' = With(With(meant, g, a), h, b),
         files' \in Nat, host' \in [Number -> {Closed} \cup 0 .. (files' - 1)],
         host'[m] = a, host'[n] = b,
         lost' \subseteq {x \in Number : host'[x] # Closed},
         \A e \in wrong : e \in wrong' \/ e = Here(g) \/ e = Here(h),
         \A x \in Number \ {m, n} : host'[x] # host[x] =>
           \A e \in Holders(x) : e \in wrong' \/ e = Here(g) \/ e = Here(h),
         \A x \in Number \ {m, n} : host'[x] # Closed =>
           /\ host[x] # Closed /\ (x \in lost => x \in lost')
           /\ g \in DOMAIN FD_MAP /\ FD_MAP[g] = x => Elsewhere(x, G)
           /\ h \in DOMAIN FD_MAP /\ FD_MAP[h] = x => Elsewhere(x, G)
  PROVE  FdInv'
<1>1. /\ Types /\ Sound /\ NothingForgotten
      /\ FD_MAP \in Partial(Number) /\ meant \in Partial(File)
  BY DEF FdInv, Types
<1>2. /\ FD_MAP' \in Partial(Number) /\ DOMAIN FD_MAP' = DOMAIN FD_MAP \cup {g, h}
      /\ FD_MAP'[g] = m /\ FD_MAP'[h] = n
      /\ \A x \in DOMAIN FD_MAP \ {g, h} : FD_MAP'[x] = FD_MAP[x]
  <2>1. PICK t : t = With(FD_MAP, g, m)
    OBVIOUS
  <2>2. t \in Partial(Number) /\ Differ(t, FD_MAP, g, m)
    BY Zenon, <1>1, <2>1, TableSet
  <2>3. FD_MAP' = With(t, h, n)
    BY Zenon, <2>1
  <2>4. FD_MAP' \in Partial(Number) /\ Differ(FD_MAP', t, h, n)
    BY Zenon, <2>2, <2>3, TableSet
  <2> QED
    BY <2>2, <2>4 DEF Differ
<1>3. /\ meant' \in Partial(File) /\ DOMAIN meant' = DOMAIN meant \cup {g, h}
      /\ meant'[g] = a /\ meant'[h] = b
      /\ \A x \in DOMAIN meant \ {g, h} : meant'[x] = meant[x]
  <2>1. PICK t : t = With(meant, g, a)
    OBVIOUS
  <2>2. t \in Partial(File) /\ Differ(t, meant, g, a)
    BY Zenon, <1>1, <2>1, TableSet
  <2>3. meant' = With(t, h, b)
    BY Zenon, <2>1
  <2>4. meant' \in Partial(File) /\ Differ(meant', t, h, b)
    BY Zenon, <2>2, <2>3, TableSet
  <2> QED
    BY <2>2, <2>4 DEF Differ
<1>4. Types'
  BY <1>1, <1>2, <1>3 DEF Types
<1>5. /\ Alone(m) /\ Alone(n)
      /\ \A e \in Holders(m) : e \in wrong
      /\ \A e \in Holders(n) : e \in wrong
  BY <1>1, ClosedIsWrong, ClosedIsAlone
<1>6. Depth \in Nat /\ \A e \in wrong : e \in wrong' \/ \E x \in 0 .. TableMax : e = Here(x)
  BY <1>1, TableTypes
<1>7. Alone(m)' /\ Alone(n)'
  BY <1>5, <1>6, AloneStays
<1>8. EntrySound(Depth, g)' /\ EntrySound(Depth, h)'
  BY <1>2, <1>3, <1>7, EntrySet
<1>9. G \in SUBSET (0 .. TableMax) /\ \A x \in G : EntrySound(Depth, x)'
  BY <1>8
<1>10. /\ \A x \in Number : host'[x] # host[x] =>
            \A e \in Holders(x) : e \in wrong' \/ \E y \in G : e = Here(y)
       /\ \A e \in wrong : e \in wrong' \/ \E y \in G : e = Here(y)
  BY <1>5
<1>11. \A x \in (0 .. TableMax) \ G :
         /\ x \in DOMAIN FD_MAP' <=> x \in DOMAIN FD_MAP
         /\ x \in DOMAIN FD_MAP => FD_MAP'[x] = FD_MAP[x]
         /\ x \in DOMAIN meant' <=> x \in DOMAIN meant
         /\ x \in DOMAIN meant => meant'[x] = meant[x]
  BY <1>2, <1>3
<1>12. \A x \in Number : host'[x] # Closed =>
         \/ x \in lost'
         \/ \E y \in G : y \in DOMAIN FD_MAP' /\ FD_MAP'[y] = x
         \/ /\ host[x] # Closed /\ (x \in lost => x \in lost')
            /\ \A y \in G : y \in DOMAIN FD_MAP /\ FD_MAP[y] = x => Elsewhere(x, G)
  BY <1>2
<1>13. Sound'
  BY <1>1, <1>9, <1>10, <1>11, CallKeepsSound
<1>14. NothingForgotten'
  BY <1>1, <1>4, <1>9, <1>11, <1>12, CallForgetsNone
<1> QED
  BY <1>4, <1>13, <1>14 DEF FdInv

(* pipe *)
LEMMA PipeKeeps ==
  ASSUME FdInv, Pipe
  PROVE  FdInv'
<1>1. /\ Types /\ Sound /\ NothingForgotten
      /\ lost \subseteq {n \in Number : host[n] # Closed}
      /\ host \in [Number -> {Closed} \cup 0 .. (files - 1)]
      /\ FD_MAP \in Partial(Number) /\ meant \in Partial(File) /\ files \in Nat
      /\ files' = files + 2 /\ UNCHANGED <<saved, kids>>
  BY DEF FdInv, Types, Pipe
<1>2. PICK rd, wr :
        /\ rd \in First(Free) /\ wr \in First(Free \ {rd})
        /\ host' = [host EXCEPT ![rd] = files, ![wr] = files + 1]
        /\ \/ \E g \in First(Unused(FD_MAP)) : \E h \in First(Unused(FD_MAP) \ {g}) :
                /\ FD_MAP' = With(With(FD_MAP, g, rd), h, wr)
                /\ meant' = With(With(meant, g, files), h, files + 1)
                /\ wrong' = wrong \ {Here(g), Here(h)}
                /\ UNCHANGED lost
           \/ \E g \in First(Unused(FD_MAP)) :
                /\ Unused(FD_MAP) = {g}
                /\ FD_MAP' = With(FD_MAP, g, rd)
                /\ wrong' = wrong \cup {Here(g)}
                /\ lost' = lost \cup {wr}
                /\ UNCHANGED meant
           \/ /\ Unused(FD_MAP) = {}
              /\ lost' = lost \cup {rd, wr}
              /\ UNCHANGED <<FD_MAP, meant, wrong>>
  BY DEF Pipe
<1>3. /\ rd \in Number /\ wr \in Number /\ rd # wr
      /\ host[rd] = Closed /\ host[wr] = Closed
  BY <1>2, Numbers DEF First, Free
<1>4. /\ files' \in Nat /\ host' \in [Number -> {Closed} \cup 0 .. (files' - 1)]
      /\ host'[rd] = files /\ host'[wr] = files + 1
      /\ host'[rd] # Closed /\ host'[wr] # Closed
      /\ \A n \in Number \ {rd, wr} : host'[n] = host[n]
  BY <1>1, <1>2, <1>3, Numbers
<1>5. ASSUME NEW g, g \in First(Unused(FD_MAP)), NEW h, h \in First(Unused(FD_MAP) \ {g}),
             FD_MAP' = With(With(FD_MAP, g, rd), h, wr),
             meant' = With(With(meant, g, files), h, files + 1),
             wrong' = wrong \ {Here(g), Here(h)}, UNCHANGED lost
      PROVE  FdInv'
  <2>1. /\ g \in 0 .. TableMax /\ h \in 0 .. TableMax /\ g # h
        /\ g \notin DOMAIN FD_MAP /\ h \notin DOMAIN FD_MAP
    BY <1>5, UnusedTypes DEF First
  <2>2. files \in File /\ files + 1 \in File
    BY <1>1 DEF File
  <2>3. lost' \subseteq {n \in Number : host'[n] # Closed}
    BY <1>1, <1>4, <1>5
  <2>4. PICK b : b = files + 1
    OBVIOUS
  <2>5. /\ b \in File /\ host'[wr] = b /\ meant' = With(With(meant, g, files), h, b)
        /\ FD_MAP' = With(With(FD_MAP, g, rd), h, wr)
        /\ \A e \in wrong : e \in wrong' \/ e = Here(g) \/ e = Here(h)
    BY <1>4, <1>5, <2>2, <2>4
  <2>a. PICK G : G = {g, h}
    OBVIOUS
  <2>6. /\ \A x \in Number \ {rd, wr} : host'[x] # host[x] =>
             \A e \in Holders(x) : e \in wrong' \/ e = Here(g) \/ e = Here(h)
        /\ \A x \in Number \ {rd, wr} : host'[x] # Closed =>
             /\ host[x] # Closed /\ (x \in lost => x \in lost')
             /\ g \in DOMAIN FD_MAP /\ FD_MAP[g] = x => Elsewhere(x, G)
             /\ h \in DOMAIN FD_MAP /\ FD_MAP[h] = x => Elsewhere(x, G)
    BY <1>4, <1>5, <2>1
  <2> QED
    BY <1>1, <1>3, <1>4, <2>1, <2>2, <2>3, <2>5, <2>6, <2>a, TwoSetKeep
<1>6. ASSUME NEW g \in First(Unused(FD_MAP)), FD_MAP' = With(FD_MAP, g, rd),
             wrong' = wrong \cup {Here(g)}, lost' = lost \cup {wr}, UNCHANGED meant
      PROVE  FdInv'
  <2>1. g \in 0 .. TableMax /\ g \notin DOMAIN FD_MAP
    BY UnusedTypes DEF First
  <2>2. FD_MAP' \in Partial(Number) /\ Differ(FD_MAP', FD_MAP, g, rd)
    BY Zenon, <1>1, <1>3, <1>6, <2>1, TableSet
  <2>3. Types'
    <3>1. lost' \subseteq {n \in Number : host'[n] # Closed}
      BY <1>1, <1>3, <1>4, <1>6
    <3> QED
      BY <1>1, <1>4, <1>6, <2>2, <3>1 DEF Types
  <2> DEFINE G == {g}
  <2>4. G \in SUBSET (0 .. TableMax) /\ \A x \in G : EntrySound(Depth, x)'
    BY <1>1, <1>6, <2>1 DEF EntrySound, Here, Depth
  <2>5. \A e \in Holders(rd) \cup Holders(wr) : e \in wrong
    BY <1>1, <1>3, ClosedIsWrong
  <2>6. /\ \A n \in Number : host'[n] # host[n] =>
             \A e \in Holders(n) : e \in wrong' \/ \E x \in G : e = Here(x)
        /\ \A e \in wrong : e \in wrong' \/ \E x \in G : e = Here(x)
    BY <1>4, <1>6, <2>5
  <2>7. \A x \in (0 .. TableMax) \ G :
          /\ x \in DOMAIN FD_MAP' <=> x \in DOMAIN FD_MAP
          /\ x \in DOMAIN FD_MAP => FD_MAP'[x] = FD_MAP[x]
          /\ x \in DOMAIN meant' <=> x \in DOMAIN meant
          /\ x \in DOMAIN meant => meant'[x] = meant[x]
    BY <1>6, <2>2 DEF Differ
  <2>8. \A n \in Number : host'[n] # Closed =>
          \/ n \in lost'
          \/ \E x \in G : x \in DOMAIN FD_MAP' /\ FD_MAP'[x] = n
          \/ /\ host[n] # Closed /\ (n \in lost => n \in lost')
             /\ \A x \in G : x \in DOMAIN FD_MAP /\ FD_MAP[x] = n => Elsewhere(n, G)
    BY <1>4, <1>6, <2>1, <2>2 DEF Differ
  <2> HIDE DEF G
  <2>9. Sound'
    BY <1>1, <2>4, <2>6, <2>7, CallKeepsSound
  <2>10. NothingForgotten'
    BY <1>1, <2>3, <2>4, <2>7, <2>8, CallForgetsNone
  <2> QED
    BY <2>3, <2>9, <2>10 DEF FdInv
<1>7. CASE lost' = lost \cup {rd, wr} /\ UNCHANGED <<FD_MAP, meant, wrong>>
  <2>1. /\ lost' \subseteq {n \in Number : host'[n] # Closed} /\ lost \subseteq lost'
        /\ \A n \in Number : host'[n] # host[n] => host[n] = Closed /\ n \in lost'
    BY <1>1, <1>3, <1>4, <1>7
  <2> QED
    BY <1>1, <1>4, <1>7, <2>1, NoneSetKeeps
<1> QED
  BY <1>2, <1>5, <1>6, <1>7

(* spoolCapturedOutput *)
LEMMA SpoolKeeps ==
  ASSUME FdInv, NEW rd \in Known, NEW wr \in Known, Spool(rd, wr)
  PROVE  FdInv'
<1>1. /\ Types /\ Sound /\ NothingForgotten
      /\ lost \subseteq {n \in Number : host[n] # Closed}
      /\ host \in [Number -> {Closed} \cup 0 .. (files - 1)]
      /\ FD_MAP \in Partial(Number) /\ meant \in Partial(File) /\ files \in Nat
      /\ files' = files + 2 /\ UNCHANGED <<saved, kids>> /\ rd # wr
  BY DEF FdInv, Types, Spool
<1>2. PICK w, r : w \in First(Free) /\ r \in First(Free \ {w}) /\ SpoolInto(rd, wr, w, r)
  BY DEF Spool
<1>3. PICK gone : gone = {n \in {FD_MAP[rd], FD_MAP[wr]} : \A g \in DOMAIN FD_MAP' : FD_MAP'[g] # n}
  OBVIOUS
<1>4. /\ FD_MAP' = With(With(FD_MAP, rd, r), wr, w)
      /\ meant' = With(With(meant, rd, files), wr, files + 1)
      /\ host' = [n \in DOMAIN host |-> IF n = w THEN files + 1 ELSE IF n = r THEN files
                                        ELSE IF n \in gone THEN Closed ELSE host[n]]
      /\ wrong' = (wrong \cup {e \in UNION {Holders(n) : n \in gone} :
                                 OfParents(e) \/ {Here(rd), Here(wr)} \cap wrong # {}})
                    \ {Here(rd), Here(wr)}
      /\ lost' = lost \ gone
  BY <1>2, <1>3 DEF SpoolInto
<1>5. /\ w \in Number /\ r \in Number /\ r # w /\ host[w] = Closed /\ host[r] = Closed
  BY <1>2, Numbers DEF First, Free
<1>6. /\ files' \in Nat /\ host' \in [Number -> {Closed} \cup 0 .. (files' - 1)]
      /\ host'[r] = files /\ host'[w] = files + 1
      /\ host'[r] # Closed /\ host'[w] # Closed
      /\ \A n \in Number \ {r, w} : host'[n] = IF n \in gone THEN Closed ELSE host[n]
  BY <1>1, <1>4, <1>5, Numbers
<1>7. /\ rd \in 0 .. TableMax /\ wr \in 0 .. TableMax
      /\ rd \in DOMAIN FD_MAP /\ wr \in DOMAIN FD_MAP
      /\ FD_MAP[rd] \in Number /\ FD_MAP[wr] \in Number
  BY KnownSound
<1>8. /\ DOMAIN FD_MAP' = DOMAIN FD_MAP \cup {rd, wr}
      /\ FD_MAP'[rd] = r /\ FD_MAP'[wr] = w
      /\ \A x \in DOMAIN FD_MAP \ {rd, wr} : FD_MAP'[x] = FD_MAP[x]
  <2>1. PICK t : t = With(FD_MAP, rd, r)
    OBVIOUS
  <2>2. t \in Partial(Number) /\ Differ(t, FD_MAP, rd, r)
    BY Zenon, <1>1, <1>5, <1>7, <2>1, TableSet
  <2>3. FD_MAP' = With(t, wr, w)
    BY Zenon, <1>4, <2>1
  <2>4. FD_MAP' \in Partial(Number) /\ Differ(FD_MAP', t, wr, w)
    BY Zenon, <1>5, <1>7, <2>2, <2>3, TableSet
  <2> QED
    BY <1>1, <2>2, <2>4 DEF Differ
<1>9. r \notin gone /\ w \notin gone
  BY <1>3, <1>7, <1>8
<1>10. ASSUME NEW n \in gone, NEW e \in Holders(n)
       PROVE  e \in wrong' \/ e = Here(rd) \/ e = Here(wr)
  <2>1. n \in {FD_MAP[rd], FD_MAP[wr]} /\ \A g \in DOMAIN FD_MAP' : FD_MAP'[g] # n
    BY <1>3
  <2>2. CASE {Here(rd), Here(wr)} \cap wrong # {}
    BY <1>4, <1>10, <2>2
  <2>3. ASSUME NEW d \in 0 .. Depth, NEW h \in 0 .. TableMax,
               e = <<d, h>>, h \in DOMAIN TableAt(d), TableAt(d)[h] = n
        PROVE  e \in wrong' \/ e = Here(rd) \/ e = Here(wr)
    <3>1. CASE d = Depth
      <4>1. h \in DOMAIN FD_MAP /\ FD_MAP[h] = n
        BY <2>3, <3>1 DEF TableAt
      <4>2. h = rd \/ h = wr
        BY <1>8, <2>1, <4>1
      <4> QED
        BY <2>3, <3>1, <4>2 DEF Here
    <3>2. CASE d # Depth
      <4>1. Depth \in Nat
        BY <1>1, TableTypes
      <4>2. d \in 0 .. (Depth - 1)
        BY <3>2, <4>1
      <4>3. OfParents(e)
        BY <2>3, <4>2 DEF OfParents
      <4> QED
        BY <1>4, <1>10, <4>3
    <3> QED
      BY <3>1, <3>2
  <2>4. CASE Here(rd) \notin wrong /\ Here(wr) \notin wrong
    <3>1. \/ e \in wrong
          \/ \E d \in 0 .. Depth, h \in 0 .. TableMax :
               e = <<d, h>> /\ h \in DOMAIN TableAt(d) /\ TableAt(d)[h] = n
      BY <1>10, <2>1, <2>4, SharedIsWrong
    <3> QED
      BY <1>4, <2>3, <3>1
  <2> QED
    BY <2>2, <2>4
<1>11. \A e \in wrong : e \in wrong' \/ e = Here(rd) \/ e = Here(wr)
  BY <1>4
<1>12. lost' \subseteq {n \in Number : host'[n] # Closed}
  BY <1>1, <1>4, <1>6
<1>13. \A n \in Number \ {r, w} : host'[n] # host[n] =>
         \A e \in Holders(n) : e \in wrong' \/ e = Here(rd) \/ e = Here(wr)
  BY <1>6, <1>10
<1>a. PICK G : G = {rd, wr}
  OBVIOUS
<1>14. ASSUME NEW n \in Number \ {r, w}, host'[n] # Closed, n = FD_MAP[rd] \/ n = FD_MAP[wr]
       PROVE  Elsewhere(n, G)
  <2>1. n \notin gone
    BY <1>6, <1>14
  <2>2. PICK h \in DOMAIN FD_MAP' : FD_MAP'[h] = n
    BY <1>3, <1>14, <2>1
  <2>3. h # rd /\ h # wr /\ h \in DOMAIN FD_MAP /\ FD_MAP[h] = n
    BY <1>8, <1>14, <2>2
  <2>4. h \in 0 .. TableMax /\ Depth \in 0 .. Depth /\ TableAt(Depth) = FD_MAP
    BY <1>1, <2>3, OfPartial, TableTypes DEF TableAt
  <2>5. Here(h) \in Holders(n)
    BY <2>3, <2>4, EntryHolds DEF Here
  <2> QED
    BY <1>a, <2>3, <2>5 DEF Elsewhere, Here
<1>15. \A n \in Number \ {r, w} : host'[n] # Closed =>
         /\ host[n] # Closed /\ (n \in lost => n \in lost')
         /\ rd \in DOMAIN FD_MAP /\ FD_MAP[rd] = n => Elsewhere(n, G)
         /\ wr \in DOMAIN FD_MAP /\ FD_MAP[wr] = n => Elsewhere(n, G)
  BY <1>4, <1>6, <1>14
<1>16. PICK b : b = files + 1
  OBVIOUS
<1>17. files \in File /\ b \in File /\ host'[w] = b /\ meant' = With(With(meant, rd, files), wr, b)
  BY <1>1, <1>4, <1>6, <1>16 DEF File
<1> QED
  BY <1>1, <1>4, <1>5, <1>6, <1>7, <1>11, <1>12, <1>13, <1>15, <1>17, <1>a, TwoSetKeep

(* A program is run in place: the tables there are stay. *)
LEMMA BeginRunTables ==
  ASSUME Types, BeginRun
  PROVE  /\ Depth \in Nat /\ Depth' = Depth + 1 /\ saved' \in Seq(Saved)
         /\ \A d \in 0 .. Depth : TableAt(d)' = TableAt(d) /\ MeantAt(d)' = MeantAt(d)
         /\ \A d : d = Depth + 1 => TableAt(d)' = FD_MAP /\ MeantAt(d)' = meant
<1>1. /\ saved' = Append(saved, [table |-> FD_MAP, meant |-> meant])
      /\ FD_MAP' = FD_MAP /\ meant' = meant
      /\ saved \in Seq(Saved) /\ [table |-> FD_MAP, meant |-> meant] \in Saved
  BY DEF Types, BeginRun, Saved
<1>2. /\ saved' \in Seq(Saved) /\ Len(saved') = Len(saved) + 1
      /\ \A i \in 1 .. Len(saved) : saved'[i] = saved[i]
      /\ saved'[Len(saved) + 1] = [table |-> FD_MAP, meant |-> meant]
  BY <1>1, AppendProperties
<1>3. Depth \in Nat /\ Depth = Len(saved) /\ Depth' = Depth + 1
  BY <1>2, TableTypes DEF Depth
<1>4. ASSUME NEW d \in 0 .. Depth PROVE TableAt(d)' = TableAt(d) /\ MeantAt(d)' = MeantAt(d)
  <2>1. d # Depth' /\ d + 1 \in 1 .. Depth + 1
    BY <1>3
  <2>2. TableAt(d)' = saved'[d + 1].table /\ MeantAt(d)' = saved'[d + 1].meant
    BY <2>1 DEF TableAt, MeantAt
  <2>3. CASE d = Depth
    BY <1>2, <1>3, <2>2, <2>3 DEF TableAt, MeantAt
  <2>4. CASE d # Depth
    <3>1. d + 1 \in 1 .. Len(saved)
      BY <1>3, <2>4
    <3> QED
      BY <1>2, <2>2, <2>4, <3>1 DEF TableAt, MeantAt
  <2> QED
    BY <2>3, <2>4
<1>5. ASSUME NEW d, d = Depth + 1 PROVE TableAt(d)' = FD_MAP /\ MeantAt(d)' = meant
  BY <1>1, <1>3, <1>5 DEF TableAt, MeantAt
<1> QED
  BY <1>2, <1>3, <1>4, <1>5

(* It keeps the invariant. *)
LEMMA BeginRunKeeps ==
  ASSUME FdInv, BeginRun
  PROVE  FdInv'
<1>1. Types /\ Sound /\ NothingForgotten
  BY DEF FdInv
<1>2. /\ UNCHANGED <<FD_MAP, meant, host, kids, lost, files>>
      /\ wrong' = wrong \cup {<<Depth + 1, e[2]>> : e \in {x \in wrong : x[1] = Depth}}
  BY DEF BeginRun
<1>3. /\ Depth \in Nat /\ Depth' = Depth + 1 /\ saved' \in Seq(Saved)
      /\ \A d \in 0 .. Depth : TableAt(d)' = TableAt(d) /\ MeantAt(d)' = MeantAt(d)
      /\ \A d : d = Depth + 1 => TableAt(d)' = FD_MAP /\ MeantAt(d)' = meant
  BY <1>1, BeginRunTables
<1>4. Types'
  BY <1>1, <1>2, <1>3 DEF Types
<1>5. wrong \subseteq wrong' /\ KidReals' = KidReals
  BY <1>2 DEF KidReals
<1>6. \A n : Alone(n) => Alone(n)'
  BY <1>5 DEF Alone
<1>7. ASSUME NEW d \in 0 .. Depth, NEW g \in 0 .. TableMax PROVE EntrySound(d, g)'
  <2>1. EntrySound(d, g)
    BY <1>1 DEF Sound, TablesSound
  <2>2. TableAt(d)' = TableAt(d) /\ MeantAt(d)' = MeantAt(d)
    BY <1>3
  <2> QED
    BY <1>2, <1>5, <1>6, <2>1, <2>2 DEF EntrySound
<1>8. ASSUME NEW d, d = Depth + 1, NEW g \in 0 .. TableMax PROVE EntrySound(d, g)'
  <2>1. Depth \in 0 .. Depth /\ TableAt(Depth) = FD_MAP /\ MeantAt(Depth) = meant
    BY <1>3 DEF TableAt, MeantAt
  <2>2. EntrySound(Depth, g)
    BY <1>1, <2>1 DEF Sound, TablesSound
  <2>3. TableAt(d)' = FD_MAP /\ MeantAt(d)' = meant
    BY <1>3, <1>8
  <2>4. CASE <<Depth, g>> \in wrong
    <3>1. <<d, g>> \in wrong'
      BY <1>2, <1>8, <2>4
    <3> QED
      BY <3>1 DEF EntrySound
  <2>5. CASE <<Depth, g>> \notin wrong
    <3>1. g \in DOMAIN FD_MAP <=> g \in DOMAIN meant
      BY <2>1, <2>2, <2>5 DEF EntrySound
    <3>2. g \in DOMAIN FD_MAP => host[FD_MAP[g]] = meant[g] /\ Alone(FD_MAP[g])
      BY <2>1, <2>2, <2>5 DEF EntrySound
    <3> QED
      BY <1>2, <1>6, <2>3, <3>1, <3>2 DEF EntrySound
  <2> QED
    BY <2>4, <2>5
<1>9. TablesSound'
  <2>1. ASSUME NEW d \in 0 .. Depth' PROVE d \in 0 .. Depth \/ d = Depth + 1
    BY <1>3
  <2> QED
    BY <1>7, <1>8, <2>1 DEF TablesSound
<1>10. KidsSound'
  BY <1>1, <1>2, <1>5 DEF Sound, KidsSound, KidSound, RealsOf
<1>11. NodeSound'
  BY <1>1, <1>2, <1>5 DEF Sound, NodeSound
<1>12. ASSUME NEW n, Holders(n) # {} PROVE Holders(n)' # {}
  <2>1. PICK e \in Holders(n) : TRUE
    BY <1>12
  <2>2. ASSUME NEW d \in 0 .. Depth, NEW g \in 0 .. TableMax,
               g \in DOMAIN TableAt(d), TableAt(d)[g] = n
        PROVE  Holders(n)' # {}
    <3>1. d \in 0 .. Depth' /\ TableAt(d)' = TableAt(d)
      BY <1>3
    <3>2. <<d, g>> \in EntriesOf(n)'
      BY <2>2, <3>1 DEF EntriesOf, Entries
    <3> QED
      BY <3>2 DEF Holders
  <2>3. CASE n \in KidReals \/ n \in Own
    <3>1. <<Kid, n>> \in Holders(n)' \/ <<Node, n>> \in Holders(n)'
      BY <1>5, <2>3 DEF Holders
    <3> QED
      BY <3>1
  <2> QED
    BY <2>1, <2>2, <2>3, HoldersAre
<1>13. NothingForgotten'
  BY <1>1, <1>2, <1>12 DEF NothingForgotten
<1> QED
  BY <1>4, <1>9, <1>10, <1>11, <1>13 DEF FdInv, Sound

(* Its end puts the table back that was saved last. *)
LEMMA EndRunTables ==
  ASSUME Types, EndRun
  PROVE  /\ Depth \in Nat /\ Depth > 0 /\ Depth' = Depth - 1 /\ saved' \in Seq(Saved)
         /\ FD_MAP' \in Partial(Number) /\ meant' \in Partial(File)
         /\ \A d \in 0 .. (Depth - 1) : TableAt(d)' = TableAt(d) /\ MeantAt(d)' = MeantAt(d)
<1>1. /\ saved' = SubSeq(saved, 1, Depth - 1) /\ Depth > 0
      /\ FD_MAP' = saved[Depth].table /\ meant' = saved[Depth].meant
      /\ saved \in Seq(Saved) /\ Depth = Len(saved) /\ Depth \in Nat
  BY TableTypes DEF Types, EndRun, Depth
<1>2. \A i \in 1 .. (Depth - 1) : i \in 1 .. Len(saved) /\ saved[i] \in Saved
  BY <1>1, ElementOfSeq
<1>3. /\ saved' \in Seq(Saved) /\ Len(saved') = Depth - 1
      /\ \A i \in 1 .. (Depth - 1) : saved'[i] = saved[i]
  <2>1. 1 \in Int /\ Depth - 1 \in Int /\ 1 <= (Depth - 1) + 1 /\ Depth - 1 <= Len(saved)
    BY <1>1
  <2>2. saved' = [i \in 1 .. (Depth - 1) |-> saved[i]]
    BY <1>1, <2>1
  <2> QED
    BY <1>1, <1>2, <2>2
<1>4. Depth' = Depth - 1
  BY <1>3 DEF Depth
<1>5. saved[Depth] \in Saved
  BY <1>1, ElementOfSeq
<1>6. ASSUME NEW d \in 0 .. (Depth - 1) PROVE TableAt(d)' = TableAt(d) /\ MeantAt(d)' = MeantAt(d)
  <2>1. TableAt(d) = saved[d + 1].table /\ MeantAt(d) = saved[d + 1].meant
    BY <1>1 DEF TableAt, MeantAt
  <2>2. CASE d = Depth - 1
    BY <1>1, <1>4, <2>1, <2>2 DEF TableAt, MeantAt
  <2>3. CASE d # Depth - 1
    <3>1. d + 1 \in 1 .. (Depth - 1) /\ d # Depth'
      BY <1>1, <1>4, <2>3
    <3>2. TableAt(d)' = saved'[d + 1].table /\ MeantAt(d)' = saved'[d + 1].meant
      BY <3>1 DEF TableAt, MeantAt
    <3> QED
      BY <1>3, <2>1, <3>1, <3>2
  <2> QED
    BY <2>2, <2>3
<1> QED
  BY <1>1, <1>3, <1>4, <1>5, <1>6 DEF Saved

(* Its end keeps the invariant: what it leaves open is put in lost. *)
LEMMA EndRunKeeps ==
  ASSUME FdInv, EndRun
  PROVE  FdInv'
<1>1. Types /\ Sound /\ NothingForgotten /\ lost \subseteq {n \in Number : host[n] # Closed}
  BY DEF FdInv, Types
<1>2. /\ UNCHANGED <<host, kids, files>> /\ lost' = lost \cup LeftOpen
      /\ wrong' = {e \in wrong : e[1] # Depth}
  BY DEF EndRun
<1>3. /\ Depth \in Nat /\ Depth > 0 /\ Depth' = Depth - 1 /\ saved' \in Seq(Saved)
      /\ FD_MAP' \in Partial(Number) /\ meant' \in Partial(File)
      /\ \A d \in 0 .. (Depth - 1) : TableAt(d)' = TableAt(d) /\ MeantAt(d)' = MeantAt(d)
  BY <1>1, EndRunTables
<1>4. LeftOpen \subseteq {n \in Number : host[n] # Closed}
  <2>1. FD_MAP \in Partial(Number)
    BY <1>1 DEF Types
  <2>2. \A g \in DOMAIN FD_MAP : FD_MAP[g] \in Number
    BY <2>1, OfPartial
  <2> QED
    BY <2>2 DEF LeftOpen
<1>5. Types'
  BY <1>1, <1>2, <1>3, <1>4 DEF Types
<1>6. /\ \A d \in 0 .. (Depth - 1) : \A g : <<d, g>> \in wrong => <<d, g>> \in wrong'
      /\ \A n : (<<Kid, n>> \in wrong => <<Kid, n>> \in wrong')
                /\ (<<Node, n>> \in wrong => <<Node, n>> \in wrong')
      /\ KidReals' = KidReals
  BY <1>2, <1>3, Numbers DEF KidReals
<1>7. \A n : Alone(n) => Alone(n)'
  BY <1>6 DEF Alone
<1>8. ASSUME NEW d \in 0 .. Depth', NEW g \in 0 .. TableMax PROVE EntrySound(d, g)'
  <2>1. d \in 0 .. Depth /\ d \in 0 .. (Depth - 1)
    BY <1>3
  <2>2. EntrySound(d, g)
    BY <1>1, <2>1 DEF Sound, TablesSound
  <2>3. TableAt(d)' = TableAt(d) /\ MeantAt(d)' = MeantAt(d)
    BY <1>3, <2>1
  <2> QED
    BY <1>2, <1>6, <1>7, <2>1, <2>2, <2>3 DEF EntrySound
<1>9. TablesSound'
  BY <1>8 DEF TablesSound
<1>10. KidsSound'
  BY <1>1, <1>2, <1>6 DEF Sound, KidsSound, KidSound, RealsOf
<1>11. NodeSound'
  BY <1>1, <1>2, <1>6 DEF Sound, NodeSound
<1>12. ASSUME NEW n \in Number, host[n] # Closed, Holders(n) # {}
       PROVE  Holders(n)' # {} \/ n \in LeftOpen
  <2>1. CASE n \in KidReals \/ n \in Own
    <3>1. <<Kid, n>> \in Holders(n)' \/ <<Node, n>> \in Holders(n)'
      BY <1>6, <2>1 DEF Holders
    <3> QED
      BY <3>1
  <2>2. ASSUME NEW d \in 0 .. (Depth - 1), NEW g \in 0 .. TableMax,
               g \in DOMAIN TableAt(d), TableAt(d)[g] = n
        PROVE  Holders(n)' # {}
    <3>1. d \in 0 .. Depth' /\ TableAt(d)' = TableAt(d)
      BY <1>3
    <3>2. <<d, g>> \in EntriesOf(n)'
      BY <2>2, <3>1 DEF EntriesOf, Entries
    <3> QED
      BY <3>2 DEF Holders
  <2>3. CASE /\ ~(n \in KidReals \/ n \in Own)
             /\ \A d \in 0 .. (Depth - 1), g \in 0 .. TableMax :
                  ~(g \in DOMAIN TableAt(d) /\ TableAt(d)[g] = n)
    <3>1. ASSUME NEW e \in Holders(n)
          PROVE  /\ e[1] = Depth
                 /\ \E g \in DOMAIN FD_MAP : FD_MAP[g] = n
      <4>1. PICK d \in 0 .. Depth, g \in 0 .. TableMax :
              e = <<d, g>> /\ g \in DOMAIN TableAt(d) /\ TableAt(d)[g] = n
        BY <2>3, HoldersAre
      <4>2. d = Depth
        BY <1>3, <2>3, <4>1
      <4> QED
        BY <4>1, <4>2 DEF TableAt
    <3> QED
      BY <1>12, <3>1 DEF LeftOpen
  <2> QED
    BY <2>1, <2>2, <2>3
<1>13. NothingForgotten'
  BY <1>1, <1>2, <1>12 DEF NothingForgotten, Types
<1> QED
  BY <1>5, <1>9, <1>10, <1>11, <1>13 DEF FdInv, Sound

(* Steps that change the children and no table. *)
LEMMA TablesStay ==
  ASSUME Types, Sound, UNCHANGED <<FD_MAP, meant, saved>>,
         \A d \in 0 .. Depth, g \in 0 .. TableMax : <<d, g>> \in wrong => <<d, g>> \in wrong',
         \A n \in Own : <<Node, n>> \in wrong => <<Node, n>> \in wrong',
         \A n \in Number : host'[n] # host[n] =>
           \A e \in Holders(n) : e \in wrong' \/ e = <<Kid, n>>,
         \A n \in Number : Alone(n) /\ host[n] # Closed => Alone(n)'
  PROVE  TablesSound' /\ NodeSound'
<1>1. Depth' = Depth /\ Depth \in Nat
  BY TableTypes DEF Depth
<1>2. ASSUME NEW d \in 0 .. Depth, NEW g \in 0 .. TableMax PROVE EntrySound(d, g)'
  <2>1. TableAt(d)' = TableAt(d) /\ MeantAt(d)' = MeantAt(d)
    BY <1>1 DEF TableAt, MeantAt
  <2>2. EntrySound(d, g)
    BY DEF Sound, TablesSound
  <2>3. CASE <<d, g>> \in wrong \/ g \notin DOMAIN TableAt(d)
    BY <2>1, <2>2, <2>3 DEF EntrySound
  <2>4. CASE <<d, g>> \notin wrong /\ g \in DOMAIN TableAt(d)
    <3>1. /\ TableAt(d)[g] \in Number /\ g \in DOMAIN MeantAt(d) /\ MeantAt(d)[g] \in File
          /\ host[TableAt(d)[g]] = MeantAt(d)[g] /\ Alone(TableAt(d)[g])
      BY <2>2, <2>4, TableTypes, OfPartial DEF EntrySound
    <3>2. PICK n : n = TableAt(d)[g]
      OBVIOUS
    <3>3. Alone(n)'
      BY <3>1, <3>2, Numbers
    <3>4. <<d, g>> \in Holders(n) /\ <<d, g>> # <<Kid, n>>
      BY <1>1, <2>4, <3>2, EntryHolds, Numbers
    <3>5. host'[n] = host[n] \/ <<d, g>> \in wrong'
      BY <3>1, <3>2, <3>4
    <3> QED
      BY <2>1, <2>4, <3>1, <3>2, <3>3, <3>5 DEF EntrySound
  <2> QED
    BY <2>3, <2>4
<1>3. ASSUME NEW n \in Own PROVE <<Node, n>> \in wrong' \/ host'[n] = n
  <2>1. <<Node, n>> \in Holders(n) /\ n \in Number /\ <<Node, n>> # <<Kid, n>>
    BY OthersHold, Numbers
  <2> QED
    BY <2>1 DEF Sound, NodeSound
<1> QED
  BY <1>1, <1>2, <1>3 DEF TablesSound, NodeSound

(* They forget no number but a child's. *)
LEMMA HoldersStay ==
  ASSUME Types, UNCHANGED <<FD_MAP, meant, saved>>, NEW n, NEW e \in Holders(n),
         e = <<Kid, n>> => n \in KidReals'
  PROVE  Holders(n)' # {}
<1>1. Depth' = Depth /\ Depth \in Nat
  BY TableTypes DEF Depth
<1>2. ASSUME NEW d \in 0 .. Depth, NEW g \in 0 .. TableMax,
             g \in DOMAIN TableAt(d), TableAt(d)[g] = n
      PROVE  Holders(n)' # {}
  <2>1. TableAt(d)' = TableAt(d)
    BY <1>1 DEF TableAt
  <2>2. <<d, g>> \in EntriesOf(n)'
    BY <1>1, <1>2, <2>1 DEF EntriesOf, Entries
  <2> QED
    BY <2>2 DEF Holders
<1>3. CASE e = <<Kid, n>> \/ n \in Own
  <2>1. <<Kid, n>> \in Holders(n)' \/ <<Node, n>> \in Holders(n)'
    BY <1>3 DEF Holders
  <2> QED
    BY <2>1
<1> QED
  BY <1>2, <1>3, HoldersAre

(* The numbers the host hands out in turn differ, and each is opened with  *)
(* its own file.                                                           *)
EachOpened(I, real, file, f) ==
  /\ \A i, j \in I : real[i] = real[j] => i = j
  /\ \A i \in I : f[real[i]] = file[i]
  /\ \A n \in Number : (\A i \in I : real[i] # n) => f[n] = host[n]
  /\ f = [n \in Number |-> f[n]]
(* So it is for the numbers of a spawn. *)
LEMMA OpenedOnce ==
  ASSUME NEW I, I \subseteq Nat, NEW real, real \in [I -> Free], HandedOut(real),
         NEW file, DOMAIN host = Number, NEW f, f = Opened(real, file)
  PROVE  EachOpened(I, real, file, f)
<1>1. Free \subseteq Number /\ Free \subseteq Nat
  BY Numbers DEF Free
<1>2. ASSUME NEW i \in I, NEW j \in I, i < j PROVE real[i] # real[j]
  <2>1. real[i] \in {real[x] : x \in {y \in DOMAIN real : y < j}}
    BY <1>2
  <2>2. real[i] \in {n \in Free : n < real[j]}
    BY <2>1 DEF HandedOut
  <2>3. real[i] \in Nat /\ real[j] \in Nat /\ real[i] < real[j]
    BY <1>1, <2>2
  <2> QED
    BY <2>3
<1>3. \A i, j \in I : real[i] = real[j] => i = j
  BY <1>2
<1>4. ASSUME NEW i \in I PROVE Opened(real, file)[real[i]] = file[i]
  <2>1. real[i] \in DOMAIN host /\ i \in DOMAIN real
    BY <1>1
  <2>2. (CHOOSE x \in DOMAIN real : real[x] = real[i]) = i
    BY <1>3
  <2> QED
    BY <2>1, <2>2 DEF Opened
<1>5. \A n \in Number : (\A i \in I : real[i] # n) => Opened(real, file)[n] = host[n]
  BY DEF Opened
<1>6. f = [n \in Number |-> f[n]]
  BY DEF Opened
<1> QED
  BY <1>3, <1>4, <1>5, <1>6 DEF EachOpened

(* spawn without a worker that fails *)
LEMMA SpawnHereKeeps ==
  ASSUME FdInv, NEW from, SpawnHereFails(from)
  PROVE  FdInv'
<1>1. /\ lost \subseteq {n \in Number : host[n] # Closed} /\ files \in Nat /\ files' = files + 1
      /\ host \in [Number -> {Closed} \cup 0 .. (files - 1)]
      /\ UNCHANGED <<FD_MAP, meant, saved, kids, wrong>>
  BY DEF FdInv, Types, SpawnHereFails
<1>2. PICK n \in Std : \E real \in [0 .. n -> Free], file \in [0 .. n -> 0 .. files] :
        /\ HandedOut(real) /\ host' = Opened(real, file)
        /\ lost' = lost \cup {real[i] : i \in 0 .. n}
  BY DEF SpawnHereFails
<1>3. PICK real \in [0 .. n -> Free], file \in [0 .. n -> 0 .. files] :
        /\ HandedOut(real) /\ host' = Opened(real, file)
        /\ lost' = lost \cup {real[i] : i \in 0 .. n}
  BY <1>2
<1>4. PICK I : I = 0 .. n
  OBVIOUS
<1>5. I \subseteq Nat /\ real \in [I -> Free] /\ DOMAIN host = Number
  BY <1>1, <1>4, Numbers
<1>6. /\ \A i \in I : host'[real[i]] = file[i]
      /\ \A m \in Number : (\A i \in I : real[i] # m) => host'[m] = host[m]
      /\ host' = [m \in Number |-> host'[m]]
  <2>1. EachOpened(I, real, file, host')
    BY Zenon, <1>3, <1>5, OpenedOnce
  <2> QED
    BY <2>1 DEF EachOpened
<1>7. \A i \in I : real[i] \in Number /\ host[real[i]] = Closed /\ file[i] \in 0 .. files
  BY <1>3, <1>4, Numbers DEF Free
<1>8. \A m \in Number : \/ host'[m] = host[m]
                        \/ host[m] = Closed /\ host'[m] \in 0 .. files /\ m \in lost'
  BY <1>3, <1>4, <1>6, <1>7
<1>9. files' \in Nat /\ host' \in [Number -> {Closed} \cup 0 .. (files' - 1)]
  <2>1. \A m \in Number : host'[m] \in {Closed} \cup 0 .. (files' - 1)
    BY <1>1, <1>8
  <2> QED
    BY <1>1, <1>6, <2>1
<1>10. lost' \subseteq {m \in Number : host'[m] # Closed} /\ lost \subseteq lost'
  <2>1. \A i \in I : host'[real[i]] # Closed
    BY <1>1, <1>6, <1>7, Numbers
  <2>2. \A m \in lost : m \in Number /\ host'[m] # Closed
    BY <1>1, <1>8, Numbers
  <2> QED
    BY <1>3, <1>4, <1>7, <2>1, <2>2
<1> QED
  BY <1>1, <1>8, <1>9, <1>10, NoneSetKeeps

(* A child is started in a worker. *)
LEMMA SpawnWorkerKeeps ==
  ASSUME FdInv, NEW from, SpawnWorker(from)
  PROVE  FdInv'
<1>1. /\ Types /\ Sound /\ NothingForgotten
      /\ lost \subseteq {n \in Number : host[n] # Closed} /\ files \in Nat
      /\ host \in [Number -> {Closed} \cup 0 .. (files - 1)]
      /\ UNCHANGED <<FD_MAP, meant, saved, wrong, lost, files>>
  BY DEF FdInv, Types, SpawnWorker
<1>2. PICK real \in [Std -> Free], file \in [Std -> 0 .. (files - 1)] :
        /\ HandedOut(real) /\ host' = Opened(real, file)
        /\ \E pid : kids' = kids \cup {[pid |-> pid, real |-> real, meant |-> file]}
  BY DEF SpawnWorker
<1>3. PICK pid : kids' = kids \cup {[pid |-> pid, real |-> real, meant |-> file]}
  BY <1>2
<1>4. PICK new : new = [pid |-> pid, real |-> real, meant |-> file]
  OBVIOUS
<1>5. kids' = kids \cup {new} /\ new.real = real /\ new.meant = file
  BY <1>3, <1>4
<1>6. Std \subseteq Nat /\ DOMAIN host = Number
  BY <1>1, Numbers
<1>7. /\ host' = [m \in Number |-> host'[m]]
      /\ \A i, j \in Std : real[i] = real[j] => i = j
      /\ \A i \in Std : host'[real[i]] = file[i]
      /\ \A m \in Number : (\A i \in Std : real[i] # m) => host'[m] = host[m]
  <2>1. EachOpened(Std, real, file, host')
    BY Zenon, <1>2, <1>6, OpenedOnce
  <2> QED
    BY <2>1 DEF EachOpened
<1>8. \A i \in Std : /\ real[i] \in Number /\ real[i] \in Native /\ host[real[i]] = Closed
                     /\ file[i] \in 0 .. (files - 1) /\ file[i] \in File
  <2>1. \A i \in Std : real[i] \in Free /\ file[i] \in 0 .. (files - 1)
    BY <1>2
  <2>2. \A m \in Free : m \in Number /\ m \in Native /\ host[m] = Closed
    BY Numbers DEF Free
  <2>3. \A m \in 0 .. (files - 1) : m \in File
    BY <1>1 DEF File
  <2> QED
    BY Zenon, <2>1, <2>2, <2>3
<1>9. \A m \in Number : \/ host'[m] = host[m]
                        \/ host[m] = Closed /\ host'[m] \in 0 .. (files - 1)
  BY <1>7, <1>8
<1>10. host' \in [Number -> {Closed} \cup 0 .. (files' - 1)]
  <2>1. \A m \in Number : host'[m] \in {Closed} \cup 0 .. (files' - 1)
    BY <1>1, <1>9
  <2> QED
    BY <1>7, <2>1
<1>11. Types'
  <2>1. \A k \in kids', g \in Std : k.real[g] \in Native /\ k.meant[g] \in File
    BY <1>1, <1>5, <1>8 DEF Types
  <2>2. lost' \subseteq {m \in Number : host'[m] # Closed}
    BY <1>1, <1>9
  <2> QED
    BY <1>1, <1>10, <2>1, <2>2 DEF Types
<1>12. \A n \in KidReals' : n \in KidReals \/ (n \in Number /\ host[n] = Closed /\ \E i \in Std : n = real[i])
  <2>1. ASSUME NEW n \in KidReals' PROVE \E k \in kids', g \in Std : n = k.real[g]
    BY DEF KidReals
  <2> QED
    BY <1>5, <1>8, <2>1, KidHolds
<1>13. \A n \in Number : Alone(n) /\ host[n] # Closed => Alone(n)'
  BY <1>1, <1>12 DEF Alone
<1>14. \A n \in Number : host[n] = Closed => \A e \in Holders(n) : e \in wrong
  BY <1>1, ClosedIsWrong
<1>15. TablesSound' /\ NodeSound'
  <2>1. \A n \in Number : host'[n] # host[n] => \A e \in Holders(n) : e \in wrong' \/ e = <<Kid, n>>
    BY <1>1, <1>9, <1>14
  <2>2. \A d \in 0 .. Depth, g \in 0 .. TableMax : <<d, g>> \in wrong => <<d, g>> \in wrong'
    BY <1>1
  <2> QED
    BY <1>1, <1>13, <2>1, <2>2, TablesStay
<1>16. ASSUME NEW k \in kids', NEW g \in Std PROVE KidSound(k, g)'
  <2>1. CASE host[k.real[g]] = Closed /\ k.real[g] \in KidReals
    <3>1. k.real[g] \in Number
      BY <1>5, <1>8, <1>11, <1>16, Numbers DEF Types
    <3>2. <<Kid, k.real[g]>> \in wrong
      BY <1>14, <2>1, <3>1, OthersHold
    <3> QED
      BY <1>1, <3>2 DEF KidSound
  <2>2. CASE k = new /\ k.real[g] \notin KidReals
    <3>1. host'[k.real[g]] = k.meant[g]
      BY <1>5, <1>7, <2>2
    <3>2. k.real[g] \in Own => <<Node, k.real[g]>> \in wrong'
      BY <1>1, <1>5, <1>8, <1>14, <2>2, OthersHold
    <3>3. \A j \in kids : k.real[g] \notin RealsOf(j)
      BY <2>2, KidHolds DEF RealsOf
    <3>4. \A j \in kids' \ {k} : k.real[g] \notin RealsOf(j)
      BY <1>5, <2>2, <3>3
    <3> QED
      BY <3>1, <3>2, <3>4 DEF KidSound, RealsOf
  <2>3. CASE k \in kids /\ host[k.real[g]] # Closed
    <3>1. KidSound(k, g) /\ k.real[g] \in Number
      BY <1>1, <2>3, Numbers DEF Sound, KidsSound, Types
    <3>2. host'[k.real[g]] = host[k.real[g]]
      BY <1>9, <2>3, <3>1
    <3>3. k.real[g] \notin RealsOf(new)
      BY <1>5, <1>8, <2>3 DEF RealsOf
    <3> QED
      BY <1>1, <1>5, <3>1, <3>2, <3>3 DEF KidSound, RealsOf
  <2>4. k = new => host[k.real[g]] = Closed
    BY <1>5, <1>8
  <2>5. k \in kids => k.real[g] \in KidReals
    BY KidHolds
  <2> QED
    BY <1>5, <2>1, <2>2, <2>3, <2>4, <2>5
<1>17. KidsSound'
  BY <1>16 DEF KidsSound
<1>18. ASSUME NEW n \in Number, host'[n] # Closed PROVE Holders(n)' # {} \/ n \in lost'
  <2>1. CASE \E i \in Std : real[i] = n
    <3>1. n \in KidReals'
      BY <1>5, <2>1 DEF KidReals
    <3>2. <<Kid, n>> \in Holders(n)'
      BY <3>1 DEF Holders
    <3> QED
      BY <3>2
  <2>2. CASE \A i \in Std : real[i] # n
    <3>1. Holders(n) # {} \/ n \in lost'
      BY <1>1, <1>6, <1>7, <1>18, <2>2 DEF NothingForgotten
    <3>2. n \in KidReals => n \in KidReals'
      BY <1>5 DEF KidReals
    <3>3. ASSUME NEW e \in Holders(n) PROVE e = <<Kid, n>> => n \in KidReals
      BY Numbers, HoldersAre, <1>1, TableTypes
    <3> QED
      BY <1>1, <3>1, <3>2, <3>3, HoldersStay
  <2> QED
    BY <2>1, <2>2
<1>19. NothingForgotten'
  BY <1>10, <1>18 DEF NothingForgotten
<1> QED
  BY <1>11, <1>15, <1>17, <1>19 DEF FdInv, Sound

(* A child is gone: what it alone had is no child's, and the others' stays. *)
LEMMA ChildGone ==
  ASSUME Types, Sound, NEW k \in kids, kids' = kids \ {k},
         \A n : <<Kid, n>> \in wrong /\ n \notin OnlyOf(k) => <<Kid, n>> \in wrong',
         \A n \in Own : <<Node, n>> \in wrong => <<Node, n>> \in wrong',
         \A n \in Number : host'[n] # host[n] => n \in RealsOf(k)
  PROVE  /\ RealsOf(k) \subseteq Number /\ RealsOf(k) \subseteq KidReals
         /\ \A n \in KidReals : n \in KidReals' \/ n \in OnlyOf(k)
         /\ \A n : Alone(n) => Alone(n)'
         /\ KidsSound'
<1>1. RealsOf(k) \subseteq Number /\ RealsOf(k) \subseteq KidReals
  BY KidHolds, Numbers DEF RealsOf, Types
<1>2. ASSUME NEW n \in KidReals PROVE n \in KidReals' \/ n \in OnlyOf(k)
  <2>1. PICK j \in kids, g \in Std : n = j.real[g]
    BY KidRealsAre
  <2>2. CASE j # k
    BY <2>1, <2>2 DEF KidReals
  <2>3. CASE j = k /\ \A i \in kids \ {k} : n \notin RealsOf(i)
    BY <2>1, <2>3 DEF OnlyOf, RealsOf
  <2>4. ASSUME NEW i \in kids \ {k}, n \in RealsOf(i) PROVE n \in KidReals'
    BY <2>4 DEF KidReals, RealsOf
  <2> QED
    BY <2>2, <2>3, <2>4
<1>3. ASSUME NEW n \in KidReals' PROVE n \in KidReals /\ n \notin OnlyOf(k)
  <2>1. PICK j \in kids \ {k}, g \in Std : n = j.real[g]
    BY DEF KidReals
  <2>2. n \in KidReals /\ n \in RealsOf(j)
    BY <2>1, KidHolds
  <2> QED
    BY <2>1, <2>2 DEF OnlyOf
<1>4. ASSUME NEW n, Alone(n) PROVE Alone(n)'
  BY <1>3, <1>4 DEF Alone
<1>5. ASSUME NEW j \in kids', NEW g \in Std PROVE KidSound(j, g)'
  <2>1. j \in kids \ {k} /\ KidSound(j, g) /\ j.real[g] \in RealsOf(j)
    BY KidHolds DEF Sound, KidsSound
  <2>2. j.real[g] \notin OnlyOf(k) /\ j.real[g] \in Number
    BY <2>1, Numbers DEF OnlyOf, Types
  <2>3. CASE <<Kid, j.real[g]>> \in wrong
    BY <2>2, <2>3 DEF KidSound
  <2>4. CASE <<Kid, j.real[g]>> \notin wrong
    <3>1. /\ host[j.real[g]] = j.meant[g]
          /\ j.real[g] \in Own => <<Node, j.real[g]>> \in wrong
          /\ \A i \in kids \ {j} : j.real[g] \notin RealsOf(i)
      BY <2>1, <2>4 DEF KidSound
    <3>2. j.real[g] \notin RealsOf(k)
      BY <2>1, <3>1
    <3>3. host'[j.real[g]] = host[j.real[g]]
      BY <2>2, <3>2
    <3> QED
      BY <3>1, <3>3 DEF KidSound, RealsOf
  <2> QED
    BY <2>3, <2>4
<1> QED
  BY <1>1, <1>2, <1>4, <1>5 DEF KidsSound

(* A worker ends. *)
LEMMA WorkerEndsKeeps ==
  ASSUME FdInv, NEW k \in kids, WorkerEnds(k)
  PROVE  FdInv'
<1>1. /\ Types /\ Sound /\ NothingForgotten
      /\ lost \subseteq {n \in Number : host[n] # Closed}
      /\ host \in [Number -> {Closed} \cup 0 .. (files - 1)] /\ files \in Nat
  BY DEF FdInv, Types
<1>2. /\ host' = [n \in DOMAIN host |-> IF n \in RealsOf(k) THEN Closed ELSE host[n]]
      /\ kids' = kids \ {k}
      /\ wrong' = (wrong \ {<<Kid, n>> : n \in OnlyOf(k)})
           \cup UNION {Holders(n) \ {<<Kid, n>>} : n \in {m \in RealsOf(k) : <<Kid, m>> \in wrong}}
      /\ lost' = lost \ RealsOf(k) /\ UNCHANGED <<FD_MAP, meant, saved, files>>
  BY DEF WorkerEnds
<1>3. /\ host' \in [Number -> {Closed} \cup 0 .. (files' - 1)]
      /\ \A n \in Number : host'[n] = IF n \in RealsOf(k) THEN Closed ELSE host[n]
  BY <1>1, <1>2
<1>4. Types'
  <2>1. lost' \subseteq {n \in Number : host'[n] # Closed}
    BY <1>1, <1>2, <1>3
  <2>2. \A j \in kids', g \in Std : j.real[g] \in Native /\ j.meant[g] \in File
    BY <1>1, <1>2 DEF Types
  <2> QED
    BY <1>1, <1>2, <1>3, <2>1, <2>2 DEF Types
<1>5. /\ \A n : <<Kid, n>> \in wrong /\ n \notin OnlyOf(k) => <<Kid, n>> \in wrong'
      /\ \A n \in Own : <<Node, n>> \in wrong => <<Node, n>> \in wrong'
      /\ \A d \in 0 .. Depth, g \in 0 .. TableMax : <<d, g>> \in wrong => <<d, g>> \in wrong'
  <2>1. Depth \in Nat
    BY <1>1, TableTypes
  <2> QED
    BY <1>2, <2>1, Numbers
<1>6. /\ RealsOf(k) \subseteq Number /\ RealsOf(k) \subseteq KidReals
      /\ \A n \in KidReals : n \in KidReals' \/ n \in OnlyOf(k)
      /\ \A n : Alone(n) => Alone(n)'
      /\ KidsSound'
  <2>1. \A n \in Number : host'[n] # host[n] => n \in RealsOf(k)
    BY <1>3
  <2> QED
    BY <1>1, <1>2, <1>5, <2>1, ChildGone
<1>7. ASSUME NEW n \in RealsOf(k), NEW e \in Holders(n), e # <<Kid, n>> PROVE e \in wrong'
  <2>1. CASE <<Kid, n>> \in wrong
    BY <1>2, <1>7, <2>1
  <2>2. CASE <<Kid, n>> \notin wrong
    <3>1. PICK g \in Std : n = k.real[g]
      BY DEF RealsOf
    <3>2. KidSound(k, g)
      BY <1>1 DEF Sound, KidsSound
    <3>3. n \in Own => <<Node, n>> \in wrong
      BY <2>2, <3>1, <3>2 DEF KidSound
    <3>4. ASSUME NEW d \in 0 .. Depth, NEW h \in 0 .. TableMax, e = <<d, h>>,
                 h \in DOMAIN TableAt(d), TableAt(d)[h] = n
          PROVE  e \in wrong'
      <4>1. EntrySound(d, h)
        BY <1>1 DEF Sound, TablesSound
      <4>2. <<d, h>> \in wrong
        BY <1>6, <2>2, <3>4, <4>1 DEF EntrySound, Alone
      <4> QED
        BY <1>5, <3>4, <4>2
    <3> QED
      BY <1>5, <1>7, <3>3, <3>4, HoldersAre
  <2> QED
    BY <2>1, <2>2
<1>8. TablesSound' /\ NodeSound'
  <2>1. \A n \in Number : host'[n] # host[n] => \A e \in Holders(n) : e \in wrong' \/ e = <<Kid, n>>
    BY <1>3, <1>7
  <2> QED
    BY <1>1, <1>2, <1>5, <1>6, <2>1, TablesStay
<1>9. ASSUME NEW n \in Number, host'[n] # Closed PROVE Holders(n)' # {} \/ n \in lost'
  <2>1. n \notin RealsOf(k) /\ (Holders(n) # {} \/ n \in lost)
    BY <1>1, <1>3, <1>9 DEF NothingForgotten
  <2>2. n \in KidReals => n \in KidReals'
    BY <1>6, <2>1 DEF OnlyOf
  <2>3. ASSUME NEW e \in Holders(n), e = <<Kid, n>> PROVE n \in KidReals
    BY <1>1, <2>3, HoldersAre, Numbers, TableTypes
  <2> QED
    BY <1>1, <1>2, <2>1, <2>2, <2>3, HoldersStay
<1>10. NothingForgotten'
  BY <1>3, <1>9 DEF NothingForgotten
<1> QED
  BY <1>4, <1>6, <1>8, <1>10 DEF FdInv, Sound

(* A worker is killed. *)
LEMMA WorkerKilledKeeps ==
  ASSUME FdInv, NEW k \in kids, WorkerKilled(k)
  PROVE  FdInv'
<1>1. /\ Types /\ Sound /\ NothingForgotten
      /\ lost \subseteq {n \in Number : host[n] # Closed}
      /\ host \in [Number -> {Closed} \cup 0 .. (files - 1)] /\ files \in Nat
  BY DEF FdInv, Types
<1>2. /\ kids' = kids \ {k} /\ wrong' = wrong \ {<<Kid, n>> : n \in OnlyOf(k)}
      /\ lost' = lost \cup {n \in OnlyOf(k) : host[n] # Closed /\ Holders(n) = {<<Kid, n>>}}
      /\ UNCHANGED <<FD_MAP, meant, saved, host, files>>
  BY DEF WorkerKilled
<1>3. /\ \A n : <<Kid, n>> \in wrong /\ n \notin OnlyOf(k) => <<Kid, n>> \in wrong'
      /\ \A n \in Own : <<Node, n>> \in wrong => <<Node, n>> \in wrong'
      /\ \A d \in 0 .. Depth, g \in 0 .. TableMax : <<d, g>> \in wrong => <<d, g>> \in wrong'
  <2>1. Depth \in Nat
    BY <1>1, TableTypes
  <2> QED
    BY <1>2, <2>1, Numbers
<1>4. /\ RealsOf(k) \subseteq Number /\ RealsOf(k) \subseteq KidReals
      /\ \A n \in KidReals : n \in KidReals' \/ n \in OnlyOf(k)
      /\ \A n : Alone(n) => Alone(n)'
      /\ KidsSound'
  BY <1>1, <1>2, <1>3, ChildGone
<1>5. Types'
  <2>1. lost' \subseteq {n \in Number : host'[n] # Closed}
    BY <1>1, <1>2, <1>4 DEF OnlyOf
  <2>2. \A j \in kids', g \in Std : j.real[g] \in Native /\ j.meant[g] \in File
    BY <1>1, <1>2 DEF Types
  <2> QED
    BY <1>1, <1>2, <2>1, <2>2 DEF Types
<1>6. TablesSound' /\ NodeSound'
  BY <1>1, <1>2, <1>3, <1>4, TablesStay
<1>7. ASSUME NEW n \in Number, host'[n] # Closed PROVE Holders(n)' # {} \/ n \in lost'
  <2>1. Holders(n) # {} \/ n \in lost
    BY <1>1, <1>2, <1>7 DEF NothingForgotten
  <2>2. CASE n \in lost
    BY <1>2, <2>2
  <2>3. CASE \E e \in Holders(n) : e # <<Kid, n>>
    BY <1>1, <1>2, <2>3, HoldersStay
  <2>4. CASE Holders(n) = {<<Kid, n>>}
    <3>a. Depth \in Nat /\ <<Kid, n>> \in Holders(n)
      BY <1>1, <2>4, TableTypes
    <3>1. n \in KidReals
      BY <3>a, HoldersAre, Numbers
    <3>2. CASE n \in OnlyOf(k)
      BY <1>2, <1>7, <2>4, <3>2
    <3>3. CASE n \in KidReals'
      BY <1>1, <1>2, <2>4, <3>3, HoldersStay
    <3> QED
      BY <1>4, <3>1, <3>2, <3>3
  <2> QED
    BY <2>1, <2>2, <2>3, <2>4
<1>8. NothingForgotten'
  BY <1>1, <1>2, <1>7 DEF NothingForgotten
<1> QED
  BY <1>4, <1>5, <1>6, <1>8 DEF FdInv, Sound

-----------------------------------------------------------------------------
(* The properties *)

(* The host has room for the standard descriptors. *)
LEMMA StdNative ==
  Start <= HostMax /\ Std \subseteq Native /\ Std \cap Own = {}
<1>1. Start \in Nat /\ HostMax \in Nat /\ Own \subseteq Native \ Std
      /\ Start + Cardinality(Own) <= HostMax
  BY NumberAssumption
<1>2. IsFiniteSet(Native)
  BY <1>1, FS_Interval DEF Native
<1>3. Cardinality(Own) \in Nat
  BY <1>1, <1>2, FS_Subset, FS_CardinalityType
<1>4. Start <= HostMax
  BY <1>1, <1>3
<1> QED
  BY <1>1, <1>4 DEF Std, Native

(* The invariant holds at first. *)
LEMMA InitInv == Init => FdInv
<1> SUFFICES ASSUME Init PROVE FdInv
  OBVIOUS
<1>1. PICK dir \in First(Native \ (Own \cup Std)) :
        /\ FD_MAP = [g \in 0 .. Start |-> IF g = Start THEN dir ELSE g]
        /\ host = [n \in Native \cup Virtual |-> IF n \in Std \cup Own \cup {dir} THEN n ELSE Closed]
  BY DEF Init
<1>2. /\ meant = FD_MAP /\ saved = <<>> /\ kids = {} /\ wrong = {} /\ lost = {}
      /\ files = HostMax + 1
  BY DEF Init
<1>3. dir \in Native /\ dir \notin Own /\ dir \notin Std /\ dir \in Number
  BY Numbers DEF First
<1>4. /\ Native = 0 .. HostMax /\ Std = 0 .. (Start - 1) /\ Start \in Nat /\ HostMax \in Nat
      /\ Start <= TableMax /\ TableMax \in Nat /\ Std \subseteq Native /\ Own \subseteq Native
  BY StdNative, Numbers DEF Native, Std
<1>5. /\ DOMAIN FD_MAP = 0 .. Start
      /\ \A g \in 0 .. Start : FD_MAP[g] = (IF g = Start THEN dir ELSE g)
  BY <1>1
<1>6. \A g \in 0 .. Start : /\ FD_MAP[g] \in Std \cup {dir} /\ FD_MAP[g] \in Native
                            /\ FD_MAP[g] \notin Own
  BY <1>3, <1>4, <1>5, StdNative
<1>7. FD_MAP \in Partial(Number) /\ meant \in Partial(File)
  <2>1. 0 .. Start \in SUBSET (0 .. TableMax)
    BY <1>4
  <2>2. FD_MAP \in [0 .. Start -> Number] /\ FD_MAP \in [0 .. Start -> File]
    BY <1>1, <1>5, <1>6, Numbers
  <2> QED
    BY <1>2, <2>1, <2>2 DEF Partial
<1>8. /\ \A n \in Number : host[n] = IF n \in Std \cup Own \cup {dir} THEN n ELSE Closed
      /\ host \in [Number -> {Closed} \cup 0 .. (files - 1)]
  <2>1. \A n \in Std \cup Own \cup {dir} : n \in 0 .. (files - 1)
    BY <1>2, <1>3, <1>4
  <2> QED
    BY <1>1, <2>1 DEF Number
<1>9. saved \in Seq(Saved) /\ Depth = 0
  BY <1>2, EmptySeq DEF Depth
<1>10. Types
  BY <1>2, <1>4, <1>7, <1>8, <1>9 DEF Types
<1>11. KidReals = {}
  BY <1>2 DEF KidReals
<1>12. /\ \A d \in 0 .. Depth : TableAt(d) = FD_MAP /\ MeantAt(d) = FD_MAP
       /\ 0 \in 0 .. Depth
  BY <1>2, <1>9 DEF TableAt, MeantAt
<1>13. TablesSound
  <2>1. ASSUME NEW g \in 0 .. Start PROVE host[FD_MAP[g]] = FD_MAP[g] /\ Alone(FD_MAP[g])
    BY <1>4, <1>6, <1>8, <1>11, Numbers DEF Alone
  <2> QED
    BY <1>5, <1>12, <2>1 DEF TablesSound, EntrySound
<1>14. KidsSound
  BY <1>2 DEF KidsSound
<1>15. NodeSound
  BY <1>4, <1>8, Numbers DEF NodeSound
<1>16. ASSUME NEW n \in Number, host[n] # Closed PROVE Holders(n) # {}
  <2>1. CASE n \in Own
    BY <2>1, OthersHold
  <2>2. CASE n \in Std \cup {dir}
    <3>1. PICK g \in 0 .. Start : FD_MAP[g] = n
      <4>1. CASE n = dir
        BY <1>4, <1>5, <4>1
      <4>2. CASE n \in Std
        BY <1>4, <1>5, <4>2
      <4> QED
        BY <2>2, <4>1, <4>2
    <3>2. g \in 0 .. TableMax
      BY <1>4
    <3>3. <<0, g>> \in Holders(n)
      BY <1>5, <1>12, <3>1, <3>2, EntryHolds
    <3> QED
      BY <3>3
  <2> QED
    BY <1>8, <1>16, <2>1, <2>2
<1>17. NothingForgotten
  BY <1>8, <1>16 DEF NothingForgotten
<1> QED
  BY <1>10, <1>13, <1>14, <1>15, <1>17 DEF FdInv, Sound

(* Each step keeps it. *)
LEMMA FdStep == FdInv /\ [Next]_vars => FdInv'
<1> SUFFICES ASSUME FdInv, [Next]_vars PROVE FdInv'
  OBVIOUS
<1>1. ASSUME NEW real \in First(Free) \cup {n \in Virtual : host[n] = Closed}, PathOpen(real)
      PROVE  FdInv'
  <2>1. real \in Number /\ host[real] = Closed
    BY Numbers DEF First, Free, Number
  <2> QED
    BY <1>1, <2>1, PathOpenKeeps
<1>2. ASSUME NEW g \in Known, FdClose(g) PROVE FdInv'
  BY <1>2, FdCloseKeeps
<1>3. ASSUME NEW from \in Known, NEW to \in Known, FdRenumber(from, to) PROVE FdInv'
  BY <1>3, FdRenumberKeeps
<1>4. ASSUME NEW old \in Known, Dup(old) PROVE FdInv'
  BY <1>4, DupKeeps
<1>5. ASSUME NEW old \in Known, NEW newfd \in 0 .. TableMax, Dup2(old, newfd) PROVE FdInv'
  BY <1>5, Dup2Keeps
<1>6. ASSUME Pipe PROVE FdInv'
  BY <1>6, PipeKeeps
<1>7. ASSUME NEW rd \in Known, NEW wr \in Known, Spool(rd, wr) PROVE FdInv'
  BY <1>7, SpoolKeeps
<1>8. ASSUME BeginRun PROVE FdInv'
  BY <1>8, BeginRunKeeps
<1>9. ASSUME EndRun PROVE FdInv'
  BY <1>9, EndRunKeeps
<1>10. ASSUME NEW from, SpawnWorker(from) PROVE FdInv'
  BY <1>10, SpawnWorkerKeeps
<1>11. ASSUME NEW from, SpawnHereFails(from) PROVE FdInv'
  BY <1>11, SpawnHereKeeps
<1>12. ASSUME NEW k \in kids, WorkerEnds(k) \/ WorkerKilled(k) PROVE FdInv'
  BY <1>12, WorkerEndsKeeps, WorkerKilledKeeps
<1>14. ASSUME PathOpenTty PROVE FdInv'
  BY <1>14, PathOpenTtyKeeps
<1>15. ASSUME 0 \in Known, CloseTty PROVE FdInv'
  BY <1>15, CloseTtyKeeps
<1>13. ASSUME UNCHANGED vars PROVE FdInv'
  BY <1>13 DEF vars, FdInv, Types, Sound, TablesSound, KidsSound, NodeSound, NothingForgotten,
               EntrySound, KidSound, Alone, TableAt, MeantAt, Depth, KidReals, RealsOf,
               Holders, EntriesOf, Entries
<1> QED
  BY <1>1, <1>2, <1>3, <1>4, <1>5, <1>6, <1>7, <1>8, <1>9, <1>10, <1>11, <1>12, <1>13, <1>14, <1>15
     DEF Next

(* The invariant of the descriptor table: whatever is not in wrong keeps    *)
(* its file and shares its host number with nobody outside the tables.      *)
THEOREM InvariantHolds == Spec => []FdInv
<1>1. Init => FdInv
  BY InitInv
<1>2. FdInv /\ [Next]_vars => FdInv'
  BY FdStep
<1> QED
  BY <1>1, <1>2, PTL DEF Spec

(* Every open descriptor of the program, and of the programs that wait for  *)
(* it, refers to the file POSIX says, but for those in wrong (wasi.ts and   *)
(* unistd.ts: FD_MAP and the calls that change it).                         *)
THEOREM FilesStay == Spec => []FilesKept
<1>1. FdInv => FilesKept
  <2> SUFFICES ASSUME FdInv PROVE FilesKept
    OBVIOUS
  <2>1. Types /\ TablesSound
    BY DEF FdInv, Sound
  <2>2. TypeOK
    <3>1. ASSUME NEW d \in 0 .. Depth
          PROVE  /\ DOMAIN TableAt(d) \cup DOMAIN MeantAt(d) \subseteq 0 .. TableMax
                 /\ \A g \in DOMAIN TableAt(d) : TableAt(d)[g] \in DOMAIN host
      <4>1. TableAt(d) \in Partial(Number) /\ MeantAt(d) \in Partial(File)
        BY <2>1, TableTypes
      <4>2. DOMAIN host = Number
        BY <2>1 DEF Types
      <4> QED
        BY <4>1, <4>2, OfPartial
    <3>2. /\ DOMAIN host = Native \cup Virtual
          /\ \A n \in DOMAIN host : host[n] \in {Closed} \cup 0 .. (files - 1)
          /\ lost \subseteq {n \in DOMAIN host : host[n] # Closed}
      BY <2>1 DEF Types, Number
    <3> QED
      BY <3>1, <3>2 DEF TypeOK
  <2>3. ASSUME NEW e \in Entries \ wrong
        PROVE  /\ e[2] \in DOMAIN TableAt(e[1]) <=> e[2] \in DOMAIN MeantAt(e[1])
               /\ e[2] \in DOMAIN TableAt(e[1]) => host[TableAt(e[1])[e[2]]] = MeantAt(e[1])[e[2]]
    <3>1. PICK d \in 0 .. Depth, g \in 0 .. TableMax : e = <<d, g>>
      BY DEF Entries
    <3>2. EntrySound(d, g)
      BY <2>1 DEF TablesSound
    <3> QED
      BY <2>3, <3>1, <3>2 DEF EntrySound
  <2> QED
    BY <2>2, <2>3 DEF FilesKept
<1> QED
  BY <1>1, InvariantHolds, PTL

(* A child's standard descriptors, and those of Node.js, keep their files,  *)
(* but for those in wrong (fork-exec.ts: the duplicates a child is given).  *)
THEOREM OthersStay == Spec => []OthersKept
<1>1. FdInv => OthersKept
  BY DEF FdInv, Sound, KidsSound, KidSound, NodeSound, OthersKept
<1> QED
  BY <1>1, InvariantHolds, PTL

(* No open host descriptor is forgotten but those in lost (unistd.ts and    *)
(* wasi.ts: the calls that open and close them).                            *)
THEOREM NoneForgotten == Spec => []NothingForgotten
<1>1. FdInv => NothingForgotten
  BY DEF FdInv
<1> QED
  BY <1>1, InvariantHolds, PTL

===============================================================================
