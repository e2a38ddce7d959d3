------------------------------ MODULE SortRunProofs ------------------------------
(***************************************************************************)
(* Proofs about a run of sort: its inputs are kept, it leaves none of its  *)
(* own files, and the number of names it makes is bounded, whatever sizes, *)
(* files and orders of lines it is run with.                               *)
(***************************************************************************)
EXTENDS SortRun, SequenceTheorems, TLAPS

(* The files of its own that a run still needs are in its lists, or are    *)
(* its output.                                                             *)
Reading == {"start", "read", "spill", "spilling", "write"}
Shrinking == {"shrink", "shrinking"}
Pcs == Reading \cup Shrinking \cup {"merge", "clean", "unlink", "rename"} \cup Ended

Names == DOMAIN was \cup {Tmp(n) : n \in Nat}
Types ==
  /\ Command /\ pc \in Pcs /\ fltmp \in BOOLEAN
  /\ fl \in Seq(Names) /\ newfl \in Seq(Names)
  /\ counter \in Nat /\ spills \in Nat /\ short \in Nat

(* The output file is another than every input.                            *)
OutputSound ==
  /\ pc = "start" => dest = args.dest /\ real = NoName
  /\ pc \notin {"start"} \cup Ended =>
       \/ args.dest \in ToSet(args.inputs) /\ real = args.dest /\ dest = Suffixed(args.dest)
       \/ args.dest \notin ToSet(args.inputs) /\ real = NoName /\ dest = args.dest
  /\ pc \in {"unlink", "rename"} => real # NoName

(* What the run removes is its own, and all that is its own will be.       *)
FilesSound ==
  /\ \A f \in tmpFiles : Own(f)
  /\ \A i \in DOMAIN newfl : Own(newfl[i])
  /\ fltmp => \A i \in DOMAIN fl : Own(fl[i])
  /\ pc # "start" /\ dest # args.dest => dest \in tmpFiles
  /\ pc \in {"spilling", "shrinking"} => Tmp(counter - 1) \in tmpFiles
  /\ pc # "killed" => \A f \in DOMAIN fs : Own(f) => f \in tmpFiles
ListsSound ==
  /\ pc \in Reading => fltmp
  /\ pc \notin Shrinking \cup Ended => newfl = <<>>
  /\ pc \in Reading \cup Shrinking \cup {"merge"} =>
       \A f \in DOMAIN fs : Own(f) => (fltmp /\ f \in ToSet(fl)) \/ f \in ToSet(newfl)
  /\ pc = "clean" => \A f \in DOMAIN fs : Own(f) => (fltmp /\ f \in ToSet(fl)) \/ f = dest
  /\ pc \in {"unlink", "rename"} => \A f \in DOMAIN fs : Own(f) => f = dest
  /\ pc = "done" => \A f \in DOMAIN fs : ~Own(f)
  /\ pc = "killed" => \A f \in DOMAIN fs : ~Own(f)

CountSound ==
  /\ pc = "start" => counter = 0 /\ spills = 0 /\ fl = <<>>
  /\ pc \in Reading \ {"start"} => args.mode = "sort" /\ spills = counter
  /\ pc \in {"read", "spill", "write"} => counter = Len(fl)
  /\ pc = "spilling" => counter = Len(fl) + 1
  /\ pc = "merge" => counter + 2 * Len(fl) <= NamesAllowed
  /\ pc = "shrinking" => counter >= 1
  /\ pc \in Shrinking =>
       /\ fl # <<>> /\ (newfl = <<>> => Len(fl) >= MaxOpen)
       /\ counter + 2 * (Len(fl) + Len(newfl)) + (IF newfl = <<>> THEN 0 ELSE 1)
            <= NamesAllowed + (IF pc = "shrink" THEN 0 ELSE 1)
  /\ counter <= NamesAllowed

(* The result is in the output file until that takes its input's name.     *)
ResultSound ==
  /\ pc \in {"clean", "unlink", "rename"} => ResultIn(dest)
  /\ pc # "killed" => signalAt = "none"

SortInv == Types /\ OutputSound /\ FilesSound /\ ListsSound /\ CountSound /\ ResultSound /\ InputsKept

LEMMA AppendToSet ==
  ASSUME NEW S, NEW s \in Seq(S), NEW e \in S
  PROVE  /\ ToSet(Append(s, e)) = ToSet(s) \cup {e}
         /\ Append(s, e) \in Seq(S) /\ Len(Append(s, e)) = Len(s) + 1
         /\ Append(s, e) # <<>>
<1>1. /\ Append(s, e) \in Seq(S) /\ Len(Append(s, e)) = Len(s) + 1 /\ Len(s) \in Nat
      /\ DOMAIN s = 1 .. Len(s) /\ DOMAIN Append(s, e) = 1 .. Len(s) + 1
      /\ \A j \in 1 .. Len(s) : Append(s, e)[j] = s[j]
      /\ Append(s, e)[Len(s) + 1] = e
  BY LenProperties
<1>2. Append(s, e) # <<>>
  BY <1>1, EmptySeq
<1>3. ASSUME NEW x \in ToSet(Append(s, e)) PROVE x \in ToSet(s) \cup {e}
  <2>1. PICK j \in 1 .. Len(s) + 1 : Append(s, e)[j] = x
    BY <1>1, <1>3 DEF ToSet
  <2> QED BY <1>1, <2>1 DEF ToSet
<1>4. ASSUME NEW x \in ToSet(s) \cup {e} PROVE x \in ToSet(Append(s, e))
  <2>1. CASE x \in ToSet(s)
    <3>1. PICK j \in 1 .. Len(s) : s[j] = x
      BY <1>1, <2>1 DEF ToSet
    <3> QED BY <1>1, <3>1 DEF ToSet
  <2>2. CASE x = e
    BY <1>1, <2>2 DEF ToSet
  <2> QED BY <1>4, <2>1, <2>2
<1> QED BY <1>1, <1>2, <1>3, <1>4

LEMMA SplitToSet ==
  ASSUME NEW S, NEW s \in Seq(S), NEW n \in Nat, n = Len(s), NEW k \in Nat, k <= n
  PROVE  /\ SubSeq(s, 1, k) \in Seq(S) /\ SubSeq(s, k + 1, n) \in Seq(S)
         /\ Len(SubSeq(s, 1, k)) = k /\ Len(SubSeq(s, k + 1, n)) = n - k
         /\ ToSet(SubSeq(s, 1, k)) \subseteq ToSet(s)
         /\ ToSet(SubSeq(s, k + 1, n)) \subseteq ToSet(s)
         /\ ToSet(s) \subseteq ToSet(SubSeq(s, 1, k)) \cup ToSet(SubSeq(s, k + 1, n))
<1> DEFINE a == SubSeq(s, 1, k)
           b == SubSeq(s, k + 1, n)
<1> HIDE DEF a, b
<1>1. DOMAIN s = 1 .. n /\ \A i \in 1 .. n : s[i] \in S
  BY LenProperties, ElementOfSeq
<1>2. a \in Seq(S) /\ Len(a) = k /\ \A i \in 1 .. k : a[i] = s[i]
  <2>1. \A i \in 1 .. k : s[i] \in S
    BY <1>1
  <2>2. /\ a \in Seq(S) /\ Len(a) = (IF 1 <= k THEN k - 1 + 1 ELSE 0)
        /\ \A i \in 1 .. k - 1 + 1 : a[i] = s[1 + i - 1]
    BY <2>1, SubSeqProperties DEF a
  <2> QED BY <2>2
<1>3. b \in Seq(S) /\ Len(b) = n - k /\ \A i \in 1 .. n - k : b[i] = s[k + i]
  <2>1. \A i \in k + 1 .. n : s[i] \in S
    BY <1>1
  <2>2. /\ b \in Seq(S) /\ Len(b) = (IF k + 1 <= n THEN n - (k + 1) + 1 ELSE 0)
        /\ \A i \in 1 .. n - (k + 1) + 1 : b[i] = s[k + 1 + i - 1]
    BY <2>1, SubSeqProperties DEF b
  <2>3. ASSUME NEW i \in 1 .. n - k PROVE b[i] = s[k + i]
    <3>1. k + 1 + i - 1 = k + i /\ i \in 1 .. n - (k + 1) + 1
      OBVIOUS
    <3>2. b[i] = s[k + 1 + i - 1]
      BY <2>2, <3>1
    <3> QED BY <3>1, <3>2
  <2>4. Len(b) = n - k
    BY <2>2
  <2> QED BY <2>2, <2>3, <2>4
<1>4. DOMAIN a = 1 .. k /\ DOMAIN b = 1 .. n - k
  BY <1>2, <1>3, LenProperties
<1>5. ASSUME NEW x \in ToSet(b) PROVE x \in ToSet(s)
  <2>1. PICK j \in 1 .. n - k : b[j] = x
    BY <1>4, <1>5 DEF ToSet
  <2>2. k + j \in 1 .. n /\ s[k + j] = x
    BY <1>3, <2>1
  <2> QED BY <1>1, <2>2 DEF ToSet
<1>6. ASSUME NEW x \in ToSet(s) PROVE x \in ToSet(a) \cup ToSet(b)
  <2>1. PICK i \in 1 .. n : s[i] = x
    BY <1>1, <1>6 DEF ToSet
  <2>2. CASE i <= k
    BY <1>2, <1>4, <2>1, <2>2 DEF ToSet
  <2>3. CASE i > k
    <3>1. i - k \in 1 .. n - k /\ b[i - k] = x
      BY <1>3, <2>1, <2>3
    <3> QED BY <1>4, <3>1 DEF ToSet
  <2> QED BY <2>2, <2>3
<1>7. ASSUME NEW x \in ToSet(a) PROVE x \in ToSet(s)
  <2>1. PICK j \in 1 .. k : a[j] = x
    BY <1>4, <1>7 DEF ToSet
  <2> QED BY <1>1, <1>2, <2>1 DEF ToSet
<1> QED BY <1>2, <1>3, <1>5, <1>6, <1>7 DEF a, b

LEMMA NameFacts ==
  /\ \A n \in Nat : Own(Tmp(n))
  /\ \A f : Own(Suffixed(f)) /\ Suffixed(f) # NoName
  /\ ~Own(NoName)
BY DEF Own, Tmp, Suffixed, NoName

LEMMA Numbers ==
  ASSUME Types
  PROVE  /\ Len(fl) \in Nat /\ (fl # <<>> => Len(fl) >= 1) /\ (fl = <<>> => Len(fl) = 0)
         /\ Len(newfl) \in Nat /\ (newfl = <<>> => Len(newfl) = 0)
         /\ Len(args.inputs) \in Nat /\ NamesAllowed \in Nat
         /\ args.mode = "sort" => NamesAllowed = 3 * spills
         /\ counter \in Nat /\ spills \in Nat
<1>1. Len(args.inputs) \in Nat
  BY LenProperties DEF Types, Command
<1>2. Len(fl) \in Nat /\ (fl # <<>> => Len(fl) >= 1)
  <2>1. fl # <<>> => Len(fl) \in Nat \ {0}
    BY EmptySeq DEF Types
  <2> QED BY <2>1, LenProperties DEF Types
<1>3. Len(newfl) \in Nat
  BY LenProperties DEF Types
<1> QED BY <1>1, <1>2, <1>3 DEF NamesAllowed, Types

(* A write leaves its file with all its lines, or one more write is short. *)
LEMMA ShortFacts ==
  ASSUME NEW lines, NEW written, short \in Nat, ShortOf(lines, written)
  PROVE  short' \in Nat /\ (written = lines \/ short' > 0) /\ (short > 0 => short' > 0)
BY DEF ShortOf

LEMMA InitInv == Init => SortInv
<1>1. SUFFICES ASSUME Init PROVE SortInv OBVIOUS
<1>2. \A f \in ToSet(args.inputs) : f \in DOMAIN was BY <1>1 DEF Init, Command, ToSet
<1> QED BY <1>1, <1>2, SortLimits DEF Init, Command, SortInv, Types, OutputSound, FilesSound, ListsSound, CountSound,
     ResultSound, InputsKept, Pcs, Reading, Shrinking, Ended, NamesAllowed, Own, Names

LEMMA StartInv == SortInv /\ StartMain => SortInv'
<1> SUFFICES ASSUME SortInv, StartMain PROVE SortInv' OBVIOUS
<1> USE DEF SortInv
<1>1. Types' /\ NamesAllowed \in Int
  <2>1. args.inputs \in Seq(Names)
    BY SeqMonotonic DEF Types, Command, Names
  <2>2. Command' /\ Names' = Names /\ NamesAllowed \in Int
    BY LenProperties DEF Types, Command, StartMain, Names, NamesAllowed
  <2>3. fl' \in Seq(Names) /\ fltmp' \in BOOLEAN
    BY <2>1 DEF Types, StartMain
  <2> QED BY <2>2, <2>3 DEF Types, StartMain, Pcs, Reading, history
<1>2. OutputSound'
  BY NameFacts DEF StartMain, OutputSound, Types, Command, Ended
<1>3. FilesSound'
  BY NameFacts DEF StartMain, FilesSound, Types, OutputSound, ListsSound, Reading, CountSound
<1>4. ListsSound'
  <2>1. pc' \in {"read", "merge"} /\ newfl' = newfl /\ fs' = fs /\ newfl = <<>> /\ fl = <<>>
    BY DEF StartMain, ListsSound, CountSound, Reading, Shrinking, Ended
  <2>2. \A f \in DOMAIN fs : ~Own(f)
    BY <2>1 DEF StartMain, ListsSound, Reading, ToSet
  <2>3. pc' = "read" => fltmp'
    BY DEF StartMain, ListsSound, Reading
  <2> QED BY <2>1, <2>2, <2>3 DEF ListsSound, Reading, Shrinking, Ended
<1>7. ResultSound'
  BY DEF StartMain, ResultSound, history
<1>5. CountSound'
  <2>1. /\ counter = 0 /\ spills = 0 /\ Len(fl) = 0 /\ Len(args.inputs) \in Nat
        /\ counter' = 0 /\ spills' = 0 /\ args' = args
    BY LenProperties DEF StartMain, CountSound, Types, Command
  <2>2. CASE args.mode = "merge"
    BY <2>1, <2>2 DEF StartMain, CountSound, NamesAllowed, Reading, Shrinking
  <2>3. CASE args.mode = "sort"
    BY <2>1, <2>3 DEF StartMain, CountSound, NamesAllowed, Reading, Shrinking
  <2> QED BY <2>2, <2>3 DEF Types, Command
<1>6. InputsKept'
  BY DEF StartMain, InputsKept, ResultIn, history
<1> QED BY <1>1, <1>2, <1>3, <1>4, <1>5, <1>6, <1>7

(* The actions that neither name nor write a file. *)
LEMMA ReadInv == SortInv /\ (ReadLine \/ ReadDone \/ ShrinkFileList) => SortInv'
<1> SUFFICES ASSUME SortInv, ReadLine \/ ReadDone \/ ShrinkFileList PROVE SortInv' OBVIOUS
<1> USE DEF SortInv
<1>0. /\ pc \notin {"start"} \cup Ended /\ pc # "start" /\ pc # "killed"
      /\ UNCHANGED <<args, was, fs, fl, fltmp, newfl, dest, real, tmpFiles, counter, spills, short, result, signalAt>>
  BY DEF ReadLine, ReadDone, ShrinkFileList, Ended, history
<1>1. \/ pc = "read" /\ pc' \in {"read", "spill", "merge"}
      \/ pc = "read" /\ fl = <<>> /\ pc' = "write"
      \/ pc = "merge" /\ pc' = "shrink" /\ Len(fl) >= MaxOpen
  BY DEF ReadLine, ReadDone, ShrinkFileList
<1>2. Types'
  BY <1>0, <1>1 DEF Types, Pcs, Reading, Shrinking, Ended, Command, Names
<1>3. OutputSound'
  BY <1>0, <1>1 DEF OutputSound, Ended
<1>4. FilesSound'
  BY <1>0, <1>1 DEF FilesSound
<1>5. ListsSound'
  BY <1>0, <1>1 DEF ListsSound, Reading, Shrinking, Ended
<1>6. CountSound'
  <2>1. NamesAllowed' = NamesAllowed
    BY <1>0 DEF NamesAllowed
  <2>2. CASE pc = "read"
    BY <1>0, <1>1, <2>1, <2>2, Numbers DEF CountSound, Reading, Shrinking
  <2>3. CASE pc = "merge" /\ pc' = "shrink"
    <3>1. newfl = <<>> /\ fl # <<>> /\ Len(fl) >= MaxOpen
      BY <1>1, <2>3, Numbers, SortLimits DEF ListsSound, Shrinking, Ended
    <3> QED BY <1>0, <2>1, <2>3, <3>1, Numbers DEF CountSound, Reading, Shrinking
  <2> QED BY <1>1, <2>2, <2>3
<1>7. ResultSound'
  BY <1>0, <1>1 DEF ResultSound
<1>8. InputsKept'
  BY <1>0, <1>1 DEF InputsKept, ResultIn
<1> QED BY <1>2, <1>3, <1>4, <1>5, <1>6, <1>7, <1>8

LEMMA NamesInv == SortInv /\ NewTmpFileName => SortInv'
<1> SUFFICES ASSUME SortInv, NewTmpFileName PROVE SortInv' OBVIOUS
<1> USE DEF SortInv
<1>0. /\ UNCHANGED <<args, was, fs, fl, fltmp, newfl, dest, real, short, result, signalAt>> /\ counter \in Nat /\ spills \in Nat
      /\ tmpFiles' = tmpFiles \cup {Tmp(counter)} /\ counter' = counter + 1 /\ counter' - 1 = counter
  BY DEF NewTmpFileName, Types, history
<1>1. \/ pc = "spill" /\ pc' = "spilling" /\ spills' = spills + 1
      \/ pc = "shrink" /\ pc' = "shrinking" /\ spills' = spills
  BY <1>0 DEF NewTmpFileName
<1>2. Types'
  BY <1>0, <1>1 DEF Types, Pcs, Reading, Shrinking, Command, Names
<1>3. OutputSound'
  BY <1>0, <1>1 DEF OutputSound, Ended
<1>4. FilesSound'
  BY <1>0, <1>1, NameFacts DEF FilesSound
<1>5. ListsSound'
  BY <1>0, <1>1 DEF ListsSound, Reading, Shrinking, Ended
<1>6. CountSound'
  <2>1. CASE pc = "spill"
    <3>1. args.mode = "sort" /\ spills = counter /\ counter = Len(fl)
      BY <2>1 DEF CountSound, Reading
    <3>2. NamesAllowed' = 3 * spills'
      BY <1>0, <3>1 DEF NamesAllowed
    <3> QED BY <1>0, <1>1, <2>1, <3>1, <3>2, Numbers DEF CountSound, Reading, Shrinking
  <2>2. CASE pc = "shrink"
    <3>1. NamesAllowed' = NamesAllowed
      BY <1>0, <1>1, <2>2 DEF NamesAllowed
    <3> QED BY <1>0, <1>1, <2>2, <3>1, Numbers DEF CountSound, Reading, Shrinking
  <2> QED BY <1>1, <2>1, <2>2
<1>7. ResultSound'
  BY <1>0, <1>1 DEF ResultSound
<1>8. InputsKept'
  BY <1>0, <1>1 DEF InputsKept, ResultIn
<1> QED BY <1>2, <1>3, <1>4, <1>5, <1>6, <1>7, <1>8

(* An input keeps its lines when no file but the run's own is written or   *)
(* removed.                                                                *)
LEMMA OwnIsNoInput ==
  ASSUME Types, NEW f \in ToSet(args.inputs)
  PROVE  ~Own(f)
<1>1. args.inputs \in Seq(DOMAIN was) /\ DOMAIN args.inputs = 1 .. Len(args.inputs)
  BY LenProperties DEF Types, Command
<1>2. PICK i \in 1 .. Len(args.inputs) : f = args.inputs[i]
  BY <1>1 DEF ToSet
<1> QED BY <1>1, <1>2, ElementOfSeq DEF Types, Command

LEMMA SpillInv == SortInv /\ SpillList => SortInv'
<1> SUFFICES ASSUME SortInv, SpillList PROVE SortInv' OBVIOUS
<1> USE DEF SortInv
<1> DEFINE f == Tmp(counter - 1)
<1>a. PICK new : fs' = With(fs, f, new) /\ ShortOf(SortList(list), new)
  BY DEF SpillList
<1>0. /\ UNCHANGED <<args, was, fltmp, newfl, dest, real, tmpFiles, counter, spills, result, signalAt>>
      /\ pc = "spilling" /\ pc' = "read" /\ fs' = With(fs, f, new) /\ fl' = Append(fl, f)
      /\ short' \in Nat /\ (short > 0 => short' > 0)
  BY <1>a, ShortFacts DEF SpillList, Types
<1>1. counter = Len(fl) + 1 /\ f \in tmpFiles /\ fltmp /\ newfl = <<>>
  BY <1>0 DEF CountSound, FilesSound, ListsSound, Reading, Shrinking, Ended
<1>2. f \in Names /\ Own(f)
  BY <1>1, Numbers, NameFacts DEF Names
<1> HIDE DEF f
<1>3. fl' \in Seq(Names) /\ ToSet(fl') = ToSet(fl) \cup {f} /\ Len(fl') = Len(fl) + 1
  BY <1>0, <1>2, AppendToSet DEF Types
<1>4. DOMAIN fs' = DOMAIN fs \cup {f} /\ \A g \in DOMAIN fs : g # f => fs'[g] = fs[g]
  BY <1>0 DEF With
<1>5. Types'
  BY <1>0, <1>3 DEF Types, Pcs, Reading, Command, Names
<1>6. OutputSound'
  BY <1>0 DEF OutputSound, Ended
<1>7. FilesSound'
  <2>1. \A i \in DOMAIN fl' : Own(fl'[i])
    <3>1. \A x \in ToSet(fl') : Own(x)
      BY <1>0, <1>1, <1>2, <1>3 DEF FilesSound, ToSet
    <3> QED BY <3>1 DEF ToSet
  <2> QED BY <1>0, <1>1, <1>4, <2>1 DEF FilesSound
<1>8. ListsSound'
  BY <1>0, <1>1, <1>3, <1>4 DEF ListsSound, Reading, Shrinking, Ended
<1>9. CountSound'
  <2>1. NamesAllowed' = NamesAllowed
    BY <1>0 DEF NamesAllowed
  <2> QED BY <1>0, <1>1, <1>3, <2>1, Numbers DEF CountSound, Reading, Shrinking
<1>10. InputsKept'
  BY <1>0, <1>2, <1>4, OwnIsNoInput DEF InputsKept
<1>11. ResultSound'
  BY <1>0 DEF ResultSound
<1> QED BY <1>5, <1>6, <1>7, <1>8, <1>9, <1>10, <1>11

(* The result goes to the output file. *)
LEMMA WriteInv == SortInv /\ (WriteList \/ FinalMerge) => SortInv'
<1> SUFFICES ASSUME SortInv, WriteList \/ FinalMerge PROVE SortInv' OBVIOUS
<1> USE DEF SortInv
<1>a. PICK new : fs' = With(fs, dest, new) /\ ShortOf(result', new)
  BY DEF WriteList, FinalMerge
<1>0. /\ UNCHANGED <<args, was, fl, fltmp, newfl, dest, real, tmpFiles, counter, spills, signalAt>>
      /\ pc \in {"write", "merge"} /\ pc' = "clean"
      /\ DOMAIN fs' = DOMAIN fs \cup {dest} /\ \A g \in DOMAIN fs : g # dest => fs'[g] = fs[g]
      /\ short' \in Nat /\ (fs'[dest] = result' \/ short' > 0)
  <2>1. short' \in Nat /\ (new = result' \/ short' > 0)
    BY <1>a, ShortFacts DEF Types
  <2>2. /\ DOMAIN fs' = DOMAIN fs \cup {dest} /\ fs'[dest] = new
        /\ \A g \in DOMAIN fs : g # dest => fs'[g] = fs[g]
    BY <1>a DEF With
  <2>3. /\ UNCHANGED <<args, was, fl, fltmp, newfl, dest, real, tmpFiles, counter, spills, signalAt>>
        /\ pc \in {"write", "merge"} /\ pc' = "clean"
    BY DEF WriteList, FinalMerge
  <2> QED BY <2>1, <2>2, <2>3
<1>1. /\ newfl = <<>> /\ ToSet(newfl) = {}
      /\ \A f \in DOMAIN fs : Own(f) => fltmp /\ f \in ToSet(fl)
  BY <1>0 DEF ListsSound, Reading, Shrinking, Ended, ToSet
<1>2. /\ dest \notin ToSet(args.inputs)
      /\ Own(dest) => dest # args.dest
  <2>1. \/ args.dest \in ToSet(args.inputs) /\ dest = Suffixed(args.dest)
        \/ args.dest \notin ToSet(args.inputs) /\ dest = args.dest
    BY <1>0 DEF OutputSound, Ended
  <2> QED BY <2>1, NameFacts, OwnIsNoInput DEF Types, Command
<1>3. Types'
  BY <1>0 DEF Types, Pcs, Command, Names
<1>4. OutputSound'
  BY <1>0 DEF OutputSound, Ended
<1>5. FilesSound'
  BY <1>0, <1>2 DEF FilesSound
<1>6. ListsSound'
  BY <1>0, <1>1 DEF ListsSound, Reading, Shrinking, Ended
<1>7. CountSound'
  BY <1>0 DEF CountSound, Reading, Shrinking, NamesAllowed
<1>8. InputsKept'
  BY <1>0, <1>2 DEF InputsKept
<1>9. ResultSound'
  BY <1>0 DEF ResultSound, ResultIn
<1> QED BY <1>3, <1>4, <1>5, <1>6, <1>7, <1>8, <1>9

(* The temporary files go, and the output file takes its input's place.    *)
(* The output file is none of the temporary files.                         *)
LEMMA GoneNames ==
  ASSUME fl \in Seq(Names)
  PROVE  \A f \in ToSet(fl) : f \in Names
BY LenProperties, ElementOfSeq DEF ToSet
LEMMA NamesAreNot ==
  ASSUME Command, NEW f \in Names, Own(f)
  PROVE  f # args.dest /\ f # Suffixed(args.dest)
<1>1. PICK n \in Nat : f = Tmp(n)
  BY DEF Command, Names
<1> QED BY <1>1 DEF Command, Tmp, Suffixed

LEMMA CleanInv == SortInv /\ (FileListClean \/ UnlinkReal \/ RenameOutfile) => SortInv'
<1> SUFFICES ASSUME SortInv PROVE FileListClean \/ UnlinkReal \/ RenameOutfile => SortInv' OBVIOUS
<1> USE DEF SortInv
<1>1. ASSUME FileListClean PROVE SortInv'
  <2> DEFINE gone == IF fltmp THEN ToSet(fl) ELSE {}
  <2>0. /\ UNCHANGED <<args, was, newfl, dest, real, tmpFiles, counter, spills, short, result, signalAt>>
        /\ pc = "clean" /\ fl' = <<>> /\ fltmp' = FALSE
        /\ pc' = (IF real = NoName THEN "done" ELSE "unlink")
        /\ DOMAIN fs' = DOMAIN fs \ gone /\ \A g \in DOMAIN fs \ gone : fs'[g] = fs[g]
    BY <1>1 DEF FileListClean, Without, history
  <2>1. /\ newfl = <<>> /\ \A f \in DOMAIN fs : Own(f) => f \in gone \/ f = dest
    BY <2>0 DEF ListsSound, Reading, Shrinking, Ended
  <2>2. \A f \in gone : Own(f)
    BY DEF FilesSound, ToSet
  <2> HIDE DEF gone
  <2>3. Types'
    BY <2>0, EmptySeq DEF Types, Pcs, Ended, Command, Names
  <2>4. OutputSound'
    BY <2>0 DEF OutputSound, Ended
  <2>5. FilesSound'
    BY <2>0 DEF FilesSound
  <2>6. pc' = "done" => ~Own(dest)
    BY <2>0, OwnIsNoInput, NameFacts DEF OutputSound, Ended, Types, Command
  <2>7. ListsSound'
    BY <2>0, <2>1, <2>6 DEF ListsSound, Reading, Shrinking, Ended
  <2>8. CountSound'
    BY <2>0 DEF CountSound, Reading, Shrinking, NamesAllowed
  <2>9. InputsKept'
    BY <2>0, <2>2, OwnIsNoInput DEF InputsKept
  <2>10. dest \notin gone
    <3>1. dest = args.dest \/ dest = Suffixed(args.dest)
      BY <2>0 DEF OutputSound, Ended
    <3>2. \A f \in gone : f \in Names /\ Own(f)
      BY <2>2, GoneNames DEF gone, Types
    <3> QED BY <3>1, <3>2, NamesAreNot DEF Types
  <2>11. ResultSound'
    BY <2>0, <2>10 DEF ResultSound, ResultIn
  <2> QED BY <2>3, <2>4, <2>5, <2>7, <2>8, <2>9, <2>11
<1>2. ASSUME UnlinkReal PROVE SortInv'
  <2>0. /\ UNCHANGED <<args, was, fl, fltmp, newfl, dest, real, tmpFiles, counter, spills, short, result, signalAt>>
        /\ pc = "unlink" /\ pc' = "rename"
        /\ DOMAIN fs' = DOMAIN fs \ {real} /\ \A g \in DOMAIN fs \ {real} : fs'[g] = fs[g]
    BY <1>2 DEF UnlinkReal, Without, history
  <2>1. real = args.dest /\ dest = Suffixed(args.dest)
    BY <2>0 DEF OutputSound, Ended
  <2>3. Types'
    BY <2>0 DEF Types, Pcs, Command, Names
  <2>4. OutputSound'
    BY <2>0 DEF OutputSound, Ended
  <2>5. FilesSound'
    BY <2>0 DEF FilesSound
  <2>7. ListsSound'
    BY <2>0 DEF ListsSound, Reading, Shrinking, Ended
  <2>8. CountSound'
    BY <2>0 DEF CountSound, Reading, Shrinking, NamesAllowed
  <2>10. ResultIn(dest)'
    BY <2>0, <2>1, NameFacts DEF ResultSound, ResultIn, Types, Command
  <2>9. InputsKept'
    BY <2>0, <2>1, <2>10 DEF InputsKept, ResultIn
  <2>11. ResultSound'
    BY <2>0, <2>10 DEF ResultSound
  <2> QED BY <2>3, <2>4, <2>5, <2>7, <2>8, <2>9, <2>11
<1>3. ASSUME RenameOutfile PROVE SortInv'
  <2>0. /\ UNCHANGED <<args, was, fl, fltmp, newfl, dest, real, tmpFiles, counter, spills, short, result, signalAt>>
        /\ pc = "rename" /\ pc' = "done" /\ fs' = Without(With(fs, real, fs[dest]), {dest})
    BY <1>3 DEF RenameOutfile, history
  <2>1. real = args.dest /\ dest = Suffixed(args.dest)
    BY <2>0 DEF OutputSound, Ended
  <2>2. /\ DOMAIN fs' = (DOMAIN fs \cup {real}) \ {dest}
        /\ \A g \in DOMAIN fs : g # real /\ g # dest => fs'[g] = fs[g]
    BY <2>0 DEF Without, With
  <2>3. Types'
    BY <2>0 DEF Types, Pcs, Ended, Command, Names
  <2>4. OutputSound'
    BY <2>0 DEF OutputSound, Ended
  <2>6. ~Own(real) /\ Own(dest)
    BY <2>1, NameFacts DEF Types, Command
  <2>5. FilesSound'
    BY <2>0, <2>2, <2>6 DEF FilesSound
  <2>7. ListsSound'
    BY <2>0, <2>2, <2>6 DEF ListsSound, Reading, Shrinking, Ended
  <2>8. CountSound'
    BY <2>0 DEF CountSound, Reading, Shrinking, NamesAllowed
  <2>10. fs'[real] = fs[dest] /\ real \in DOMAIN fs'
    <3> DEFINE moved == With(fs, real, fs[dest])
    <3>1. real \in DOMAIN moved /\ moved[real] = fs[dest]
      BY DEF With
    <3> HIDE DEF moved
    <3>2. real # dest /\ fs' = Without(moved, {dest})
      BY <2>0, <2>6 DEF moved
    <3> QED BY <3>1, <3>2 DEF Without
  <2>9. InputsKept'
    BY <2>0, <2>1, <2>2, <2>6, <2>10, OwnIsNoInput DEF InputsKept, ResultSound, ResultIn
  <2>11. ResultSound'
    BY <2>0 DEF ResultSound
  <2> QED BY <2>3, <2>4, <2>5, <2>7, <2>8, <2>9, <2>11
<1> QED BY <1>1, <1>2, <1>3

(* A step cut short touches no file but the one it writes, which is no     *)
(* input and, if it is the run's own, is remembered.                       *)
LEMMA CutShort ==
  ASSUME SortInv, NEW files \in Unfinished
  PROVE  /\ DOMAIN fs \subseteq DOMAIN files
         /\ \A g \in DOMAIN files : Own(g) => g \in DOMAIN fs \/ g \in tmpFiles
         /\ \A g \in DOMAIN fs : g \in ToSet(args.inputs) \/ ~Writing => files[g] = fs[g]
         /\ ~Writing => files = fs
<1> USE DEF SortInv
<1>1. CASE files = fs
  BY <1>1
<1>2. CASE Writing /\ files # fs
  <2>1. PICK part : files = With(fs, Target, part)
    <3>1. files \in {With(fs, Target, part) : part \in Parts(Meant)}
      BY <1>2 DEF Unfinished
    <3> QED BY <3>1
  <2>2. DOMAIN files = DOMAIN fs \cup {Target} /\ \A g \in DOMAIN fs : g # Target => files[g] = fs[g]
    BY <2>1 DEF With
  <2>3. CASE pc \in {"spilling", "shrinking"}
    <3>1. Target \in tmpFiles /\ Own(Target)
      BY <2>3 DEF Target, FilesSound
    <3> QED BY <1>2, <2>2, <3>1, OwnIsNoInput
  <2>4. CASE pc \notin {"spilling", "shrinking"}
    <3>1. Target = dest /\ pc \in {"write", "merge"}
      BY <1>2, <2>4 DEF Target, Writing
    <3>2. \/ args.dest \in ToSet(args.inputs) /\ dest = Suffixed(args.dest)
          \/ args.dest \notin ToSet(args.inputs) /\ dest = args.dest
      BY <3>1 DEF OutputSound, Ended
    <3>3. dest \notin ToSet(args.inputs) /\ (Own(dest) => dest \in tmpFiles)
      BY <3>1, <3>2, NameFacts, OwnIsNoInput DEF Types, Command, FilesSound
    <3> QED BY <1>2, <2>2, <3>1, <3>3
  <2> QED BY <2>3, <2>4
<1>3. CASE ~Writing
  BY <1>3 DEF Unfinished
<1> QED BY <1>1, <1>2, <1>3

(* A signal removes all that is the run's own, whenever it comes. *)
LEMMA SignalInv == SortInv /\ SigHandler => SortInv'
<1> SUFFICES ASSUME SortInv, SigHandler PROVE SortInv' OBVIOUS
<1> USE DEF SortInv
<1>a. PICK files \in Unfinished : fs' = Without(files, tmpFiles)
  BY DEF SigHandler
<1>0. /\ UNCHANGED <<args, was, fl, fltmp, newfl, dest, real, tmpFiles, counter, spills, short, result>>
      /\ pc \notin Ended /\ pc # "killed" /\ pc # "done" /\ pc # "failed" /\ pc' = "killed" /\ signalAt' = pc
      /\ DOMAIN fs' = DOMAIN files \ tmpFiles /\ \A g \in DOMAIN files \ tmpFiles : fs'[g] = files[g]
  BY <1>a DEF SigHandler, Without, Ended
<1>b. /\ DOMAIN fs \subseteq DOMAIN files
      /\ \A g \in DOMAIN files : Own(g) => g \in DOMAIN fs \/ g \in tmpFiles
      /\ \A g \in DOMAIN fs : g \in ToSet(args.inputs) => files[g] = fs[g]
      /\ pc = "rename" => files = fs
  BY CutShort DEF Writing
<1>1. Types'
  BY <1>0 DEF Types, Pcs, Ended, Command, Names
<1>2. OutputSound'
  BY <1>0 DEF OutputSound, Ended
<1>3. FilesSound'
  <2>1. pc = "start" => dest' = args'.dest
    BY <1>0 DEF OutputSound
  <2> QED BY <1>0, <2>1 DEF FilesSound
<1>4. ListsSound'
  <2>1. \A f \in DOMAIN fs' : ~Own(f)
    BY <1>0, <1>b DEF FilesSound
  <2> QED BY <1>0, <2>1 DEF ListsSound, Reading, Shrinking, Ended
<1>5. CountSound'
  BY <1>0 DEF CountSound, Reading, Shrinking, NamesAllowed
<1>6. ResultSound'
  BY <1>0 DEF ResultSound
<1>7. InputsKept'
  <2> SUFFICES ASSUME NEW f \in ToSet(args.inputs)
               PROVE  \/ f \in DOMAIN fs' /\ fs'[f] = was[f]
                      \/ f = args.dest /\ pc = "rename"
    BY <1>0 DEF InputsKept
  <2>1. ~Own(f) /\ f \notin tmpFiles
    BY OwnIsNoInput DEF FilesSound
  <2>2. CASE f \in DOMAIN fs /\ fs[f] = was[f]
    BY <1>0, <1>b, <2>1, <2>2
  <2>3. signalAt = "none"
    BY <1>0 DEF ResultSound
  <2> QED BY <1>0, <2>2, <2>3 DEF InputsKept
<1> QED BY <1>1, <1>2, <1>3, <1>4, <1>5, <1>6, <1>7

(* A failing write or rename ends the run with the files as they are. *)
LEMMA FailInv == SortInv /\ (WriteFails \/ RenameFails) => SortInv'
<1> SUFFICES ASSUME SortInv, WriteFails \/ RenameFails PROVE SortInv' OBVIOUS
<1> USE DEF SortInv
<1>0. /\ UNCHANGED <<args, was, fl, fltmp, newfl, dest, real, tmpFiles, counter, spills, short, result, signalAt>>
      /\ pc' = "failed" /\ fs' \in Unfinished
      /\ \/ pc \in {"spilling", "shrinking", "write", "merge"}
         \/ pc = "rename" /\ fs' = fs
  BY DEF WriteFails, RenameFails, history, Writing, Unfinished
<1>a. PICK files \in Unfinished : files = fs'
  BY <1>0
<1>b. /\ DOMAIN fs \subseteq DOMAIN fs'
      /\ \A g \in DOMAIN fs' : Own(g) => g \in DOMAIN fs \/ g \in tmpFiles
      /\ \A g \in DOMAIN fs : g \in ToSet(args.inputs) => fs'[g] = fs[g]
  BY <1>a, CutShort
<1>1. Types'
  BY <1>0 DEF Types, Pcs, Ended, Command, Names
<1>2. OutputSound'
  BY <1>0 DEF OutputSound, Ended
<1>3. FilesSound'
  <2>1. \A f \in DOMAIN fs' : Own(f) => f \in tmpFiles
    BY <1>0, <1>b DEF FilesSound
  <2> QED BY <1>0, <2>1 DEF FilesSound
<1>4. ListsSound'
  BY <1>0 DEF ListsSound, Reading, Shrinking, Ended
<1>5. CountSound'
  BY <1>0 DEF CountSound, Reading, Shrinking, NamesAllowed
<1>6. ResultSound'
  BY <1>0 DEF ResultSound
<1>7. InputsKept'
  BY <1>0, <1>b DEF InputsKept, ResultIn
<1> QED BY <1>1, <1>2, <1>3, <1>4, <1>5, <1>6, <1>7

(* A group of files becomes one; the last group is followed by the next    *)
(* round or the last merge.                                                *)
LEMMA GroupInv == SortInv /\ ShrinkGroup => SortInv'
<1> SUFFICES ASSUME SortInv, ShrinkGroup PROVE SortInv' OBVIOUS
<1> USE DEF SortInv
<1> DEFINE n == Len(fl)
           k == GroupSize
           group == Group
           rest == SubSeq(fl, k + 1, n)
           fnew == Tmp(counter - 1)
           files == Append(newfl, fnew)
           gone == IF fltmp THEN ToSet(group) ELSE {}
<1>a. PICK lines : /\ fs' = Without(With(fs, fnew, lines), gone)
                    /\ ShortOf(MergeFiles(group, fs), lines)
  BY DEF ShrinkGroup
<1>b. short' \in Nat /\ (short > 0 => short' > 0)
  BY <1>a, ShortFacts DEF Types
<1>0. /\ UNCHANGED <<args, was, dest, real, tmpFiles, counter, spills, result, signalAt>>
      /\ pc = "shrinking" /\ pc' \in {"merge", "shrink"} /\ (pc' = "merge" <=> rest = <<>>)
      /\ rest = <<>> => fl' = files /\ newfl' = <<>> /\ fltmp' = TRUE
      /\ rest # <<>> => fl' = rest /\ newfl' = files /\ fltmp' = fltmp
      /\ DOMAIN fs' = (DOMAIN fs \cup {fnew}) \ gone
      /\ \A g \in DOMAIN fs \ gone : g # fnew => fs'[g] = fs[g]
  BY <1>a DEF ShrinkGroup, Without, With
<1>1. /\ n \in Nat /\ n >= 1 /\ k \in Nat /\ k <= n /\ MaxOpen \in Nat /\ MaxOpen >= 3
      /\ k = (IF n >= MaxOpen THEN MaxOpen - 1 ELSE n)
  BY <1>0, Numbers, SortLimits DEF GroupSize, CountSound, Shrinking
<1>2. fnew \in tmpFiles
  BY <1>0 DEF FilesSound
<1>3. fnew \in Names /\ Own(fnew)
  <2>1. counter - 1 \in Nat
    BY <1>0, Numbers DEF CountSound
  <2> QED BY <2>1, NameFacts DEF Names
<1>4. /\ rest \in Seq(Names) /\ Len(rest) = n - k
      /\ ToSet(rest) \subseteq ToSet(fl) /\ ToSet(fl) \subseteq ToSet(group) \cup ToSet(rest)
      /\ group \in Seq(Names) /\ Len(group) = k /\ ToSet(group) \subseteq ToSet(fl)
  <2>1. /\ fl \in Seq(Names) /\ n = Len(fl) /\ n \in Nat /\ k \in Nat /\ k <= n
        /\ group = SubSeq(fl, 1, k)
    BY <1>1 DEF Types, Group
  <2> HIDE DEF n, k
  <2> QED BY <2>1, SplitToSet
<1>5. /\ files \in Seq(Names) /\ ToSet(files) = ToSet(newfl) \cup {fnew}
      /\ Len(files) = Len(newfl) + 1 /\ files # <<>>
  BY <1>3, AppendToSet DEF Types
<1>6. rest = <<>> <=> n < MaxOpen
  <2>1. rest = <<>> <=> Len(rest) = 0
    BY <1>4, EmptySeq
  <2> HIDE DEF n, k, rest
  <2> QED BY <1>1, <1>4, <2>1
<1>7. /\ Names' = Names /\ NamesAllowed' = NamesAllowed
      /\ (\A i \in DOMAIN newfl : Own(newfl[i])) /\ (fltmp => \A i \in DOMAIN fl : Own(fl[i]))
  BY <1>0 DEF Names, NamesAllowed, FilesSound
<1> HIDE DEF n, k, group, rest, fnew, files
<1>8. (\A f \in ToSet(files) : Own(f)) /\ (\A f \in gone : Own(f)) /\ (fltmp => \A f \in ToSet(rest) : Own(f))
  <2>1. (\A f \in ToSet(newfl) : Own(f)) /\ (fltmp => \A f \in ToSet(fl) : Own(f))
    BY <1>7 DEF ToSet
  <2> QED BY <1>3, <1>4, <1>5, <2>1
<1>9. Types'
  <2>1. fl' \in Seq(Names') /\ newfl' \in Seq(Names') /\ fltmp' \in BOOLEAN
    BY <1>0, <1>4, <1>5, <1>7, EmptySeq DEF Types
  <2> QED BY <1>0, <1>b, <2>1 DEF Types, Command, Pcs, Shrinking
<1>10. OutputSound'
  BY <1>0 DEF OutputSound, Ended
<1>11. FilesSound'
  <2>1. \A f \in ToSet(newfl') : Own(f)
    BY <1>0, <1>8 DEF ToSet
  <2>2. fltmp' => \A f \in ToSet(fl') : Own(f)
    BY <1>0, <1>8
  <2>3. \A f \in DOMAIN fs' : Own(f) => f \in tmpFiles'
    BY <1>0, <1>2 DEF FilesSound
  <2> QED BY <1>0, <2>1, <2>2, <2>3 DEF FilesSound, ToSet
<1>12. ListsSound'
  <2>1. \A f \in DOMAIN fs : Own(f) => (fltmp /\ f \in ToSet(fl)) \/ f \in ToSet(newfl)
    BY <1>0 DEF ListsSound, Shrinking
  <2>2. \A f \in DOMAIN fs' : Own(f) => (fltmp /\ f \in ToSet(rest)) \/ f \in ToSet(files)
    BY <1>0, <1>4, <1>5, <2>1
  <2>3. ToSet(<<>>) = {}
    BY DEF ToSet
  <2>4. \A f \in DOMAIN fs' : Own(f) => (fltmp' /\ f \in ToSet(fl')) \/ f \in ToSet(newfl')
    BY <1>0, <2>2, <1>6, <2>3
  <2> QED BY <1>0, <2>4 DEF ListsSound, Reading, Shrinking, Ended
<1>13. CountSound'
  <2>1. PICK m \in Nat : m = Len(newfl) /\ (newfl = <<>> <=> m = 0)
    BY Numbers, EmptySeq DEF Types
  <2>2. /\ n >= MaxOpen \/ m # 0
        /\ counter + 2 * (n + m) + (IF m = 0 THEN 0 ELSE 1) <= NamesAllowed + 1
        /\ counter <= NamesAllowed /\ NamesAllowed \in Nat /\ counter \in Nat
    BY <1>0, <1>1, <2>1, Numbers DEF CountSound, Shrinking, n
  <2>3. CASE n < MaxOpen
    <3>1. fl' = files /\ pc' = "merge" /\ Len(fl') = m + 1
      BY <1>0, <1>5, <1>6, <2>1, <2>3
    <3>2. counter + 2 * (m + 1) <= NamesAllowed
      BY <1>1, <2>2, <2>3
    <3> QED BY <1>0, <1>7, <2>2, <3>1, <3>2 DEF CountSound, Reading, Shrinking
  <2>4. CASE n >= MaxOpen
    <3>1. fl' = rest /\ newfl' = files /\ pc' = "shrink" /\ Len(fl') = n - k /\ Len(newfl') = m + 1
          /\ fl' # <<>> /\ newfl' # <<>>
      BY <1>0, <1>1, <1>4, <1>5, <1>6, <2>1, <2>4
    <3>2. counter + 2 * (n - k + (m + 1)) + 1 <= NamesAllowed
      BY <1>1, <2>2, <2>4
    <3> QED BY <1>0, <1>7, <2>2, <3>1, <3>2 DEF CountSound, Reading, Shrinking
  <2> QED BY <1>1, <2>3, <2>4
<1>14. InputsKept'
  BY <1>0, <1>3, <1>8, OwnIsNoInput DEF InputsKept
<1>15. ResultSound'
  BY <1>0 DEF ResultSound
<1> QED BY <1>9, <1>10, <1>11, <1>12, <1>13, <1>14, <1>15

(* Every step of a run keeps the invariant. *)
LEMMA StepInv == SortInv /\ [Next]_vars => SortInv'
<1> SUFFICES ASSUME SortInv, [Next]_vars PROVE SortInv' OBVIOUS
<1>1. CASE UNCHANGED vars
  <2> USE <1>1 DEF vars, history, SortInv
  <2>1. Types' BY DEF Types, Command, Names
  <2>2. OutputSound' BY DEF OutputSound
  <2>3. FilesSound' BY DEF FilesSound
  <2>4. ListsSound' BY DEF ListsSound
  <2>5. CountSound' BY DEF CountSound, NamesAllowed
  <2>6. InputsKept' BY DEF InputsKept, ResultIn
  <2>7. ResultSound' BY DEF ResultSound, ResultIn
  <2> QED BY <2>1, <2>2, <2>3, <2>4, <2>5, <2>6, <2>7
<1>2. CASE Next
  BY <1>2, StartInv, ReadInv, NamesInv, SpillInv, WriteInv, CleanInv, SignalInv, FailInv, GroupInv DEF Next, Step
<1> QED BY <1>1, <1>2

(* The lists and the file table have their types, and the inductive        *)
(* invariant holds, in every run.                                          *)
LEMMA Invariant == Spec => []SortInv
BY InitInv, StepInv, PTL DEF Spec

(* An input keeps its lines to the end, also the one that sort -o replaces *)
(* (StartMain's other name, RenameOutfile's order).                        *)
THEOREM InputsStay == Spec => []InputsKept
<1>1. SortInv => InputsKept
  BY DEF SortInv
<1> QED BY <1>1, Invariant, PTL

(* Whenever the run ends, by itself or by a signal, no file of its own is  *)
(* left, and the names it took stay within the bound.                      *)
THEOREM NoTmpStays == Spec => []NoTmpLeft
<1>1. SortInv => NoTmpLeft
  BY DEF SortInv, ListsSound, CountSound, NoTmpLeft
<1> QED BY <1>1, Invariant, PTL

=============================================================================
