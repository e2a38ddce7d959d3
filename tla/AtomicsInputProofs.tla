--------------------------- MODULE AtomicsInputProofs ---------------------------
(***************************************************************************)
(* What holds of AtomicsInput for a buffer of any size, any number of      *)
(* bytes typed and any number of signals.                                  *)
(***************************************************************************)
EXTENDS AtomicsInput, SequenceTheorems, TLAPS

-----------------------------------------------------------------------------
(* Signals *)

(* What getSignalState is about to clear, it has loaded. *)
SignalInv == SignalKept /\ (wpc = "clear" => n # 0)

(* Every step keeps it: only Clear stores over a signal, and it has loaded *)
(* one.                                                                    *)
LEMMA SignalStep == SignalInv /\ [Next]_vars => SignalInv'
<1> SUFFICES ASSUME SignalInv, [Next]_vars PROVE SignalInv'
  OBVIOUS
<1> USE DEF SignalInv, SignalKept
<1>1. CASE UNCHANGED vars
  BY <1>1 DEF vars, shared, worker
<1>2. CASE (MainWrites \/ Signal \/ \E k \in 1 .. MaxBytes, c \in BOOLEAN : BeginWrite(k, c))
           /\ WorkerKeeps
  BY <1>2 DEF MainWrites, CopyIn, Count, Store, Notify, Interrupt, Signal, BeginWrite,
              WorkerKeeps, shared, SIGINT
<1>3. CASE WorkerBegins
  BY <1>3 DEF WorkerBegins, BeginRead, BeginPoll, BeginSleep, Step, ReadOnly, shared
<1>4. CASE Poll
  BY <1>4 DEF Poll, Step, ReadOnly, shared
<1>5. CASE Clear
  BY <1>5 DEF Clear, Step
<1>6. CASE WorkerGoes /\ ~Poll /\ ~Clear
  BY <1>6 DEF WorkerGoes, Check, Wait, TimeOut, CheckSignal, LoadLength, CopyOut, Reset,
              NapOver, Rested, Step, ReadOnly, shared
<1> QED
  BY <1>1, <1>2, <1>3, <1>4, <1>5, <1>6 DEF Next

(* No signal vanishes between the load and the store of getSignalState.    *)
THEOREM SignalsKept == Spec => []SignalKept
<1>1. Init => SignalInv
  BY DEF Init, SignalInv, SignalKept
<1>2. SignalInv => SignalKept
  BY DEF SignalInv
<1> QED
  BY <1>1, <1>2, SignalStep, PTL DEF Spec

-----------------------------------------------------------------------------
(* The types *)

(* What is left of the bound on typed bytes: a write in progress has its   *)
(* bytes counted in handed, and room for the newline after a control-C.    *)
Budget ==
  /\ len <= handed /\ sum <= handed
  /\ mpc \in {"copy", "count"} => len + Len(text) <= handed
  /\ mpc = "signal" => intr
  /\ intr /\ mpc # "idle" => handed < MaxBytes /\ sent < MaxSignals
  /\ wpc = "nap" => slices > 0

TypeInv == TypeOK /\ Budget

(* At the start. *)
LEMMA InitType == Init => TypeInv
<1> SUFFICES ASSUME Init PROVE TypeInv
  OBVIOUS
<1>1. buf \in [1 .. Cap -> Byte \cup {0}]
  BY DEF Init
<1>2. <<>> \in Seq(Byte) /\ <<>> \in Seq(Byte \cup {0})
  BY EmptySeq
<1>3. ~intr /\ intr \in BOOLEAN /\ unseen \in BOOLEAN
      /\ overlapped \in BOOLEAN /\ overflowed \in BOOLEAN
  BY Zenon DEF Init
<1>4. TypeOK
  BY <1>1, <1>2, <1>3, BoundAssumption DEF Init, TypeOK, WorkerAt, SIGINT
<1>5. Budget
  BY <1>3, BoundAssumption DEF Init, Budget
<1> QED
  BY <1>4, <1>5 DEF TypeInv

(* The bytes of a write are new ones. *)
LEMMA FreshBytes ==
  ASSUME TypeOK, NEW k \in Nat, handed + k <= MaxBytes
  PROVE  Fresh(k) \in Seq(Byte) /\ Len(Fresh(k)) = k
<1>1. Fresh(k) \in [1 .. k -> Byte]
  BY BoundAssumption DEF Fresh, Byte, TypeOK
<1> QED
  BY <1>1

(* The steps of the writing thread, which fill the buffer and send signals. *)
LEMMA MainType ==
  ASSUME TypeInv,
         MainWrites \/ Signal \/ \E k \in 1 .. MaxBytes, c \in BOOLEAN : BeginWrite(k, c),
         WorkerKeeps, NoteOverlap
  PROVE  TypeInv'
<1> USE BoundAssumption DEF TypeInv, TypeOK, Budget, WorkerKeeps, NoteOverlap, shared
<1>1. CASE CopyIn
  <2>1. buf' \in [1 .. Cap -> Byte \cup {0}]
    BY <1>1, ElementOfSeq DEF CopyIn
  <2> QED
    BY <1>1, <2>1 DEF CopyIn
<1>2. CASE Count
  BY <1>2 DEF Count
<1>3. CASE Store
  BY <1>3, ConcatProperties DEF Store
<1>4. CASE Notify
  BY <1>4 DEF Notify, WorkerAt
<1>5. CASE Interrupt
  <2>1. Fresh(1) \in Seq(Byte) /\ Len(Fresh(1)) = 1
    <3>1. handed + 1 <= MaxBytes
      BY <1>5 DEF Interrupt
    <3> HIDE DEF TypeOK
    <3> QED
      BY <3>1, FreshBytes
  <2>2. ~intr' /\ intr' \in BOOLEAN /\ unseen' \in BOOLEAN
    BY <1>5, Zenon DEF Interrupt
  <2>3. Budget'
    <3>1. len' <= handed' /\ sum' <= handed'
      BY <1>5 DEF Interrupt
    <3>2. len' + Len(text') <= handed'
      <4>1. Len(text') = 1
        BY <1>5, <2>1 DEF Interrupt
      <4>2. len' = len /\ len <= handed /\ handed' = handed + 1 /\ len \in Nat /\ handed \in Nat
        BY <1>5 DEF Interrupt
      <4> HIDE DEF TypeInv, TypeOK, Budget
      <4> QED
        BY <4>1, <4>2
    <3>3. (wpc' = "nap" => slices' > 0)
      BY <1>5 DEF Interrupt
    <3>4. mpc' = "copy"
      BY <1>5 DEF Interrupt
    <3> QED
      BY <3>1, <3>2, <3>3, <3>4, <2>2 DEF Budget
  <2>4. handed' \in 0 .. MaxBytes /\ sent' \in 0 .. MaxSignals
    BY <1>5 DEF Interrupt
  <2>5. TypeOK'
    BY <1>5, <2>1, <2>2, <2>4 DEF Interrupt, SIGINT
  <2> QED
    BY <2>3, <2>5
<1>6. CASE Signal
  BY <1>6 DEF Signal
<1>7. ASSUME NEW k \in 1 .. MaxBytes, NEW c \in BOOLEAN, BeginWrite(k, c) PROVE TypeInv'
  BY <1>7, FreshBytes DEF BeginWrite
<1> QED
  BY <1>1, <1>2, <1>3, <1>4, <1>5, <1>6, <1>7 DEF MainWrites

(* The steps of the reading thread. *)
LEMMA WorkerType ==
  ASSUME TypeInv, WorkerGoes \/ WorkerBegins, MainKeeps, NoteOverlap
  PROVE  TypeInv'
<1> USE BoundAssumption DEF TypeInv, TypeOK, Budget, MainKeeps, NoteOverlap, Step, ReadOnly,
        shared, WorkerAt, SIGINT
<1>1. CASE WorkerBegins
  BY <1>1 DEF WorkerBegins, BeginRead, BeginPoll, BeginSleep
<1>2. CASE Check \/ Wait \/ TimeOut \/ CheckSignal
  BY <1>2 DEF Check, Wait, TimeOut, CheckSignal
<1>3. CASE LoadLength
  BY <1>3 DEF LoadLength
<1>4. CASE CopyOut
  <2>1. got' \in [1 .. n -> Byte \cup {0}] /\ n \in Nat
    BY <1>4 DEF CopyOut
  <2>2. got' \in Seq(Byte \cup {0})
    BY <2>1
  <2> QED
    BY <1>4, <2>2 DEF CopyOut
<1>5. CASE Reset
  BY <1>5, ConcatProperties DEF Reset
<1>6. CASE Poll
  BY <1>6 DEF Poll
<1>7. CASE Clear
  BY <1>7 DEF Clear
<1>8. CASE NapOver \/ Rested
  BY <1>8 DEF NapOver, Rested
<1> QED
  BY <1>1, <1>2, <1>3, <1>4, <1>5, <1>6, <1>7, <1>8 DEF WorkerGoes

(* Every step, of either thread or of none. *)
LEMMA TypeStep == TypeInv /\ [Next]_vars => TypeInv'
<1> SUFFICES ASSUME TypeInv, [Next]_vars PROVE TypeInv'
  OBVIOUS
<1>1. CASE UNCHANGED vars
  BY <1>1 DEF TypeInv, TypeOK, Budget, vars, shared, main, worker
<1> QED
  BY <1>1, MainType, WorkerType DEF Next

(* Every variable keeps its type, and no length exceeds what was typed.    *)
THEOREM TypeCorrect == Spec => []TypeInv
BY InitType, TypeStep, PTL DEF Spec

-----------------------------------------------------------------------------
(* The bytes *)

(* A write between its copy and its store, and a read between its load of  *)
(* the length and its reset.                                               *)
Writing == mpc \in {"count", "store"}
Taking == wpc \in {"copy", "reset"}

(* Nothing overlapped so far, and the buffer has been large enough. *)
Apart == ~overlapped /\ ~overflowed

(* What the program received and what is in the buffer are what was        *)
(* written, byte by byte.                                                  *)
Accounted ==
  /\ len <= Cap
  /\ Len(written) = Len(received) + len
  /\ \A i \in 1 .. Len(received) : written[i] = received[i]
  /\ \A i \in 1 .. len : written[Len(received) + i] = buf[i]

(* What each thread has in hand agrees with the buffer. *)
CopiedIn ==
  /\ Writing => \A i \in 1 .. Len(text) : len + i <= Cap => buf[len + i] = text[i]
  /\ mpc = "store" => sum = Len(text) + len
CopiedOut ==
  /\ Taking => n = len
  /\ wpc = "reset" => got = [i \in 1 .. len |-> buf[i]]

ByteInv ==
  /\ Writing /\ Taking => overlapped
  /\ Apart => Accounted /\ CopiedIn /\ CopiedOut

(* At the start nothing is written, buffered or received. *)
LEMMA InitBytes == Init => ByteInv
<1> SUFFICES ASSUME Init PROVE Accounted /\ CopiedIn /\ CopiedOut /\ ~(Writing /\ Taking)
  BY DEF ByteInv
<1> QED
  BY EmptySeq, BoundAssumption DEF Init, Accounted, CopiedIn, CopiedOut, Writing, Taking

(* Steps that leave the buffer, its length and the histories alone, and    *)
(* what a thread has in hand.                                              *)
LEMMA BytesKept ==
  ASSUME ByteInv, NoteOverlap, UNCHANGED <<buf, len, written, received, overflowed>>,
         Writing' => UNCHANGED <<mpc, text, sum>>,
         Taking' => UNCHANGED <<wpc, n, got>>
  PROVE  ByteInv'
<1>1. overlapped => overlapped'
  BY DEF NoteOverlap
<1>2. Apart' => Accounted' /\ CopiedIn' /\ CopiedOut'
  BY <1>1 DEF ByteInv, Apart, Accounted, CopiedIn, CopiedOut, Writing, Taking
<1>3. Writing' /\ Taking' => overlapped'
  BY DEF NoteOverlap, Writing, Taking
<1> QED
  BY <1>2, <1>3 DEF ByteInv

(* The five steps that do change them, in a state where nothing overlaps.  *)
LEMMA CopyInBytes ==
  ASSUME TypeInv, Accounted, CopyIn, ~Taking, WorkerKeeps
  PROVE  Accounted' /\ CopiedIn' /\ CopiedOut'
<1> USE BoundAssumption DEF TypeInv, TypeOK, CopyIn
<1>1. \A i \in 1 .. Len(text) : len + i <= Cap => buf'[len + i] = text[i]
  OBVIOUS
<1>2. \A i \in 1 .. len : buf'[i] = buf[i]
  BY DEF Accounted
<1>3. Accounted'
  BY <1>2 DEF Accounted, WorkerKeeps
<1> QED
  BY <1>1, <1>3 DEF CopiedIn, CopiedOut, Taking, Writing

(* The writer adds the number of its bytes to the length it loads. *)
LEMMA CountBytes ==
  ASSUME TypeInv, Accounted, CopiedIn, Count, ~Taking, WorkerKeeps
  PROVE  Accounted' /\ CopiedIn' /\ CopiedOut'
BY DEF Accounted, CopiedIn, CopiedOut, Taking, Writing, Count, WorkerKeeps, shared

(* The writer stores the length: what it copied is in the buffer from now  *)
(* on.                                                                     *)
LEMMA StoreBytes ==
  ASSUME TypeInv, Accounted, CopiedIn, Store, ~Taking, ~overflowed', WorkerKeeps
  PROVE  Accounted' /\ CopiedIn' /\ CopiedOut'
<1>1. /\ len \in Nat /\ sum \in Nat /\ Cap \in Nat
      /\ written \in Seq(Byte) /\ text \in Seq(Byte) /\ Len(received) \in Nat
  BY BoundAssumption DEF TypeInv, TypeOK
<1>2. mpc = "store" /\ len' = sum /\ written' = written \o text
      /\ UNCHANGED <<buf, text, received>>
  BY DEF Store, WorkerKeeps
<1>3. sum = Len(text) + len /\ sum <= Cap
  <2>1. ~(sum > Cap)
    BY Zenon DEF Store
  <2> QED
    BY <1>1, <1>2, <2>1 DEF CopiedIn
<1>4. /\ Len(written') = Len(written) + Len(text)
      /\ \A i \in 1 .. Len(written) + Len(text) :
           written'[i] = IF i <= Len(written) THEN written[i] ELSE text[i - Len(written)]
  BY <1>1, <1>2, ConcatProperties
<1>5. ASSUME NEW i \in 1 .. sum PROVE written'[Len(received) + i] = buf[i]
  <2>1. CASE i <= len
    BY <1>1, <1>4, <2>1 DEF Accounted
  <2>2. CASE i > len
    <3>1. i - len \in 1 .. Len(text) /\ len + (i - len) = i /\ i <= Cap
      BY <1>1, <1>3, <2>2
    <3>2. buf[i] = text[i - len]
      BY <1>2, <3>1 DEF CopiedIn, Writing
    <3> QED
      BY <1>1, <1>3, <1>4, <2>2, <3>1, <3>2 DEF Accounted
  <2> QED
    BY <1>1, <2>1, <2>2
<1>6. \A i \in 1 .. Len(received) : written'[i] = received[i]
  BY <1>1, <1>4 DEF Accounted
<1>7. Accounted'
  BY <1>1, <1>2, <1>3, <1>4, <1>5, <1>6 DEF Accounted
<1> QED
  BY <1>7 DEF Store, CopiedIn, CopiedOut, Taking, Writing

(* The reader loads the length. *)
LEMMA TakeBytes ==
  ASSUME TypeInv, Accounted, LoadLength, ~Writing, MainKeeps
  PROVE  Accounted' /\ CopiedIn' /\ CopiedOut'
BY DEF Accounted, CopiedIn, CopiedOut, Taking, Writing, LoadLength, Step, ReadOnly, MainKeeps, shared

(* The reader copies what the buffer holds. *)
LEMMA CopyOutBytes ==
  ASSUME TypeInv, Accounted, CopiedOut, CopyOut, ~Writing, MainKeeps
  PROVE  Accounted' /\ CopiedIn' /\ CopiedOut'
<1> USE DEF TypeInv, TypeOK, CopyOut, Step, ReadOnly, MainKeeps, shared
<1>1. n = len
  BY DEF CopiedOut, Taking
<1>2. got' = [i \in 1 .. len |-> buf[i]]
  BY <1>1, BoundAssumption DEF Accounted
<1> QED
  BY <1>1, <1>2 DEF Accounted, CopiedIn, CopiedOut, Writing

(* The reader resets the length: what it copied is received from now on. *)
LEMMA ResetBytes ==
  ASSUME TypeInv, Accounted, CopiedOut, Reset, ~Writing, MainKeeps
  PROVE  Accounted' /\ CopiedIn' /\ CopiedOut'
<1> USE DEF TypeInv, TypeOK, Reset, Step, MainKeeps
<1>1. got = [i \in 1 .. len |-> buf[i]] /\ Len(got) = len
  BY DEF CopiedOut, Taking
<1>2. /\ Len(received') = Len(received) + len
      /\ \A i \in 1 .. Len(received) + len :
           received'[i] = IF i <= Len(received) THEN received[i] ELSE got[i - Len(received)]
  BY <1>1, ConcatProperties
<1>3. \A i \in 1 .. Len(received') : written[i] = received'[i]
  <2> SUFFICES ASSUME NEW i \in 1 .. Len(received') PROVE written[i] = received'[i]
    OBVIOUS
  <2>1. CASE i <= Len(received)
    BY <1>2, <2>1 DEF Accounted
  <2>2. CASE i > Len(received)
    <3>1. i - Len(received) \in 1 .. len
      BY <1>2, <2>2
    <3>2. received'[i] = buf[i - Len(received)]
      BY <1>1, <1>2, <2>2, <3>1
    <3>3. Len(received) + (i - Len(received)) = i
      BY <2>2
    <3> QED
      BY <3>1, <3>2, <3>3 DEF Accounted
  <2> QED
    BY <2>1, <2>2
<1>4. Accounted'
  BY <1>2, <1>3, BoundAssumption DEF Accounted
<1> QED
  BY <1>4 DEF CopiedIn, CopiedOut, Taking, Writing

(* A step of one thread that overlaps no step of the other. *)
LEMMA Apartness ==
  ASSUME ByteInv, NoteOverlap, overflowed => overflowed',
         ~(Writing /\ Taking) /\ ~(Writing' /\ Taking') /\ ~overflowed'
         /\ Accounted /\ CopiedIn /\ CopiedOut => Accounted' /\ CopiedIn' /\ CopiedOut'
  PROVE  ByteInv'
<1>1. ~overlapped' => ~overlapped /\ ~(Writing' /\ Taking')
  BY DEF NoteOverlap, Writing, Taking
<1> QED
  BY <1>1 DEF ByteInv, Apart

(* Every step keeps the invariant of the bytes. *)
LEMMA ByteStep == TypeInv /\ ByteInv /\ [Next]_vars => ByteInv'
<1> SUFFICES ASSUME TypeInv, ByteInv, [Next]_vars PROVE ByteInv'
  OBVIOUS
<1>1. CASE UNCHANGED vars
  BY <1>1 DEF ByteInv, Apart, Accounted, CopiedIn, CopiedOut, Writing, Taking, vars, shared, main,
              worker
<1>2. ASSUME NoteOverlap, MainWrites, WorkerKeeps PROVE ByteInv'
  <2>1. CASE CopyIn
    BY <1>2, <2>1, Apartness, CopyInBytes DEF CopyIn, Writing, Taking
  <2>2. CASE Count
    BY <1>2, <2>2, Apartness, CountBytes DEF Count, Writing, Taking
  <2>3. CASE Store
    BY <1>2, <2>3, Apartness, StoreBytes DEF Store, Writing, Taking
  <2>4. CASE Notify \/ Interrupt
    BY <1>2, <2>4, BytesKept DEF Notify, Interrupt, Writing, Taking, WorkerKeeps, shared
  <2> QED
    BY <1>2, <2>1, <2>2, <2>3, <2>4 DEF MainWrites
<1>3. ASSUME NoteOverlap, WorkerKeeps,
             Signal \/ \E k \in 1 .. MaxBytes, c \in BOOLEAN : BeginWrite(k, c)
      PROVE  ByteInv'
  BY <1>3, BytesKept DEF Signal, BeginWrite, Writing, Taking, WorkerKeeps, shared
<1>4. ASSUME NoteOverlap, WorkerGoes, MainKeeps PROVE ByteInv'
  <2>1. CASE LoadLength
    BY <1>4, <2>1, Apartness, TakeBytes
       DEF LoadLength, Step, ReadOnly, MainKeeps, Writing, Taking
  <2>2. CASE CopyOut
    BY <1>4, <2>2, Apartness, CopyOutBytes DEF CopyOut, Step, ReadOnly, MainKeeps, Writing, Taking
  <2>3. CASE Reset
    BY <1>4, <2>3, Apartness, ResetBytes DEF Reset, Step, MainKeeps, Writing, Taking
  <2>4. CASE Check \/ Wait \/ TimeOut \/ CheckSignal \/ NapOver \/ Rested
    BY <1>4, <2>4, BytesKept
       DEF Check, Wait, TimeOut, CheckSignal, NapOver, Rested, Step, ReadOnly, MainKeeps, Taking,
           shared
  <2>5. CASE Poll \/ Clear
    BY <1>4, <2>5, BytesKept
       DEF Poll, Clear, Step, ReadOnly, MainKeeps, Writing, Taking, shared
  <2> QED
    BY <1>4, <2>1, <2>2, <2>3, <2>4, <2>5 DEF WorkerGoes
<1>5. ASSUME NoteOverlap, WorkerBegins, MainKeeps PROVE ByteInv'
  BY <1>5, BytesKept
     DEF WorkerBegins, BeginRead, BeginPoll, BeginSleep, Step, ReadOnly, MainKeeps, Writing,
         Taking, shared
<1> QED
  BY <1>1, <1>2, <1>3, <1>4, <1>5 DEF Next

(* Byte for byte means as sequences. *)
LEMMA SameBytes ==
  ASSUME TypeOK, Accounted
  PROVE  received \o SubSeq(buf, 1, len) = written
<1> DEFINE left == SubSeq(buf, 1, len)
<1>1. /\ len \in Nat /\ Cap \in Nat
      /\ received \in Seq(Byte \cup {0}) /\ written \in Seq(Byte \cup {0})
      /\ Len(received) \in Nat
  BY BoundAssumption, SeqMonotonic, LenProperties DEF TypeOK
<1>2. \A i \in 1 .. len : buf[i] \in Byte \cup {0}
  BY BoundAssumption DEF TypeOK, Accounted
<1>3. /\ left \in Seq(Byte \cup {0}) /\ Len(left) = len
      /\ \A i \in 1 .. len : left[i] = buf[i]
  BY <1>1, <1>2, SubSeqProperties
<1> HIDE DEF left
<1>4. /\ received \o left \in Seq(Byte \cup {0})
      /\ Len(received \o left) = Len(received) + len
      /\ \A i \in 1 .. Len(received) + len :
           (received \o left)[i] = IF i <= Len(received) THEN received[i] ELSE left[i - Len(received)]
  BY <1>1, <1>3, ConcatProperties
<1>5. ASSUME NEW i \in 1 .. Len(received) + len PROVE (received \o left)[i] = written[i]
  <2>1. CASE i <= Len(received)
    BY <1>1, <1>4, <2>1 DEF Accounted
  <2>2. CASE i > Len(received)
    <3>1. i - Len(received) \in 1 .. len /\ Len(received) + (i - Len(received)) = i
      BY <1>1, <2>2
    <3> QED
      BY <1>1, <1>3, <1>4, <2>2, <3>1 DEF Accounted
  <2>3. i <= Len(received) \/ i > Len(received)
    BY <1>1
  <2> QED
    BY <2>1, <2>2, <2>3, Zenon
<1>6. received \o left = written
  BY <1>1, <1>4, <1>5, SeqEqual DEF Accounted
<1> QED
  BY <1>6 DEF left

(* As long as no write overlapped a read and the buffer sufficed, the      *)
(* program received every byte once and in order.                          *)
THEOREM InputsIntact == Spec => []InputIntact
<1>1. TypeInv /\ ByteInv => InputIntact
  BY SameBytes DEF InputIntact, TypeInv, ByteInv, Apart
<1> QED
  BY <1>1, InitBytes, ByteStep, TypeCorrect, PTL DEF Spec

=============================================================================
