-------------------------- MODULE AtomicsOutputProofs --------------------------
(***************************************************************************)
(* What holds of AtomicsOutput for a buffer of any size, any number of     *)
(* bytes written and any number of restarts.                               *)
(***************************************************************************)
EXTENDS AtomicsOutput, SequenceTheorems, TLAPS

-----------------------------------------------------------------------------
(* The types *)

(* A length about to be stored fits, also if the reader resets the shared  *)
(* one between the worker's loads of it.                                   *)
TypeInv == TypeOK /\ (wpc = "count" => Len(copied) + len <= Cap)

(* Streams, bytes and the zero of an empty buffer are values of a cell. *)
LEMMA StreamFacts == Stream = {1, 2} /\ Byte \subseteq Cell /\ Stream \subseteq Cell /\ 0 \in Cell
BY SizeAssumption DEF Stream, Byte, Cell

(* At the start. *)
LEMMA InitType == Init => TypeInv
<1> SUFFICES ASSUME Init PROVE TypeInv
  OBVIOUS
<1>1. buf \in [0 .. Cap - 1 -> Cell]
  BY StreamFacts DEF Init
<1>2. \A S : <<>> \in Seq(S)
  BY EmptySeq
<1>3. live \in BOOLEAN /\ overlapped \in BOOLEAN
  BY Zenon DEF Init
<1> QED
  BY <1>1, <1>2, <1>3, StreamFacts, SizeAssumption DEF Init, TypeInv, TypeOK, WorkerAt, Reading

(* What is emitted of the cells read: all but the first, on its stream.    *)
LEMMA ShownType ==
  ASSUME NEW d \in Seq(Cell)
  PROVE  /\ Shown(d) \in Seq(Stream \X Cell)
         /\ Len(Shown(d)) = IF d = <<>> THEN 0 ELSE Len(d) - 1
         /\ \A i \in 1 .. Len(d) - 1 : Shown(d)[i] = <<IF d[1] = 1 THEN 1 ELSE 2, d[i + 1]>>
<1>1. Len(d) \in Nat /\ (d # <<>> => Len(d) > 0) /\ (d = <<>> => Len(d) = 0)
  BY EmptySeq, LenProperties
<1>2. CASE d = <<>>
  <2>1. 1 .. Len(d) - 1 = 1 .. 0 /\ 1 .. 0 = {}
    BY <1>1, <1>2
  <2>2. Shown(d) \in [1 .. 0 -> Stream \X Cell]
    BY <2>1 DEF Shown
  <2>3. Shown(d) \in Seq(Stream \X Cell) /\ Len(Shown(d)) = 0
    BY <2>2
  <2> QED
    BY <1>2, <2>1, <2>3
<1>3. CASE d # <<>>
  <2>1. Len(d) - 1 \in Nat
    BY <1>1, <1>3
  <2>2. Shown(d) \in [1 .. Len(d) - 1 -> Stream \X Cell]
    <3> SUFFICES ASSUME NEW i \in 1 .. Len(d) - 1
                 PROVE  <<IF d[1] = 1 THEN 1 ELSE 2, d[i + 1]>> \in Stream \X Cell
      BY DEF Shown
    <3>1. i + 1 \in 1 .. Len(d)
      BY <1>1
    <3> QED
      BY <3>1, ElementOfSeq, StreamFacts
  <2>3. Shown(d) \in Seq(Stream \X Cell) /\ Len(Shown(d)) = Len(d) - 1
    BY <2>1, <2>2
  <2> QED
    BY <1>3, <2>3 DEF Shown
<1> QED
  BY <1>2, <1>3

(* A writer copies what is left of its data or what the buffer has room    *)
(* for.                                                                    *)
LEMMA LeastFits ==
  ASSUME TypeOK
  PROVE  LET c == Least(Len(rest), Cap - len)
         IN  c \in Nat /\ c <= Len(rest) /\ len + c <= Cap /\ (c = Len(rest) \/ len + c = Cap)
BY SizeAssumption, LenProperties DEF Least, TypeOK

(* The steps of the writing thread. *)
LEMMA WorkerType ==
  ASSUME TypeInv, WorkerStep, UNCHANGED <<live, main, restarts>>, NoteOverlap
  PROVE  TypeInv'
<1>1. TypeOK /\ (wpc = "count" => Len(copied) + len <= Cap)
  BY DEF TypeInv
<1>2. overlapped' \in BOOLEAN
  BY <1>1 DEF NoteOverlap, TypeOK
<1>3. UNCHANGED <<mpc, data, out>>
  BY DEF main
<1> USE <1>1, <1>2, <1>3, SizeAssumption DEF TypeInv, TypeOK, local, Go
<1>4. CASE CheckLength \/ CheckTag \/ CheckFull \/ Wait
  BY <1>4 DEF CheckLength, CheckTag, CheckFull, Wait, WorkerAt, Locked
<1>5. CASE LoadExpected
  BY <1>5 DEF LoadExpected, WorkerAt
<1>6. CASE Lock
  BY <1>6, StreamFacts DEF Lock, WorkerAt, Locked
<1>7. CASE InitLength
  BY <1>7 DEF InitLength, WorkerAt, Locked
<1>8. CASE CopyIn
  <2> DEFINE c == Least(Len(rest), Cap - len)
  <2>1. c \in Nat /\ c <= Len(rest) /\ len + c <= Cap
    BY LeastFits
  <2>2. /\ buf' = [i \in DOMAIN buf |->
                     IF i \in len .. len + c - 1 THEN rest[i - len + 1] ELSE buf[i]]
        /\ copied' = SubSeq(rest, 1, c) /\ rest' = SubSeq(rest, c + 1, Len(rest))
    BY <1>8 DEF CopyIn
  <2> HIDE DEF c
  <2>3. \A i \in 1 .. Len(rest) : rest[i] \in Byte
    BY ElementOfSeq
  <2>4. copied' \in Seq(Byte) /\ Len(copied') = c
    BY <2>1, <2>2, <2>3, SubSeqProperties
  <2>5. rest' \in Seq(Byte)
    BY <2>1, <2>2, <2>3, SubSeqProperties
  <2>6. buf' \in [0 .. Cap - 1 -> Cell]
    <3>1. ASSUME NEW i \in len .. len + c - 1 PROVE rest[i - len + 1] \in Cell
      <4>1. len \in Nat /\ Len(rest) \in Nat
        BY LenProperties
      <4>2. i - len + 1 \in 1 .. Len(rest)
        BY <2>1, <4>1
      <4> QED
        BY <2>3, <4>2, StreamFacts
    <3>2. buf \in [0 .. Cap - 1 -> Cell]
      OBVIOUS
    <3>3. buf' = [i \in 0 .. Cap - 1 |->
                    IF i \in len .. len + c - 1 THEN rest[i - len + 1] ELSE buf[i]]
      BY <2>2, <3>2
    <3> QED
      BY <3>1, <3>2, <3>3, Zenon
  <2> QED
    BY <1>8, <2>1, <2>4, <2>5, <2>6 DEF CopyIn, WorkerAt, Locked
<1>9. CASE Count
  BY <1>9, LenProperties DEF Count, WorkerAt, Locked
<1>10. CASE StoreLength
  <2>1. [i \in DOMAIN copied |-> <<stream, copied[i]>>] \in Seq(Stream \X Byte)
    BY LenProperties
  <2>2. stored' \in Seq(Stream \X Byte)
    BY <1>10, <2>1, ConcatProperties DEF StoreLength
  <2> QED
    BY <1>10, <2>2 DEF StoreLength, WorkerAt, Locked
<1>11. CASE Unlock
  BY <1>11, StreamFacts DEF Unlock, WorkerAt
<1> QED
  BY <1>4, <1>5, <1>6, <1>7, <1>8, <1>9, <1>10, <1>11 DEF WorkerStep

(* A call of sendOutput hands the worker a stream and bytes. *)
LEMMA SendType ==
  ASSUME TypeInv, NEW s \in Stream, NEW k \in 1 .. MaxBytes, Send(s, k),
         UNCHANGED <<live, main, restarts>>, NoteOverlap
  PROVE  TypeInv'
<1>1. overlapped' \in BOOLEAN
  BY DEF NoteOverlap, TypeInv, TypeOK
<1>2. /\ handed + k <= MaxBytes /\ handed' = handed + k
      /\ rest' = [i \in 1 .. k |-> 2 + handed + i]
  BY Zenon DEF Send
<1>3. k \in Nat /\ handed \in Nat /\ MaxBytes \in Nat
  BY SizeAssumption DEF TypeInv, TypeOK
<1>4. rest' \in Seq(Byte)
  <2>1. \A i \in 1 .. k : 2 + handed + i \in Byte
    BY <1>2, <1>3 DEF Byte
  <2>2. rest' \in [1 .. k -> Byte]
    BY <1>2, <2>1
  <2> QED
    BY <1>3, <2>2
<1>5. handed' \in 0 .. MaxBytes
  BY <1>2, <1>3
<1>6. wpc' = "check length" /\ stream' = s
  BY DEF Send, Go
<1> QED
  BY <1>1, <1>4, <1>5, <1>6 DEF Send, TypeInv, TypeOK, main, WorkerAt

(* The steps of the reading thread. *)
LEMMA MainType ==
  ASSUME TypeInv, MainStep, UNCHANGED <<local, handed, stored, live, restarts>>, NoteOverlap
  PROVE  TypeInv'
<1>1. overlapped' \in BOOLEAN
  BY DEF NoteOverlap, TypeInv, TypeOK
<1>2. TypeOK /\ (wpc = "count" => Len(copied) + len <= Cap)
  BY DEF TypeInv
<1> USE <1>1, <1>2, SizeAssumption DEF TypeOK, local, Read, Reading
<1>3. CASE (ReadTag \/ ReadLength) /\ UNCHANGED wpc
  BY <1>3 DEF ReadTag, ReadLength, TypeInv
<1>4. CASE CopyOut /\ UNCHANGED wpc
  <2>1. data' \in [1 .. len -> Cell] /\ len \in Nat
    BY <1>4 DEF CopyOut
  <2>2. data' \in Seq(Cell)
    BY <2>1
  <2> QED
    BY <1>4, <2>2 DEF CopyOut, TypeInv
<1>5. CASE Reset /\ UNCHANGED wpc
  BY <1>5, LenProperties DEF Reset, TypeInv
<1>6. CASE Finish
  <2>1. out' \in Seq(Stream \X Cell)
    BY <1>6, ShownType, ConcatProperties DEF Finish
  <2>2. data' \in Seq(Cell)
    BY <1>6, EmptySeq DEF Finish
  <2> QED
    BY <1>6, <2>1, <2>2 DEF Finish, TypeInv, WorkerAt
<1> QED
  BY <1>3, <1>4, <1>5, <1>6 DEF MainStep

(* Every step, a restart of the worker included. *)
LEMMA TypeStep == TypeInv /\ [Next]_vars => TypeInv'
<1> SUFFICES ASSUME TypeInv, [Next]_vars PROVE TypeInv'
  OBVIOUS
<1>1. CASE UNCHANGED vars
  BY <1>1 DEF TypeInv, TypeOK, vars, main, worker, local
<1>2. CASE Terminate /\ NoteOverlap
  <2>1. live' \in BOOLEAN /\ overlapped' \in BOOLEAN
    BY <1>2 DEF Terminate, NoteOverlap, TypeInv, TypeOK
  <2>2. restarts' \in 0 .. MaxRestarts
    BY <1>2, SizeAssumption DEF Terminate, TypeInv, TypeOK
  <2> QED
    BY <1>2, <2>1, <2>2 DEF Terminate, TypeInv, TypeOK, main, local, WorkerAt
<1>3. CASE Restart /\ NoteOverlap
  <2>1. live' \in BOOLEAN /\ overlapped' \in BOOLEAN
    BY <1>3 DEF Restart, NoteOverlap, TypeInv, TypeOK
  <2>2. <<>> \in Seq(Byte)
    BY EmptySeq
  <2> QED
    BY <1>3, <2>1, <2>2 DEF Restart, TypeInv, TypeOK, main, WorkerAt
<1> QED
  BY <1>1, <1>2, <1>3, WorkerType, SendType, MainType DEF Next

(* Every variable keeps its type; in particular no length exceeds the      *)
(* buffer, whatever overlaps.                                              *)
THEOREM TypeCorrect == Spec => []TypeInv
BY InitType, TypeStep, PTL DEF Spec

-----------------------------------------------------------------------------
(* The bytes *)

(* What was emitted, with what the reader has already taken. *)
Emitted == IF mpc = "notify" THEN out \o Shown(data) ELSE out

(* The bytes in the buffer were stored for stream s. *)
Streamed(s) == \A i \in 1 .. Buffered : stored[Len(Emitted) + i][1] = s

(* What was emitted and what is in the buffer are what was stored. *)
Accounted ==
  /\ Len(stored) = Len(Emitted) + Buffered
  /\ \A i \in 1 .. Len(Emitted) : stored[i] = Emitted[i]
  /\ \A i \in 1 .. Buffered : stored[Len(Emitted) + i][2] = buf[i]

Tagged == buf[0] \in Stream \cup {0} /\ (buf[0] # 0 => Streamed(buf[0]))

(* The three checks of the buffer still hold in the locked section: there  *)
(* is room, and what is in the buffer is for the writer's stream.          *)
Room ==
  /\ wpc \in {"check full", "lock"} => len = 0 \/ buf[0] = stream
  /\ wpc \in {"lock", "init", "copy"} => len < Cap
  /\ wpc \in {"copy", "count", "store", "unlock"} => len > 0
Held == wpc \in Locked \ {"lock"} => buf[0] = 0 /\ Streamed(stream)

(* What each thread has in hand agrees with the buffer. *)
CopiedIn ==
  /\ wpc \in {"count", "store"} =>
       /\ len + Len(copied) <= Cap
       /\ \A i \in 1 .. Len(copied) : buf[len + i - 1] = copied[i]
  /\ wpc = "store" => n = Len(copied) + len
ReadSoFar ==
  /\ mpc \in Reading => buf[0] # 0
  /\ mpc \in {"copy", "reset"} => len > 0
  /\ mpc = "reset" => data = [i \in 1 .. len |-> buf[i - 1]]

Intact == Accounted /\ Tagged /\ Room /\ Held /\ CopiedIn /\ ReadSoFar

OutputInv ==
  /\ mpc \in Reading /\ wpc \in Locked => overlapped
  /\ ~overlapped => Intact

(* At the start nothing is stored or emitted, and nobody is in a section. *)
LEMMA InitOutput == Init => OutputInv
<1> SUFFICES ASSUME Init PROVE Intact /\ mpc \notin Reading
  BY DEF OutputInv
<1>1. Emitted = <<>> /\ stored = <<>> /\ Len(stored) = 0 /\ Len(Emitted) = 0 /\ Buffered = 0
  BY EmptySeq DEF Init, Emitted, Buffered
<1>2. buf[0] = 0 /\ mpc = "idle" /\ wpc = "idle"
  BY SizeAssumption DEF Init
<1>3. Accounted /\ Tagged
  BY <1>1, <1>2 DEF Accounted, Tagged
<1> QED
  BY <1>2, <1>3 DEF Intact, Room, Held, CopiedIn, ReadSoFar, Locked, Reading

(* The types as the steps below need them. *)
LEMMA Facts ==
  ASSUME TypeOK
  PROVE  /\ Cap \in Nat /\ Cap > 1 /\ len \in Nat /\ len <= Cap /\ n \in Nat
         /\ stream \in Stream /\ stream # 0
         /\ copied \in Seq(Byte) /\ Len(copied) \in Nat
         /\ stored \in Seq(Stream \X Byte) /\ Len(stored) \in Nat
         /\ Emitted \in Seq(Stream \X Cell) /\ Len(Emitted) \in Nat
         /\ buf \in [0 .. Cap - 1 -> Cell]
         /\ Buffered \in Nat
<1>1. out \in Seq(Stream \X Cell) /\ Shown(data) \in Seq(Stream \X Cell)
  BY ShownType DEF TypeOK
<1>2. Emitted \in Seq(Stream \X Cell)
  BY <1>1, ConcatProperties DEF Emitted
<1>3. Len(Emitted) \in Nat
  BY <1>2, LenProperties
<1>4. Len(copied) \in Nat /\ Len(stored) \in Nat
  BY LenProperties DEF TypeOK
<1>5. stream # 0
  BY StreamFacts DEF TypeOK
<1>6. Cap \in Nat /\ Cap > 1 /\ len \in Nat /\ len <= Cap /\ n \in Nat
  BY SizeAssumption DEF TypeOK
<1> QED
  BY <1>2, <1>3, <1>4, <1>5, <1>6 DEF TypeOK, Buffered

(* Steps that leave the buffer and what was stored and emitted alone. *)
LEMMA BytesKept ==
  ASSUME Accounted, Tagged, UNCHANGED <<buf, len, stored, Emitted>>
  PROVE  Accounted' /\ Tagged' /\ \A s \in Stream : Streamed(s) => Streamed(s)'
BY DEF Accounted, Tagged, Streamed, Buffered

(* A step away from the reader's notification emits nothing. *)
LEMMA EmittedKept ==
  ASSUME UNCHANGED out, mpc = "notify" <=> mpc' = "notify", mpc = "notify" => UNCHANGED data
  PROVE  UNCHANGED Emitted
BY DEF Emitted

(* A reader outside of its section has nothing in hand. *)
LEMMA NotReading == ASSUME mpc \notin Reading, UNCHANGED mpc PROVE ReadSoFar'
BY DEF ReadSoFar, Reading

(* The writer's checks, outside of the locked section. *)
LEMMA ChecksIntact ==
  ASSUME TypeOK, Intact, UNCHANGED <<main, stream>>,
         CheckLength \/ CheckTag \/ CheckFull \/ LoadExpected \/ Wait
  PROVE  Intact'
<1>1. UNCHANGED <<buf, len, stored, stream, mpc, data, out>>
  BY DEF main, CheckLength, CheckTag, CheckFull, LoadExpected, Wait, local
<1>2. Accounted' /\ Tagged' /\ ReadSoFar'
  BY <1>1, BytesKept, EmittedKept DEF Intact, ReadSoFar
<1>3. wpc' \notin {"init", "copy", "count", "store", "unlock"}
  BY DEF CheckLength, CheckTag, CheckFull, LoadExpected, Wait, Go
<1>4. Held' /\ CopiedIn'
  BY <1>3 DEF Held, CopiedIn, Locked
<1>5. wpc' \in {"check full", "lock"} => len = 0 \/ buf[0] = stream
  <2>1. ~(len > 0) => len = 0
    BY Facts
  <2>2. wpc = "check full" => len = 0 \/ buf[0] = stream
    BY DEF Intact, Room
  <2> QED
    BY <2>1, <2>2, Zenon DEF CheckLength, CheckTag, CheckFull, LoadExpected, Wait, Go
<1>6. wpc' \in {"lock", "init", "copy"} => len < Cap
  <2>1. len # Cap => len < Cap
    BY Facts
  <2> QED
    BY <1>3, <2>1, Zenon DEF CheckLength, CheckTag, CheckFull, LoadExpected, Wait, Go
<1>7. Room'
  BY <1>1, <1>3, <1>5, <1>6, Zenon DEF Room
<1> QED
  BY <1>2, <1>4, <1>7 DEF Intact

(* The steps of the locked section, with nobody reading. *)
LEMMA LockIntact ==
  ASSUME TypeOK, Intact, mpc \notin Reading, UNCHANGED main, Lock
  PROVE  Intact'
<1>1. /\ wpc = "lock" /\ wpc' = "init"
      /\ buf' = [buf EXCEPT ![0] = 0]
      /\ UNCHANGED <<len, stored, stream, mpc, data, out>>
  BY DEF Lock, Go, local, main
<1>2. UNCHANGED Emitted
  BY <1>1, EmittedKept
<1>3. len \in Nat /\ Cap \in Nat /\ Cap > 1 /\ len <= Cap /\ buf \in [0 .. Cap - 1 -> Cell] /\ stream # 0
  BY Facts
<1>4. buf'[0] = 0 /\ \A i \in 1 .. Cap - 1 : buf'[i] = buf[i]
  BY <1>1, <1>3
<1>5. \A i \in 1 .. Buffered : i \in 1 .. Cap - 1
  BY <1>3 DEF Buffered
<1>6. Accounted'
  BY <1>1, <1>2, <1>4, <1>5 DEF Intact, Accounted, Buffered
<1>7. Streamed(stream)
  <2>1. CASE len = 0
    <3>1. 1 .. Buffered = {}
      BY <2>1 DEF Buffered
    <3> QED
      BY <3>1 DEF Streamed
  <2>2. CASE buf[0] = stream
    BY <1>3, <2>2 DEF Intact, Tagged
  <2> QED
    BY <1>1, <2>1, <2>2 DEF Intact, Room
<1>8. Streamed(stream)'
  BY <1>1, <1>2, <1>7 DEF Streamed, Buffered
<1> QED
  BY NotReading, <1>1, <1>4, <1>6, <1>8 DEF Intact, Tagged, Room, Held, CopiedIn

(* The writer makes room for the tag in an empty buffer. *)
LEMMA InitIntact ==
  ASSUME TypeOK, Intact, mpc \notin Reading, UNCHANGED main, InitLength
  PROVE  Intact'
<1>1. /\ wpc = "init" /\ wpc' = "copy"
      /\ len' = IF len = 0 THEN 1 ELSE len
      /\ UNCHANGED <<buf, stored, stream, mpc, data, out>>
  BY DEF InitLength, Go, local, main
<1>2. UNCHANGED Emitted
  BY <1>1, EmittedKept
<1>3. len \in Nat /\ Cap \in Nat /\ Cap > 1 /\ len < Cap
  BY <1>1, Facts DEF Intact, Room
<1>4. Buffered' = Buffered /\ len' > 0 /\ len' < Cap
  BY <1>1, <1>3 DEF Buffered
<1>5. buf[0] = 0 /\ Streamed(stream)
  BY <1>1 DEF Intact, Held, Locked
<1>6. Accounted' /\ Streamed(stream)'
  BY <1>1, <1>2, <1>4, <1>5 DEF Intact, Accounted, Streamed
<1> QED
  BY NotReading, <1>1, <1>4, <1>5, <1>6 DEF Intact, Tagged, Room, Held, CopiedIn

(* The writer copies into the cells that follow what is buffered. *)
LEMMA CopyInIntact ==
  ASSUME TypeOK, Intact, mpc \notin Reading, UNCHANGED main, CopyIn
  PROVE  Intact'
<1> DEFINE c == Least(Len(rest), Cap - len)
<1>1. /\ wpc = "copy" /\ wpc' = "count"
      /\ buf' = [i \in DOMAIN buf |-> IF i \in len .. len + c - 1 THEN rest[i - len + 1] ELSE buf[i]]
      /\ copied' = SubSeq(rest, 1, c)
      /\ UNCHANGED <<len, stored, stream, mpc, data, out>>
  BY DEF CopyIn, Go, main
<1>2. UNCHANGED Emitted
  BY <1>1, EmittedKept
<1>3. c \in Nat /\ c <= Len(rest) /\ len + c <= Cap
  BY LeastFits
<1> HIDE DEF c
<1>4. len \in Nat /\ Cap \in Nat /\ len > 0 /\ len < Cap /\ buf \in [0 .. Cap - 1 -> Cell]
  BY <1>1, Facts DEF Intact, Room
<1>5. Len(copied') = c /\ \A i \in 1 .. c : copied'[i] = rest[i]
  <2>1. rest \in Seq(Byte) /\ Len(rest) \in Nat
    BY LenProperties DEF TypeOK
  <2>2. \A i \in 1 .. c : rest[i] \in Byte
    BY <1>3, <2>1, ElementOfSeq
  <2>3. /\ Len(SubSeq(rest, 1, c)) = IF 1 <= c THEN c - 1 + 1 ELSE 0
        /\ \A i \in 1 .. c - 1 + 1 : SubSeq(rest, 1, c)[i] = rest[1 + i - 1]
    BY <1>3, <2>2, SubSeqProperties
  <2> QED
    BY <1>1, <1>3, <2>3
<1>6. \A i \in 0 .. len - 1 : buf'[i] = buf[i]
  BY <1>1, <1>3, <1>4
<1>7. \A i \in 1 .. c : buf'[len + i - 1] = copied'[i]
  BY <1>1, <1>3, <1>4, <1>5
<1>8. buf[0] = 0 /\ Streamed(stream)
  BY <1>1 DEF Intact, Held, Locked
<1>9. buf'[0] = 0
  BY <1>4, <1>6, <1>8
<1>10. Buffered' = Buffered /\ \A i \in 1 .. Buffered : buf'[i] = buf[i]
  BY <1>1, <1>4, <1>6 DEF Buffered
<1>11. Accounted' /\ Streamed(stream)'
  BY <1>1, <1>2, <1>8, <1>10 DEF Intact, Accounted, Streamed
<1> QED
  BY NotReading, <1>1, <1>3, <1>4, <1>5, <1>7, <1>9, <1>11
     DEF Intact, Tagged, Room, Held, CopiedIn

(* The writer adds the number of its bytes to the length it loads. *)
LEMMA CountIntact ==
  ASSUME TypeOK, Intact, mpc \notin Reading, UNCHANGED main, Count
  PROVE  Intact'
<1>1. /\ wpc = "count" /\ wpc' = "store" /\ n' = Len(copied) + len
      /\ UNCHANGED <<buf, len, stored, stream, copied, mpc, data, out>>
  BY DEF Count, Go, main
<1>2. UNCHANGED Emitted
  BY <1>1, EmittedKept
<1>3. buf[0] = 0 /\ Streamed(stream) /\ stream \in Stream
  BY <1>1, Facts DEF Intact, Held, Locked
<1>4. Accounted' /\ Tagged' /\ Streamed(stream)'
  BY <1>1, <1>2, <1>3 DEF Intact, Accounted, Tagged, Streamed, Buffered
<1> QED
  BY NotReading, <1>1, <1>3, <1>4 DEF Intact, Room, Held, CopiedIn

(* The writer stores the length: what it copied is stored from now on. *)
LEMMA StoreIntact ==
  ASSUME TypeOK, Intact, mpc \notin Reading, UNCHANGED main, StoreLength
  PROVE  Intact'
<1> DEFINE more == [i \in DOMAIN copied |-> <<stream, copied[i]>>]
<1>1. /\ wpc = "store" /\ wpc' = "unlock" /\ len' = n /\ stored' = stored \o more
      /\ UNCHANGED <<buf, stream, mpc, data, out>>
  BY DEF StoreLength, Go, local, main
<1>2. UNCHANGED Emitted
  BY <1>1, EmittedKept
<1>3. /\ len \in Nat /\ len > 0 /\ n = Len(copied) + len
      /\ \A i \in 1 .. Len(copied) : buf[len + i - 1] = copied[i]
      /\ buf[0] = 0 /\ Streamed(stream)
  BY <1>1, Facts DEF Intact, Room, CopiedIn, Held, Locked
<1>4. /\ Len(copied) \in Nat /\ Len(stored) \in Nat /\ Len(Emitted) \in Nat
      /\ stored \in Seq(Stream \X Byte) /\ more \in Seq(Stream \X Byte)
      /\ Len(more) = Len(copied)
      /\ \A i \in 1 .. Len(copied) : more[i] = <<stream, copied[i]>>
  BY Facts, LenProperties
<1> HIDE DEF more
<1>5. /\ Len(stored') = Len(stored) + Len(copied)
      /\ \A i \in 1 .. Len(stored) + Len(copied) :
           stored'[i] = IF i <= Len(stored) THEN stored[i] ELSE more[i - Len(stored)]
  <2>1. /\ Len(stored \o more) = Len(stored) + Len(more)
        /\ \A i \in 1 .. Len(stored) + Len(more) :
             (stored \o more)[i] = IF i <= Len(stored) THEN stored[i] ELSE more[i - Len(stored)]
    BY <1>4, ConcatProperties
  <2> QED
    BY <1>1, <1>4, <2>1
<1>6. Buffered = len - 1 /\ Buffered' = len - 1 + Len(copied) /\ len' > 0
  BY <1>1, <1>3, <1>4 DEF Buffered
<1>7. Len(stored) = Len(Emitted) + (len - 1)
  BY <1>6 DEF Intact, Accounted
<1>8. ASSUME NEW i \in 1 .. len - 1 + Len(copied)
      PROVE  stored'[Len(Emitted) + i] = <<stream, buf[i]>> \/
             (i \in 1 .. len - 1 /\ stored'[Len(Emitted) + i] = stored[Len(Emitted) + i])
  <2>1. CASE i <= len - 1
    <3>1. /\ Len(Emitted) + i <= Len(stored) /\ i \in 1 .. len - 1
          /\ Len(Emitted) + i \in 1 .. Len(stored) + Len(copied)
      BY <1>3, <1>4, <1>7, <2>1
    <3> QED
      BY <1>5, <3>1
  <2>2. CASE i > len - 1
    <3>1. i - (len - 1) \in 1 .. Len(copied) /\ len + (i - (len - 1)) - 1 = i
      BY <1>3, <1>4, <2>2
    <3>2. buf[i] = copied[i - (len - 1)]
      BY <1>3, <3>1
    <3>3. (Len(Emitted) + i) - Len(stored) = i - (len - 1) /\ ~(Len(Emitted) + i <= Len(stored))
          /\ Len(Emitted) + i \in 1 .. Len(stored) + Len(copied)
      BY <1>3, <1>4, <1>7, <2>2
    <3>4. stored'[Len(Emitted) + i] = more[i - (len - 1)]
      BY <1>5, <3>3
    <3> QED
      BY <1>4, <3>1, <3>2, <3>4
  <2>3. i <= len - 1 \/ i > len - 1
    BY <1>3
  <2> QED
    BY <2>1, <2>2, <2>3
<1>9. \A i \in 1 .. Len(Emitted) : stored'[i] = Emitted[i]
  BY <1>3, <1>4, <1>5, <1>7 DEF Intact, Accounted
<1>10. ASSUME NEW i \in 1 .. len - 1 + Len(copied)
       PROVE  stored'[Len(Emitted) + i][1] = stream /\ stored'[Len(Emitted) + i][2] = buf[i]
  <2>1. CASE stored'[Len(Emitted) + i] = <<stream, buf[i]>>
    BY <2>1
  <2>2. CASE i \in 1 .. len - 1 /\ stored'[Len(Emitted) + i] = stored[Len(Emitted) + i]
    BY <1>3, <1>6, <2>2 DEF Intact, Accounted, Streamed
  <2> QED
    BY <1>8, <2>1, <2>2
<1>11. Len(stored') = Len(Emitted') + Buffered'
  BY <1>2, <1>3, <1>4, <1>5, <1>6, <1>7
<1>12. Accounted' /\ Streamed(stream)'
  BY <1>1, <1>2, <1>6, <1>9, <1>10, <1>11 DEF Accounted, Streamed
<1> QED
  BY NotReading, <1>1, <1>3, <1>6, <1>12 DEF Intact, Tagged, Room, Held, CopiedIn

(* The writer tags the buffer with its stream, and leaves its section. *)
LEMMA UnlockIntact ==
  ASSUME TypeOK, Intact, mpc \notin Reading, UNCHANGED main, Unlock
  PROVE  Intact'
<1>1. /\ wpc = "unlock" /\ wpc' = "check length"
      /\ buf' = [buf EXCEPT ![0] = stream]
      /\ UNCHANGED <<len, stored, stream, mpc, data, out>>
  BY DEF Unlock, Go, local, main
<1>2. UNCHANGED Emitted
  BY <1>1, EmittedKept
<1>3. len \in Nat /\ Cap \in Nat /\ Cap > 1 /\ len <= Cap /\ buf \in [0 .. Cap - 1 -> Cell]
      /\ stream \in Stream
  BY Facts
<1>4. buf'[0] = stream /\ \A i \in 1 .. Cap - 1 : buf'[i] = buf[i]
  <2>1. 0 \in 0 .. Cap - 1 /\ \A i \in 1 .. Cap - 1 : i \in 0 .. Cap - 1 /\ i # 0
    BY <1>3
  <2>2. buf' = [buf EXCEPT ![0] = stream] /\ buf \in [0 .. Cap - 1 -> Cell]
    BY <1>1, <1>3
  <2> QED
    BY <2>1, <2>2, Zenon
<1>5. \A i \in 1 .. Buffered : i \in 1 .. Cap - 1
  BY <1>3 DEF Buffered
<1>6. Accounted'
  BY <1>1, <1>2, <1>4, <1>5 DEF Intact, Accounted, Buffered
<1>7. Streamed(stream)
  BY <1>1 DEF Intact, Held, Locked
<1>8. Streamed(stream)'
  BY <1>1, <1>2, <1>7 DEF Streamed, Buffered
<1>9. Tagged'
  BY <1>1, <1>3, <1>4, <1>8 DEF Tagged
<1> QED
  BY NotReading, <1>1, <1>6, <1>9 DEF Intact, Room, Held, CopiedIn, Locked

(* A call of sendOutput begins, and the worker is replaced. *)
LEMMA RestartIntact ==
  ASSUME TypeOK, Intact,
         \/ Terminate \/ Restart
         \/ (\E s \in Stream, k \in 1 .. MaxBytes : Send(s, k)) /\ UNCHANGED main
  PROVE  Intact'
<1>1. /\ UNCHANGED <<buf, len, stored, mpc, data, out>>
      /\ wpc' \in {"idle", "dead", "check length"}
  BY DEF Terminate, Restart, Send, Go, main
<1>2. UNCHANGED Emitted
  BY <1>1, EmittedKept
<1>3. Accounted' /\ Tagged' /\ ReadSoFar'
  BY <1>1, <1>2, BytesKept DEF Intact, ReadSoFar
<1>4. Room' /\ Held' /\ CopiedIn'
  BY <1>1 DEF Room, Held, CopiedIn, Locked
<1> QED
  BY <1>3, <1>4 DEF Intact

(* The reader, up to its copy. *)
LEMMA ReadIntact ==
  ASSUME TypeOK, Intact, UNCHANGED <<local, stored, wpc>>,
         ReadTag \/ ReadLength \/ CopyOut
  PROVE  Intact'
<1>1. /\ UNCHANGED <<buf, len, stored, out, wpc, stream, copied, n>>
      /\ mpc # "notify" /\ mpc' # "notify"
  BY DEF ReadTag, ReadLength, CopyOut, Read, local
<1>2. UNCHANGED Emitted
  BY <1>1 DEF Emitted
<1>3. Accounted' /\ Tagged' /\ (\A s \in Stream : Streamed(s) => Streamed(s)')
  BY <1>1, <1>2, BytesKept DEF Intact
<1>4. Room' /\ Held' /\ CopiedIn'
  <2>1. stream \in Stream
    BY DEF TypeOK
  <2>2. Held'
    BY <1>1, <1>3, <2>1 DEF Intact, Held
  <2> QED
    BY <1>1, <2>2 DEF Intact, Room, CopiedIn
<1>5. len # 0 => len > 0
  BY Facts
<1>6. ReadSoFar'
  <2>1. CASE ReadTag
    BY <1>1, <2>1 DEF ReadTag, ReadSoFar, Reading
  <2>2. CASE ReadLength
    BY <1>1, <1>5, <2>2 DEF ReadLength, Intact, ReadSoFar, Reading
  <2>3. CASE CopyOut
    BY <1>1, <2>3 DEF CopyOut, Read, Intact, ReadSoFar, Reading
  <2> QED
    BY <2>1, <2>2, <2>3
<1> QED
  BY <1>3, <1>4, <1>6 DEF Intact

(* What the reader took is what was in the buffer. *)
LEMMA ResetIntact ==
  ASSUME TypeOK, Intact, UNCHANGED <<local, stored, wpc>>, wpc \notin Locked, Reset
  PROVE  Intact'
<1>1. /\ mpc = "reset" /\ mpc' = "notify" /\ len' = 0
      /\ UNCHANGED <<buf, data, out, stored, wpc, stream>>
  BY DEF Reset, Read, local
<1>2. /\ len \in Nat /\ len > 0 /\ len <= Cap /\ Cap \in Nat
      /\ buf[0] \in Stream /\ data = [i \in 1 .. len |-> buf[i - 1]]
  BY <1>1, Facts DEF Intact, ReadSoFar, Tagged, Reading
<1>3. data \in Seq(Cell) /\ Len(data) = len /\ data # <<>>
  <2>1. Len(data) = len /\ len # 0
    BY <1>2
  <2>2. Len(<<>>) = 0
    BY EmptySeq
  <2>3. data # <<>>
    BY <2>1, <2>2, Zenon
  <2> QED
    BY <2>1, <2>3 DEF TypeOK
<1>4. Emitted = out /\ Emitted' = out \o Shown(data) /\ Buffered = len - 1 /\ Buffered' = 0
  BY <1>1, <1>2 DEF Emitted, Buffered
<1>5. Shown(data) \in Seq(Stream \X Cell) /\ Len(Shown(data)) = len - 1
  BY <1>3, ShownType
<1>6. ASSUME NEW i \in 1 .. len - 1
      PROVE  /\ Shown(data)[i] = <<buf[0], buf[i]>>
             /\ stored[Len(out) + i] = <<buf[0], buf[i]>>
  <2>1. 1 \in 1 .. len /\ i + 1 \in 1 .. len /\ (i + 1) - 1 = i
    BY <1>2
  <2>2. data[1] = buf[0] /\ data[i + 1] = buf[i]
    BY <1>2, <2>1
  <2>3. (IF buf[0] = 1 THEN 1 ELSE 2) = buf[0]
    BY <1>2, StreamFacts
  <2>4. Shown(data)[i] = <<buf[0], buf[i]>>
    BY <1>3, <2>2, <2>3, ShownType
  <2>5. stored[Len(out) + i][1] = buf[0] /\ stored[Len(out) + i][2] = buf[i]
    <3>1. buf[0] # 0
      BY <1>2, StreamFacts
    <3> QED
      BY <1>4, <3>1 DEF Intact, Accounted, Tagged, Streamed
  <2>6. stored[Len(out) + i] \in Stream \X Byte
    <3>1. Len(stored) = Len(out) + (len - 1) /\ Len(out) \in Nat
      BY <1>4, Facts DEF Intact, Accounted
    <3>2. Len(out) + i \in 1 .. Len(stored)
      BY <1>2, <3>1
    <3>3. stored \in Seq(Stream \X Byte)
      BY DEF TypeOK
    <3> QED
      BY <3>2, <3>3, ElementOfSeq
  <2> QED
    BY <2>4, <2>5, <2>6
<1>7. /\ Len(stored) = Len(out) + (len - 1) /\ Len(out) \in Nat
      /\ \A i \in 1 .. Len(out) : stored[i] = out[i]
  BY <1>4, Facts DEF Intact, Accounted
<1>8. /\ Len(Emitted') = Len(out) + (len - 1)
      /\ \A i \in 1 .. Len(out) + (len - 1) :
           Emitted'[i] = IF i <= Len(out) THEN out[i] ELSE Shown(data)[i - Len(out)]
  <2>1. out \in Seq(Stream \X Cell)
    BY DEF TypeOK
  <2>2. /\ Len(out \o Shown(data)) = Len(out) + Len(Shown(data))
        /\ \A i \in 1 .. Len(out) + Len(Shown(data)) :
             (out \o Shown(data))[i] = IF i <= Len(out) THEN out[i] ELSE Shown(data)[i - Len(out)]
    BY <1>5, <2>1, ConcatProperties
  <2> QED
    BY <1>4, <1>5, <2>2
<1>9. ASSUME NEW i \in 1 .. Len(out) + (len - 1) PROVE stored[i] = Emitted'[i]
  <2>1. CASE i <= Len(out)
    <3>1. i \in 1 .. Len(out)
      BY <1>7, <2>1
    <3> QED
      BY <1>7, <1>8, <2>1, <3>1
  <2>2. CASE ~(i <= Len(out))
    <3>1. i - Len(out) \in 1 .. len - 1 /\ Len(out) + (i - Len(out)) = i
      BY <1>2, <1>7, <2>2
    <3>2. stored[i] = Shown(data)[i - Len(out)]
      BY <1>6, <3>1
    <3> QED
      BY <1>8, <2>2, <3>2
  <2> QED
    BY <2>1, <2>2
<1>10. 1 .. Buffered' = {} /\ Len(stored') = Len(Emitted') + Buffered'
  BY <1>1, <1>2, <1>4, <1>7, <1>8
<1>11. Accounted'
  BY <1>1, <1>8, <1>9, <1>10 DEF Accounted
<1>12. Tagged'
  BY <1>1, <1>2, <1>10 DEF Tagged, Streamed
<1>13. Room'
  BY <1>1 DEF Room, Locked
<1> QED
  BY <1>1, <1>11, <1>12, <1>13 DEF Intact, Held, CopiedIn, ReadSoFar, Locked, Reading

(* The reader emits what it copied. *)
LEMMA FinishIntact ==
  ASSUME TypeOK, Intact, UNCHANGED <<local, stored>>, Finish
  PROVE  Intact'
<1>1. /\ mpc = "notify" /\ mpc' = "idle" /\ out' = out \o Shown(data)
      /\ UNCHANGED <<buf, len, stored, stream, copied, n>>
      /\ (wpc' = wpc \/ wpc' = "check length")
  BY DEF Finish, Read, local
<1>2. UNCHANGED Emitted
  BY <1>1 DEF Emitted
<1>3. Accounted' /\ Tagged' /\ (\A s \in Stream : Streamed(s) => Streamed(s)')
  BY <1>1, <1>2, BytesKept DEF Intact
<1>4. stream \in Stream
  BY DEF TypeOK
<1>5. Room' /\ CopiedIn'
  BY <1>1 DEF Intact, Room, CopiedIn
<1>6. Held'
  BY <1>1, <1>3, <1>4 DEF Intact, Held, Locked
<1> QED
  BY <1>1, <1>3, <1>5, <1>6 DEF Intact, ReadSoFar, Reading

-----------------------------------------------------------------------------
(* A step that leaves the two threads apart keeps the buffer intact. *)
LEMMA Apartness ==
  ASSUME OutputInv, NoteOverlap,
         ~(mpc \in Reading /\ wpc \in Locked) /\ ~(mpc' \in Reading /\ wpc' \in Locked) /\ Intact
           => Intact'
  PROVE  OutputInv'
BY DEF OutputInv, NoteOverlap

(* Every step keeps the invariant of the bytes. *)
LEMMA OutputStep == TypeOK /\ OutputInv /\ [Next]_vars => OutputInv'
<1> SUFFICES ASSUME TypeOK, OutputInv, [Next]_vars PROVE OutputInv'
  OBVIOUS
<1>1. CASE UNCHANGED vars
  BY <1>1 DEF OutputInv, Intact, Accounted, Tagged, Room, Held, CopiedIn, ReadSoFar, Streamed,
              Buffered, Emitted, vars, worker, local, main
<1>2. ASSUME NoteOverlap, UNCHANGED main,
             Lock \/ InitLength \/ CopyIn \/ Count \/ StoreLength \/ Unlock
      PROVE  OutputInv'
  <2>1. wpc \in Locked
    BY <1>2 DEF Lock, InitLength, CopyIn, Count, StoreLength, Unlock, Go, Locked
  <2>2. mpc \notin Reading /\ Intact => Intact'
    BY <1>2, LockIntact, InitIntact, CopyInIntact, CountIntact, StoreIntact, UnlockIntact
  <2> QED
    BY <1>2, <2>1, <2>2, Apartness
<1>3. ASSUME NoteOverlap, UNCHANGED main,
             CheckLength \/ CheckTag \/ CheckFull \/ LoadExpected \/ Wait
      PROVE  OutputInv'
  <2>1. UNCHANGED stream
    BY <1>3 DEF CheckLength, CheckTag, CheckFull, LoadExpected, Wait, local
  <2> QED
    BY <1>3, <2>1, Apartness, ChecksIntact
<1>4. ASSUME NoteOverlap,
             \/ Terminate \/ Restart
             \/ (\E s \in Stream, k \in 1 .. MaxBytes : Send(s, k)) /\ UNCHANGED main
      PROVE  OutputInv'
  BY <1>4, Apartness, RestartIntact
<1>5. ASSUME NoteOverlap, UNCHANGED <<local, stored, wpc>>, ReadTag \/ ReadLength \/ CopyOut \/ Reset
      PROVE  OutputInv'
  <2>1. CASE Reset
    <3>1. mpc \in Reading
      BY <2>1 DEF Reset, Read, Reading
    <3> QED
      BY <1>5, <2>1, <3>1, Apartness, ResetIntact
  <2>2. CASE ReadTag \/ ReadLength \/ CopyOut
    BY <1>5, <2>2, Apartness, ReadIntact
  <2> QED
    BY <1>5, <2>1, <2>2
<1>6. ASSUME NoteOverlap, UNCHANGED <<local, stored>>, Finish PROVE OutputInv'
  BY <1>6, Apartness, FinishIntact
<1> QED
  BY <1>1, <1>2, <1>3, <1>4, <1>5, <1>6 DEF Next, WorkerStep, MainStep

(* Byte for byte means as sequences. *)
LEMMA SameOutput ==
  ASSUME TypeOK, Intact
  PROVE  LET shown == out \o Shown(IF mpc = "notify" THEN data ELSE <<>>)
             m == Len(shown)
         IN  /\ Len(stored) = m + Buffered
             /\ shown = SubSeq(stored, 1, m)
             /\ \A i \in 1 .. Buffered :
                  /\ stored[m + i][2] = buf[i]
                  /\ buf[0] # 0 => stored[m + i][1] = buf[0]
<1> DEFINE shown == out \o Shown(IF mpc = "notify" THEN data ELSE <<>>)
           m == Len(Emitted)
<1>1. shown = Emitted
  <2>1. CASE mpc = "notify"
    BY <2>1 DEF Emitted
  <2>2. CASE mpc # "notify"
    <3>1. Shown(<<>>) \in Seq(Stream \X Cell) /\ Len(Shown(<<>>)) = 0
      BY ShownType, EmptySeq
    <3>2. Shown(<<>>) = <<>>
      BY <3>1, EmptySeq
    <3>3. out \in Seq(Stream \X Cell)
      BY DEF TypeOK
    <3> QED
      BY <2>2, <3>2, <3>3, ConcatEmptySeq DEF Emitted
  <2> QED
    BY <2>1, <2>2
<1> HIDE DEF shown
<1>2. /\ Emitted \in Seq(Stream \X Cell) /\ m \in Nat /\ Buffered \in Nat
      /\ stored \in Seq(Stream \X Byte) /\ Len(stored) = m + Buffered
  BY Facts DEF Intact, Accounted
<1>3. \A i \in 1 .. m : stored[i] = Emitted[i] /\ stored[i] \in Stream \X Cell
  BY <1>2, ElementOfSeq DEF Intact, Accounted
<1>4. /\ SubSeq(stored, 1, m) \in Seq(Stream \X Cell)
      /\ Len(SubSeq(stored, 1, m)) = m
      /\ \A i \in 1 .. m : SubSeq(stored, 1, m)[i] = stored[i]
  BY <1>2, <1>3, SubSeqProperties
<1>5. Emitted = SubSeq(stored, 1, m)
  BY <1>2, <1>3, <1>4, SeqEqual
<1>6. \A i \in 1 .. Buffered :
        /\ stored[m + i][2] = buf[i]
        /\ buf[0] # 0 => stored[m + i][1] = buf[0]
  BY DEF Intact, Accounted, Tagged, Streamed
<1> QED
  BY <1>1, <1>2, <1>5, <1>6 DEF shown

(* As long as no read overlapped a locked section, every byte is emitted   *)
(* once, in order and on its own stream, across restarts too.              *)
THEOREM OutputsIntact == Spec => []OutputIntact
<1>1. TypeInv /\ OutputInv => OutputIntact
  BY SameOutput DEF OutputIntact, TypeInv, OutputInv
<1>2. TypeInv /\ OutputInv /\ [Next]_vars => OutputInv'
  BY OutputStep DEF TypeInv
<1> QED
  BY <1>1, <1>2, InitOutput, TypeCorrect, PTL DEF Spec

=============================================================================
