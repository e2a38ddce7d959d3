------------------------- MODULE ServiceWorkerIOProofs -------------------------
(***************************************************************************)
(* What holds of ServiceWorkerIO for any amount of input, output, signals  *)
(* and requests.                                                           *)
(***************************************************************************)
EXTENDS ServiceWorkerIO, SequenceTheorems, FiniteSetTheorems, TLAPS

-----------------------------------------------------------------------------
(* Types *)

TypeInv == TypeOK /\ IsFiniteSet(answers)

(* Numbers that the types need. *)
LEMMA Numbers ==
  /\ MaxInput \in Nat /\ MaxOutput \in Nat /\ MaxSignals \in Nat /\ MaxReads \in Nat
  /\ Stream = {1, 2} /\ SIGINT = 2 /\ \A t \in Nat : Shown(t) \in Stream
BY BoundsAreNaturals DEF Stream, SIGINT, Shown

(* The first state is of these types. *)
LEMMA InitTypes == Init => TypeInv
<1> SUFFICES ASSUME Init PROVE TypeInv
  OBVIOUS
<1>1. IsFiniteSet(answers)
  BY FS_EmptySet DEF Init
<1>2. waiter \in BOOLEAN /\ checked \in BOOLEAN /\ dropped \in BOOLEAN /\ crossed \in BOOLEAN
  BY Zenon DEF Init
<1>3. <<>> \in Seq(Input) /\ <<>> \in Seq(Item)
  BY EmptySeq
<1> QED
  BY <1>1, <1>2, <1>3, Numbers DEF Init, TypeInv, TypeOK

(* Steps of the page. *)
LEMMA PageTypes ==
  ASSUME TypeInv, Type \/ TypeControlC \/ SendSignal \/ PageGoes
  PROVE  TypeInv'
<1> USE Numbers DEF TypeInv
<1>1. CASE Type
  BY <1>1 DEF Type, TypeOK, cache, kernel, Input
<1>2. CASE TypeControlC
  BY <1>2 DEF TypeControlC, TypeOK, cache, kernel, Input, Signal
<1>3. CASE SendSignal
  BY <1>3 DEF SendSignal, TypeOK, cache, kernel, Signal
<1>4. CASE Ask
  BY <1>4, FS_CardinalityType DEF Ask, TypeOK, cache, kernel
<1>5. ASSUME NEW a \in answers, Emit(a) PROVE TypeInv'
  <2> DEFINE shown == [i \in DOMAIN a.items |-> [stream |-> Shown(a.tag), item |-> a.items[i]]]
  <2>1. a.tag \in Stream /\ a.items \in Seq(Output) /\ Len(a.items) \in Nat
    BY <1>5, LenProperties DEF TypeOK, Answer
  <2>2. DOMAIN a.items = 1 .. Len(a.items) /\ \A i \in DOMAIN a.items : a.items[i] \in Output
    BY <2>1, ElementOfSeq, LenProperties
  <2>3. Shown(a.tag) \in Stream
    BY <2>1
  <2>4. \A i \in DOMAIN a.items : [stream |-> Shown(a.tag), item |-> a.items[i]] \in Item
    BY <2>2, <2>3 DEF Item
  <2>5. shown \in Seq(Item)
    BY <2>1, <2>2, <2>4
  <2> HIDE DEF shown
  <2>6. emitted' = emitted \o shown /\ answers' = answers \ {a}
        /\ UNCHANGED <<posted, asking, typed, sent, crossed, cache, kernel, arrived>>
    BY <1>5 DEF Emit, shown
  <2>7. emitted' \in Seq(Item)
    BY <2>5, <2>6, ConcatProperties DEF TypeOK
  <2>8. IsFiniteSet(answers')
    BY <2>6, FS_RemoveElement
  <2> QED
    BY <2>6, <2>7, <2>8 DEF TypeOK, cache, kernel
<1> QED
  BY <1>1, <1>2, <1>3, <1>4, <1>5 DEF PageGoes

(* Requests of the page, at the service worker. *)
LEMMA ServedTypes ==
  ASSUME TypeInv, ForThePage
  PROVE  TypeInv'
<1> USE Numbers DEF TypeInv
<1>1. ASSUME NEW m \in posted, HandleWriteStdin(m) PROVE TypeInv'
  <2>1. m.input \in Input
    BY <1>1 DEF HandleWriteStdin, TypeOK, Signal
  <2>2. Append(arrived, m.input) \in Seq(Input) /\ Append(stdin, m.input) \in Seq(Input)
    BY <2>1, AppendProperties DEF TypeOK
  <2>3. received \o Append(stdin, m.input) \in Seq(Input) /\ <<>> \in Seq(Input)
    BY <2>2, ConcatProperties, EmptySeq DEF TypeOK
  <2>4. waiter' \in BOOLEAN
    BY <1>1 DEF HandleWriteStdin, TypeOK
  <2> QED
    BY <1>1, <2>2, <2>3, <2>4 DEF HandleWriteStdin, Go, TypeOK
<1>2. ASSUME NEW m \in posted, HandleWriteSignal(m) PROVE TypeInv'
  BY <1>2 DEF HandleWriteSignal, TypeOK, kernel
<1>3. CASE HandleReadOutput
  <2>1. out # Empty => out \in Answer
    BY DEF TypeOK
  <2>2. IsFiniteSet(answers \cup {out})
    BY FS_AddElement
  <2>3. IsFiniteSet(answers') /\ \A a \in answers' : a \in Answer
    BY <1>3, <2>1, <2>2 DEF HandleReadOutput, TypeOK
  <2>4. crossed' \in BOOLEAN
    BY <1>3 DEF HandleReadOutput, TypeOK
  <2>5. asking' \in 0 .. MaxReads
    BY <1>3 DEF HandleReadOutput, TypeOK
  <2>6. out' = Empty /\ UNCHANGED <<posted, typed, sent, emitted, stdin, sig, waiter, kernel, arrived>>
    BY <1>3 DEF HandleReadOutput
  <2> QED
    BY <2>3, <2>4, <2>5, <2>6 DEF TypeOK, kernel
<1> QED
  BY <1>1, <1>2, <1>3 DEF ForThePage

(* The kernel worker reads input. *)
LEMMA ReadTypes ==
  ASSUME TypeInv, BeginRead \/ HandleReadStdin \/ StdinTimeOut
  PROVE  TypeInv'
<1> USE Numbers DEF TypeInv
<1>1. received \o stdin \in Seq(Input) /\ <<>> \in Seq(Input)
  BY ConcatProperties, EmptySeq DEF TypeOK
<1>2. waiter' \in BOOLEAN
  BY DEF BeginRead, HandleReadStdin, StdinTimeOut, TypeOK, cache
<1> QED
  BY <1>1, <1>2 DEF BeginRead, HandleReadStdin, StdinTimeOut, Go, TypeOK, page, cache

(* What it writes: numbered items, none of which is stored twice. *)
WriteInv ==
  /\ wpc \in {"write", "delayed"} => Len(written) > 0 /\ write = written[Len(written)]
  /\ \A i \in 1 .. Len(written) : written[i].item = i
  /\ out # Empty => out.tag \in Stream /\ out.items # <<>>
  /\ \A a \in answers : a.items # <<>>

(* What a write leaves in the cache is an answer. *)
LEMMA StoreTypes ==
  ASSUME TypeInv, WriteInv, NEW from \in {"write", "delayed"}, Store(from)
  PROVE  TypeInv' /\ out' \in Answer /\ out'.items = Append(out.items, write.item) /\ write.item \in Output
<1> USE Numbers DEF TypeInv
<1>1. write.item \in Output /\ write.stream \in Stream
  <2>1. wpc \in {"write", "delayed"}
    BY DEF Store, Go
  <2>2. Len(written) \in Nat /\ written[Len(written)] \in Item
    BY <2>1, ElementOfSeq, LenProperties DEF TypeOK, WriteInv
  <2> QED
    BY <2>1, <2>2 DEF WriteInv, Item
<1>2. out.items \in Seq(Output) /\ out.tag \in {0} \cup Stream
  <2>1. CASE out = Empty
    <3>1. out.items = <<>> /\ out.tag = 0
      BY <2>1 DEF Empty
    <3>2. <<>> \in Seq(Output)
      BY EmptySeq
    <3> QED
      BY <3>1, <3>2
  <2>2. CASE out \in Answer
    BY <2>2 DEF Answer
  <2> QED
    BY <2>1, <2>2 DEF TypeOK
<1>3. Append(out.items, write.item) \in Seq(Output)
  BY <1>1, <1>2, AppendProperties
<1>4. out' \in Answer /\ out'.items = Append(out.items, write.item)
  BY <1>1, <1>2, <1>3 DEF Store, Answer, Empty
<1>5. /\ wpc' = "idle"
      /\ UNCHANGED <<page, stdin, sig, waiter, write, checked, received, written, dropped, arrived>>
  BY DEF Store, Go
<1>6. TypeInv'
  BY <1>4, <1>5 DEF TypeOK, page
<1> QED
  BY <1>1, <1>4, <1>6

(* The kernel worker writes, waits and gives up. *)
LEMMA WriteTypes ==
  ASSUME TypeInv, WriteInv,
         \/ \E s \in Stream : BeginWrite(s)
         \/ HandleWriteOutput \/ Delay \/ Retry \/ GiveUp
  PROVE  TypeInv'
<1> USE Numbers DEF TypeInv
<1>1. ASSUME NEW s \in Stream, BeginWrite(s) PROVE TypeInv'
  <2>1. Len(written) \in Nat
    BY LenProperties DEF TypeOK
  <2>2. write' \in [stream : Stream, item : 0 .. MaxOutput] /\ write' \in Item
    BY <1>1, <2>1 DEF BeginWrite, Item, Output
  <2>3. written' \in Seq(Item)
    BY <1>1, <2>2, AppendProperties DEF BeginWrite, TypeOK
  <2> QED
    BY <1>1, <2>2, <2>3 DEF BeginWrite, Go, TypeOK, page, cache
<1>2. CASE HandleWriteOutput \/ Retry
  BY <1>2, StoreTypes DEF HandleWriteOutput, Retry
<1>3. CASE Delay
  BY <1>3 DEF Delay, Go, TypeOK, page, cache
<1>4. CASE GiveUp
  <2>1. dropped' \in BOOLEAN
    BY <1>4 DEF GiveUp
  <2> QED
    BY <1>4, <2>1 DEF GiveUp, Go, TypeOK, page, cache
<1> QED
  BY <1>1, <1>2, <1>3, <1>4

(* It asks for signals and sleeps. *)
LEMMA SignalTypes ==
  ASSUME TypeInv, BeginPoll \/ TimeGoesBy \/ HandlePoll \/ BeginSleep \/ NapOver \/ Look
  PROVE  TypeInv'
<1> USE DEF TypeInv
<1>1. checked' \in BOOLEAN
  BY DEF BeginPoll, TimeGoesBy, HandlePoll, BeginSleep, NapOver, Look, TypeOK
<1> QED
  BY <1>1 DEF BeginPoll, TimeGoesBy, HandlePoll, BeginSleep, NapOver, Look, Go, TypeOK, page, cache

-----------------------------------------------------------------------------
(* Input: a reader waits exactly when there is a function of its own, and  *)
(* nothing of what arrived is lost.                                        *)

(* One more item at the end of two sequences. *)
LEMMA ConcatAppend ==
  ASSUME NEW S, NEW p \in Seq(S), NEW q \in Seq(S), NEW e \in S
  PROVE  p \o Append(q, e) = Append(p \o q, e) /\ (p \o q) \o <<>> = p \o q
<1>1. p \o q \in Seq(S) /\ Append(q, e) \in Seq(S)
  BY ConcatProperties, AppendProperties
<1>2. q \o <<e>> = Append(q, e) /\ (p \o q) \o <<e>> = Append(p \o q, e) /\ <<e>> \in Seq(S)
  BY <1>1, AppendProperties
<1>3. p \o (q \o <<e>>) = (p \o q) \o <<e>>
  BY <1>2, ConcatAssociative
<1>4. (p \o q) \o <<>> = p \o q
  BY <1>1, ConcatEmptySeq
<1> QED
  BY <1>2, <1>3, <1>4

InputInv == ReaderSound /\ InputIntact

(* Every step keeps what is said of input. *)
LEMMA InputStep ==
  ASSUME TypeInv, InputInv, [Next]_vars
  PROVE  InputInv'
<1>1. /\ waiter \in BOOLEAN /\ (waiter <=> wpc = "reading") /\ (wpc = "reading" => stdin = <<>>)
      /\ received \o stdin = arrived /\ stdin \in Seq(Input) /\ received \in Seq(Input)
  BY Zenon DEF InputInv, ReaderSound, InputIntact, TypeInv, TypeOK
<1>2. CASE UNCHANGED <<stdin, waiter, received, arrived>> /\ (wpc' = "reading" <=> wpc = "reading")
  <2>1. waiter' = waiter /\ (waiter' <=> waiter)
    BY <1>2
  <2> QED
    BY Zenon, <1>1, <1>2, <2>1 DEF InputInv, ReaderSound, InputIntact
<1>3. ASSUME NEW m \in posted, HandleWriteStdin(m) PROVE InputInv'
  <2>1. m.input \in Input
    BY <1>3 DEF HandleWriteStdin, TypeInv, TypeOK, Signal
  <2>2. received \o Append(stdin, m.input) = Append(arrived, m.input)
    BY <1>1, <2>1, ConcatAppend
  <2>3. Append(arrived, m.input) \o <<>> = Append(arrived, m.input)
    BY <2>1, AppendProperties, ConcatEmptySeq DEF TypeInv, TypeOK
  <2>4. arrived' = Append(arrived, m.input)
    BY <1>3 DEF HandleWriteStdin
  <2>5. CASE waiter
    <3>1. waiter' = FALSE /\ wpc' = "idle" /\ received' = received \o Append(stdin, m.input) /\ stdin' = <<>>
      BY <1>3, <2>5 DEF HandleWriteStdin, Go
    <3> QED
      BY <2>2, <2>3, <2>4, <3>1 DEF InputInv, ReaderSound, InputIntact
  <2>6. CASE ~waiter
    <3>1. waiter' = waiter /\ wpc' = wpc /\ received' = received /\ stdin' = Append(stdin, m.input)
      BY <1>3, <2>6 DEF HandleWriteStdin, Go
    <3>2. ~waiter' /\ wpc' # "reading"
      BY <1>1, <2>6, <3>1
    <3> QED
      BY <2>2, <2>4, <3>1, <3>2 DEF InputInv, ReaderSound, InputIntact
  <2> QED
    BY Zenon, <2>5, <2>6
<1>4. CASE HandleReadStdin \/ StdinTimeOut
  <2>1. (received \o stdin) \o <<>> = arrived
    BY <1>1, ConcatProperties, ConcatEmptySeq
  <2>2. \/ waiter' = FALSE /\ wpc' = "idle" /\ received' = received \o stdin /\ stdin' = <<>> /\ arrived' = arrived
        \/ waiter' = TRUE /\ wpc' = "reading" /\ received' = received /\ stdin' = stdin /\ stdin = <<>> /\ arrived' = arrived
    <3>1. CASE StdinTimeOut
      BY <3>1 DEF StdinTimeOut, Go
    <3>2. CASE HandleReadStdin /\ stdin = <<>>
      BY <3>2 DEF HandleReadStdin, Go
    <3>3. CASE HandleReadStdin /\ stdin # <<>>
      <4>1. waiter' = waiter /\ ~waiter
        BY <1>1, <3>3 DEF HandleReadStdin, Go
      <4>2. waiter' = FALSE
        BY Zenon, <1>1, <4>1
      <4> QED
        BY <3>3, <4>2 DEF HandleReadStdin, Go
    <3> QED
      BY Zenon, <1>4, <3>1, <3>2, <3>3
  <2> QED
    BY <1>1, <2>1, <2>2 DEF InputInv, ReaderSound, InputIntact
<1>5. CASE Type \/ TypeControlC \/ SendSignal \/ PageGoes
  BY <1>2, <1>5 DEF Type, TypeControlC, SendSignal, PageGoes, Ask, Emit, cache, kernel
<1>6. ASSUME NEW m \in posted, HandleWriteSignal(m) PROVE InputInv'
  BY <1>2, <1>6 DEF HandleWriteSignal, kernel
<1>7. CASE HandleReadOutput
  BY <1>2, <1>7 DEF HandleReadOutput, kernel
<1>8. CASE HandleWriteOutput \/ Delay \/ Retry \/ GiveUp \/ \E s \in Stream : BeginWrite(s)
  BY <1>2, <1>8 DEF HandleWriteOutput, Delay, Retry, GiveUp, BeginWrite, Store, Go, page, cache
<1>9. CASE BeginPoll \/ TimeGoesBy \/ HandlePoll \/ BeginSleep \/ NapOver \/ Look \/ BeginRead
  BY <1>2, <1>9 DEF BeginPoll, TimeGoesBy, HandlePoll, BeginSleep, NapOver, Look, BeginRead, Go, page, cache
<1>10. CASE UNCHANGED vars
  BY <1>2, <1>10 DEF vars, page, cache, kernel
<1> QED
  BY Zenon, <1>3, <1>4, <1>5, <1>6, <1>7, <1>8, <1>9, <1>10 DEF Next, ForThePage, KernelGoes

-----------------------------------------------------------------------------
(* Output: as long as no write gave up, each stored item is in one place;  *)
(* as long as no answers crossed, the places are in order.                 *)

Stored == IF wpc \in {"write", "delayed"} THEN Len(written) - 1 ELSE Len(written)
Holds(a, k) == \E i \in DOMAIN a.items : a.items[i] = k
Shows(k) == \E i \in DOMAIN emitted : emitted[i].item = k
Waits(k) == \E a \in answers : Holds(a, k)
Rising(q) == \A i, j \in DOMAIN q : i < j => q[i] < q[j]

Batch(a) ==
  /\ Rising(a.items)
  /\ \A i \in DOMAIN a.items : a.items[i] \in 1 .. Stored /\ written[a.items[i]].stream = a.tag

Placed(k) ==
  /\ Shows(k) \/ Holds(out, k) \/ Waits(k)
  /\ Shows(k) => ~Holds(out, k) /\ ~Waits(k)
  /\ Waits(k) => ~Holds(out, k)
  /\ \A a, b \in answers : Holds(a, k) /\ Holds(b, k) => a = b

Once ==
  /\ \A a \in answers \cup {out} : Batch(a)
  /\ \A i \in DOMAIN emitted : emitted[i].item \in 1 .. Stored
  /\ \A i, j \in DOMAIN emitted : emitted[i].item = emitted[j].item => i = j
  /\ \A k \in 1 .. Stored : Placed(k)

InOrder ==
  /\ \A a, b \in answers : a = b
  /\ \A i, j \in DOMAIN emitted : i < j => emitted[i].item < emitted[j].item
  /\ \A k, l \in 1 .. Stored :
       /\ Shows(k) /\ (Holds(out, l) \/ Waits(l)) => k < l
       /\ Waits(k) /\ Holds(out, l) => k < l

OutputInv == WriteInv /\ (~dropped => Once /\ (~crossed => InOrder))

(* The parts of the output and their types. *)
LEMMA OutputFacts ==
  ASSUME TypeInv, WriteInv
  PROVE  /\ Len(written) \in Nat /\ Stored \in Int /\ DOMAIN written = 1 .. Len(written)
         /\ \A k \in DOMAIN written : written[k] \in Item
         /\ Len(emitted) \in Nat /\ DOMAIN emitted = 1 .. Len(emitted)
         /\ out.items \in Seq(Output) /\ \A a \in answers : a.items \in Seq(Output) /\ a.tag \in Stream
         /\ \A a \in answers \cup {out} : Len(a.items) \in Nat /\ DOMAIN a.items = 1 .. Len(a.items)
         /\ dropped \in BOOLEAN /\ crossed \in BOOLEAN
<1>1. written \in Seq(Item) /\ emitted \in Seq(Item)
  BY DEF TypeInv, TypeOK
<1>2. Len(written) \in Nat /\ DOMAIN written = 1 .. Len(written) /\ Len(emitted) \in Nat /\ DOMAIN emitted = 1 .. Len(emitted)
  BY <1>1, LenProperties
<1>3. out.items \in Seq(Output)
  <2>1. CASE out = Empty
    BY <2>1, EmptySeq DEF Empty
  <2> QED
    BY <2>1 DEF TypeInv, TypeOK, Answer
<1>4. \A a \in answers : a.items \in Seq(Output) /\ a.tag \in Stream
  BY DEF TypeInv, TypeOK, Answer
<1>5. \A k \in DOMAIN written : written[k] \in Item
  BY <1>1, ElementOfSeq, <1>2
<1>6. \A a \in answers \cup {out} : Len(a.items) \in Nat /\ DOMAIN a.items = 1 .. Len(a.items)
  BY <1>3, <1>4, LenProperties
<1>7. dropped \in BOOLEAN /\ crossed \in BOOLEAN
  BY Zenon DEF TypeInv, TypeOK
<1>8. Stored \in Int
  BY <1>2 DEF Stored
<1> QED
  BY <1>2, <1>3, <1>4, <1>5, <1>6, <1>7, <1>8

(* At most one element. *)
LEMMA AtMostOne ==
  ASSUME NEW S, IsFiniteSet(S), ~(Cardinality(S) > 1), NEW a \in S, NEW b \in S
  PROVE  a = b
<1>1. IsFiniteSet(S \ {a}) /\ Cardinality(S \ {a}) = Cardinality(S) - 1 /\ Cardinality(S) \in Nat
  BY FS_RemoveElement, FS_CardinalityType
<1>2. Cardinality(S \ {a}) \in Nat
  BY <1>1, FS_CardinalityType
<1>3. Cardinality(S \ {a}) = 0
  BY <1>1, <1>2
<1>4. S \ {a} = {}
  BY <1>1, <1>3, FS_EmptySet
<1> QED
  BY <1>4

(* Steps that leave output alone. *)
LEMMA OutputAlone ==
  ASSUME OutputInv, UNCHANGED <<out, answers, emitted, written, write, dropped, crossed>>,
         wpc' \in {"write", "delayed"} <=> wpc \in {"write", "delayed"}
  PROVE  OutputInv'
<1>1. Stored' = Stored
  BY DEF Stored
<1>2. WriteInv'
  BY DEF OutputInv, WriteInv
<1>3. (\A k : Shows(k)' <=> Shows(k)) /\ (\A k : Waits(k)' <=> Waits(k)) /\ (\A k : Holds(out, k)' <=> Holds(out, k))
  BY DEF Shows, Waits, Holds
<1>4. \A a : Batch(a)' <=> Batch(a)
  BY <1>1 DEF Batch
<1>5. answers' = answers /\ out' = out /\ emitted' = emitted /\ (dropped => dropped') /\ (crossed => crossed')
  OBVIOUS
<1>6. ASSUME Once PROVE Once'
  <2>1. \A k \in 1 .. Stored' : Placed(k)'
    BY Zenon, <1>1, <1>3, <1>5, <1>6 DEF Once, Placed
  <2> QED
    BY Zenon, <1>1, <1>4, <1>5, <1>6, <2>1 DEF Once
<1>7. ASSUME InOrder PROVE InOrder'
  BY Zenon, <1>1, <1>3, <1>5, <1>7 DEF InOrder
<1> QED
  BY Zenon, <1>2, <1>5, <1>6, <1>7 DEF OutputInv

(* A write begins: the item is numbered, but not stored yet. *)
LEMMA BeginWriteKeeps ==
  ASSUME TypeInv, OutputInv, NEW s \in Stream, BeginWrite(s)
  PROVE  OutputInv'
<1>1. /\ wpc = "idle" /\ wpc' = "write" /\ write' = [stream |-> s, item |-> Len(written) + 1]
      /\ written' = Append(written, write')
      /\ out' = out /\ answers' = answers /\ emitted' = emitted /\ dropped' = dropped /\ crossed' = crossed
  BY DEF BeginWrite, Go, page, cache
<1>2. WriteInv
  BY DEF OutputInv
<1>3. Len(written) \in Nat /\ DOMAIN written = 1 .. Len(written) /\ \A k \in DOMAIN written : written[k] \in Item
  BY <1>2, OutputFacts
<1>4. write' \in Item
  BY <1>1, <1>3, Numbers DEF BeginWrite, Item, Output
<1>5. Len(written') = Len(written) + 1 /\ written'[Len(written) + 1] = write'
      /\ \A k \in 1 .. Len(written) : written'[k] = written[k]
  BY <1>1, <1>4, AppendProperties DEF TypeInv, TypeOK
<1>6. Stored' = Stored /\ Stored = Len(written)
  BY <1>1, <1>3, <1>5 DEF Stored
<1>7. WriteInv'
  BY <1>1, <1>2, <1>3, <1>5 DEF WriteInv
<1>8. (\A k : Shows(k)' <=> Shows(k)) /\ (\A k : Waits(k)' <=> Waits(k)) /\ (\A k : Holds(out, k)' <=> Holds(out, k))
  BY <1>1 DEF Shows, Waits, Holds
<1>9. \A a : Batch(a) => Batch(a)'
  BY <1>3, <1>5, <1>6 DEF Batch
<1>10. (dropped => dropped') /\ (crossed => crossed')
  BY <1>1
<1>11. ASSUME Once PROVE Once'
  <2>1. \A k \in 1 .. Stored' : Placed(k)'
    BY Zenon, <1>1, <1>6, <1>8, <1>11 DEF Once, Placed
  <2> QED
    BY Zenon, <1>1, <1>6, <1>9, <1>11, <2>1 DEF Once
<1>12. ASSUME InOrder PROVE InOrder'
  BY Zenon, <1>1, <1>6, <1>8, <1>12 DEF InOrder
<1> QED
  BY Zenon, <1>7, <1>10, <1>11, <1>12 DEF OutputInv

(* It ends: the item is in the cache, behind the others of its stream. *)
LEMMA StoreKeeps ==
  ASSUME TypeInv, OutputInv, NEW from \in {"write", "delayed"}, Store(from)
  PROVE  OutputInv'
<1>1. WriteInv
  BY DEF OutputInv
<1>2. /\ wpc = from /\ wpc' = "idle" /\ Fits
      /\ out'.tag = (IF out.tag = 0 THEN write.stream ELSE out.tag)
      /\ answers' = answers /\ emitted' = emitted /\ written' = written /\ write' = write
      /\ dropped' = dropped /\ crossed' = crossed
  BY DEF Store, Go, page
<1>3. out' \in Answer /\ out'.items = Append(out.items, write.item) /\ write.item \in Output
  BY <1>1, StoreTypes
<1>4. PICK k : k = Len(written)
  OBVIOUS
<1>5. k \in Nat /\ k > 0 /\ write = written[k] /\ write.item = k
  BY <1>1, <1>2, <1>4, OutputFacts DEF WriteInv
<1>6. Stored = k - 1 /\ Stored' = k
  BY <1>2, <1>4 DEF Stored
<1>7. out.items \in Seq(Output) /\ Len(out.items) \in Nat /\ DOMAIN out.items = 1 .. Len(out.items)
  BY <1>1, OutputFacts
<1>8. /\ Len(out'.items) = Len(out.items) + 1 /\ DOMAIN out'.items = 1 .. Len(out.items) + 1
      /\ out'.items[Len(out.items) + 1] = k
      /\ \A i \in 1 .. Len(out.items) : out'.items[i] = out.items[i]
  BY <1>3, <1>5, <1>7, AppendProperties, LenProperties
<1>9. out'.items # <<>> /\ out'.tag \in Stream /\ out'.tag = written[k].stream
  <2>1. out'.items # <<>>
    BY <1>7, <1>8, EmptySeq
  <2>2. out'.tag \in Stream
    BY <1>3 DEF Answer
  <2>3. out'.tag = write.stream
    BY <1>2 DEF Fits
  <2> QED
    BY <1>5, <2>1, <2>2, <2>3
<1>10. WriteInv'
  BY <1>1, <1>2, <1>9 DEF WriteInv
<1>11. \A n : Holds(out, n)' <=> Holds(out, n) \/ n = k
  BY <1>7, <1>8 DEF Holds
<1>12. (\A n : Shows(n)' <=> Shows(n)) /\ (\A n : Waits(n)' <=> Waits(n))
  BY <1>2 DEF Shows, Waits, Holds
<1>13. (dropped => dropped') /\ (crossed => crossed')
  BY <1>2
<1>14. ASSUME Once PROVE /\ \A n : Shows(n) \/ Waits(n) \/ Holds(out, n) => n \in 1 .. k - 1
                         /\ \A a \in answers : ~Holds(a, k)
  BY <1>4, <1>5, <1>6, <1>14 DEF Once, Shows, Waits, Holds, Batch
<1>15. ASSUME Once PROVE Once'
  <2>1. ASSUME NEW a \in answers PROVE Batch(a)'
    BY <1>2, <1>5, <1>6, <1>15 DEF Once, Batch
  <2>2. Batch(out)'
    <3>1. Batch(out)
      BY <1>15 DEF Once
    <3>2. Rising(out'.items)
      BY <1>5, <1>6, <1>7, <1>8, <3>1 DEF Batch, Rising
    <3>3. \A i \in 1 .. Len(out.items) : written[out.items[i]].stream = out'.tag
      <4>1. CASE out = Empty
        BY <1>7, <4>1, EmptySeq DEF Empty
      <4>2. CASE out # Empty
        <5>1. out.tag \in Stream /\ out'.tag = out.tag
          BY <1>1, <1>2, <4>2, Numbers DEF WriteInv
        <5> QED
          BY <1>7, <3>1, <5>1 DEF Batch
      <4> QED
        BY <4>1, <4>2
    <3>4. \A i \in DOMAIN out'.items : out'.items[i] \in 1 .. k /\ written[out'.items[i]].stream = out'.tag
      BY <1>5, <1>6, <1>7, <1>8, <1>9, <3>1, <3>3 DEF Batch
    <3> QED
      BY <1>2, <1>6, <3>2, <3>4 DEF Batch
  <2>3. \A i \in DOMAIN emitted' : emitted'[i].item \in 1 .. Stored'
    BY <1>2, <1>5, <1>6, <1>15 DEF Once
  <2>4. \A i, j \in DOMAIN emitted' : emitted'[i].item = emitted'[j].item => i = j
    BY <1>2, <1>15 DEF Once
  <2>5. ASSUME NEW n \in 1 .. Stored' PROVE Placed(n)'
    <3>1. CASE n = k
      <4>1. ~Shows(n) /\ ~Waits(n) /\ \A a \in answers : ~Holds(a, n)
        BY <1>5, <1>14, <1>15, <3>1
      <4> QED
        BY Zenon, <1>2, <1>11, <1>12, <3>1, <4>1 DEF Placed
    <3>2. CASE n # k
      <4>1. n \in 1 .. Stored
        BY <1>5, <1>6, <3>2
      <4>2. Placed(n)
        BY <1>15, <4>1 DEF Once
      <4> QED
        BY Zenon, <1>2, <1>11, <1>12, <3>2, <4>2 DEF Placed
    <3> QED
      BY <3>1, <3>2
  <2> QED
    BY Zenon, <1>2, <2>1, <2>2, <2>3, <2>4, <2>5 DEF Once
<1>16. ASSUME Once, InOrder PROVE InOrder'
  <2>1. ASSUME NEW m \in 1 .. Stored', NEW n \in 1 .. Stored'
        PROVE  /\ Shows(m)' /\ (Holds(out, n)' \/ Waits(n)') => m < n
               /\ Waits(m)' /\ Holds(out, n)' => m < n
    <3>1. CASE n = k
      <4>1. Shows(m) \/ Waits(m) => m < k
        BY <1>5, <1>14, <1>16
      <4> QED
        BY Zenon, <1>12, <3>1, <4>1
    <3>2. CASE n # k
      <4>1. n \in 1 .. Stored
        BY <1>5, <1>6, <3>2
      <4>2. Shows(m) \/ Waits(m) => m \in 1 .. Stored
        BY Zenon, <1>6, <1>14, <1>16
      <4> QED
        BY Zenon, <1>11, <1>12, <1>16, <3>2, <4>1, <4>2 DEF InOrder
    <3> QED
      BY <3>1, <3>2
  <2> QED
    BY Zenon, <1>2, <1>16, <2>1 DEF InOrder
<1> QED
  BY Zenon, <1>10, <1>13, <1>15, <1>16 DEF OutputInv

(* The page is answered: the cache becomes an answer under way. *)
LEMMA AnswerKeeps ==
  ASSUME TypeInv, OutputInv, HandleReadOutput
  PROVE  OutputInv'
<1>1. WriteInv
  BY DEF OutputInv
<1>2. /\ answers' = (IF out = Empty THEN answers ELSE answers \cup {out})
      /\ out' = Empty /\ emitted' = emitted /\ written' = written /\ write' = write /\ wpc' = wpc
      /\ dropped' = dropped /\ crossed' = (crossed \/ Cardinality(answers') > 1)
  BY DEF HandleReadOutput, kernel
<1>3. out'.items = <<>> /\ DOMAIN out'.items = {} /\ out'.tag = 0
  BY <1>2 DEF Empty
<1>4. out = Empty => DOMAIN out.items = {}
  BY DEF Empty
<1>5. Stored' = Stored
  BY <1>2 DEF Stored
<1>6. WriteInv'
  BY <1>1, <1>2 DEF WriteInv
<1>7. \A k : Shows(k)' <=> Shows(k)
  BY <1>2 DEF Shows
<1>8. \A k : ~Holds(out, k)'
  BY <1>3 DEF Holds
<1>9. \A k : Waits(k)' <=> Waits(k) \/ Holds(out, k)
  <2>1. CASE out = Empty
    BY <1>2, <1>4, <2>1 DEF Waits, Holds
  <2>2. CASE out # Empty
    BY <1>2, <2>2 DEF Waits, Holds
  <2> QED
    BY <2>1, <2>2
<1>10. \A a : Batch(a)' <=> Batch(a)
  BY <1>2, <1>5 DEF Batch
<1>11. Batch(out)'
  <2>1. Rising(out'.items)
    BY <1>3 DEF Rising
  <2> QED
    BY <1>3, <2>1 DEF Batch
<1>12. ASSUME Once PROVE Once'
  <2>1. \A a \in answers' : Batch(a)'
    BY Zenon, <1>2, <1>10, <1>12 DEF Once
  <2>2. \A i \in DOMAIN emitted' : emitted'[i].item \in 1 .. Stored'
    BY <1>2, <1>5, <1>12 DEF Once
  <2>3. \A i, j \in DOMAIN emitted' : emitted'[i].item = emitted'[j].item => i = j
    BY <1>2, <1>12 DEF Once
  <2>4. ASSUME NEW k \in 1 .. Stored' PROVE Placed(k)'
    <3>1. Placed(k)
      BY Zenon, <1>5, <1>12 DEF Once
    <3>2. ASSUME NEW a \in answers', NEW b \in answers', Holds(a, k), Holds(b, k) PROVE a = b
      <4>1. a \in answers \/ a = out
        BY <1>2
      <4>2. b \in answers \/ b = out
        BY <1>2
      <4> QED
        BY Zenon, <3>1, <3>2, <4>1, <4>2 DEF Placed, Waits
    <3>3. Shows(k)' => ~Waits(k)'
      BY Zenon, <1>7, <1>9, <3>1 DEF Placed
    <3>4. Shows(k)' \/ Waits(k)'
      BY Zenon, <1>7, <1>9, <3>1 DEF Placed
    <3> QED
      BY Zenon, <1>8, <3>2, <3>3, <3>4 DEF Placed
  <2> QED
    BY Zenon, <1>11, <2>1, <2>2, <2>3, <2>4 DEF Once
<1>13. ASSUME Once, InOrder, ~(Cardinality(answers') > 1) PROVE InOrder'
  <2>1. IsFiniteSet(answers')
    <3>1. IsFiniteSet(answers)
      BY DEF TypeInv
    <3>2. IsFiniteSet(answers \cup {out})
      BY <3>1, FS_AddElement
    <3> QED
      BY <1>2, <3>1, <3>2
  <2>2. \A a, b \in answers' : a = b
    BY Zenon, <1>13, <2>1, AtMostOne
  <2>3. \A i, j \in DOMAIN emitted' : i < j => emitted'[i].item < emitted'[j].item
    BY <1>2, <1>13 DEF InOrder
  <2>4. \A k, l \in 1 .. Stored' : Shows(k)' /\ Waits(l)' => k < l
    BY Zenon, <1>5, <1>7, <1>9, <1>13 DEF InOrder
  <2> QED
    BY Zenon, <1>8, <2>2, <2>3, <2>4 DEF InOrder
<1>14. (dropped => dropped') /\ (~crossed' => ~crossed /\ ~(Cardinality(answers') > 1))
  BY <1>1, <1>2, OutputFacts
<1> QED
  BY Zenon, <1>6, <1>12, <1>13, <1>14 DEF OutputInv

(* An answer arrives: its items are shown, one after the other. *)
LEMMA EmitKeeps ==
  ASSUME TypeInv, OutputInv, NEW a \in answers, Emit(a)
  PROVE  OutputInv'
<1>1. WriteInv
  BY DEF OutputInv
<1> DEFINE shown == [i \in DOMAIN a.items |-> [stream |-> Shown(a.tag), item |-> a.items[i]]]
<1>2. /\ answers' = answers \ {a} /\ emitted' = emitted \o shown
      /\ out' = out /\ written' = written /\ write' = write /\ wpc' = wpc
      /\ dropped' = dropped /\ crossed' = crossed
  BY DEF Emit, kernel, cache
<1>3. /\ Len(emitted) \in Nat /\ DOMAIN emitted = 1 .. Len(emitted)
      /\ Len(a.items) \in Nat /\ DOMAIN a.items = 1 .. Len(a.items)
      /\ a.items \in Seq(Output) /\ a.tag \in Stream
  BY <1>1, OutputFacts
<1>4. \A i \in DOMAIN a.items : a.items[i] \in Output
  BY <1>3, ElementOfSeq
<1>5. shown \in Seq(Item) /\ Len(shown) = Len(a.items)
  <2>1. Shown(a.tag) \in Stream
    BY <1>3, Numbers
  <2>2. \A i \in DOMAIN a.items : [stream |-> Shown(a.tag), item |-> a.items[i]] \in Item
    BY <1>4, <2>1 DEF Item
  <2>3. shown \in [1 .. Len(a.items) -> Item]
    BY <1>3, <2>2
  <2>4. shown \in Seq(Item)
    BY <1>3, <2>3
  <2>5. DOMAIN shown = 1 .. Len(a.items)
    BY <1>3
  <2> HIDE DEF shown
  <2>6. Len(shown) \in Nat /\ DOMAIN shown = 1 .. Len(shown)
    BY <2>4, LenProperties
  <2> QED
    BY <1>3, <2>4, <2>5, <2>6
<1>6. \A i \in DOMAIN a.items : shown[i].item = a.items[i]
  OBVIOUS
<1> HIDE DEF shown
<1>7. PICK n \in Nat : n = Len(emitted)
  BY <1>3
<1>8. PICK m \in Nat : m = Len(a.items)
  BY <1>3
<1>9. /\ Len(emitted') = n + m /\ DOMAIN emitted' = 1 .. n + m
      /\ \A i \in 1 .. n : emitted'[i] = emitted[i]
      /\ \A i \in n + 1 .. n + m : emitted'[i].item = a.items[i - n] /\ i - n \in 1 .. m
  <2>1. emitted \in Seq(Item)
    BY DEF TypeInv, TypeOK
  <2>2. /\ emitted \o shown \in Seq(Item) /\ Len(emitted \o shown) = n + m
        /\ \A i \in 1 .. n + m : (emitted \o shown)[i] = IF i <= n THEN emitted[i] ELSE shown[i - n]
    BY <1>5, <1>7, <1>8, <2>1, ConcatProperties
  <2>3. emitted' \in Seq(Item) /\ Len(emitted') = n + m /\ DOMAIN emitted' = 1 .. n + m
    BY <1>2, <2>2, LenProperties
  <2>4. \A i \in 1 .. n + m : emitted'[i] = IF i <= n THEN emitted[i] ELSE shown[i - n]
    BY Zenon, <1>2, <2>2
  <2>5. \A i \in 1 .. n : emitted'[i] = emitted[i]
    BY <2>4
  <2>6. ASSUME NEW i \in n + 1 .. n + m PROVE emitted'[i].item = a.items[i - n] /\ i - n \in 1 .. m
    <3>1. i - n \in 1 .. m /\ i \in 1 .. n + m /\ ~(i <= n)
      OBVIOUS
    <3>2. emitted'[i] = shown[i - n]
      BY <2>4, <3>1
    <3> QED
      BY <1>3, <1>6, <1>8, <3>1, <3>2
  <2> QED
    BY <2>3, <2>5, <2>6
<1>10. \A i \in 1 .. n + m : i \in 1 .. n \/ i \in n + 1 .. n + m
  OBVIOUS
<1>11. DOMAIN emitted = 1 .. n /\ DOMAIN a.items = 1 .. m
  BY <1>3, <1>7, <1>8
<1>12. Stored' = Stored /\ WriteInv'
  BY <1>1, <1>2 DEF Stored, WriteInv
<1>13. \A k : Shows(k)' <=> Shows(k) \/ Holds(a, k)
  <2>1. ASSUME NEW k, Shows(k) PROVE Shows(k)'
    BY <1>9, <1>11, <2>1 DEF Shows
  <2>2. ASSUME NEW k, Holds(a, k) PROVE Shows(k)'
    <3>1. PICK i \in 1 .. m : a.items[i] = k
      BY <1>11, <2>2 DEF Holds
    <3>2. i + n \in n + 1 .. n + m /\ i + n \in 1 .. n + m /\ (i + n) - n = i
      OBVIOUS
    <3>3. emitted'[i + n].item = k
      BY <1>9, <3>1, <3>2
    <3> QED
      BY <1>9, <3>2, <3>3 DEF Shows
  <2>3. ASSUME NEW k, Shows(k)' PROVE Shows(k) \/ Holds(a, k)
    BY <1>9, <1>10, <1>11, <2>3 DEF Shows, Holds
  <2> QED
    BY Zenon, <2>1, <2>2, <2>3
<1>14. \A k : Holds(out, k)' <=> Holds(out, k)
  BY <1>2 DEF Holds
<1>15. \A k : Waits(k)' => Waits(k)
  BY <1>2 DEF Waits
<1>16. \A k : Waits(k) => Waits(k)' \/ Holds(a, k)
  BY <1>2 DEF Waits
<1>17. \A b : Batch(b)' <=> Batch(b)
  BY <1>2, <1>12 DEF Batch
<1>18. (dropped => dropped') /\ (crossed => crossed')
  BY <1>2
<1>19. ASSUME Once PROVE /\ Batch(a) /\ \A i \in 1 .. m : Holds(a, a.items[i]) /\ Waits(a.items[i]) /\ a.items[i] \in 1 .. Stored
                         /\ \A i \in 1 .. n : Shows(emitted[i].item) /\ emitted[i].item \in 1 .. Stored
  BY <1>11, <1>19 DEF Once, Batch, Holds, Waits, Shows
<1>20. ASSUME Once PROVE Once'
  <2>1. \A b \in answers' \cup {out'} : Batch(b)'
    BY Zenon, <1>2, <1>17, <1>20 DEF Once
  <2>2. \A i \in DOMAIN emitted' : emitted'[i].item \in 1 .. Stored'
    BY <1>9, <1>10, <1>12, <1>19, <1>20
  <2>3. ASSUME NEW i \in DOMAIN emitted', NEW j \in DOMAIN emitted', emitted'[i].item = emitted'[j].item
        PROVE  i = j
    <3>1. CASE i \in 1 .. n /\ j \in 1 .. n
      BY <1>9, <1>11, <1>20, <2>3, <3>1 DEF Once
    <3>2. ASSUME NEW x \in 1 .. n, NEW y \in n + 1 .. n + m PROVE emitted'[x].item # emitted'[y].item
      <4>1. y - n \in 1 .. m /\ emitted'[y].item = a.items[y - n] /\ emitted'[x].item = emitted[x].item
        BY <1>9
      <4>2. Waits(a.items[y - n]) /\ a.items[y - n] \in 1 .. Stored /\ Shows(emitted[x].item)
        BY <1>19, <1>20, <4>1
      <4> QED
        BY Zenon, <1>20, <4>1, <4>2 DEF Once, Placed
    <3>3. CASE i \in n + 1 .. n + m /\ j \in n + 1 .. n + m
      <4>1. /\ i - n \in 1 .. m /\ j - n \in 1 .. m /\ a.items[i - n] = a.items[j - n]
        BY <1>9, <2>3, <3>3
      <4>2. /\ a.items[i - n] \in 1 .. Stored /\ a.items[j - n] \in 1 .. Stored /\ Rising(a.items)
        BY <1>19, <1>20, <4>1 DEF Batch
      <4>3. \A x, y \in 1 .. m : x < y => a.items[x] < a.items[y]
        BY <1>11, <4>2 DEF Rising
      <4>4. PICK p \in Int : p = a.items[i - n]
        BY <4>2
      <4>5. (i - n < j - n => p < p) /\ (j - n < i - n => p < p)
        BY Zenon, <4>1, <4>3, <4>4
      <4>6. ~(i - n < j - n) /\ ~(j - n < i - n)
        BY <4>5
      <4>7. i \in Nat /\ j \in Nat
        BY <1>7, <1>8, <3>3
      <4> QED
        BY <1>7, <4>6, <4>7
    <3> QED
      BY <1>9, <1>10, <2>3, <3>1, <3>2, <3>3
  <2>4. ASSUME NEW k \in 1 .. Stored' PROVE Placed(k)'
    <3>1. Placed(k)
      BY Zenon, <1>12, <1>20 DEF Once
    <3>2. Holds(a, k) => Waits(k) /\ ~Waits(k)'
      <4>1. Holds(a, k) => \A b \in answers : Holds(b, k) => b = a
        BY Zenon, <3>1 DEF Placed
      <4> QED
        BY Zenon, <1>2, <4>1 DEF Waits
    <3>3. \A b, c \in answers' : Holds(b, k) /\ Holds(c, k) => b = c
      BY Zenon, <1>2, <3>1 DEF Placed
    <3>4. Shows(k)' \/ Holds(out, k)' \/ Waits(k)'
      BY Zenon, <1>13, <1>14, <1>16, <3>1 DEF Placed
    <3>5. Shows(k)' => ~Holds(out, k)' /\ ~Waits(k)'
      BY Zenon, <1>13, <1>14, <1>15, <3>1, <3>2 DEF Placed
    <3>6. Waits(k)' => ~Holds(out, k)'
      BY Zenon, <1>14, <1>15, <3>1 DEF Placed
    <3> QED
      BY Zenon, <3>3, <3>4, <3>5, <3>6 DEF Placed
  <2> QED
    BY Zenon, <2>1, <2>2, <2>3, <2>4 DEF Once
<1>21. ASSUME Once, InOrder PROVE InOrder'
  <2>1. \A b, c \in answers' : b = c
    BY Zenon, <1>2, <1>21 DEF InOrder
  <2>2. ~(\E b \in answers' : TRUE)
    BY Zenon, <1>2, <1>21 DEF InOrder
  <2>3. ASSUME NEW i \in DOMAIN emitted', NEW j \in DOMAIN emitted', i < j
        PROVE  emitted'[i].item < emitted'[j].item
    <3>1. CASE j \in 1 .. n
      <4>1. i \in 1 .. n
        BY <1>9, <2>3, <3>1
      <4> QED
        BY <1>9, <1>11, <1>21, <2>3, <3>1, <4>1 DEF InOrder
    <3>2. CASE i \in 1 .. n /\ j \in n + 1 .. n + m
      <4>1. j - n \in 1 .. m /\ emitted'[j].item = a.items[j - n] /\ emitted'[i].item = emitted[i].item
        BY <1>9, <3>2
      <4>2. Waits(a.items[j - n]) /\ a.items[j - n] \in 1 .. Stored
            /\ Shows(emitted[i].item) /\ emitted[i].item \in 1 .. Stored
        BY <1>19, <1>21, <3>2, <4>1
      <4>3. emitted[i].item < a.items[j - n]
        BY Zenon, <1>21, <4>2 DEF InOrder
      <4> QED
        BY Zenon, <4>1, <4>3
    <3>3. CASE i \in n + 1 .. n + m /\ j \in n + 1 .. n + m
      <4>1. /\ i - n \in 1 .. m /\ j - n \in 1 .. m /\ i - n < j - n
            /\ emitted'[i].item = a.items[i - n] /\ emitted'[j].item = a.items[j - n]
        BY <1>9, <2>3, <3>3
      <4>2. Rising(a.items)
        BY <1>19, <1>21 DEF Batch
      <4>3. a.items[i - n] < a.items[j - n]
        BY <1>11, <4>1, <4>2 DEF Rising
      <4> QED
        BY Zenon, <4>1, <4>3
    <3> QED
      BY <1>9, <1>10, <2>3, <3>1, <3>2, <3>3
  <2>4. \A k : ~Waits(k)'
    BY Zenon, <2>2 DEF Waits
  <2>5. \A k, l \in 1 .. Stored' : Shows(k)' /\ Holds(out, l)' => k < l
    <3>1. \A k : Holds(a, k) => Waits(k)
      BY Zenon DEF Waits
    <3> QED
      BY Zenon, <1>12, <1>13, <1>14, <1>21, <3>1 DEF InOrder
  <2> QED
    BY Zenon, <2>1, <2>3, <2>4, <2>5 DEF InOrder
<1> QED
  BY Zenon, <1>12, <1>18, <1>20, <1>21 DEF OutputInv

(* A write gives up: from here on only its own item counts. *)
LEMMA GiveUpKeeps ==
  ASSUME TypeInv, OutputInv, GiveUp
  PROVE  OutputInv'
<1>1. wpc' = "idle" /\ dropped' /\ UNCHANGED <<out, answers, written, write>>
  BY DEF GiveUp, Go, page, cache
<1>2. WriteInv'
  BY <1>1 DEF OutputInv, WriteInv
<1> QED
  BY Zenon, <1>1, <1>2 DEF OutputInv

(* Every step keeps what is said of output. *)
LEMMA OutputStep ==
  ASSUME TypeInv, OutputInv, [Next]_vars
  PROVE  OutputInv'
<1>1. ASSUME NEW m \in posted, HandleWriteStdin(m) PROVE OutputInv'
  <2>1. /\ UNCHANGED <<out, answers, emitted, written, write, dropped, crossed>>
        /\ wpc' = wpc \/ (wpc = "reading" /\ wpc' = "idle")
    BY <1>1 DEF HandleWriteStdin, Go
  <2> QED
    BY <2>1, OutputAlone
<1>2. ASSUME NEW m \in posted, HandleWriteSignal(m) PROVE OutputInv'
  BY <1>2, OutputAlone DEF HandleWriteSignal, kernel
<1>3. CASE HandleReadStdin \/ StdinTimeOut \/ BeginRead
  BY <1>3, OutputAlone DEF HandleReadStdin, StdinTimeOut, BeginRead, Go, page, cache
<1>4. CASE Type \/ TypeControlC \/ SendSignal \/ Ask
  BY <1>4, OutputAlone DEF Type, TypeControlC, SendSignal, Ask, cache, kernel
<1>5. CASE BeginPoll \/ TimeGoesBy \/ HandlePoll \/ BeginSleep \/ NapOver \/ Look
  BY <1>5, OutputAlone DEF BeginPoll, TimeGoesBy, HandlePoll, BeginSleep, NapOver, Look, Go, page, cache
<1>6. CASE Delay
  BY <1>6, OutputAlone DEF Delay, Go, page, cache
<1>7. CASE UNCHANGED vars
  BY <1>7, OutputAlone DEF vars, page, cache, kernel
<1>8. CASE HandleWriteOutput \/ Retry
  BY <1>8, StoreKeeps DEF HandleWriteOutput, Retry
<1> QED
  BY Zenon, <1>1, <1>2, <1>3, <1>4, <1>5, <1>6, <1>7, <1>8, BeginWriteKeeps, AnswerKeeps, EmitKeeps, GiveUpKeeps
     DEF Next, PageGoes, ForThePage, KernelGoes

-----------------------------------------------------------------------------
(* The theorems *)

StreamInv == TypeInv /\ InputInv /\ OutputInv

(* It holds in the first state. *)
LEMMA StreamStart == Init => StreamInv
<1> SUFFICES ASSUME Init PROVE StreamInv
  OBVIOUS
<1>1. TypeInv
  BY InitTypes
<1>2. InputInv
  <2>1. waiter = FALSE /\ wpc = "idle" /\ stdin = <<>> /\ received = <<>> /\ arrived = <<>>
    BY DEF Init
  <2>2. ~waiter
    BY Zenon, <2>1
  <2>3. received \o stdin = arrived
    <3>1. <<>> \o <<>> = <<>>
      BY EmptySeq, ConcatEmptySeq
    <3> QED
      BY <2>1, <3>1
  <2> QED
    BY <2>1, <2>2, <2>3 DEF InputInv, ReaderSound, InputIntact
<1>3. /\ out = Empty /\ out.items = <<>> /\ DOMAIN out.items = {} /\ answers = {}
      /\ wpc = "idle" /\ written = <<>> /\ emitted = <<>> /\ Len(written) = 0 /\ DOMAIN emitted = {}
  BY DEF Init, Empty
<1>4. Stored = 0 /\ 1 .. Stored = {} /\ 1 .. Len(written) = {}
  BY <1>3 DEF Stored
<1>5. WriteInv
  BY <1>3, <1>4 DEF WriteInv
<1>6. Rising(out.items)
  BY <1>3 DEF Rising
<1>7. Once
  BY <1>3, <1>4, <1>6 DEF Once, Batch
<1>8. InOrder
  BY <1>3, <1>4 DEF InOrder
<1> QED
  BY Zenon, <1>1, <1>2, <1>5, <1>7, <1>8 DEF StreamInv, OutputInv

(* Every step keeps it. *)
LEMMA StreamStep == StreamInv /\ [Next]_vars => StreamInv'
<1> SUFFICES ASSUME StreamInv, [Next]_vars PROVE StreamInv'
  OBVIOUS
<1>1. TypeInv /\ InputInv /\ OutputInv /\ WriteInv
  BY DEF StreamInv, OutputInv
<1>2. TypeInv'
  <2>1. CASE UNCHANGED vars
    BY <1>1, <2>1 DEF vars, page, cache, kernel, TypeInv, TypeOK
  <2> QED
    BY Zenon, <1>1, <2>1, PageTypes, ServedTypes, ReadTypes, WriteTypes, SignalTypes DEF Next, KernelGoes
<1>3. InputInv' /\ OutputInv'
  BY <1>1, InputStep, OutputStep
<1> QED
  BY <1>2, <1>3 DEF StreamInv

(* The invariant, for every behaviour. *)
LEMMA StreamHolds == Spec => []StreamInv
<1> QED
  BY StreamStart, StreamStep, PTL DEF Spec

(* A set without two elements has as many as it looks. *)
LEMMA NoneOrOne ==
  ASSUME NEW T, \A x, y \in T : x = y
  PROVE  (T = {} => Cardinality(T) = 0) /\ (T # {} => Cardinality(T) = 1)
<1>1. Cardinality({}) = 0
  BY FS_EmptySet
<1>2. ASSUME T # {} PROVE Cardinality(T) = 1
  <2>1. PICK x : T = {x}
    BY <1>2
  <2> QED
    BY <2>1, FS_Singleton
<1> QED
  BY <1>1, <1>2

(* An item in one place is there once. *)
LEMMA PlacedOnce ==
  ASSUME StreamInv, ~dropped, NEW k \in 1 .. Stored
  PROVE  Cardinality({i \in DOMAIN emitted : emitted[i].item = k})
         + Cardinality({a \in answers : \E i \in DOMAIN a.items : a.items[i] = k})
         + Cardinality({i \in DOMAIN out.items : out.items[i] = k}) = 1
<1>1. TypeInv /\ WriteInv /\ Once
  BY DEF StreamInv, OutputInv
<1>2. Placed(k) /\ Batch(out)
  BY <1>1 DEF Once
<1> DEFINE E == {i \in DOMAIN emitted : emitted[i].item = k}
           A == {a \in answers : \E i \in DOMAIN a.items : a.items[i] = k}
           O == {i \in DOMAIN out.items : out.items[i] = k}
<1>3. (E # {} <=> Shows(k)) /\ (A # {} <=> Waits(k)) /\ (O # {} <=> Holds(out, k))
  BY DEF Shows, Waits, Holds
<1>4. \A x, y \in E : x = y
  BY <1>1 DEF Once
<1>5. \A x, y \in A : x = y
  BY <1>2 DEF Placed, Holds
<1>6. \A x, y \in O : x = y
  <2>1. DOMAIN out.items = 1 .. Len(out.items) /\ Len(out.items) \in Nat
    BY <1>1, OutputFacts
  <2>2. SUFFICES ASSUME NEW x \in O, NEW y \in O PROVE x = y
    OBVIOUS
  <2>3. x \in Int /\ y \in Int /\ k \in Int /\ out.items[x] = k /\ out.items[y] = k
    BY <1>1, <2>1, OutputFacts
  <2>4. (x < y => k < k) /\ (y < x => k < k)
    BY <1>2, <2>3 DEF Batch, Rising
  <2> QED
    BY <2>3, <2>4
<1>7. /\ Cardinality(E) = IF Shows(k) THEN 1 ELSE 0
      /\ Cardinality(A) = IF Waits(k) THEN 1 ELSE 0
      /\ Cardinality(O) = IF Holds(out, k) THEN 1 ELSE 0
  <2> HIDE DEF E, A, O
  <2> QED
    BY <1>3, <1>4, <1>5, <1>6, NoneOrOne
<1> HIDE DEF E, A, O
<1>8. \/ Shows(k) /\ ~Waits(k) /\ ~Holds(out, k)
      \/ ~Shows(k) /\ Waits(k) /\ ~Holds(out, k)
      \/ ~Shows(k) /\ ~Waits(k) /\ Holds(out, k)
  BY Zenon, <1>2 DEF Placed
<1>9. Cardinality(E) + Cardinality(A) + Cardinality(O) = 1
  BY <1>7, <1>8
<1> QED
  BY <1>9 DEF E, A, O

(* The invariant says what was to be shown of output. *)
LEMMA OutputKept == StreamInv => OutputIntact
<1> SUFFICES ASSUME StreamInv, ~dropped
             PROVE  /\ \A k \in 1 .. Stored :
                         Cardinality({i \in DOMAIN emitted : emitted[i].item = k})
                         + Cardinality({a \in answers : \E i \in DOMAIN a.items : a.items[i] = k})
                         + Cardinality({i \in DOMAIN out.items : out.items[i] = k}) = 1
                    /\ \A a \in answers \cup {out} :
                         \A i \in DOMAIN a.items : written[a.items[i]].stream = a.tag
                    /\ ~crossed => \A i, j \in DOMAIN emitted : i < j => emitted[i].item < emitted[j].item
  BY Zenon DEF OutputIntact, Stored
<1>1. Once /\ (~crossed => InOrder)
  BY Zenon DEF StreamInv, OutputInv
<1>2. \A a \in answers \cup {out} : \A i \in DOMAIN a.items : written[a.items[i]].stream = a.tag
  BY Zenon, <1>1 DEF Once, Batch
<1>3. ~crossed => \A i, j \in DOMAIN emitted : i < j => emitted[i].item < emitted[j].item
  BY Zenon, <1>1 DEF InOrder
<1> QED
  BY Zenon, <1>2, <1>3, PlacedOnce

(* Every variable keeps its type.                                          *)
THEOREM TypeCorrect == Spec => []TypeOK
<1>1. StreamInv => TypeOK
  BY DEF StreamInv, TypeInv
<1> QED
  BY <1>1, StreamHolds, PTL

(* However input, timeouts and reads of the kernel worker meet, the        *)
(* function in callOnStdin is that of its one reader, and no reader waits  *)
(* for input that is there.                                                *)
THEOREM ReaderServed == Spec => []ReaderSound
<1>1. StreamInv => ReaderSound
  BY DEF StreamInv, InputInv
<1> QED
  BY <1>1, StreamHolds, PTL

(* Both streams keep what went in: input is returned once and in order;    *)
(* output that was stored is in one place as long as no write gave up, and *)
(* in order as long as no answers crossed.                                 *)
THEOREM StreamsKept == Spec => []StreamsIntact
<1>1. StreamInv => StreamsIntact
  BY OutputKept DEF StreamInv, InputInv, TypeInv, StreamsIntact
<1> QED
  BY <1>1, StreamHolds, PTL

===============================================================================
