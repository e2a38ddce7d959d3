------------------------------ MODULE AtomicsInput ------------------------------
(***************************************************************************)
(* Input and signals for the kernel worker through shared memory           *)
(* (core/kernel/src/wasm/io-using-atomics.ts, writeToStdin and signal;     *)
(* core/kernel/src/wasm/import.ts, writeToStdin;                           *)
(* core/kernel/src/wasm/worker/io-using-atomics.ts, getStdin,              *)
(* getSignalState and sleep).                                              *)
(*                                                                         *)
(* The grain is that of AtomicsOutput: a load or a store of a shared word  *)
(* is a step, and so is a copy of several cells.  Bytes have an identity,  *)
(* 1 and up; 0 is the byte of a fresh buffer.                              *)
(***************************************************************************)
EXTENDS Integers, Sequences

CONSTANTS
  Cap,         \* cells of stdinBuffer (10000 in the code)
  MaxBytes,    \* bound: bytes typed in a run
  MaxSignals,  \* bound: signals sent in a run
  MaxSlices    \* bound: slices of 500 ms in one sleep

ASSUME BoundAssumption ==
  Cap \in Nat \ {0} /\ MaxBytes \in Nat /\ MaxSignals \in Nat /\ MaxSlices \in Nat

SIGINT == 2
Byte == 1 .. MaxBytes

VARIABLES
  buf,         \* stdinBuffer
  len,         \* stdinLength[0]
  sig,         \* signalState[0]
  mpc,         \* where the main thread is in writeToStdin
  text,        \* the bytes being written
  intr,        \* they include a control-C
  sum,         \* the length the main thread is going to store
  wpc,         \* where the worker is
  n,           \* the shared word the worker has loaded
  got,         \* the bytes it has copied out
  slices,      \* what is left of a sleep
  handed,      \* history: how many bytes were typed
  sent,        \* history: how many signals were sent
  written,     \* history: bytes stored, in order
  received,    \* history: bytes returned by getStdin, in order
  unseen,      \* history: a signal was sent since the last one was returned
  overlapped,  \* history: a write and a read overlapped
  overflowed   \* history: a length above Cap was stored

shared == <<buf, len, sig>>
main == <<mpc, text, intr, sum, handed, sent, written, overflowed>>
worker == <<wpc, n, got, slices, received>>
vars == <<shared, main, worker, unseen, overlapped>>

Init ==
  /\ buf = [i \in 1 .. Cap |-> 0] /\ len = 0 /\ sig = 0
  /\ mpc = "idle" /\ text = <<>> /\ intr = FALSE /\ sum = 0
  /\ wpc = "idle" /\ n = 0 /\ got = <<>> /\ slices = 0
  /\ handed = 0 /\ sent = 0
  /\ written = <<>> /\ received = <<>>
  /\ unseen = FALSE /\ overlapped = FALSE /\ overflowed = FALSE

NoteOverlap ==
  overlapped' = (overlapped \/ (mpc' \in {"count", "store"} /\ wpc' \in {"copy", "reset"}))

Fresh(k) == [i \in 1 .. k |-> handed + i]

-----------------------------------------------------------------------------
(* The main thread *)

(* writeToStdin of import.ts; a control-C in the data is followed by a     *)
(* signal and a newline.                                                   *)
BeginWrite(k, c) ==
  /\ mpc = "idle" /\ mpc' = "copy"
  /\ handed + k + (IF c THEN 1 ELSE 0) <= MaxBytes
  /\ c => sent < MaxSignals
  /\ text' = Fresh(k) /\ intr' = c
  /\ handed' = handed + k
  /\ UNCHANGED <<shared, sum, sent, written, overflowed, wpc, unseen>>

(* data.copy(stdinUint8Array, stdinLength[0]) stops at the end. *)
CopyIn ==
  /\ mpc = "copy" /\ mpc' = "count"
  /\ buf' = [i \in 1 .. Cap |->
               IF i \in len + 1 .. len + Len(text) THEN text[i - len] ELSE buf[i]]
  /\ UNCHANGED <<len, sig, text, intr, sum, handed, sent, written, overflowed, wpc, unseen>>

(* Variant with a mistake: counts the new bytes only. *)
CountNew ==
  /\ mpc = "count" /\ mpc' = "store"
  /\ sum' = Len(text)
  /\ UNCHANGED <<shared, text, intr, handed, sent, written, overflowed, wpc, unseen>>

Count ==
  /\ mpc = "count" /\ mpc' = "store"
  /\ sum' = Len(text) + len
  /\ UNCHANGED <<shared, text, intr, handed, sent, written, overflowed, wpc, unseen>>

Store ==
  /\ mpc = "store" /\ mpc' = "notify"
  /\ len' = sum
  /\ written' = written \o text
  /\ overflowed' = (overflowed \/ sum > Cap)
  /\ UNCHANGED <<buf, sig, text, intr, sum, handed, sent, wpc, unseen>>

Notify ==
  /\ mpc = "notify"
  /\ mpc' = IF intr THEN "signal" ELSE "idle"
  /\ wpc' = IF wpc = "asleep" THEN "woken" ELSE wpc
  /\ UNCHANGED <<shared, text, intr, sum, handed, sent, written, overflowed, unseen>>

(* The signal of a control-C, and the newline that goes with it. *)
Interrupt ==
  /\ mpc = "signal" /\ mpc' = "copy"
  /\ sig' = SIGINT /\ unseen' = TRUE /\ sent' = sent + 1
  /\ text' = Fresh(1) /\ intr' = FALSE /\ handed' = handed + 1
  /\ UNCHANGED <<buf, len, sum, written, overflowed, wpc>>

(* signal() of import.ts. *)
Signal ==
  /\ mpc = "idle" /\ sent < MaxSignals
  /\ sig' = SIGINT /\ unseen' = TRUE /\ sent' = sent + 1
  /\ UNCHANGED <<buf, len, mpc, text, intr, sum, handed, written, overflowed, wpc>>

MainWrites == CopyIn \/ Count \/ Store \/ Notify \/ Interrupt

-----------------------------------------------------------------------------
(* getStdin *)

Step(from, to) == wpc = from /\ wpc' = to
ReadOnly == UNCHANGED <<shared, mpc, unseen>>

BeginRead ==
  /\ Step("idle", "check")
  /\ ReadOnly /\ UNCHANGED <<n, got, slices, received>>

Check ==
  /\ Step("check", IF len = 0 THEN "wait" ELSE "load")
  /\ ReadOnly /\ UNCHANGED <<n, got, slices, received>>

Wait ==
  /\ Step("wait", IF len = 0 THEN "asleep" ELSE "woken")
  /\ ReadOnly /\ UNCHANGED <<n, got, slices, received>>

(* The wait gives up after a second. *)
TimeOut ==
  /\ Step("asleep", "woken")
  /\ ReadOnly /\ UNCHANGED <<n, got, slices, received>>

(* Variant with a mistake: only input ends the loop. *)
CheckSignalNot ==
  /\ Step("woken", "check")
  /\ ReadOnly /\ UNCHANGED <<n, got, slices, received>>

(* With a signal waiting the call returns no bytes. *)
CheckSignal ==
  /\ Step("woken", IF sig # 0 THEN "idle" ELSE "check")
  /\ ReadOnly /\ UNCHANGED <<n, got, slices, received>>

LoadLength ==
  /\ Step("load", "copy") /\ n' = len
  /\ ReadOnly /\ UNCHANGED <<got, slices, received>>

(* Buffer.alloc(len) is all zeros, and the copy stops at the end. *)
CopyOut ==
  /\ Step("copy", "reset")
  /\ got' = [i \in 1 .. n |-> IF i <= Cap THEN buf[i] ELSE 0]
  /\ ReadOnly /\ UNCHANGED <<n, slices, received>>

(* The notify that follows has nobody to wake. *)
Reset ==
  /\ Step("reset", "idle")
  /\ len' = 0 /\ received' = received \o got /\ got' = <<>>
  /\ UNCHANGED <<buf, sig, mpc, unseen, n, slices>>

-----------------------------------------------------------------------------
(* getSignalState and sleep *)

(* Variant with a mistake: clears also when there was no signal to return. *)
PollClearing ==
  /\ Step("poll", "clear") /\ n' = sig
  /\ ReadOnly /\ UNCHANGED <<got, slices, received>>

BeginPoll ==
  /\ Step("idle", "poll")
  /\ ReadOnly /\ UNCHANGED <<n, got, slices, received>>

Poll ==
  /\ Step("poll", IF sig = 0 THEN "idle" ELSE "clear") /\ n' = sig
  /\ ReadOnly /\ UNCHANGED <<got, slices, received>>

(* The signal loaded by Poll is returned to the program. *)
Clear ==
  /\ Step("clear", "idle")
  /\ sig' = 0 /\ unseen' = (unseen /\ n = 0)
  /\ UNCHANGED <<buf, len, mpc, n, got, slices, received>>

BeginSleep(k) ==
  /\ Step("idle", "nap") /\ slices' = k
  /\ ReadOnly /\ UNCHANGED <<n, got, received>>

(* sleepArray never changes: a slice ends by its timeout. *)
NapOver ==
  /\ Step("nap", "rested") /\ slices' = slices - 1
  /\ ReadOnly /\ UNCHANGED <<n, got, received>>

Rested ==
  /\ Step("rested", IF sig # 0 \/ slices = 0 THEN "idle" ELSE "nap")
  /\ ReadOnly /\ UNCHANGED <<n, got, slices, received>>

WorkerGoes ==
  \/ Check \/ Wait \/ TimeOut \/ CheckSignal \/ LoadLength \/ CopyOut \/ Reset
  \/ Poll \/ Clear \/ NapOver \/ Rested

WorkerBegins == BeginRead \/ BeginPoll \/ \E k \in 1 .. MaxSlices : BeginSleep(k)

MainKeeps == UNCHANGED <<text, intr, sum, handed, sent, written, overflowed>>
WorkerKeeps == UNCHANGED <<n, got, slices, received>>

Next ==
  /\ \/ MainWrites /\ WorkerKeeps
     \/ Signal /\ WorkerKeeps
     \/ (\E k \in 1 .. MaxBytes, c \in BOOLEAN : BeginWrite(k, c)) /\ WorkerKeeps
     \/ WorkerGoes /\ MainKeeps
     \/ WorkerBegins /\ MainKeeps
  /\ NoteOverlap

(* A call that has begun goes on, timeouts included; nobody has to type,   *)
(* to signal, or to make a call.                                           *)
Fairness ==
  /\ WF_vars(MainWrites /\ WorkerKeeps /\ NoteOverlap)
  /\ WF_vars(WorkerGoes /\ MainKeeps /\ NoteOverlap)

Spec == Init /\ [][Next]_vars
FairSpec == Spec /\ Fairness

-----------------------------------------------------------------------------
(* Properties *)

WorkerAt == {"idle", "check", "wait", "asleep", "woken", "load", "copy", "reset",
             "poll", "clear", "nap", "rested"}

(* The type of every variable; the length counts at most the bytes typed   *)
(* so far and is not bounded by the buffer.                                *)
TypeOK ==
  /\ buf \in [1 .. Cap -> Byte \cup {0}]
  /\ len \in 0 .. MaxBytes /\ sum \in 0 .. MaxBytes /\ n \in 0 .. MaxBytes \cup {SIGINT}
  /\ sig \in {0, SIGINT}
  /\ mpc \in {"idle", "copy", "count", "store", "notify", "signal"}
  /\ text \in Seq(Byte) /\ intr \in BOOLEAN
  /\ wpc \in WorkerAt
  /\ got \in Seq(Byte \cup {0})
  /\ slices \in 0 .. MaxSlices
  /\ handed \in 0 .. MaxBytes /\ sent \in 0 .. MaxSignals
  /\ written \in Seq(Byte) /\ received \in Seq(Byte \cup {0})
  /\ unseen \in BOOLEAN /\ overlapped \in BOOLEAN /\ overflowed \in BOOLEAN

(* As long as no write overlapped a read and the buffer sufficed, what the *)
(* program received and what is in the buffer are together what was        *)
(* written: every byte once and in order, also around a control-C.         *)
InputIntact ==
  TypeOK /\ (~overlapped /\ ~overflowed => received \o SubSeq(buf, 1, len) = written)

(* A signal sent is still in its slot or is being returned, until one is   *)
(* returned: signals may merge, none vanishes in the load and store of     *)
(* getSignalState ("clear signal state so we can get a new signal").       *)
SignalKept == unseen => sig # 0 \/ (wpc = "clear" /\ n # 0)

(* A worker blocked in getStdin or asleep returns to the program when      *)
(* there is input for it or a signal.                                      *)
BlockedReturns ==
  wpc = "asleep" /\ (len > 0 \/ sig # 0) ~> wpc = "idle"

=============================================================================
