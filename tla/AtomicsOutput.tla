----------------------------- MODULE AtomicsOutput -----------------------------
(***************************************************************************)
(* Output of the kernel worker through shared memory                       *)
(* (core/kernel/src/wasm/worker/io-using-atomics.ts, sendOutput;           *)
(* core/kernel/src/wasm/io-using-atomics.ts, readOutput; import.ts,        *)
(* readOutput, monitorOutput, terminate, init).                            *)
(*                                                                         *)
(* Cell 0 of the buffer holds the stream of the bytes after it, or 0 as a  *)
(* lock; outputLength counts the cells in use, cell 0 included.  Nothing   *)
(* but single loads and stores is atomic, so each is a step.  A copy of    *)
(* several cells is one step.  Bytes have an identity, a number above the  *)
(* values a tag can have: text, not control characters 0, 1 and 2.         *)
(***************************************************************************)
EXTENDS Integers, Sequences

CONSTANTS
  Cap,          \* cells of the buffer (10000 in the code)
  MaxBytes,     \* bound: bytes written in a run
  MaxRestarts   \* bound: how often the worker is replaced

ASSUME SizeAssumption == Cap \in Nat \ {0, 1} /\ MaxBytes \in Nat /\ MaxRestarts \in Nat

Stream == {1, 2}  \* Stream.STDOUT, Stream.STDERR
Byte == 3 .. MaxBytes + 2
Cell == 0 .. MaxBytes + 2

VARIABLES
  buf,         \* outputBuffer
  len,         \* outputLength[0]
  wpc,         \* where the worker is in sendOutput
  stream,      \* its argument
  rest,        \* its argument data, less what has been copied
  expected,    \* the value the worker gives to Atomics.wait
  copied,      \* the bytes of the last copy
  n,           \* the length the worker is going to store
  live,        \* this.worker != null
  mpc,         \* where the main thread is in readOutput
  data,        \* the cells it has copied out
  handed,      \* history: how many bytes sendOutput was given
  restarts,    \* history: how many workers were replaced
  stored,      \* history: <<stream, byte>> stored, in order
  out,         \* history: <<stream, byte>> emitted, in order
  overlapped   \* history: a read and a locked section overlapped

local == <<stream, rest, expected, copied, n>>
worker == <<wpc, local, handed, stored>>
main == <<mpc, data, out>>
vars == <<buf, len, worker, live, main, restarts, overlapped>>

Init ==
  /\ buf = [i \in 0 .. Cap - 1 |-> 0] /\ len = 0
  /\ wpc = "idle" /\ stream = 1 /\ rest = <<>>
  /\ expected = 0 /\ copied = <<>> /\ n = 0
  /\ live = TRUE
  /\ mpc = "idle" /\ data = <<>>
  /\ handed = 0 /\ restarts = 0
  /\ stored = <<>> /\ out = <<>>
  /\ overlapped = FALSE

(* The worker between the last check of the buffer and the end of its      *)
(* changes to it, and the reader between the lock test and its reset.      *)
Locked == {"lock", "init", "copy", "count", "store", "unlock"}
Reading == {"length", "copy", "reset"}
NoteOverlap == overlapped' = (overlapped \/ (mpc' \in Reading /\ wpc' \in Locked))

Go(from, to) == wpc = from /\ wpc' = to
Read(from, to) == mpc = from /\ mpc' = to

-----------------------------------------------------------------------------
(* sendOutput *)

Send(s, k) ==
  /\ live /\ handed + k <= MaxBytes
  /\ Go("idle", "check length")
  /\ stream' = s
  /\ rest' = [i \in 1 .. k |-> 2 + handed + i]
  /\ handed' = handed + k
  /\ UNCHANGED <<buf, len, expected, copied, n, stored>>

(* while (data.length > 0) and the three loads of the inner condition. *)
CheckLength ==
  /\ wpc = "check length"
  /\ wpc' = IF rest = <<>> THEN "idle"
            ELSE IF len > 0 THEN "check tag" ELSE "check full"
  /\ UNCHANGED <<buf, len, local, handed, stored>>

(* Variant with a mistake: bytes of both streams share the buffer. *)
CheckTagNot ==
  /\ wpc = "check tag" /\ wpc' = "check full"
  /\ UNCHANGED <<buf, len, local, handed, stored>>

CheckTag ==
  /\ wpc = "check tag"
  /\ wpc' = IF buf[0] # stream THEN "load" ELSE "check full"
  /\ UNCHANGED <<buf, len, local, handed, stored>>

CheckFull ==
  /\ wpc = "check full"
  /\ wpc' = IF len = Cap THEN "load" ELSE "lock"
  /\ UNCHANGED <<buf, len, local, handed, stored>>

(* The third argument of Atomics.wait is a load of its own. *)
LoadExpected ==
  /\ Go("load", "wait")
  /\ expected' = len
  /\ UNCHANGED <<buf, len, stream, rest, copied, n, handed, stored>>

Wait ==
  /\ wpc = "wait"
  /\ wpc' = IF len = expected THEN "asleep" ELSE "check length"
  /\ UNCHANGED <<buf, len, local, handed, stored>>

Lock ==
  /\ Go("lock", "init")
  /\ buf' = [buf EXCEPT ![0] = 0]
  /\ UNCHANGED <<len, local, handed, stored>>

InitLength ==
  /\ Go("init", "copy")
  /\ len' = IF len = 0 THEN 1 ELSE len
  /\ UNCHANGED <<buf, local, handed, stored>>

Least(a, b) == IF a <= b THEN a ELSE b

(* data.copy(outputBuffer, outputLength[0]) and data.subarray *)
CopyIn ==
  /\ Go("copy", "count")
  /\ LET c == Least(Len(rest), Cap - len) IN
       /\ buf' = [i \in DOMAIN buf |->
                    IF i \in len .. len + c - 1 THEN rest[i - len + 1] ELSE buf[i]]
       /\ copied' = SubSeq(rest, 1, c)
       /\ rest' = SubSeq(rest, c + 1, Len(rest))
  /\ UNCHANGED <<len, stream, expected, n, handed, stored>>

Count ==
  /\ Go("count", "store")
  /\ n' = Len(copied) + len
  /\ UNCHANGED <<buf, len, stream, rest, expected, copied, handed, stored>>

StoreLength ==
  /\ Go("store", "unlock")
  /\ len' = n
  /\ stored' = stored \o [i \in DOMAIN copied |-> <<stream, copied[i]>>]
  /\ UNCHANGED <<buf, local, handed>>

(* The notify that follows has nobody to wake: readOutput never waits. *)
Unlock ==
  /\ Go("unlock", "check length")
  /\ buf' = [buf EXCEPT ![0] = stream]
  /\ UNCHANGED <<len, local, handed, stored>>

WorkerStep ==
  \/ CheckLength \/ CheckTag \/ CheckFull \/ LoadExpected \/ Wait
  \/ Lock \/ InitLength \/ CopyIn \/ Count \/ StoreLength \/ Unlock

-----------------------------------------------------------------------------
(* readOutput, in the provider and in import.ts *)

(* The lock test; 0 means being modified, and the read comes back empty.   *)
ReadTag ==
  /\ mpc = "idle" /\ live
  /\ mpc' = IF buf[0] = 0 THEN "idle" ELSE "length"
  /\ UNCHANGED <<buf, len, data, out>>

ReadLength ==
  /\ mpc = "length"
  /\ mpc' = IF len = 0 THEN "idle" ELSE "copy"
  /\ UNCHANGED <<buf, len, data, out>>

(* subarray(0, outputLength[0]) loads the length a second time. *)
CopyOut ==
  /\ Read("copy", "reset")
  /\ data' = [i \in 1 .. len |-> buf[i - 1]]
  /\ UNCHANGED <<buf, len, out>>

Reset ==
  /\ Read("reset", "notify")
  /\ len' = 0
  /\ UNCHANGED <<buf, data, out>>

(* data[0] == Stream.STDOUT ? "stdout" : "stderr" *)
Shown(d) ==
  [i \in 1 .. Len(d) - 1 |-> <<IF d[1] = 1 THEN 1 ELSE 2, d[i + 1]>>]

(* Variant with a mistake: no notify. *)
FinishSilently ==
  /\ Read("notify", "idle")
  /\ out' = out \o Shown(data) /\ data' = <<>>
  /\ UNCHANGED <<buf, len, wpc>>

(* Atomics.notify, and the event with the bytes read. *)
Finish ==
  /\ Read("notify", "idle")
  /\ wpc' = IF wpc = "asleep" THEN "check length" ELSE wpc
  /\ out' = out \o Shown(data) /\ data' = <<>>
  /\ UNCHANGED <<buf, len>>

MainStep ==
  \/ (ReadTag \/ ReadLength \/ CopyOut \/ Reset) /\ UNCHANGED wpc
  \/ Finish

-----------------------------------------------------------------------------
(* The worker is terminated, wherever it is, and a later call starts a new *)
(* one with the buffers of the same IOProvider.  The old thread has        *)
(* stopped by then; nobody reads in between.  readOutput is synchronous,   *)
(* so terminate never comes in the middle of one.                          *)
Terminate ==
  /\ live /\ mpc = "idle" /\ restarts < MaxRestarts
  /\ live' = FALSE /\ wpc' = "dead"
  /\ restarts' = restarts + 1
  /\ UNCHANGED <<buf, len, local, handed, stored, main>>

Restart ==
  /\ ~live /\ live' = TRUE
  /\ wpc' = "idle" /\ rest' = <<>> /\ copied' = <<>>
  /\ UNCHANGED <<buf, len, stream, expected, n, handed, stored, main, restarts>>

Next ==
  /\ \/ /\ WorkerStep \/ \E s \in Stream, k \in 1 .. MaxBytes : Send(s, k)
        /\ UNCHANGED <<live, main, restarts>>
     \/ MainStep /\ UNCHANGED <<local, handed, stored, live, restarts>>
     \/ Terminate \/ Restart
  /\ NoteOverlap

(* Both threads go on; monitorOutput polls for as long as there is a       *)
(* worker.  A worker asleep in Atomics.wait takes no step.                 *)
Fairness == WF_vars(WorkerStep /\ Next) /\ WF_vars(MainStep /\ Next)

Spec == Init /\ [][Next]_vars
FairSpec == Spec /\ Fairness

-----------------------------------------------------------------------------
(* Properties *)

WorkerAt == {"idle", "check length", "check tag", "check full", "load", "wait", "asleep",
             "dead"} \cup Locked

(* The type of every variable; the length never exceeds the buffer, also   *)
(* when a reset by the reader comes between the worker's loads of it.      *)
TypeOK ==
  /\ buf \in [0 .. Cap - 1 -> Cell]
  /\ len \in 0 .. Cap
  /\ wpc \in WorkerAt
  /\ stream \in Stream
  /\ rest \in Seq(Byte) /\ copied \in Seq(Byte)
  /\ expected \in 0 .. Cap /\ n \in 0 .. Cap
  /\ live \in BOOLEAN
  /\ mpc \in {"idle", "notify"} \cup Reading
  /\ data \in Seq(Cell)
  /\ handed \in 0 .. MaxBytes /\ restarts \in 0 .. MaxRestarts
  /\ stored \in Seq(Stream \X Byte)
  /\ out \in Seq(Stream \X Cell)
  /\ overlapped \in BOOLEAN

Buffered == IF len = 0 THEN 0 ELSE len - 1

(* As long as no read overlapped a locked section, what was emitted, what  *)
(* is being emitted and what is in the buffer are together what was        *)
(* stored: every byte once, in order, on its own stream, for both streams  *)
(* in one order, across restarts too.                                      *)
OutputIntact ==
  LET shown == out \o Shown(IF mpc = "notify" THEN data ELSE <<>>)
      m == Len(shown)
  IN TypeOK /\ (~overlapped =>
       /\ Len(stored) = m + Buffered
       /\ shown = SubSeq(stored, 1, m)
       /\ \A i \in 1 .. Buffered :
            /\ stored[m + i][2] = buf[i]
            /\ buf[0] # 0 => stored[m + i][1] = buf[0])

(* A writer that sleeps for room, on a buffer with a stream and data in    *)
(* it, goes on: the reader's reset is not missed between the writer's load *)
(* of the length and its sleep.                                            *)
SleeperOnDataWakes == wpc = "asleep" /\ expected # 0 /\ buf[0] # 0 ~> wpc # "asleep"

-----------------------------------------------------------------------------
(* A statement of the source that the code does not meet *)

(* "wait for main thread to read": the writer goes on once it has read.    *)
WriterResumes == wpc = "asleep" ~> wpc # "asleep"

=============================================================================
