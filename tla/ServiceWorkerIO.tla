---------------------------- MODULE ServiceWorkerIO ----------------------------
(***************************************************************************)
(* Input, output and signals of the kernel worker through a service        *)
(* worker, where a page has no shared memory                               *)
(* (core/kernel/src/wasm/worker/service-worker.js and both sides of        *)
(* io-using-service-worker.ts).                                            *)
(*                                                                         *)
(* Requests of the kernel worker are synchronous, so it has at most one;   *)
(* those of the page are fetches nobody awaits, which arrive in any order. *)
(* A handler runs from one await to the next in one step.  The caches are  *)
(* keyed by the id of the kernel, and one id is modelled.  What one call   *)
(* writes is an item with a number; its text is never empty.  A request    *)
(* that fails makes the page reload, which is the end of a run.            *)
(***************************************************************************)
EXTENDS Integers, Sequences, FiniteSets

CONSTANTS
  MaxInput,    \* bound: items of input in a run
  MaxOutput,   \* bound: items of output in a run
  MaxSignals,  \* bound: signals sent in a run
  MaxReads     \* bound: read-output requests at a time

ASSUME BoundsAreNaturals ==
  MaxInput \in Nat /\ MaxOutput \in Nat /\ MaxSignals \in Nat /\ MaxReads \in Nat

SIGINT == 2
Stream == {1, 2}  \* Stream.STDOUT, Stream.STDERR
Input == 1 .. MaxInput
Output == 1 .. MaxOutput

VARIABLES
  stdin,     \* cache.stdin[id]
  out,       \* cache.output[id]: [tag, items]; the tag of an empty cache is 0
  sig,       \* cache.sig[id]
  waiter,    \* cache.callOnStdin[id] != null
  posted,    \* fetches of the page under way: items of input, and signals
  asking,    \* how many read-output requests are under way
  answers,   \* answers to them under way
  wpc,       \* where the kernel worker is
  write,     \* what it is writing: [stream, item]
  checked,   \* its last look for a signal is less than SIGNAL_CHECK_MS ago
  typed,     \* history: how many items of input there were
  sent,      \* history: how many signals were sent
  arrived,   \* history: items of input in the order of their handlers
  received,  \* history: items returned by getStdin
  written,   \* history: [stream, item] handed to sendOutput
  emitted,   \* history: [stream, item] of the events of the page
  dropped,   \* history: a write has given up
  crossed    \* history: two answers were under way at a time

page == <<posted, asking, answers, typed, sent, emitted, crossed>>
cache == <<stdin, out, sig, waiter>>
kernel == <<wpc, write, checked, received, written, dropped>>
vars == <<page, cache, kernel, arrived>>

Signal == [signal : 1 .. MaxSignals]
Empty == [tag |-> 0, items |-> <<>>]

Init ==
  /\ stdin = <<>> /\ out = Empty /\ sig = 0 /\ waiter = FALSE
  /\ posted = {} /\ asking = 0 /\ answers = {}
  /\ wpc = "idle" /\ write = [stream |-> 1, item |-> 0] /\ checked = FALSE
  /\ typed = 0 /\ sent = 0
  /\ arrived = <<>> /\ received = <<>>
  /\ written = <<>> /\ emitted = <<>>
  /\ dropped = FALSE /\ crossed = FALSE

Go(from, to) == wpc = from /\ wpc' = to

-----------------------------------------------------------------------------
(* The page *)

(* writeToStdin; with a control-C in the data three fetches leave at once. *)
Type ==
  /\ typed < MaxInput
  /\ typed' = typed + 1
  /\ posted' = posted \cup {[input |-> typed + 1]}
  /\ UNCHANGED <<asking, answers, sent, emitted, crossed, cache, kernel, arrived>>

TypeControlC ==
  /\ typed + 2 <= MaxInput /\ sent < MaxSignals
  /\ typed' = typed + 2 /\ sent' = sent + 1
  /\ posted' = posted \cup {[input |-> typed + 1], [signal |-> sent + 1], [input |-> typed + 2]}
  /\ UNCHANGED <<asking, answers, emitted, crossed, cache, kernel, arrived>>

SendSignal ==
  /\ sent < MaxSignals
  /\ sent' = sent + 1
  /\ posted' = posted \cup {[signal |-> sent + 1]}
  /\ UNCHANGED <<asking, answers, typed, emitted, crossed, cache, kernel, arrived>>

(* The calls of readOutput come from monitorOutput, one after the other,   *)
(* and a millisecond after every writeToStdin.                             *)
Ask ==
  /\ asking + Cardinality(answers) < MaxReads
  /\ asking' = asking + 1
  /\ UNCHANGED <<posted, answers, typed, sent, emitted, crossed, cache, kernel, arrived>>

(* Buffer.from(await output.text()): the tag comes back as the code of its *)
(* character, and data[0] == Stream.STDOUT compares it with the number.    *)
Code(tag) == 48 + tag
Shown(tag) == IF Code(tag) = 1 THEN 1 ELSE 2

Emit(a) ==
  /\ a \in answers
  /\ answers' = answers \ {a}
  /\ emitted' = emitted \o [i \in DOMAIN a.items |-> [stream |-> Shown(a.tag), item |-> a.items[i]]]
  /\ UNCHANGED <<posted, asking, typed, sent, crossed, cache, kernel, arrived>>

-----------------------------------------------------------------------------
(* The service worker, for the page *)

(* The input wakes a reader, which takes it before any other handler runs. *)
HandleWriteStdin(m) ==
  /\ m \in posted /\ "input" \in DOMAIN m
  /\ posted' = posted \ {m}
  /\ arrived' = Append(arrived, m.input)
  /\ LET all == Append(stdin, m.input) IN
       \/ /\ waiter /\ waiter' = FALSE
          /\ Go("reading", "idle")
          /\ received' = received \o all /\ stdin' = <<>>
       \/ /\ ~waiter
          /\ stdin' = all
          /\ UNCHANGED <<waiter, wpc, received>>
  /\ UNCHANGED <<asking, answers, typed, sent, emitted, crossed,
                 out, sig, write, checked, written, dropped>>

HandleWriteSignal(m) ==
  /\ m \in posted /\ "signal" \in DOMAIN m
  /\ posted' = posted \ {m}
  /\ sig' = SIGINT
  /\ UNCHANGED <<asking, answers, typed, sent, emitted, crossed,
                 stdin, out, waiter, kernel, arrived>>

(* Variant with a mistake: the items go, the tag stays.                    *)
HandleReadOutputTagged ==
  /\ asking > 0 /\ asking' = asking - 1
  /\ answers' = IF out.items = <<>> THEN answers ELSE answers \cup {out}
  /\ crossed' = (crossed \/ Cardinality(answers') > 1)
  /\ out' = [out EXCEPT !.items = <<>>]
  /\ UNCHANGED <<posted, typed, sent, emitted, stdin, sig, waiter, kernel, arrived>>

(* An empty answer changes nothing but the delay to the next request.      *)
HandleReadOutput ==
  /\ asking > 0 /\ asking' = asking - 1
  /\ answers' = IF out = Empty THEN answers ELSE answers \cup {out}
  /\ crossed' = (crossed \/ Cardinality(answers') > 1)
  /\ out' = Empty
  /\ UNCHANGED <<posted, typed, sent, emitted, stdin, sig, waiter, kernel, arrived>>

-----------------------------------------------------------------------------
(* getStdin of the kernel worker *)

BeginRead ==
  /\ Go("idle", "read")
  /\ UNCHANGED <<page, cache, write, checked, received, written, dropped, arrived>>

(* With input there the handler takes it at once, else it leaves a         *)
(* function for the next writer.                                           *)
HandleReadStdin ==
  /\ \/ /\ stdin # <<>>
        /\ Go("read", "idle")
        /\ received' = received \o stdin /\ stdin' = <<>>
        /\ UNCHANGED waiter
     \/ /\ stdin = <<>>
        /\ Go("read", "reading")
        /\ waiter' = TRUE
        /\ UNCHANGED <<stdin, received>>
  /\ UNCHANGED <<page, out, sig, write, checked, written, dropped, arrived>>

(* Variant with a mistake: the time comes, the function stays.             *)
StdinTimeOutKeeping ==
  /\ Go("reading", "idle")
  /\ received' = received \o stdin /\ stdin' = <<>>
  /\ UNCHANGED <<page, out, sig, waiter, write, checked, written, dropped, arrived>>

(* After ms the function goes, and the handler takes what there is.        *)
StdinTimeOut ==
  /\ Go("reading", "idle")
  /\ waiter' = FALSE
  /\ received' = received \o stdin /\ stdin' = <<>>
  /\ UNCHANGED <<page, out, sig, write, checked, written, dropped, arrived>>

-----------------------------------------------------------------------------
(* sendOutput *)

BeginWrite(s) ==
  /\ Len(written) < MaxOutput
  /\ Go("idle", "write")
  /\ write' = [stream |-> s, item |-> Len(written) + 1]
  /\ written' = Append(written, write')
  /\ UNCHANGED <<page, cache, checked, received, dropped, arrived>>

(* Variant with a mistake: whatever stream the cache has.                  *)
FitsAlways == TRUE

Fits == out.tag \in {0, write.stream}

Store(from) ==
  /\ Fits
  /\ Go(from, "idle")
  /\ out' = [tag |-> IF out.tag = 0 THEN write.stream ELSE out.tag,
             items |-> Append(out.items, write.item)]
  /\ UNCHANGED <<page, stdin, sig, waiter, write, checked, received, written, dropped, arrived>>

HandleWriteOutput == Store("write")

(* The cache has output of the other stream. *)
Delay ==
  /\ ~Fits
  /\ Go("write", "delayed")
  /\ UNCHANGED <<page, cache, write, checked, received, written, dropped, arrived>>

Retry == Store("delayed")

(* "give up -- shouldn't happen": three seconds after the first delay. *)
GiveUp ==
  /\ ~Fits
  /\ Go("delayed", "idle")
  /\ dropped' = TRUE
  /\ UNCHANGED <<page, cache, write, checked, received, written, arrived>>

-----------------------------------------------------------------------------
(* getSignalState and sleep *)

(* Within SIGNAL_CHECK_MS of the last look the answer is 0, unasked. *)
BeginPoll ==
  /\ ~checked /\ checked' = TRUE
  /\ Go("idle", "poll")
  /\ UNCHANGED <<page, cache, write, received, written, dropped, arrived>>

TimeGoesBy ==
  /\ checked /\ checked' = FALSE
  /\ UNCHANGED <<page, cache, wpc, write, received, written, dropped, arrived>>

(* read-signal with clear *)
HandlePoll ==
  /\ Go("poll", "idle")
  /\ sig' = 0
  /\ UNCHANGED <<page, stdin, out, waiter, write, checked, received, written, dropped, arrived>>

BeginSleep ==
  /\ Go("idle", "nap")
  /\ UNCHANGED <<page, cache, write, checked, received, written, dropped, arrived>>

(* A sleep request of at most half a second is answered. *)
NapOver ==
  /\ Go("nap", "look")
  /\ UNCHANGED <<page, cache, write, checked, received, written, dropped, arrived>>

(* Variant with a mistake: the look for a signal takes it away.            *)
LookClearing ==
  /\ wpc = "look" /\ wpc' \in {"nap", "idle"}
  /\ sig' = 0
  /\ UNCHANGED <<page, stdin, out, waiter, write, checked, received, written, dropped, arrived>>

(* read-signal without clear: a signal ends the sleep, time may. *)
Look ==
  /\ wpc = "look" /\ wpc' \in {"nap", "idle"}
  /\ sig # 0 => wpc' = "idle"
  /\ UNCHANGED <<page, cache, write, checked, received, written, dropped, arrived>>

-----------------------------------------------------------------------------
PageGoes == Ask \/ \E a \in answers : Emit(a)

ForThePage ==
  \/ \E m \in posted : HandleWriteStdin(m) \/ HandleWriteSignal(m)
  \/ HandleReadOutput

KernelGoes ==
  \/ HandleReadStdin \/ StdinTimeOut
  \/ HandleWriteOutput \/ Delay \/ Retry
  \/ HandlePoll \/ NapOver \/ Look

Next ==
  \/ Type \/ TypeControlC \/ SendSignal
  \/ PageGoes \/ ForThePage \/ KernelGoes
  \/ GiveUp \/ TimeGoesBy
  \/ BeginRead \/ BeginPoll \/ BeginSleep \/ \E s \in Stream : BeginWrite(s)

(* monitorOutput polls for ever, fetches arrive, requests are answered.    *)
(* Nothing says that a write gives up: that is left to its clock.          *)
Fairness ==
  /\ WF_vars(Ask) /\ WF_vars(\E a \in answers : Emit(a))
  /\ WF_vars(HandleReadOutput)
  /\ \A i \in Input : WF_vars([input |-> i] \in posted /\ HandleWriteStdin([input |-> i]))
  /\ \A k \in 1 .. MaxSignals :
       WF_vars([signal |-> k] \in posted /\ HandleWriteSignal([signal |-> k]))
  /\ WF_vars(KernelGoes)

Spec == Init /\ [][Next]_vars
FairSpec == Spec /\ Fairness

-----------------------------------------------------------------------------
(* Properties *)

Item == [stream : Stream, item : Output]
Answer == [tag : Stream, items : Seq(Output)]

(* The type of every variable. *)
TypeOK ==
  /\ stdin \in Seq(Input) /\ out \in Answer \cup {Empty}
  /\ sig \in {0, SIGINT} /\ waiter \in BOOLEAN
  /\ \A m \in posted : m \in [input : Input] \cup Signal
  /\ asking \in 0 .. MaxReads
  /\ \A a \in answers : a \in Answer
  /\ wpc \in {"idle", "read", "reading", "write", "delayed", "poll", "nap", "look"}
  /\ write \in [stream : Stream, item : 0 .. MaxOutput] /\ checked \in BOOLEAN
  /\ typed \in 0 .. MaxInput /\ sent \in 0 .. MaxSignals
  /\ arrived \in Seq(Input) /\ received \in Seq(Input)
  /\ written \in Seq(Item) /\ emitted \in Seq(Item)
  /\ dropped \in BOOLEAN /\ crossed \in BOOLEAN

(* Nobody waits for input that is there, and the function in callOnStdin   *)
(* is that of the one reader there is: a reader that timed out leaves none *)
(* behind, whatever the order of input, timeout and next read.             *)
ReaderSound ==
  /\ waiter <=> wpc = "reading"
  /\ wpc = "reading" => stdin = <<>>

(* What getStdin returned and what is in the cache are what has arrived,   *)
(* every item once and in the order of arrival, timeouts included.         *)
InputIntact == received \o stdin = arrived

Items(s) == [i \in DOMAIN s |-> s[i].item]

(* As long as no write gave up, every item that sendOutput stored is in    *)
(* one place: with the page, in an answer, in the cache.  As long as no    *)
(* two answers crossed, they are in order; and what shares an answer or    *)
(* the cache is of the stream of its tag.                                  *)
OutputIntact ==
  LET stored == IF wpc \in {"write", "delayed"} THEN Len(written) - 1 ELSE Len(written)
      There(k) == Cardinality({i \in DOMAIN emitted : emitted[i].item = k})
                  + Cardinality({a \in answers : \E i \in DOMAIN a.items : a.items[i] = k})
                  + Cardinality({i \in DOMAIN out.items : out.items[i] = k})
      OfItsStream(a) == \A i \in DOMAIN a.items : written[a.items[i]].stream = a.tag
  IN ~dropped =>
       /\ \A k \in 1 .. stored : There(k) = 1
       /\ \A a \in answers \cup {out} : OfItsStream(a)
       /\ ~crossed => \A i, j \in DOMAIN emitted : i < j => emitted[i].item < emitted[j].item

(* Both streams at once: what went in is what came out and what is on its  *)
(* way, whichever requests, timers and answers met.                        *)
StreamsIntact == TypeOK /\ InputIntact /\ OutputIntact

(* A write that was delayed ends because the page has read, without giving *)
(* up: "frontend should handle all IO within a fraction of a second".      *)
DelayedWriteEnds == wpc = "delayed" ~> wpc = "idle"

(* A signal ends a sleep, however long, and is then still there for the    *)
(* program to see.                                                         *)
SleepInterrupted == wpc \in {"nap", "look"} /\ sig # 0 ~> wpc = "idle" /\ sig # 0

=============================================================================
