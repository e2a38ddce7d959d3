------------------------------- MODULE WorkerRpc -------------------------------
(***************************************************************************)
(* Calls from the main thread into the kernel worker, and the life of the  *)
(* worker (core/kernel/src/wasm/import.ts, init, callWithString,           *)
(* waitUntilFsLoaded, fetch, exec, waitForResponse, terminate;             *)
(* core/kernel/src/wasm/worker/init.ts; core/kernel/src/wasm/              *)
(* reuseInFlight.js).                                                      *)
(*                                                                         *)
(* Workers are numbered in the order they are started.  A message handler  *)
(* of either thread is a step, together with the code that its promises    *)
(* resume; the callers that one init message resumes go one by one, before *)
(* the next message.  Queues between the threads keep their order.         *)
(***************************************************************************)
EXTENDS Integers, Sequences

CONSTANTS
  Call,       \* calls made by users of a kernel
  MaxWorkers  \* bound: workers started in a run

ASSUME WorkersAssumption == MaxWorkers \in Nat

Worker == 1 .. MaxWorkers
None == 0  \* no worker, no id, nothing run
Kind == {"call", "exec", "fs"}

VARIABLES
  closed,    \* a user called terminate
  worker,    \* this.worker
  started,   \* how many workers there were
  inflight,  \* the promise of init is kept by reuseInFlight
  listening, \* once("init") is registered
  callId,    \* this.callId
  phase,     \* where each call is
  kind,      \* what it is: callWithString, exec, waitUntilFsLoaded or fetch
  id,        \* the id it posted
  on,        \* the worker whose exit it listens to
  result,    \* how it settled: "ok", "error", "exit", "no worker", and by whom
  life,      \* each worker: what has become of its init
  inbox,     \* messages to it
  outbox,    \* messages from it
  busy,      \* the request that its program runs
  loading,   \* requests it is awaiting the file system for
  hurried,   \* history: workers that were called before they were ready
  initLost   \* history: the answer of an init was lost

main == <<closed, worker, started, inflight, listening, callId, phase, kind, id, on, result, initLost>>
threads == <<life, inbox, outbox, busy, loading, hurried>>
vars == <<main, threads>>

(* A request; "of", the call it was posted for, is not part of the code.   *)
Request(event, i, c) == [event |-> event, id |-> i, of |-> c]
InitRequest == Request("init", None, None)
Idle == Request("none", None, None)

Pending == [how |-> "none", by |-> <<None, None>>]
Settled(how, by) == [how |-> how, by |-> by]

Init ==
  /\ closed = FALSE
  /\ worker = None /\ started = 0
  /\ inflight = FALSE /\ listening = FALSE
  /\ callId = 0
  /\ phase = [c \in Call |-> "none"] /\ kind = [c \in Call |-> "call"]
  /\ id = [c \in Call |-> None] /\ on = [c \in Call |-> None]
  /\ result = [c \in Call |-> Pending]
  /\ life = [w \in Worker |-> "none"]
  /\ inbox = [w \in Worker |-> <<>>] /\ outbox = [w \in Worker |-> <<>>]
  /\ busy = [w \in Worker |-> Idle] /\ loading = [w \in Worker |-> {}]
  /\ hurried = {} /\ initLost = FALSE

(* No caller is about to be resumed: the main thread takes a message.      *)
Quiet == \A c \in Call : phase[c] # "resumed"

-----------------------------------------------------------------------------
(* terminate: the worker's exit listeners settle the calls that wait on    *)
(* it, then all listeners go, that of the init promise included.           *)

(* Variant with a mistake: nobody is told. *)
TerminateSilently(reply) ==
  /\ phase' = [c \in Call |-> IF c \in DOMAIN reply THEN "done" ELSE phase[c]]
  /\ result' = [c \in Call |-> IF c \in DOMAIN reply THEN reply[c] ELSE result[c]]
  /\ worker' = None
  /\ listening' = FALSE
  /\ initLost' = (initLost \/ listening)

Terminated(reply) ==
  LET told == {c \in Call : phase[c] = "waiting" /\ on[c] = worker} \ DOMAIN reply IN
    /\ phase' = [c \in Call |-> IF c \in told \cup DOMAIN reply THEN "done" ELSE phase[c]]
    /\ result' = [c \in Call |-> IF c \in DOMAIN reply THEN reply[c]
                                 ELSE IF c \in told THEN Settled("exit", <<worker, None>>)
                                 ELSE result[c]]
    /\ worker' = None
    /\ listening' = FALSE
    /\ initLost' = (initLost \/ listening)

Nobody == [c \in {} |-> Pending]
Stopped(w) == life' = [life EXCEPT ![w] = "gone"]

(* "Any use after calling this is not defined" (types.ts): no call begins  *)
(* after it.                                                               *)
Terminate ==
  /\ worker # None
  /\ closed' = TRUE
  /\ Terminated(Nobody) /\ Stopped(worker)
  /\ UNCHANGED <<started, inflight, callId, kind, id, on,
                 inbox, outbox, busy, loading, hurried>>

-----------------------------------------------------------------------------
(* init, through reuseInFlight *)

Start(c) ==
  /\ started < MaxWorkers
  /\ started' = started + 1 /\ worker' = started + 1
  /\ inflight' = TRUE /\ listening' = TRUE
  /\ phase' = [phase EXCEPT ![c] = "init"]
  /\ life' = [life EXCEPT ![started + 1] = "new"]
  /\ inbox' = [inbox EXCEPT ![started + 1] = <<InitRequest>>]
  /\ UNCHANGED initLost

Join(c) ==
  /\ phase' = [phase EXCEPT ![c] = "init"]
  /\ UNCHANGED <<worker, started, inflight, listening, initLost, life, inbox>>

HaveWorker(c) ==
  /\ worker # None
  /\ phase' = [phase EXCEPT ![c] = "resumed"]
  /\ UNCHANGED <<worker, started, inflight, listening, initLost, life, inbox>>

AwaitInit(c) ==
  IF inflight THEN Join(c) ELSE IF worker # None THEN HaveWorker(c) ELSE Start(c)

(* callWithString, or exec that calls it. *)
BeginCall(c, k) ==
  /\ ~closed /\ phase[c] = "none"
  /\ kind' = [kind EXCEPT ![c] = k]
  /\ AwaitInit(c)
  /\ UNCHANGED <<closed, callId, id, on, result, outbox, busy, loading, hurried>>

(* Variant with a mistake: the new id is not kept. *)
PostUncounted(c, event) ==
  /\ id' = [id EXCEPT ![c] = callId + 1]
  /\ on' = [on EXCEPT ![c] = worker]
  /\ phase' = [phase EXCEPT ![c] = "waiting"]
  /\ inbox' = [inbox EXCEPT ![worker] = Append(@, Request(event, callId + 1, c))]
  /\ UNCHANGED callId

(* this.callId += 1, postMessage and the listeners of waitForResponse. *)
Post(c, event) ==
  /\ callId' = callId + 1
  /\ id' = [id EXCEPT ![c] = callId + 1]
  /\ on' = [on EXCEPT ![c] = worker]
  /\ phase' = [phase EXCEPT ![c] = "waiting"]
  /\ inbox' = [inbox EXCEPT ![worker] = Append(@, Request(event, callId + 1, c))]

Fails(c, how) ==
  /\ phase' = [phase EXCEPT ![c] = "done"]
  /\ result' = [result EXCEPT ![c] = Settled(how, <<None, None>>)]

ResumeCall(c) ==
  /\ phase[c] = "resumed"
  /\ \/ /\ worker # None
        /\ Post(c, "call")
        /\ UNCHANGED result
     \/ /\ worker = None
        /\ Fails(c, "no worker")
        /\ UNCHANGED <<callId, id, on, inbox>>
  /\ UNCHANGED <<closed, worker, started, inflight, listening, kind, initLost,
                 life, outbox, busy, loading, hurried>>

(* waitUntilFsLoaded and fetch do not wait for init. *)
BeginFs(c) ==
  /\ ~closed /\ phase[c] = "none"
  /\ kind' = [kind EXCEPT ![c] = "fs"]
  /\ \/ /\ worker # None
        /\ Post(c, "fs")
        /\ UNCHANGED result
     \/ /\ worker = None
        /\ Fails(c, "no worker")
        /\ UNCHANGED <<callId, id, on, inbox>>
  /\ UNCHANGED <<closed, worker, started, inflight, listening, initLost,
                 life, outbox, busy, loading, hurried>>

-----------------------------------------------------------------------------
(* Messages from the worker; those of a worker that was terminated have    *)
(* no listener left.                                                       *)

Head1(w) == Head(outbox[w])
Take(w) ==
  /\ outbox[w] # <<>> /\ w = worker /\ Quiet
  /\ outbox' = [outbox EXCEPT ![w] = Tail(@)]

(* Variant with a mistake: one caller learns of it. *)
OnInitForOne(w) ==
  /\ Take(w) /\ Head1(w).event = "init"
  /\ listening' = FALSE /\ inflight' = FALSE
  /\ \E c \in Call : phase[c] = "init" /\ phase' = [phase EXCEPT ![c] = "resumed"]
  /\ UNCHANGED <<closed, worker, started, callId, kind, id, on, result, initLost,
                 life, inbox, busy, loading, hurried>>

OnInit(w) ==
  /\ Take(w) /\ Head1(w).event = "init"
  /\ listening' = FALSE /\ inflight' = FALSE
  /\ phase' = [c \in Call |-> IF phase[c] = "init" THEN "resumed" ELSE phase[c]]
  /\ UNCHANGED <<closed, worker, started, callId, kind, id, on, result, initLost,
                 life, inbox, busy, loading, hurried>>

(* An error of init comes with neither id nor event, and is ignored.       *)
OnNothing(w) ==
  /\ Take(w) /\ Head1(w).event = "nothing"
  /\ initLost' = TRUE
  /\ UNCHANGED <<closed, worker, started, inflight, listening, callId, phase, kind, id, on, result,
                 life, inbox, busy, loading, hurried>>

(* A reply settles the call with its id, if it still waits; exec then      *)
(* terminates the worker.                                                  *)
OnReply(w) ==
  /\ Take(w) /\ Head1(w).event \in {"ok", "error"}
  /\ LET mine == {c \in Call : phase[c] = "waiting" /\ id[c] = Head1(w).id}
         reply == [c \in mine |-> Settled(Head1(w).event, Head1(w).by)]
     IN \/ /\ Head1(w).event = "ok" /\ \E c \in mine : kind[c] = "exec"
           /\ Terminated(reply) /\ Stopped(w)
        \/ /\ ~(Head1(w).event = "ok" /\ \E c \in mine : kind[c] = "exec")
           /\ phase' = [c \in Call |-> IF c \in mine THEN "done" ELSE phase[c]]
           /\ result' = [c \in Call |-> IF c \in mine THEN reply[c] ELSE result[c]]
           /\ UNCHANGED <<worker, listening, initLost, life>>
  /\ UNCHANGED <<closed, started, inflight, callId, kind, id, on, inbox, busy, loading, hurried>>

(* The exit event of a worker that ended by itself: terminate.             *)
OnExit(w) ==
  /\ Take(w) /\ Head1(w).event = "exit"
  /\ Terminated(Nobody) /\ Stopped(w)
  /\ UNCHANGED <<closed, started, inflight, callId, kind, id, on, inbox, busy, loading, hurried>>

-----------------------------------------------------------------------------
(* The worker: handleMessage, one message at a time, but an await lets the *)
(* next one in.  "by" says who made a reply and for which call.            *)

Reply(w, event, r) ==
  outbox' = [outbox EXCEPT ![w] = Append(@, [event |-> event, id |-> r.id, by |-> <<w, r.of>>])]

Receive(w, event) ==
  /\ life[w] \in {"new", "loading", "ready", "failed"} /\ busy[w] = Idle
  /\ inbox[w] # <<>> /\ Head(inbox[w]).event = event
  /\ inbox' = [inbox EXCEPT ![w] = Tail(@)]

ReceiveInit(w) ==
  /\ Receive(w, "init")
  /\ life' = [life EXCEPT ![w] = "loading"]
  /\ UNCHANGED <<main, outbox, busy, loading, hurried>>

(* wasmImport is done. *)
Loaded(w) ==
  /\ life[w] = "loading" /\ busy[w] = Idle
  /\ life' = [life EXCEPT ![w] = "ready"]
  /\ Reply(w, "init", InitRequest)
  /\ UNCHANGED <<main, inbox, busy, loading, hurried>>

LoadFails(w) ==
  /\ life[w] = "loading" /\ busy[w] = Idle
  /\ life' = [life EXCEPT ![w] = "failed"]
  /\ Reply(w, "nothing", InitRequest)
  /\ UNCHANGED <<main, inbox, busy, loading, hurried>>

(* "wasm must be initialized", or the program runs and blocks the thread.  *)
ReceiveCall(w) ==
  /\ Receive(w, "call")
  /\ \/ /\ life[w] # "ready"
        /\ Reply(w, "error", Head(inbox[w]))
        /\ hurried' = hurried \cup {w}
        /\ UNCHANGED busy
     \/ /\ life[w] = "ready"
        /\ busy' = [busy EXCEPT ![w] = Head(inbox[w])]
        /\ UNCHANGED <<outbox, hurried>>
  /\ UNCHANGED <<main, life, loading>>

(* The program returns or throws. *)
ProgramEnds(w) ==
  /\ life[w] # "gone" /\ busy[w] # Idle
  /\ \E event \in {"ok", "error"} : Reply(w, event, busy[w])
  /\ busy' = [busy EXCEPT ![w] = Idle]
  /\ UNCHANGED <<main, life, inbox, loading, hurried>>

ReceiveFs(w) ==
  /\ Receive(w, "fs")
  /\ \/ /\ life[w] # "ready"
        /\ Reply(w, "error", Head(inbox[w]))
        /\ UNCHANGED loading
     \/ /\ life[w] = "ready"
        /\ loading' = [loading EXCEPT ![w] = @ \cup {Head(inbox[w])}]
        /\ UNCHANGED outbox
  /\ UNCHANGED <<main, life, busy, hurried>>

FsEnds(w, r) ==
  /\ r \in loading[w] /\ life[w] # "gone" /\ busy[w] = Idle
  /\ \E event \in {"ok", "error"} : Reply(w, event, r)
  /\ loading' = [loading EXCEPT ![w] = @ \ {r}]
  /\ UNCHANGED <<main, life, inbox, busy, hurried>>

(* The program calls process.exit, or the thread crashes: no more replies. *)
WorkerExits(w) ==
  /\ life[w] \in {"new", "loading", "ready", "failed"}
  /\ life' = [life EXCEPT ![w] = "gone"]
  /\ Reply(w, "exit", Idle)
  /\ UNCHANGED <<main, inbox, busy, loading, hurried>>

-----------------------------------------------------------------------------
MainTakes == \E w \in Worker : OnInit(w) \/ OnNothing(w) \/ OnReply(w) \/ OnExit(w)

WorkerGoes(w) ==
  \/ ReceiveInit(w) \/ Loaded(w) \/ LoadFails(w)
  \/ ReceiveCall(w) \/ ProgramEnds(w)
  \/ ReceiveFs(w) \/ \E r \in loading[w] : FsEnds(w, r)

Next ==
  \/ \E c \in Call : ResumeCall(c) \/ BeginFs(c) \/ \E k \in {"call", "exec"} : BeginCall(c, k)
  \/ Terminate
  \/ MainTakes
  \/ \E w \in Worker : WorkerGoes(w) \/ WorkerExits(w)

(* Both event loops turn, imports and file systems answer, and programs    *)
(* end: a program that does not keeps its call waiting, and rightly.       *)
Fairness ==
  /\ \A c \in Call : WF_vars(ResumeCall(c))
  /\ WF_vars(MainTakes)
  /\ \A w \in Worker : WF_vars(WorkerGoes(w))

Spec == Init /\ [][Next]_vars
FairSpec == Spec /\ Fairness

-----------------------------------------------------------------------------
(* Properties *)

Requests(events) == [event : events, id : 0 .. callId, of : Call \cup {None}]

(* The type of every variable. *)
TypeOK ==
  /\ closed \in BOOLEAN
  /\ worker \in 0 .. started /\ started \in 0 .. MaxWorkers
  /\ inflight \in BOOLEAN /\ listening \in BOOLEAN
  /\ callId \in Nat
  /\ phase \in [Call -> {"none", "init", "resumed", "waiting", "done"}]
  /\ kind \in [Call -> Kind]
  /\ id \in [Call -> 0 .. callId]
  /\ on \in [Call -> 0 .. started]
  /\ result \in [Call -> [how : {"none", "ok", "error", "exit", "no worker"},
                          by : (Worker \cup {None}) \X (Call \cup {None})]]
  /\ life \in [Worker -> {"none", "new", "loading", "ready", "failed", "gone"}]
  /\ \A w \in Worker :
       /\ \A j \in DOMAIN inbox[w] : inbox[w][j] \in Requests({"init", "call", "fs"})
       /\ \A j \in DOMAIN outbox[w] :
            outbox[w][j].event \in {"init", "nothing", "ok", "error", "exit"}
  /\ \A w \in Worker : /\ busy[w] \in Requests({"none", "call"})
                       /\ \A r \in loading[w] : r \in Requests({"fs"})
  /\ hurried \subseteq Worker /\ initLost \in BOOLEAN

(* A call settles with the reply to its own request from the worker it was *)
(* posted to, not with one for another call or of an earlier worker.       *)
OwnReply ==
  \A c \in Call :
    result[c].how \in {"ok", "error"} => result[c].by = <<on[c], c>>

(* Nobody waits on a worker that is no longer there: whatever takes the    *)
(* worker away settles the calls that wait on it.  And callWithString never*)
(* reaches a worker that is still loading: all calls made during init wait *)
(* for the one init there is ("wasm must be initialized").                 *)
WaitsOnLiveWorker ==
  /\ TypeOK
  /\ \A c \in Call : phase[c] = "waiting" => on[c] = worker
  /\ hurried = {}

(* A call that waits settles, by its reply or by the end of the worker.    *)
CallSettles == \A c \in Call : phase[c] = "waiting" ~> phase[c] = "done"

(* A call that waits for init goes on, unless init failed or the worker    *)
(* ended during it; those two leave it, and all later calls, waiting.      *)
InitSettles == \A c \in Call : phase[c] = "init" ~> phase[c] # "init" \/ initLost

=============================================================================
