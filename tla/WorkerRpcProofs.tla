---------------------------- MODULE WorkerRpcProofs ----------------------------
(***************************************************************************)
(* What holds of WorkerRpc for any calls and any number of workers.        *)
(***************************************************************************)
EXTENDS WorkerRpc, SequenceTheorems, TLAPS

-----------------------------------------------------------------------------
(* Queues: what is in one after a message was added or taken. *)

(* A message was added at the end. *)
LEMMA AppendEach ==
  ASSUME NEW S, NEW q \in Seq(S), NEW e \in S
  PROVE  /\ Append(q, e) \in Seq(S)
         /\ \A j \in DOMAIN Append(q, e) :
              \/ j \in DOMAIN q /\ Append(q, e)[j] = q[j]
              \/ j = Len(q) + 1 /\ Append(q, e)[j] = e
BY AppendProperties, LenProperties

(* The first message was taken. *)
LEMMA TailEach ==
  ASSUME NEW S, NEW q \in Seq(S), q # <<>>
  PROVE  /\ Tail(q) \in Seq(S)
         /\ 1 \in DOMAIN q /\ Head(q) = q[1] /\ Head(q) \in S
         /\ \A j \in DOMAIN Tail(q) : j + 1 \in DOMAIN q /\ Tail(q)[j] = q[j + 1] /\ j + 1 # 1
<1>1. /\ Len(q) \in Nat /\ DOMAIN q = 1 .. Len(q) /\ Len(q) > 0
  BY EmptySeq, LenProperties
<1>2. /\ Tail(q) \in Seq(S) /\ Len(Tail(q)) = Len(q) - 1
      /\ \A i \in 1 .. Len(Tail(q)) : Tail(q)[i] = q[i + 1]
      /\ Head(q) \in S
  BY HeadTailProperties
<1>3. DOMAIN Tail(q) = 1 .. Len(q) - 1
  BY <1>2, LenProperties
<1>4. Head(q) = q[1]
  OBVIOUS
<1> QED
  BY <1>1, <1>2, <1>3, <1>4

-----------------------------------------------------------------------------
(* The types, of the messages too *)

Message == [event : {"init", "call", "fs", "none"}, id : Nat, of : Call \cup {None}]
Response == [event : {"init", "nothing", "ok", "error", "exit"}, id : Nat,
             by : Worker \X (Call \cup {None})]
How == {"none", "ok", "error", "exit", "no worker"}
Outcome == [how : How, by : (Worker \cup {None}) \X (Call \cup {None})]
Life == {"none", "new", "loading", "ready", "failed", "gone"}
Phase == {"none", "init", "resumed", "waiting", "done"}

MainTypes ==
  /\ closed \in BOOLEAN
  /\ worker \in 0 .. started /\ started \in 0 .. MaxWorkers
  /\ inflight \in BOOLEAN /\ listening \in BOOLEAN
  /\ callId \in Nat
  /\ phase \in [Call -> Phase]
  /\ kind \in [Call -> Kind]
  /\ id \in [Call -> 0 .. callId]
  /\ on \in [Call -> 0 .. started]
  /\ result \in [Call -> Outcome]
  /\ initLost \in BOOLEAN

ThreadTypes ==
  /\ life \in [Worker -> Life]
  /\ inbox \in [Worker -> Seq(Message)]
  /\ outbox \in [Worker -> Seq(Response)]
  /\ busy \in [Worker -> Message]
  /\ \A w \in Worker : busy[w].event \in {"none", "call"}
  /\ loading \in [Worker -> SUBSET Message]
  /\ \A w \in Worker : \A r \in loading[w] : r.event = "fs"
  /\ hurried \subseteq Worker

Types == MainTypes /\ ThreadTypes

(* Zero is nobody, and the workers are numbered from one. *)
LEMMA Numbers ==
  ASSUME MainTypes
  PROVE  /\ None \in Nat /\ None \notin Worker /\ Worker \subseteq Nat
         /\ worker # None => worker \in Worker
         /\ worker <= started /\ worker \in Nat /\ started \in Nat /\ callId \in Nat
BY WorkersAssumption DEF None, Worker, MainTypes

(* The parts of a request. *)
LEMMA Requesting ==
  /\ InitRequest \in Message /\ Idle \in Message
  /\ InitRequest.event = "init" /\ InitRequest.id = None
  /\ Idle.event = "none" /\ Idle.id = None /\ Idle.of = None
  /\ \A e \in {"call", "fs"}, i \in Nat, c \in Call :
       /\ Request(e, i, c) \in Message
       /\ Request(e, i, c).event = e /\ Request(e, i, c).id = i /\ Request(e, i, c).of = c
BY DEF InitRequest, Idle, Request, Message, None

(* How a call settles. *)
LEMMA Outcomes ==
  /\ Pending \in Outcome
  /\ \A how \in How, by \in (Worker \cup {None}) \X (Call \cup {None}) : Settled(how, by) \in Outcome
BY DEF Pending, Settled, Outcome, How

(* All is of its type at the start. *)
LEMMA InitTypes == Init => Types
<1> SUFFICES ASSUME Init PROVE Types
  OBVIOUS
<1>1. closed \in BOOLEAN /\ inflight \in BOOLEAN /\ listening \in BOOLEAN /\ initLost \in BOOLEAN
  BY Zenon DEF Init
<1>2. MainTypes
  BY <1>1, Outcomes, WorkersAssumption DEF Init, MainTypes, Phase, Kind, None
<1>3. <<>> \in Seq(Message) /\ <<>> \in Seq(Response)
  BY EmptySeq
<1>4. ThreadTypes
  BY <1>3, Requesting DEF Init, ThreadTypes, Life
<1> QED
  BY <1>2, <1>4 DEF Types

(* Replies of a worker. *)
LEMMA ReplyTypes ==
  ASSUME ThreadTypes, NEW w \in Worker, NEW r \in Message, NEW e \in {"init", "nothing", "ok", "error", "exit"},
         Reply(w, e, r)
  PROVE  /\ [event |-> e, id |-> r.id, by |-> <<w, r.of>>] \in Response
         /\ outbox' \in [Worker -> Seq(Response)]
         /\ outbox'[w] = Append(outbox[w], [event |-> e, id |-> r.id, by |-> <<w, r.of>>])
         /\ \A v \in Worker \ {w} : outbox'[v] = outbox[v]
<1>1. [event |-> e, id |-> r.id, by |-> <<w, r.of>>] \in Response
  BY DEF Response, Message
<1>2. outbox[w] \in Seq(Response)
  BY DEF ThreadTypes
<1>3. Append(outbox[w], [event |-> e, id |-> r.id, by |-> <<w, r.of>>]) \in Seq(Response)
  BY <1>1, <1>2, AppendEach
<1> QED
  BY <1>1, <1>3 DEF Reply, ThreadTypes

(* A worker takes the first of its messages. *)
LEMMA ReceiveTypes ==
  ASSUME ThreadTypes, NEW w \in Worker, NEW e, Receive(w, e)
  PROVE  /\ inbox[w] # <<>> /\ inbox[w] \in Seq(Message) /\ inbox'[w] = Tail(inbox[w])
         /\ \A v \in Worker \ {w} : inbox'[v] = inbox[v]
         /\ inbox' \in [Worker -> Seq(Message)]
         /\ Head(inbox[w]) \in Message /\ Head(inbox[w]).event = e
         /\ Head(inbox[w]) = inbox[w][1] /\ 1 \in DOMAIN inbox[w]
         /\ life[w] \in {"new", "loading", "ready", "failed"} /\ busy[w] = Idle
<1>1. inbox[w] \in Seq(Message) /\ inbox[w] # <<>>
  BY DEF Receive, ThreadTypes
<1>2. /\ Tail(inbox[w]) \in Seq(Message) /\ Head(inbox[w]) \in Message
      /\ Head(inbox[w]) = inbox[w][1] /\ 1 \in DOMAIN inbox[w]
  BY <1>1, TailEach
<1> QED
  BY <1>1, <1>2 DEF Receive, ThreadTypes

(* What a step leaves alone keeps its type. *)
LEMMA TypesKept ==
  ASSUME ThreadTypes,
         life' = life \/ life' \in [Worker -> Life],
         inbox' = inbox \/ inbox' \in [Worker -> Seq(Message)],
         outbox' = outbox \/ outbox' \in [Worker -> Seq(Response)],
         \/ busy' = busy
         \/ busy' \in [Worker -> Message] /\ \A v \in Worker : busy'[v].event \in {"none", "call"},
         \/ loading' = loading
         \/ loading' \in [Worker -> SUBSET Message] /\ \A v \in Worker : \A r \in loading'[v] : r.event = "fs",
         hurried' = hurried \/ hurried' \subseteq Worker
  PROVE  ThreadTypes'
<1>1. life' \in [Worker -> Life] /\ inbox' \in [Worker -> Seq(Message)]
      /\ outbox' \in [Worker -> Seq(Response)]
  BY Zenon DEF ThreadTypes
<1>2. busy' \in [Worker -> Message] /\ loading' \in [Worker -> SUBSET Message]
  BY Zenon DEF ThreadTypes
<1>3. \A v \in Worker : busy'[v].event \in {"none", "call"}
  <2>1. CASE busy' = busy
    BY <2>1 DEF ThreadTypes
  <2> QED
    BY Zenon, <2>1
<1>4. \A v \in Worker : \A r \in loading'[v] : r.event = "fs"
  <2>1. CASE loading' = loading
    BY <2>1 DEF ThreadTypes
  <2> QED
    BY Zenon, <2>1
<1>5. hurried' \subseteq Worker
  BY Zenon DEF ThreadTypes
<1> QED
  BY Zenon, <1>1, <1>2, <1>3, <1>4, <1>5 DEF ThreadTypes

(* A worker that takes up a call, or none. *)
LEMMA BusyTypes ==
  ASSUME ThreadTypes, NEW w \in Worker, NEW m \in Message, m.event \in {"none", "call"},
         busy' = [busy EXCEPT ![w] = m]
  PROVE  busy' \in [Worker -> Message] /\ \A v \in Worker : busy'[v].event \in {"none", "call"}
<1>1. busy' \in [Worker -> Message]
  BY DEF ThreadTypes
<1>2. ASSUME NEW v \in Worker PROVE busy'[v].event \in {"none", "call"}
  <2>1. busy'[v] = busy[v] \/ busy'[v] = m
    BY DEF ThreadTypes
  <2>2. busy[v].event \in {"none", "call"}
    BY DEF ThreadTypes
  <2> QED
    BY Zenon, <2>1, <2>2
<1> QED
  BY <1>1, <1>2

(* A worker that begins or ends to wait for the file system. *)
LEMMA LoadingTypes ==
  ASSUME ThreadTypes, NEW w \in Worker, NEW r \in Message, r.event = "fs",
         \/ loading' = [loading EXCEPT ![w] = @ \cup {r}]
         \/ loading' = [loading EXCEPT ![w] = @ \ {r}]
  PROVE  loading' \in [Worker -> SUBSET Message] /\ \A v \in Worker : \A q \in loading'[v] : q.event = "fs"
<1>1. loading[w] \cup {r} \in SUBSET Message /\ loading[w] \ {r} \in SUBSET Message
  BY DEF ThreadTypes
<1>2. loading' \in [Worker -> SUBSET Message]
  BY <1>1 DEF ThreadTypes
<1>3. ASSUME NEW v \in Worker, NEW q \in loading'[v] PROVE q.event = "fs"
  <2>1. loading'[v] \subseteq loading[v] \cup {r}
    BY DEF ThreadTypes
  <2>2. \A m \in loading[v] : m.event = "fs"
    BY DEF ThreadTypes
  <2> QED
    BY Zenon, <1>3, <2>1, <2>2
<1> QED
  BY <1>2, <1>3

(* A step of a worker keeps the types. *)
LEMMA ThreadStepTypes ==
  ASSUME Types, NEW w \in Worker, WorkerGoes(w) \/ WorkerExits(w)
  PROVE  Types'
<1>1. UNCHANGED main
  BY DEF WorkerGoes, WorkerExits, ReceiveInit, Loaded, LoadFails, ReceiveCall, ProgramEnds,
         ReceiveFs, FsEnds
<1>2. MainTypes'
  BY <1>1 DEF Types, MainTypes, main
<1>3. ThreadTypes
  BY DEF Types
<1>4. ASSUME ReceiveInit(w) PROVE ThreadTypes'
  <2>1. Receive(w, "init") /\ life' = [life EXCEPT ![w] = "loading"]
        /\ outbox' = outbox /\ busy' = busy /\ loading' = loading /\ hurried' = hurried
    BY <1>4 DEF ReceiveInit
  <2>2. inbox' \in [Worker -> Seq(Message)]
    BY Zenon, <1>3, <2>1, ReceiveTypes
  <2>3. life' \in [Worker -> Life]
    BY <1>3, <2>1 DEF ThreadTypes, Life
  <2> QED
    BY TypesKept, <1>3, <2>1, <2>2, <2>3
<1>5. ASSUME Loaded(w) PROVE ThreadTypes'
  <2>1. Reply(w, "init", InitRequest) /\ life' = [life EXCEPT ![w] = "ready"]
        /\ inbox' = inbox /\ busy' = busy /\ loading' = loading /\ hurried' = hurried
    BY <1>5 DEF Loaded
  <2>2. outbox' \in [Worker -> Seq(Response)]
    BY Zenon, <1>3, <2>1, Requesting, ReplyTypes
  <2>3. life' \in [Worker -> Life]
    BY <1>3, <2>1 DEF ThreadTypes, Life
  <2> QED
    BY TypesKept, <1>3, <2>1, <2>2, <2>3
<1>6. ASSUME LoadFails(w) PROVE ThreadTypes'
  <2>1. Reply(w, "nothing", InitRequest) /\ life' = [life EXCEPT ![w] = "failed"]
        /\ inbox' = inbox /\ busy' = busy /\ loading' = loading /\ hurried' = hurried
    BY <1>6 DEF LoadFails
  <2>2. outbox' \in [Worker -> Seq(Response)]
    BY Zenon, <1>3, <2>1, Requesting, ReplyTypes
  <2>3. life' \in [Worker -> Life]
    BY <1>3, <2>1 DEF ThreadTypes, Life
  <2> QED
    BY TypesKept, <1>3, <2>1, <2>2, <2>3
<1>7. ASSUME ReceiveCall(w) PROVE ThreadTypes'
  <2>1. Receive(w, "call") /\ life' = life /\ loading' = loading
        /\ \/ Reply(w, "error", Head(inbox[w])) /\ busy' = busy /\ hurried' = hurried \cup {w}
           \/ /\ busy' = [busy EXCEPT ![w] = Head(inbox[w])]
              /\ outbox' = outbox /\ hurried' = hurried
    BY <1>7 DEF ReceiveCall
  <2>2. inbox' \in [Worker -> Seq(Message)] /\ Head(inbox[w]) \in Message
        /\ Head(inbox[w]).event = "call"
    BY Zenon, <1>3, <2>1, ReceiveTypes
  <2>3. outbox' \in [Worker -> Seq(Response)]
    BY Zenon, <1>3, <2>1, <2>2, ReplyTypes DEF ThreadTypes
  <2>4. \/ busy' = busy
        \/ busy' \in [Worker -> Message] /\ \A v \in Worker : busy'[v].event \in {"none", "call"}
    BY Zenon, <1>3, <2>1, <2>2, BusyTypes
  <2>5. hurried' = hurried \/ hurried' \subseteq Worker
    BY <1>3, <2>1 DEF ThreadTypes
  <2> QED
    BY TypesKept, <1>3, <2>1, <2>2, <2>3, <2>4, <2>5
<1>8. ASSUME ProgramEnds(w) PROVE ThreadTypes'
  <2>1. (\E event \in {"ok", "error"} : Reply(w, event, busy[w])) /\ busy' = [busy EXCEPT ![w] = Idle]
        /\ life' = life /\ inbox' = inbox /\ loading' = loading /\ hurried' = hurried
    BY <1>8 DEF ProgramEnds
  <2>2. busy[w] \in Message
    BY <1>3 DEF ThreadTypes
  <2>3. outbox' \in [Worker -> Seq(Response)]
    BY Zenon, <1>3, <2>1, <2>2, ReplyTypes
  <2>4. busy' \in [Worker -> Message] /\ (\A v \in Worker : busy'[v].event \in {"none", "call"})
    BY Zenon, <1>3, <2>1, BusyTypes, Requesting
  <2> QED
    BY TypesKept, <1>3, <2>1, <2>3, <2>4
<1>9. ASSUME ReceiveFs(w) PROVE ThreadTypes'
  <2>1. Receive(w, "fs") /\ life' = life /\ busy' = busy /\ hurried' = hurried
        /\ \/ Reply(w, "error", Head(inbox[w])) /\ loading' = loading
           \/ /\ loading' = [loading EXCEPT ![w] = @ \cup {Head(inbox[w])}]
              /\ outbox' = outbox
    BY <1>9 DEF ReceiveFs
  <2>2. inbox' \in [Worker -> Seq(Message)] /\ Head(inbox[w]) \in Message
        /\ Head(inbox[w]).event = "fs"
    BY Zenon, <1>3, <2>1, ReceiveTypes
  <2>3. outbox' \in [Worker -> Seq(Response)]
    BY Zenon, <1>3, <2>1, <2>2, ReplyTypes DEF ThreadTypes
  <2>4. \/ loading' = loading
        \/ loading' \in [Worker -> SUBSET Message] /\ \A v \in Worker : \A r \in loading'[v] : r.event = "fs"
    BY Zenon, <1>3, <2>1, <2>2, LoadingTypes
  <2> QED
    BY TypesKept, <1>3, <2>1, <2>2, <2>3, <2>4
<1>10. ASSUME NEW r \in loading[w], FsEnds(w, r) PROVE ThreadTypes'
  <2>1. (\E event \in {"ok", "error"} : Reply(w, event, r)) /\ loading' = [loading EXCEPT ![w] = @ \ {r}]
        /\ life' = life /\ inbox' = inbox /\ busy' = busy /\ hurried' = hurried
    BY <1>10 DEF FsEnds
  <2>2. r \in Message /\ r.event = "fs"
    BY <1>3, <1>10 DEF ThreadTypes
  <2>3. outbox' \in [Worker -> Seq(Response)]
    BY Zenon, <1>3, <2>1, <2>2, ReplyTypes
  <2>4. loading' \in [Worker -> SUBSET Message]
        /\ (\A v \in Worker : \A q \in loading'[v] : q.event = "fs")
    BY Zenon, <1>3, <2>1, <2>2, LoadingTypes
  <2> QED
    BY TypesKept, <1>3, <2>1, <2>3, <2>4
<1>11. ASSUME WorkerExits(w) PROVE ThreadTypes'
  <2>1. Reply(w, "exit", Idle) /\ life' = [life EXCEPT ![w] = "gone"]
        /\ inbox' = inbox /\ busy' = busy /\ loading' = loading /\ hurried' = hurried
    BY <1>11 DEF WorkerExits
  <2>2. outbox' \in [Worker -> Seq(Response)]
    BY Zenon, <1>3, <2>1, Requesting, ReplyTypes
  <2>3. life' \in [Worker -> Life]
    BY <1>3, <2>1 DEF ThreadTypes, Life
  <2> QED
    BY TypesKept, <1>3, <2>1, <2>2, <2>3
<1>12. ThreadTypes'
  BY <1>4, <1>5, <1>6, <1>7, <1>8, <1>9, <1>10, <1>11 DEF WorkerGoes
<1> QED
  BY <1>2, <1>12 DEF Types

-----------------------------------------------------------------------------
(* The inductive invariant: every message that is about a call was posted  *)
(* by it, to that worker and under its id; no call but the one init is     *)
(* posted before the worker said that it is ready.                         *)

Posted(w, i, c) == c \in Call /\ i # None /\ id[c] = i /\ on[c] = w
Up(w) == life[w] \in {"ready", "gone"}

CallSound(c) ==
  /\ phase[c] \in {"none", "init", "resumed"} => id[c] = None
  /\ phase[c] = "waiting" => id[c] # None /\ on[c] # None /\ on[c] = worker
  /\ phase[c] # "done" => result[c] = Pending
  /\ result[c].how \in {"ok", "error"} => result[c].by = <<on[c], c>>
  /\ phase[c] = "resumed" => IF worker = None THEN closed ELSE Up(worker)

CallsSound ==
  /\ \A c \in Call : CallSound(c)
  /\ \A c, d \in Call : id[c] = id[d] /\ id[c] # None => c = d
  /\ worker # None /\ ~inflight => Up(worker)

AskSound(w, j, m) ==
  /\ m.event = "init" => j = 1 /\ life[w] \in {"new", "gone"} /\ m.id = None
  /\ m.event # "init" => m.event \in {"call", "fs"} /\ Posted(w, m.id, m.of)
  /\ m.event = "call" => Up(w)

AnswerSound(w, m) ==
  /\ m.event \in {"ok", "error"} => m.by[1] = w /\ Posted(w, m.id, m.by[2])
  /\ m.event = "init" => Up(w)

WorkerSound(w) ==
  /\ \A j \in DOMAIN inbox[w] : AskSound(w, j, inbox[w][j])
  /\ \A j \in DOMAIN outbox[w] : AnswerSound(w, outbox[w][j])
  /\ busy[w] # Idle => Posted(w, busy[w].id, busy[w].of)
  /\ \A r \in loading[w] : Posted(w, r.id, r.of)
  /\ w > started => life[w] = "none" /\ inbox[w] = <<>> /\ outbox[w] = <<>> /\ busy[w] = Idle /\ loading[w] = {}

WorkersSound == \A w \in Worker : WorkerSound(w)

RpcInv == Types /\ CallsSound /\ WorkersSound /\ hurried = {}

(* What is left in the worker's queue, what it adds to its answers. *)
InKept(w) ==
  \A j \in DOMAIN inbox'[w] : \E i \in DOMAIN inbox[w] :
    /\ inbox'[w][j] = inbox[w][i]
    /\ i = j \/ i # 1
    /\ inbox[w][i].event = "init" /\ i = 1 => life'[w] \in {"new", "gone"}
OutKept(w) ==
  \A j \in DOMAIN outbox'[w] :
    \/ \E i \in DOMAIN outbox[w] : outbox'[w][j] = outbox[w][i]
    \/ AnswerSound(w, outbox[w][j])'

(* The worker's own step: what it puts in a queue is about a call it got. *)
WorkerSteps(w) ==
  /\ UNCHANGED main
  /\ \A v \in Worker \ {w} :
       /\ life'[v] = life[v] /\ inbox'[v] = inbox[v] /\ outbox'[v] = outbox[v]
       /\ busy'[v] = busy[v] /\ loading'[v] = loading[v]
  /\ ~(w > started)
  /\ Up(w) => Up(w)'
  /\ hurried' = hurried
  /\ InKept(w) /\ OutKept(w)
  /\ busy'[w] # Idle => Posted(w, busy'[w].id, busy'[w].of)
  /\ \A r \in loading'[w] : Posted(w, r.id, r.of)

(* So it keeps the invariant. *)
LEMMA WorkerStepsKeep ==
  ASSUME RpcInv, Types', NEW w \in Worker, WorkerSteps(w)
  PROVE  RpcInv'
<1>1. /\ closed' = closed /\ worker' = worker /\ started' = started /\ inflight' = inflight
      /\ phase' = phase /\ id' = id /\ on' = on /\ result' = result
  BY DEF WorkerSteps, main
<1>2. \A v \in Worker : Up(v) => Up(v)'
  BY Zenon DEF WorkerSteps, Up
<1>3. worker # None => worker \in Worker
  BY Numbers DEF RpcInv, Types
<1>4. CallsSound'
  <2>1. ASSUME NEW c \in Call PROVE CallSound(c)'
    <3>1. CallSound(c)
      BY Zenon DEF RpcInv, CallsSound
    <3> QED
      BY Zenon, <3>1, <1>1, <1>2, <1>3 DEF CallSound
  <2>2. \A c, d \in Call : id'[c] = id'[d] /\ id'[c] # None => c = d
    BY Zenon, <1>1 DEF RpcInv, CallsSound
  <2>3. worker' # None /\ ~inflight' => Up(worker)'
    BY Zenon, <1>1, <1>2, <1>3 DEF RpcInv, CallsSound
  <2> QED
    BY Zenon, <2>1, <2>2, <2>3 DEF CallsSound
<1>5. \A v, i, c : Posted(v, i, c)' <=> Posted(v, i, c)
  BY Zenon, <1>1 DEF Posted
<1>6. ASSUME NEW v \in Worker PROVE WorkerSound(v)'
  <2>1. WorkerSound(v) /\ WorkerSound(w)
    BY Zenon DEF RpcInv, WorkersSound
  <2>2. CASE v # w
    <3>1. /\ life'[v] = life[v] /\ inbox'[v] = inbox[v] /\ outbox'[v] = outbox[v]
          /\ busy'[v] = busy[v] /\ loading'[v] = loading[v]
      BY Zenon, <2>2 DEF WorkerSteps
    <3>2. \A j, m : AskSound(v, j, m)' <=> AskSound(v, j, m)
      BY Zenon, <3>1, <1>5 DEF AskSound, Up
    <3>3. \A m : AnswerSound(v, m)' <=> AnswerSound(v, m)
      BY Zenon, <3>1, <1>5 DEF AnswerSound, Up
    <3> QED
      BY Zenon, <2>1, <3>1, <3>2, <3>3, <1>1, <1>5 DEF WorkerSound
  <2>3. CASE v = w
    <3>1. ASSUME NEW j \in DOMAIN inbox'[w] PROVE AskSound(w, j, inbox[w][j])'
      <4>1. PICK i \in DOMAIN inbox[w] :
              /\ inbox'[w][j] = inbox[w][i]
              /\ i = j \/ i # 1
              /\ inbox[w][i].event = "init" /\ i = 1 => life'[w] \in {"new", "gone"}
        BY Zenon, <3>1 DEF WorkerSteps, InKept
      <4>2. AskSound(w, i, inbox[w][i])
        BY Zenon, <2>1 DEF WorkerSound
      <4> QED
        BY Zenon, <4>1, <4>2, <1>2, <1>5 DEF AskSound
    <3>2. ASSUME NEW j \in DOMAIN outbox'[w] PROVE AnswerSound(w, outbox[w][j])'
      <4>1. ASSUME NEW i \in DOMAIN outbox[w], outbox'[w][j] = outbox[w][i]
            PROVE  AnswerSound(w, outbox[w][j])'
        BY Zenon, <2>1, <4>1, <1>2, <1>5 DEF WorkerSound, AnswerSound
      <4> QED
        BY Zenon, <3>2, <4>1 DEF WorkerSteps, OutKept
    <3>3. ~(w > started')
      BY Zenon, <2>1, <1>1 DEF WorkerSteps, WorkerSound
    <3>4. (busy[w] # Idle => Posted(w, busy[w].id, busy[w].of))'
          /\ \A r \in loading'[w] : Posted(w, r.id, r.of)'
      BY Zenon, <1>5 DEF WorkerSteps
    <3> QED
      BY Zenon, <2>3, <3>1, <3>2, <3>3, <3>4 DEF WorkerSound
  <2> QED
    BY Zenon, <2>2, <2>3
<1>7. hurried' = {}
  BY DEF WorkerSteps, RpcInv
<1> QED
  BY Zenon, <1>4, <1>6, <1>7 DEF RpcInv, WorkersSound

(* The queue after the first message was taken, and that message. *)
LEMMA Taking ==
  ASSUME RpcInv, NEW w \in Worker, NEW e, Receive(w, e)
  PROVE  /\ InKept(w)
         /\ AskSound(w, 1, Head(inbox[w]))
         /\ Head(inbox[w]) \in Message /\ Head(inbox[w]).event = e
         /\ \A v \in Worker \ {w} : inbox'[v] = inbox[v]
         /\ life[w] \in {"new", "loading", "ready", "failed"} /\ busy[w] = Idle
<1>1. ThreadTypes /\ WorkerSound(w)
  BY Zenon DEF RpcInv, Types, WorkersSound
<1>2. /\ inbox[w] # <<>> /\ inbox[w] \in Seq(Message) /\ inbox'[w] = Tail(inbox[w])
      /\ \A v \in Worker \ {w} : inbox'[v] = inbox[v]
      /\ Head(inbox[w]) \in Message /\ Head(inbox[w]).event = e
      /\ Head(inbox[w]) = inbox[w][1] /\ 1 \in DOMAIN inbox[w]
      /\ life[w] \in {"new", "loading", "ready", "failed"} /\ busy[w] = Idle
  BY Zenon, <1>1, ReceiveTypes
<1>3. AskSound(w, 1, inbox[w][1])
  BY Zenon, <1>1, <1>2 DEF WorkerSound
<1>4. \A j \in DOMAIN inbox'[w] : j + 1 \in DOMAIN inbox[w] /\ inbox'[w][j] = inbox[w][j + 1] /\ j + 1 # 1
  BY <1>2, TailEach
<1>5. InKept(w)
  BY Zenon, <1>4 DEF InKept
<1> QED
  BY <1>2, <1>3, <1>5

(* The answers after one more, about a call that was posted. *)
LEMMA Answering ==
  ASSUME RpcInv, UNCHANGED main, NEW w \in Worker, NEW r \in Message,
         NEW e \in {"init", "nothing", "ok", "error", "exit"}, Reply(w, e, r),
         e \in {"ok", "error"} => Posted(w, r.id, r.of),
         e = "init" => Up(w)'
  PROVE  OutKept(w) /\ \A v \in Worker \ {w} : outbox'[v] = outbox[v]
<1> DEFINE m == [event |-> e, id |-> r.id, by |-> <<w, r.of>>]
<1>1. ThreadTypes /\ WorkerSound(w)
  BY Zenon DEF RpcInv, Types, WorkersSound
<1>2. /\ m \in Response /\ outbox'[w] = Append(outbox[w], m)
      /\ \A v \in Worker \ {w} : outbox'[v] = outbox[v]
  BY <1>1, ReplyTypes
<1>3. \A j \in DOMAIN outbox'[w] : (j \in DOMAIN outbox[w] /\ outbox'[w][j] = outbox[w][j]) \/ outbox'[w][j] = m
  <2>1. outbox[w] \in Seq(Response)
    BY <1>1 DEF ThreadTypes
  <2> HIDE DEF m
  <2> QED
    BY <1>2, <2>1, AppendEach
<1>4. id' = id /\ on' = on
  BY DEF main
<1>5. m.event = e /\ m.id = r.id /\ m.by[1] = w /\ m.by[2] = r.of
  OBVIOUS
<1> HIDE DEF m
<1>6. AnswerSound(w, m)'
  BY Zenon, <1>4, <1>5 DEF AnswerSound, Posted
<1> QED
  BY Zenon, <1>2, <1>3, <1>6 DEF OutKept, AnswerSound

(* The queue of a worker that leaves it alone. *)
LEMMA NotTaking ==
  ASSUME RpcInv, NEW w \in Worker, inbox' = inbox,
         life'[w] = life[w] \/ life[w] \notin {"new", "gone"} \/ life'[w] = "gone"
  PROVE  InKept(w)
<1>1. ASSUME NEW j \in DOMAIN inbox[w], inbox[w][j].event = "init" PROVE life'[w] \in {"new", "gone"}
  BY Zenon, <1>1 DEF RpcInv, WorkersSound, WorkerSound, AskSound
<1> QED
  BY Zenon, <1>1 DEF InKept

(* Every step of a worker is of that form. *)
LEMMA WorkersStep ==
  ASSUME RpcInv, NEW w \in Worker, WorkerGoes(w) \/ WorkerExits(w)
  PROVE  WorkerSteps(w)
<1>1. ThreadTypes /\ WorkerSound(w) /\ hurried = {}
  BY Zenon DEF RpcInv, Types, WorkersSound
<1>a. /\ life \in [Worker -> Life] /\ busy \in [Worker -> Message] /\ loading \in [Worker -> SUBSET Message]
  BY <1>1 DEF ThreadTypes
<1>b. (busy[w] # Idle => Posted(w, busy[w].id, busy[w].of)) /\ \A r \in loading[w] : Posted(w, r.id, r.of)
  BY Zenon, <1>1 DEF WorkerSound
<1>d. w > started => life[w] = "none" /\ inbox[w] = <<>> /\ outbox[w] = <<>> /\ busy[w] = Idle /\ loading[w] = {}
  BY Zenon, <1>1 DEF WorkerSound
<1>c. outbox' = outbox => OutKept(w)
  BY Zenon DEF OutKept
<1>2. ASSUME ReceiveInit(w) PROVE WorkerSteps(w)
  <2>1. Receive(w, "init") /\ life' = [life EXCEPT ![w] = "loading"] /\ UNCHANGED main
        /\ outbox' = outbox /\ busy' = busy /\ loading' = loading /\ hurried' = hurried
    BY <1>2 DEF ReceiveInit
  <2>2. /\ InKept(w) /\ AskSound(w, 1, Head(inbox[w])) /\ Head(inbox[w]).event = "init"
        /\ \A v \in Worker \ {w} : inbox'[v] = inbox[v]
        /\ life[w] \in {"new", "loading", "ready", "failed"}
    BY Zenon, <2>1, Taking
  <2>3. ~(w > started) /\ ~Up(w)
    BY <2>2, <1>d DEF AskSound, Up
  <2>4. \A v \in Worker \ {w} : life'[v] = life[v]
    BY <2>1, <1>a
  <2> QED
    BY Zenon, <1>b, <1>c, <2>1, <2>2, <2>3, <2>4 DEF WorkerSteps
<1>3. ASSUME Loaded(w) PROVE WorkerSteps(w)
  <2>1. Reply(w, "init", InitRequest) /\ life[w] = "loading" /\ life' = [life EXCEPT ![w] = "ready"] /\ UNCHANGED main
        /\ inbox' = inbox /\ busy' = busy /\ loading' = loading /\ hurried' = hurried
    BY <1>3 DEF Loaded
  <2>2. life'[w] = "ready" /\ (\A v \in Worker \ {w} : life'[v] = life[v]) /\ ~(w > started) /\ ~Up(w) /\ Up(w)'
    BY <2>1, <1>a, <1>d DEF Up
  <2>3. OutKept(w) /\ \A v \in Worker \ {w} : outbox'[v] = outbox[v]
    BY Zenon, <2>1, <2>2, Answering, Requesting
  <2>4. InKept(w)
    BY <2>1, <2>2, NotTaking
  <2> QED
    BY Zenon, <1>b, <2>1, <2>2, <2>3, <2>4 DEF WorkerSteps
<1>4. ASSUME LoadFails(w) PROVE WorkerSteps(w)
  <2>1. Reply(w, "nothing", InitRequest) /\ life[w] = "loading" /\ life' = [life EXCEPT ![w] = "failed"] /\ UNCHANGED main
        /\ inbox' = inbox /\ busy' = busy /\ loading' = loading /\ hurried' = hurried
    BY <1>4 DEF LoadFails
  <2>2. life'[w] = "failed" /\ (\A v \in Worker \ {w} : life'[v] = life[v]) /\ ~(w > started) /\ ~Up(w)
    BY <2>1, <1>a, <1>d DEF Up
  <2>3. OutKept(w) /\ \A v \in Worker \ {w} : outbox'[v] = outbox[v]
    BY Zenon, <2>1, <2>2, Answering, Requesting
  <2>4. InKept(w)
    BY <2>1, <2>2, NotTaking
  <2> QED
    BY Zenon, <1>b, <2>1, <2>2, <2>3, <2>4 DEF WorkerSteps
<1>5. ASSUME ReceiveCall(w) PROVE WorkerSteps(w)
  <2>1. /\ Receive(w, "call") /\ UNCHANGED main /\ life' = life /\ loading' = loading
        /\ \/ life[w] # "ready"
           \/ busy' = [busy EXCEPT ![w] = Head(inbox[w])] /\ outbox' = outbox /\ hurried' = hurried
    BY <1>5 DEF ReceiveCall
  <2>2. /\ InKept(w) /\ AskSound(w, 1, Head(inbox[w])) /\ Head(inbox[w]) \in Message /\ Head(inbox[w]).event = "call"
        /\ \A v \in Worker \ {w} : inbox'[v] = inbox[v]
        /\ life[w] \in {"new", "loading", "ready", "failed"}
    BY Zenon, <2>1, Taking
  <2>3. life[w] = "ready" /\ Posted(w, Head(inbox[w]).id, Head(inbox[w]).of)
    BY <2>2 DEF AskSound, Up
  <2>4. busy'[w] = Head(inbox[w]) /\ outbox' = outbox /\ hurried' = hurried
        /\ \A v \in Worker \ {w} : busy'[v] = busy[v]
    BY <2>1, <2>3, <1>a
  <2>5. ~(w > started) /\ (Up(w) => Up(w)')
    BY <2>1, <2>3, <1>d DEF Up
  <2> QED
    BY Zenon, <1>b, <1>c, <2>1, <2>2, <2>3, <2>4, <2>5 DEF WorkerSteps
<1>6. ASSUME ProgramEnds(w) PROVE WorkerSteps(w)
  <2>1. (\E event \in {"ok", "error"} : Reply(w, event, busy[w])) /\ busy[w] # Idle /\ busy' = [busy EXCEPT ![w] = Idle]
        /\ UNCHANGED main /\ life' = life /\ inbox' = inbox /\ loading' = loading /\ hurried' = hurried
    BY <1>6 DEF ProgramEnds
  <2>2. busy[w] \in Message /\ busy'[w] = Idle /\ \A v \in Worker \ {w} : busy'[v] = busy[v]
    BY <2>1, <1>a
  <2>3. OutKept(w) /\ \A v \in Worker \ {w} : outbox'[v] = outbox[v]
    BY Zenon, <2>1, <2>2, <1>b, Answering
  <2>4. InKept(w)
    BY <2>1, NotTaking
  <2>5. ~(w > started) /\ (Up(w) => Up(w)')
    BY <2>1, <1>d DEF Up
  <2> QED
    BY Zenon, <1>b, <2>1, <2>2, <2>3, <2>4, <2>5 DEF WorkerSteps
<1>7. ASSUME ReceiveFs(w) PROVE WorkerSteps(w)
  <2>1. Receive(w, "fs") /\ UNCHANGED main /\ life' = life /\ busy' = busy /\ hurried' = hurried
        /\ \/ Reply(w, "error", Head(inbox[w])) /\ loading' = loading
           \/ loading' = [loading EXCEPT ![w] = @ \cup {Head(inbox[w])}] /\ outbox' = outbox
    BY <1>7 DEF ReceiveFs
  <2>2. /\ InKept(w) /\ AskSound(w, 1, Head(inbox[w])) /\ Head(inbox[w]) \in Message /\ Head(inbox[w]).event = "fs"
        /\ \A v \in Worker \ {w} : inbox'[v] = inbox[v]
        /\ life[w] \in {"new", "loading", "ready", "failed"}
    BY Zenon, <2>1, Taking
  <2>3. Posted(w, Head(inbox[w]).id, Head(inbox[w]).of)
    BY <2>2 DEF AskSound
  <2>4. OutKept(w) /\ \A v \in Worker \ {w} : outbox'[v] = outbox[v]
    <3>1. CASE outbox' = outbox
      BY Zenon, <3>1, <1>c
    <3>2. CASE Reply(w, "error", Head(inbox[w]))
      BY Zenon, <3>2, <2>1, <2>2, <2>3, Answering
    <3> QED
      BY Zenon, <2>1, <3>1, <3>2
  <2>5. (\A r \in loading'[w] : r \in loading[w] \/ r = Head(inbox[w]))
        /\ \A v \in Worker \ {w} : loading'[v] = loading[v]
    BY <2>1, <1>a
  <2>6. \A r \in loading'[w] : Posted(w, r.id, r.of)
    BY Zenon, <2>3, <2>5, <1>b
  <2>7. ~(w > started) /\ (Up(w) => Up(w)')
    BY <2>1, <2>2, <1>d DEF Up
  <2> QED
    BY Zenon, <1>b, <2>1, <2>2, <2>4, <2>5, <2>6, <2>7 DEF WorkerSteps
<1>8. ASSUME NEW r \in loading[w], FsEnds(w, r) PROVE WorkerSteps(w)
  <2>1. (\E event \in {"ok", "error"} : Reply(w, event, r)) /\ loading' = [loading EXCEPT ![w] = @ \ {r}]
        /\ UNCHANGED main /\ life' = life /\ inbox' = inbox /\ busy' = busy /\ hurried' = hurried
    BY <1>8 DEF FsEnds
  <2>2. r \in Message /\ Posted(w, r.id, r.of)
    BY <1>a, <1>b
  <2>3. OutKept(w) /\ \A v \in Worker \ {w} : outbox'[v] = outbox[v]
    BY Zenon, <2>1, <2>2, Answering
  <2>4. InKept(w)
    BY <2>1, NotTaking
  <2>5. loading'[w] \subseteq loading[w] /\ \A v \in Worker \ {w} : loading'[v] = loading[v]
    BY <2>1, <1>a
  <2>6. ~(w > started) /\ (Up(w) => Up(w)')
    BY <2>1, <1>d, <1>8 DEF Up
  <2> QED
    BY Zenon, <1>b, <2>1, <2>3, <2>4, <2>5, <2>6 DEF WorkerSteps
<1>9. ASSUME WorkerExits(w) PROVE WorkerSteps(w)
  <2>1. Reply(w, "exit", Idle) /\ life[w] \in {"new", "loading", "ready", "failed"} /\ life' = [life EXCEPT ![w] = "gone"]
        /\ UNCHANGED main /\ inbox' = inbox /\ busy' = busy /\ loading' = loading /\ hurried' = hurried
    BY <1>9 DEF WorkerExits
  <2>2. life'[w] = "gone" /\ (\A v \in Worker \ {w} : life'[v] = life[v]) /\ ~(w > started) /\ Up(w)'
    BY <2>1, <1>a, <1>d DEF Up
  <2>3. OutKept(w) /\ \A v \in Worker \ {w} : outbox'[v] = outbox[v]
    BY Zenon, <2>1, <2>2, Answering, Requesting
  <2>4. InKept(w)
    BY <2>1, <2>2, NotTaking
  <2> QED
    BY Zenon, <1>b, <2>1, <2>2, <2>3, <2>4 DEF WorkerSteps
<1> QED
  BY Zenon, <1>2, <1>3, <1>4, <1>5, <1>6, <1>7, <1>8, <1>9 DEF WorkerGoes

-----------------------------------------------------------------------------
(* A step of the main thread: calls keep their ids, workers what they have *)
(* but for the message that is posted or taken.                            *)

MainSteps ==
  /\ \A c \in Call : id[c] # None => id'[c] = id[c] /\ on'[c] = on[c]
  /\ busy' = busy /\ loading' = loading /\ hurried' = hurried
  /\ \A v \in Worker :
       /\ Up(v) => Up(v)'
       /\ \A j \in DOMAIN inbox'[v] :
            \/ AskSound(v, j, inbox[v][j])'
            \/ /\ j \in DOMAIN inbox[v] /\ inbox'[v][j] = inbox[v][j]
               /\ life'[v] = life[v] \/ life'[v] = "gone"
       /\ \A j \in DOMAIN outbox'[v] : \E i \in DOMAIN outbox[v] : outbox'[v][j] = outbox[v][i]
       /\ v > started' => v > started /\ life'[v] = life[v] /\ inbox'[v] = inbox[v] /\ outbox'[v] = outbox[v]

(* It keeps what is known of the workers. *)
LEMMA MainStepsKeep ==
  ASSUME RpcInv, MainSteps
  PROVE  WorkersSound' /\ hurried' = {}
<1>1. ASSUME NEW v, NEW i, NEW c, Posted(v, i, c) PROVE Posted(v, i, c)'
  BY Zenon, <1>1 DEF Posted, MainSteps
<1>2. ASSUME NEW v \in Worker PROVE WorkerSound(v)'
  <2>1. WorkerSound(v)
    BY Zenon DEF RpcInv, WorkersSound
  <2>2. ASSUME NEW j \in DOMAIN inbox'[v] PROVE AskSound(v, j, inbox[v][j])'
    <3>1. ASSUME j \in DOMAIN inbox[v], inbox'[v][j] = inbox[v][j], life'[v] = life[v] \/ life'[v] = "gone"
          PROVE  AskSound(v, j, inbox[v][j])'
      <4>1. AskSound(v, j, inbox[v][j]) /\ (Up(v) => Up(v)')
        BY Zenon, <2>1, <3>1 DEF WorkerSound, MainSteps
      <4> QED
        BY Zenon, <1>1, <3>1, <4>1 DEF AskSound
    <3> QED
      BY Zenon, <2>2, <3>1 DEF MainSteps
  <2>3. ASSUME NEW j \in DOMAIN outbox'[v] PROVE AnswerSound(v, outbox[v][j])'
    <3>1. PICK i \in DOMAIN outbox[v] : outbox'[v][j] = outbox[v][i]
      BY Zenon, <2>3 DEF MainSteps
    <3>2. AnswerSound(v, outbox[v][i]) /\ (Up(v) => Up(v)')
      BY Zenon, <2>1 DEF WorkerSound, MainSteps
    <3> QED
      BY Zenon, <1>1, <3>1, <3>2 DEF AnswerSound
  <2>4. /\ busy'[v] # Idle => Posted(v, busy[v].id, busy[v].of)'
        /\ \A r \in loading'[v] : Posted(v, r.id, r.of)'
    <3>1. busy' = busy /\ loading' = loading
      BY Zenon DEF MainSteps
    <3>2. busy[v] # Idle => Posted(v, busy[v].id, busy[v].of)
      BY Zenon, <2>1 DEF WorkerSound
    <3>3. \A r \in loading[v] : Posted(v, r.id, r.of)
      BY Zenon, <2>1 DEF WorkerSound
    <3>4. busy[v] # Idle => Posted(v, busy[v].id, busy[v].of)'
      <4>1. ASSUME busy[v] # Idle, NEW i, NEW c, i = busy[v].id, c = busy[v].of PROVE Posted(v, i, c)'
        BY Zenon, <1>1, <3>2, <4>1
      <4> QED
        BY Zenon, <3>1, <4>1 DEF Posted
    <3> QED
      BY Zenon, <1>1, <3>1, <3>3, <3>4
  <2>5. v > started' => /\ life'[v] = "none" /\ inbox'[v] = <<>> /\ outbox'[v] = <<>>
                        /\ busy'[v] = Idle /\ loading'[v] = {}
    BY Zenon, <2>1 DEF WorkerSound, MainSteps
  <2> QED
    BY Zenon, <2>2, <2>3, <2>4, <2>5 DEF WorkerSound
<1> QED
  BY Zenon, <1>2 DEF WorkersSound, MainSteps, RpcInv

(* A message posted under a new id: only a worker that is there, and ready *)
(* if it is a call, gets it.                                               *)
LEMMA PostKeeps ==
  ASSUME RpcInv, NEW c \in Call, NEW event \in {"call", "fs"}, Post(c, event),
         worker # None, phase[c] \in {"none", "resumed"}, event = "call" => Up(worker),
         kind' \in [Call -> Kind], result' = result,
         UNCHANGED <<closed, worker, started, inflight, listening, initLost, life, outbox, busy, loading, hurried>>
  PROVE  RpcInv'
<1>1. MainTypes /\ ThreadTypes /\ worker \in Worker
  BY Numbers DEF RpcInv, Types
<1>2. /\ callId' = callId + 1 /\ id' = [id EXCEPT ![c] = callId + 1] /\ on' = [on EXCEPT ![c] = worker]
      /\ phase' = [phase EXCEPT ![c] = "waiting"]
      /\ inbox' = [inbox EXCEPT ![worker] = Append(@, Request(event, callId + 1, c))]
  BY DEF Post
<1>3. MainTypes'
  <2>1. started' = started /\ worker' = worker /\ closed' = closed /\ inflight' = inflight
        /\ listening' = listening /\ initLost' = initLost
    OBVIOUS
  <2>2. /\ closed' \in BOOLEAN /\ inflight' \in BOOLEAN /\ listening' \in BOOLEAN /\ initLost' \in BOOLEAN
        /\ worker' \in 0 .. started' /\ started' \in 0 .. MaxWorkers /\ result' \in [Call -> Outcome]
    BY Zenon, <1>1, <2>1 DEF MainTypes
  <2>3. callId' \in Nat /\ phase' \in [Call -> Phase] /\ on' \in [Call -> 0 .. started']
    BY <1>1, <1>2 DEF MainTypes, Phase
  <2>4. id' \in [Call -> 0 .. callId']
    BY <1>1, <1>2 DEF MainTypes
  <2> QED
    BY Zenon, <2>2, <2>3, <2>4 DEF MainTypes
<1>4. callId + 1 \in Nat /\ callId + 1 # None /\ callId \in Nat
  BY <1>1 DEF MainTypes, None
<1>5. PICK m : m = Request(event, callId + 1, c)
  OBVIOUS
<1>6. m \in Message /\ m.event = event /\ m.id = callId + 1 /\ m.of = c
  BY <1>4, <1>5, Requesting
<1>7. inbox[worker] \in Seq(Message) /\ inbox'[worker] = Append(inbox[worker], m)
      /\ \A v \in Worker \ {worker} : inbox'[v] = inbox[v]
  BY <1>1, <1>2, <1>5 DEF ThreadTypes
<1>8. /\ Append(inbox[worker], m) \in Seq(Message)
      /\ \A j \in DOMAIN inbox'[worker] :
           \/ inbox'[worker][j] = m
           \/ j \in DOMAIN inbox[worker] /\ inbox'[worker][j] = inbox[worker][j]
  BY <1>6, <1>7, AppendEach
<1>9. inbox' \in [Worker -> Seq(Message)]
  BY <1>1, <1>2, <1>5, <1>8 DEF ThreadTypes
<1>10. ThreadTypes'
  BY <1>1, <1>9, TypesKept
<1>11. id'[c] = callId + 1 /\ on'[c] = worker /\ phase'[c] = "waiting"
       /\ \A d \in Call \ {c} : id'[d] = id[d] /\ on'[d] = on[d] /\ phase'[d] = phase[d]
  BY <1>1, <1>2 DEF MainTypes
<1>12. id[c] = None /\ result[c] = Pending
  BY DEF RpcInv, CallsSound, CallSound
<1>13. \A v : Up(v)' <=> Up(v)
  BY DEF Up
<1>14. MainSteps
  <2>1. \A d \in Call : id[d] # None => id'[d] = id[d] /\ on'[d] = on[d]
    BY Zenon, <1>11, <1>12
  <2>2. ASSUME NEW v \in Worker, NEW j \in DOMAIN inbox'[v]
        PROVE  \/ AskSound(v, j, inbox[v][j])'
               \/ /\ j \in DOMAIN inbox[v] /\ inbox'[v][j] = inbox[v][j]
                  /\ life'[v] = life[v] \/ life'[v] = "gone"
    <3>1. CASE v # worker
      BY <1>7, <2>2, <3>1
    <3>2. CASE v = worker /\ inbox'[v][j] = m
      <4>1. Posted(v, m.id, m.of)'
        BY Zenon, <1>4, <1>6, <1>11, <3>2 DEF Posted
      <4>2. AskSound(v, j, m)'
        BY <1>6, <1>13, <3>2, <4>1 DEF AskSound
      <4> QED
        BY Zenon, <3>2, <4>2 DEF AskSound
    <3> QED
      BY <1>8, <2>2, <3>1, <3>2
  <2>3. \A v \in Worker : v > started' =>
          v > started /\ life'[v] = life[v] /\ inbox'[v] = inbox[v] /\ outbox'[v] = outbox[v]
    BY <1>1, <1>7, Numbers
  <2> QED
    BY Zenon, <1>13, <2>1, <2>2, <2>3 DEF MainSteps
<1>15. ASSUME NEW d \in Call PROVE CallSound(d)'
  <2>1. CallSound(d)
    BY Zenon DEF RpcInv, CallsSound
  <2>2. CASE d # c
    <3>1. id'[d] = id[d] /\ on'[d] = on[d] /\ phase'[d] = phase[d] /\ worker' = worker /\ closed' = closed
      BY <1>11, <2>2
    <3> QED
      BY Zenon, <1>13, <2>1, <3>1 DEF CallSound
  <2>3. CASE d = c
    <3>1. result'[c].how = "none" /\ worker # None
      BY <1>12 DEF Pending
    <3> QED
      BY <1>4, <1>11, <1>12, <2>3, <3>1 DEF CallSound
  <2> QED
    BY <2>2, <2>3
<1>16. \A d, e \in Call : id'[d] = id'[e] /\ id'[d] # None => d = e
  <2>1. \A d \in Call : id[d] # callId + 1
    BY <1>1 DEF MainTypes
  <2>2. \A d, e \in Call : id[d] = id[e] /\ id[d] # None => d = e
    BY Zenon DEF RpcInv, CallsSound
  <2> QED
    BY Zenon, <1>11, <2>1, <2>2
<1>17. CallsSound'
  <2>1. worker' # None /\ ~inflight' => Up(worker)'
    <3>1. worker # None /\ ~inflight => Up(worker)
      BY Zenon DEF RpcInv, CallsSound
    <3> QED
      BY Zenon, <3>1, <1>13
  <2> QED
    BY Zenon, <1>15, <1>16, <2>1 DEF CallsSound
<1> QED
  BY Zenon, <1>3, <1>10, <1>14, <1>17, MainStepsKeep DEF RpcInv, Types

(* Steps that post nothing. *)
LEMMA QuietSteps ==
  ASSUME id' = id, on' = on, started' = started, inbox' = inbox,
         busy' = busy, loading' = loading, hurried' = hurried,
         \A v \in Worker : \/ life'[v] = life[v]
                           \/ life'[v] = "gone" /\ ~(v > started),
         \A v \in Worker : \/ outbox'[v] = outbox[v]
                           \/ /\ ~(v > started)
                              /\ \A j \in DOMAIN outbox'[v] : \E i \in DOMAIN outbox[v] : outbox'[v][j] = outbox[v][i]
  PROVE  MainSteps
<1>1. ASSUME NEW v \in Worker PROVE Up(v) => Up(v)'
  BY DEF Up
<1>2. ASSUME NEW v \in Worker, NEW j \in DOMAIN inbox'[v]
      PROVE  /\ j \in DOMAIN inbox[v] /\ inbox'[v][j] = inbox[v][j]
             /\ life'[v] = life[v] \/ life'[v] = "gone"
  BY Zenon, <1>2
<1>3. ASSUME NEW v \in Worker, NEW j \in DOMAIN outbox'[v]
      PROVE  \E i \in DOMAIN outbox[v] : outbox'[v][j] = outbox[v][i]
  BY Zenon, <1>3
<1>4. \A v \in Worker : v > started' =>
        v > started /\ life'[v] = life[v] /\ inbox'[v] = inbox[v] /\ outbox'[v] = outbox[v]
  BY Zenon
<1> QED
  BY Zenon, <1>1, <1>2, <1>3, <1>4 DEF MainSteps

(* The types of a step that starts no worker and makes no id. *)
LEMMA MainTypesKept ==
  ASSUME MainTypes, closed' \in BOOLEAN, worker' = worker \/ worker' = None, started' = started,
         inflight' \in BOOLEAN, listening' \in BOOLEAN, initLost' \in BOOLEAN,
         callId' = callId, id' = id, on' = on,
         phase' \in [Call -> Phase], kind' \in [Call -> Kind], result' \in [Call -> Outcome]
  PROVE  MainTypes'
<1>1. worker' \in 0 .. started' /\ started' \in 0 .. MaxWorkers
  BY DEF MainTypes, None
<1>2. callId' \in Nat /\ id' \in [Call -> 0 .. callId'] /\ on' \in [Call -> 0 .. started']
  BY Zenon DEF MainTypes
<1> QED
  BY Zenon, <1>1, <1>2 DEF MainTypes

(* What the invariant says of the main thread's variables. *)
LEMMA MainFacts ==
  ASSUME RpcInv
  PROVE  /\ MainTypes /\ ThreadTypes /\ hurried = {}
         /\ closed \in BOOLEAN /\ inflight \in BOOLEAN /\ listening \in BOOLEAN /\ initLost \in BOOLEAN
         /\ phase \in [Call -> Phase] /\ kind \in [Call -> Kind] /\ result \in [Call -> Outcome]
         /\ worker # None => worker \in Worker /\ ~(worker > started)
         /\ \A c \in Call : CallSound(c)
         /\ \A c, d \in Call : id[c] = id[d] /\ id[c] # None => c = d
         /\ worker # None /\ ~inflight => Up(worker)
         /\ \A w \in Worker : WorkerSound(w)
<1>1. MainTypes /\ ThreadTypes
  BY Zenon DEF RpcInv, Types
<1>2. worker # None => worker \in Worker /\ ~(worker > started)
  BY <1>1, Numbers
<1> QED
  BY Zenon, <1>1, <1>2 DEF RpcInv, MainTypes, CallsSound, WorkersSound

(* A call without a worker fails. *)
LEMMA FailKeeps ==
  ASSUME RpcInv, NEW c \in Call, Fails(c, "no worker"), kind' \in [Call -> Kind],
         UNCHANGED <<closed, worker, started, inflight, listening, callId, id, on, initLost,
                     life, inbox, outbox, busy, loading, hurried>>
  PROVE  RpcInv'
<1>1. /\ closed' = closed /\ worker' = worker /\ started' = started /\ inflight' = inflight /\ listening' = listening
      /\ callId' = callId /\ id' = id /\ on' = on /\ initLost' = initLost /\ life' = life /\ inbox' = inbox
      /\ outbox' = outbox /\ busy' = busy /\ loading' = loading /\ hurried' = hurried
  OBVIOUS
<1>b. worker' = worker /\ id' = id /\ on' = on /\ (closed => closed') /\ (inflight => inflight')
  OBVIOUS
<1>a. \A v : Up(v)' <=> Up(v)
  BY <1>1 DEF Up
<1>2. phase' = [phase EXCEPT ![c] = "done"] /\ result' = [result EXCEPT ![c] = Settled("no worker", <<None, None>>)]
  BY DEF Fails
<1>3. phase' \in [Call -> Phase]
  BY <1>2, MainFacts DEF Phase
<1>4. Settled("no worker", <<None, None>>) \in Outcome /\ Settled("no worker", <<None, None>>).how = "no worker"
  BY DEF Settled, Outcome, How
<1>5. result' \in [Call -> Outcome]
  BY <1>2, <1>4, MainFacts
<1>6. MainTypes'
  BY Zenon, <1>1, <1>3, <1>5, MainFacts, MainTypesKept
<1>7. ThreadTypes'
  BY Zenon, <1>1, MainFacts, TypesKept
<1>8. MainSteps
  BY Zenon, <1>1, QuietSteps
<1>9. ASSUME NEW d \in Call PROVE CallSound(d)'
  <2>1. CallSound(d)
    BY Zenon, MainFacts
  <2>2. CASE d # c
    <3>1. phase'[d] = phase[d] /\ result'[d] = result[d] /\ id'[d] = id[d] /\ on'[d] = on[d]
      BY <1>2, <2>2, MainFacts
    <3> QED
      BY Zenon, <1>b, <1>a, <2>1, <3>1 DEF CallSound
  <2>3. CASE d = c
    <3>1. phase'[c] = "done" /\ result'[c].how = "no worker"
      BY <1>2, <1>4, MainFacts
    <3> QED
      BY <2>3, <3>1 DEF CallSound
  <2> QED
    BY <2>2, <2>3
<1>10. CallsSound'
  BY Zenon, <1>b, <1>9, <1>a, MainFacts DEF CallsSound
<1> QED
  BY Zenon, <1>6, <1>7, <1>8, <1>10, MainStepsKeep DEF RpcInv, Types

(* A call that waits for init, or finds the worker ready. *)
LEMMA AwaitKeeps ==
  ASSUME RpcInv, NEW c \in Call, phase[c] = "none", NEW p \in {"init", "resumed"},
         phase' = [phase EXCEPT ![c] = p],
         p = "resumed" => worker # None /\ ~inflight,
         kind' \in [Call -> Kind],
         UNCHANGED <<closed, worker, started, inflight, listening, callId, id, on, initLost, result,
                     life, inbox, outbox, busy, loading, hurried>>
  PROVE  RpcInv'
<1>1. /\ closed' = closed /\ worker' = worker /\ started' = started /\ inflight' = inflight /\ listening' = listening
      /\ callId' = callId /\ id' = id /\ on' = on /\ initLost' = initLost /\ life' = life /\ inbox' = inbox
      /\ outbox' = outbox /\ busy' = busy /\ loading' = loading /\ hurried' = hurried /\ result' = result
  OBVIOUS
<1>b. worker' = worker /\ id' = id /\ on' = on /\ (closed => closed') /\ (inflight => inflight')
  OBVIOUS
<1>a. \A v : Up(v)' <=> Up(v)
  BY <1>1 DEF Up
<1>2. phase' \in [Call -> Phase]
  BY MainFacts DEF Phase
<1>3. MainTypes'
  BY Zenon, <1>1, <1>2, MainFacts, MainTypesKept
<1>4. ThreadTypes'
  BY Zenon, <1>1, MainFacts, TypesKept
<1>5. MainSteps
  BY Zenon, <1>1, QuietSteps
<1>6. ASSUME NEW d \in Call PROVE CallSound(d)'
  <2>1. CallSound(d)
    BY Zenon, MainFacts
  <2>2. CASE d # c
    <3>1. phase'[d] = phase[d]
      BY <2>2, MainFacts
    <3> QED
      BY Zenon, <1>b, <1>a, <2>1, <3>1 DEF CallSound
  <2>3. CASE d = c
    <3>1. phase'[c] = p
      BY MainFacts
    <3>2. id[c] = None /\ result[c] = Pending /\ result[c].how = "none"
      BY <2>1, <2>3 DEF CallSound, Pending
    <3>3. p = "resumed" => worker # None /\ Up(worker)
      BY Zenon, MainFacts
    <3>4. phase'[c] # "waiting" /\ result'[c].how \notin {"ok", "error"}
      BY <1>1, <3>1, <3>2
    <3> QED
      BY Zenon, <1>1, <2>3, <3>1, <3>2, <3>3, <3>4 DEF CallSound, Up
  <2> QED
    BY <2>2, <2>3
<1>7. CallsSound'
  BY Zenon, <1>b, <1>6, <1>a, MainFacts DEF CallsSound
<1> QED
  BY Zenon, <1>3, <1>4, <1>5, <1>7, MainStepsKeep DEF RpcInv, Types

(* The first call, or the first after the worker ended, starts a worker.   *)
LEMMA StartKeeps ==
  ASSUME RpcInv, NEW c \in Call, phase[c] = "none", ~closed, worker = None, Start(c), kind' \in [Call -> Kind],
         UNCHANGED <<closed, callId, id, on, result, outbox, busy, loading, hurried>>
  PROVE  RpcInv'
<1>1. /\ closed' = closed /\ callId' = callId /\ id' = id /\ on' = on /\ result' = result /\ outbox' = outbox
      /\ busy' = busy /\ loading' = loading /\ hurried' = hurried
  OBVIOUS
<1>2. PICK w : w = started + 1
  OBVIOUS
<1>3. /\ started' = w /\ worker' = w /\ inflight' = TRUE /\ listening' = TRUE /\ initLost' = initLost
      /\ phase' = [phase EXCEPT ![c] = "init"]
      /\ life' = [life EXCEPT ![w] = "new"] /\ inbox' = [inbox EXCEPT ![w] = <<InitRequest>>]
      /\ started < MaxWorkers
  BY <1>2 DEF Start
<1>4. /\ w \in Worker /\ w \in Nat /\ w # None /\ w > started /\ started \in Nat
      /\ \A v \in Worker : v > w => v > started /\ v # w
  BY <1>2, <1>3, MainFacts, Numbers, WorkersAssumption DEF Worker, None
<1>5. MainTypes'
  <2>1. closed' \in BOOLEAN /\ initLost' \in BOOLEAN /\ inflight' \in BOOLEAN /\ listening' \in BOOLEAN
    BY Zenon, <1>1, <1>3, MainFacts
  <2>2. phase' \in [Call -> Phase]
    BY <1>3, MainFacts DEF Phase
  <2>3. worker' \in 0 .. started' /\ started' \in 0 .. MaxWorkers
    BY <1>3, <1>4 DEF Worker
  <2>4. on' \in [Call -> 0 .. started']
    BY <1>1, <1>3, <1>4, MainFacts DEF MainTypes
  <2>5. result' \in [Call -> Outcome] /\ callId' \in Nat /\ id' \in [Call -> 0 .. callId']
    BY Zenon, <1>1, MainFacts DEF MainTypes
  <2> QED
    BY Zenon, <2>1, <2>2, <2>3, <2>4, <2>5 DEF MainTypes
<1>6. <<InitRequest>> \in Seq(Message) /\ DOMAIN <<InitRequest>> = {1} /\ <<InitRequest>>[1] = InitRequest
  BY Requesting
<1>7. /\ inbox' \in [Worker -> Seq(Message)] /\ life' \in [Worker -> Life]
      /\ inbox'[w] = <<InitRequest>> /\ life'[w] = "new"
      /\ \A v \in Worker \ {w} : inbox'[v] = inbox[v] /\ life'[v] = life[v]
  BY <1>3, <1>4, <1>6, MainFacts DEF ThreadTypes, Life
<1>8. ThreadTypes'
  BY Zenon, <1>1, <1>7, MainFacts, TypesKept
<1>9. life[w] = "none"
  BY Zenon, <1>4, MainFacts DEF WorkerSound
<1>10. \A v \in Worker : Up(v) => Up(v)'
  BY <1>7, <1>9 DEF Up
<1>11. MainSteps
  <2>1. ASSUME NEW v \in Worker, NEW j \in DOMAIN inbox'[v]
        PROVE  \/ AskSound(v, j, inbox[v][j])'
               \/ /\ j \in DOMAIN inbox[v] /\ inbox'[v][j] = inbox[v][j]
                  /\ life'[v] = life[v] \/ life'[v] = "gone"
    <3>1. CASE v # w
      BY Zenon, <1>7, <2>1, <3>1
    <3>2. CASE v = w
      <4>1. j = 1 /\ inbox'[v][j] = InitRequest
        BY <1>6, <1>7, <2>1, <3>2
      <4>2. inbox'[v][j].event = "init" /\ inbox'[v][j].id = None
        BY Zenon, <4>1, Requesting
      <4> QED
        BY <1>7, <3>2, <4>1, <4>2 DEF AskSound
    <3> QED
      BY <3>1, <3>2
  <2>2. \A v \in Worker : v > started' =>
          v > started /\ life'[v] = life[v] /\ inbox'[v] = inbox[v] /\ outbox'[v] = outbox[v]
    BY Zenon, <1>1, <1>3, <1>4, <1>7
  <2> QED
    BY Zenon, <1>1, <1>10, <2>1, <2>2 DEF MainSteps
<1>12. ASSUME NEW d \in Call PROVE CallSound(d)'
  <2>1. CallSound(d) /\ CallSound(c)
    BY Zenon, MainFacts
  <2>2. phase[d] # "waiting" /\ phase[d] # "resumed"
    BY <2>1 DEF CallSound
  <2>3. phase'[d] # "waiting" /\ phase'[d] # "resumed" /\ (d # c => phase'[d] = phase[d]) /\ phase'[c] = "init"
    BY <1>3, <2>2, MainFacts
  <2>4. id[c] = None /\ result[c] = Pending
    BY <2>1 DEF CallSound
  <2> QED
    BY Zenon, <1>1, <2>1, <2>3, <2>4 DEF CallSound
<1>13. CallsSound'
  BY Zenon, <1>1, <1>3, <1>12, MainFacts DEF CallsSound
<1> QED
  BY Zenon, <1>5, <1>8, <1>11, <1>13, MainStepsKeep DEF RpcInv, Types

(* How the answers of workers may change. *)
AnswersTaken ==
  \A v \in Worker : \/ outbox'[v] = outbox[v]
                    \/ /\ ~(v > started)
                       /\ \A j \in DOMAIN outbox'[v] : \E i \in DOMAIN outbox[v] : outbox'[v][j] = outbox[v][i]

(* A message taken from the worker there is. *)
LEMMA TakeFacts ==
  ASSUME RpcInv, NEW w \in Worker, Take(w)
  PROVE  /\ w = worker /\ worker # None /\ Quiet
         /\ Head1(w) \in Response /\ AnswerSound(w, Head1(w))
         /\ outbox' \in [Worker -> Seq(Response)] /\ AnswersTaken
<1>1. w = worker /\ worker # None /\ Quiet /\ outbox[w] # <<>> /\ outbox' = [outbox EXCEPT ![w] = Tail(outbox[w])]
  BY Numbers, MainFacts DEF Take
<1>2. outbox[w] \in Seq(Response) /\ outbox \in [Worker -> Seq(Response)]
  BY MainFacts DEF ThreadTypes
<1>3. /\ Tail(outbox[w]) \in Seq(Response)
      /\ 1 \in DOMAIN outbox[w] /\ Head(outbox[w]) = outbox[w][1] /\ Head(outbox[w]) \in Response
      /\ \A j \in DOMAIN Tail(outbox[w]) : j + 1 \in DOMAIN outbox[w] /\ Tail(outbox[w])[j] = outbox[w][j + 1]
  BY <1>1, <1>2, TailEach
<1>4. AnswerSound(w, outbox[w][1])
  BY Zenon, <1>3, MainFacts DEF WorkerSound
<1>5. outbox' \in [Worker -> Seq(Response)] /\ outbox'[w] = Tail(outbox[w])
      /\ \A v \in Worker \ {w} : outbox'[v] = outbox[v]
  BY <1>1, <1>2, <1>3
<1>6. ~(w > started)
  BY Zenon, <1>1, MainFacts
<1>7. \A j \in DOMAIN outbox'[w] : \E i \in DOMAIN outbox[w] : outbox'[w][j] = outbox[w][i]
  BY Zenon, <1>3, <1>5
<1>8. AnswersTaken
  BY Zenon, <1>5, <1>6, <1>7 DEF AnswersTaken
<1>9. Head1(w) = Head(outbox[w]) /\ Head1(w) = outbox[w][1]
  BY Zenon, <1>3 DEF Head1
<1> QED
  BY Zenon, <1>1, <1>3, <1>4, <1>5, <1>8, <1>9

(* A message that settles calls and changes no more than that. *)
LEMMA SettleKeeps ==
  ASSUME RpcInv, AnswersTaken, outbox' \in [Worker -> Seq(Response)],
         phase' \in [Call -> Phase], result' \in [Call -> Outcome],
         inflight' \in BOOLEAN, listening' \in BOOLEAN, initLost' \in BOOLEAN,
         ~inflight' /\ inflight => Up(worker),
         UNCHANGED <<closed, worker, started, callId, kind, id, on, life, inbox, busy, loading, hurried>>,
         \A d \in Call :
           \/ phase'[d] = phase[d] /\ result'[d] = result[d]
           \/ /\ phase[d] = "init" /\ phase'[d] = "resumed" /\ result'[d] = result[d]
              /\ worker # None /\ Up(worker)
           \/ /\ phase[d] = "waiting" /\ phase'[d] = "done"
              /\ result'[d].how \in {"ok", "error"} => result'[d].by = <<on[d], d>>
  PROVE  RpcInv'
<1>1. /\ worker' = worker /\ started' = started /\ callId' = callId /\ kind' = kind
      /\ id' = id /\ on' = on /\ life' = life /\ inbox' = inbox
      /\ busy' = busy /\ loading' = loading /\ hurried' = hurried
  OBVIOUS
<1>2. closed' \in BOOLEAN /\ (closed => closed')
  BY MainFacts
<1>3. \A v : Up(v)' <=> Up(v)
  BY DEF Up
<1>4. kind' \in [Call -> Kind]
  BY Zenon, <1>1, MainFacts
<1>5. MainTypes'
  BY Zenon, <1>1, <1>2, <1>4, MainFacts, MainTypesKept
<1>6. ThreadTypes'
  BY Zenon, <1>1, MainFacts, TypesKept
<1>7. MainSteps
  BY Zenon, <1>1, QuietSteps DEF AnswersTaken
<1>8. ASSUME NEW d \in Call PROVE CallSound(d)'
  <2>1. CallSound(d) /\ id'[d] = id[d] /\ on'[d] = on[d]
    BY Zenon, <1>1, MainFacts
  <2>2. CASE phase'[d] = phase[d] /\ result'[d] = result[d]
    BY Zenon, <1>1, <1>2, <1>3, <2>1, <2>2 DEF CallSound
  <2>3. CASE /\ phase[d] = "init" /\ phase'[d] = "resumed" /\ result'[d] = result[d]
             /\ worker # None /\ Up(worker)
    <3>1. id[d] = None /\ result[d] = Pending /\ phase'[d] # "waiting" /\ phase'[d] # "done"
      BY <2>1, <2>3 DEF CallSound
    <3> QED
      BY Zenon, <1>1, <1>3, <2>1, <2>3, <3>1 DEF CallSound
  <2>4. CASE /\ phase[d] = "waiting" /\ phase'[d] = "done"
             /\ result'[d].how \in {"ok", "error"} => result'[d].by = <<on[d], d>>
    <3>1. phase'[d] \notin {"none", "init", "resumed", "waiting"} /\ phase'[d] # "waiting" /\ phase'[d] # "resumed"
      BY <2>4
    <3> QED
      BY Zenon, <2>1, <2>4, <3>1 DEF CallSound
  <2> QED
    BY Zenon, <2>2, <2>3, <2>4
<1>9. worker' # None /\ ~inflight' => Up(worker)'
  <2>1. worker # None /\ ~inflight => Up(worker)
    BY Zenon, MainFacts
  <2> QED
    BY Zenon, <1>1, <1>3, <2>1
<1>10. CallsSound'
  BY Zenon, <1>1, <1>8, <1>9, MainFacts DEF CallsSound
<1> QED
  BY Zenon, <1>5, <1>6, <1>7, <1>10, MainStepsKeep DEF RpcInv, Types

(* The end of the worker there is settles whatever still waits. *)
LEMMA TerminatedKeeps ==
  ASSUME RpcInv, AnswersTaken, outbox' \in [Worker -> Seq(Response)],
         worker # None, NEW reply, DOMAIN reply \subseteq Call,
         \A d \in DOMAIN reply : phase[d] = "waiting" /\ reply[d] \in Outcome /\ reply[d].by = <<on[d], d>>,
         Terminated(reply), Stopped(worker),
         closed' \in BOOLEAN, closed' \/ Quiet,
         UNCHANGED <<started, inflight, callId, kind, id, on, inbox, busy, loading, hurried>>
  PROVE  RpcInv'
<1>1. /\ started' = started /\ callId' = callId /\ kind' = kind
      /\ id' = id /\ on' = on /\ inbox' = inbox
      /\ busy' = busy /\ loading' = loading /\ hurried' = hurried
  OBVIOUS
<1>2. worker' = None /\ listening' \in BOOLEAN /\ initLost' \in BOOLEAN /\ inflight' \in BOOLEAN
  BY MainFacts DEF Terminated
<1>3. worker \in Worker /\ ~(worker > started)
  BY Zenon, MainFacts
<1>4. Settled("exit", <<worker, None>>) \in Outcome /\ Settled("exit", <<worker, None>>).how = "exit"
  BY <1>3 DEF Settled, Outcome, How
<1>5. ASSUME NEW d \in Call
      PROVE  /\ \/ phase'[d] = phase[d] /\ result'[d] = result[d] /\ phase[d] # "waiting"
                \/ /\ phase[d] = "waiting" /\ phase'[d] = "done"
                   /\ result'[d].how \in {"ok", "error"} => result'[d].by = <<on[d], d>>
             /\ phase'[d] \in Phase /\ result'[d] \in Outcome
  <2>1. CallSound(d) /\ phase[d] \in Phase /\ result[d] \in Outcome
    BY MainFacts
  <2>2. CASE d \in DOMAIN reply
    BY <2>2 DEF Terminated, Phase
  <2>3. CASE d \notin DOMAIN reply /\ phase[d] = "waiting"
    <3>1. on[d] = worker
      BY <2>1, <2>3 DEF CallSound
    <3>2. phase'[d] = "done" /\ result'[d] = Settled("exit", <<worker, None>>)
      BY <2>3, <3>1 DEF Terminated
    <3> QED
      BY <1>4, <2>3, <3>2 DEF Phase
  <2>4. CASE d \notin DOMAIN reply /\ phase[d] # "waiting"
    BY <2>1, <2>4 DEF Terminated
  <2> QED
    BY <2>2, <2>3, <2>4
<1>6. phase' \in [Call -> Phase] /\ result' \in [Call -> Outcome]
  <2>1. DOMAIN phase' = Call /\ phase' = [d \in Call |-> phase'[d]]
    BY DEF Terminated
  <2>2. DOMAIN result' = Call /\ result' = [d \in Call |-> result'[d]]
    BY DEF Terminated
  <2> QED
    BY <1>5, <2>1, <2>2
<1>7. life' \in [Worker -> Life] /\ (\A v \in Worker : life'[v] = life[v] \/ (life'[v] = "gone" /\ ~(v > started)))
  BY <1>3, MainFacts DEF Stopped, ThreadTypes, Life
<1>8. kind' \in [Call -> Kind]
  BY Zenon, <1>1, MainFacts
<1>9. MainTypes'
  BY Zenon, <1>1, <1>2, <1>6, <1>8, MainFacts, MainTypesKept
<1>10. ThreadTypes'
  BY Zenon, <1>1, <1>7, MainFacts, TypesKept
<1>11. MainSteps
  BY Zenon, <1>1, <1>7, QuietSteps DEF AnswersTaken
<1>12. ASSUME NEW d \in Call PROVE CallSound(d)'
  <2>1. CallSound(d) /\ id'[d] = id[d] /\ on'[d] = on[d]
    BY Zenon, <1>1, MainFacts
  <2>2. CASE phase'[d] = phase[d] /\ result'[d] = result[d] /\ phase[d] # "waiting"
    <3>1. phase'[d] = "resumed" => closed'
      BY Zenon, <2>2 DEF Quiet
    <3> QED
      BY Zenon, <1>2, <2>1, <2>2, <3>1 DEF CallSound
  <2>3. CASE /\ phase[d] = "waiting" /\ phase'[d] = "done"
             /\ result'[d].how \in {"ok", "error"} => result'[d].by = <<on[d], d>>
    <3>1. phase'[d] \notin {"none", "init", "resumed"} /\ phase'[d] # "waiting" /\ phase'[d] # "resumed"
      BY <2>3
    <3> QED
      BY Zenon, <2>1, <2>3, <3>1 DEF CallSound
  <2> QED
    BY Zenon, <1>5, <2>2, <2>3
<1>13. CallsSound'
  BY Zenon, <1>1, <1>2, <1>12, MainFacts DEF CallsSound
<1> QED
  BY Zenon, <1>9, <1>10, <1>11, <1>13, MainStepsKeep DEF RpcInv, Types

(* A reply settles at most the call that posted under its id. *)
LEMMA ReplyMine ==
  ASSUME RpcInv, NEW w \in Worker, Take(w), Head1(w).event \in {"ok", "error"},
         NEW d \in Call, phase[d] = "waiting", id[d] = Head1(w).id
  PROVE  /\ Settled(Head1(w).event, Head1(w).by) \in Outcome
         /\ Settled(Head1(w).event, Head1(w).by).by = <<on[d], d>>
<1>1. Head1(w) \in Response /\ AnswerSound(w, Head1(w))
  BY Zenon, TakeFacts
<1>2. Head1(w).by[1] = w /\ Posted(w, Head1(w).id, Head1(w).by[2])
  BY Zenon, <1>1 DEF AnswerSound
<1>3. Head1(w).by[2] = d
  BY Zenon, <1>2, MainFacts DEF Posted
<1>4. on[d] = w
  BY Zenon, <1>2, <1>3 DEF Posted
<1>5. Head1(w).by \in Worker \X (Call \cup {None}) /\ Head1(w).event \in {"init", "nothing", "ok", "error", "exit"}
  BY <1>1 DEF Response
<1>6. Head1(w).by = <<w, d>>
  BY <1>2, <1>3, <1>5
<1>7. Settled(Head1(w).event, Head1(w).by).by = Head1(w).by
  BY DEF Settled
<1>8. Settled(Head1(w).event, Head1(w).by) \in Outcome
  BY <1>5 DEF Settled, Outcome, How
<1> QED
  BY Zenon, <1>4, <1>6, <1>7, <1>8

(* The types and the invariant after a reply. *)
LEMMA OnReplyKeeps ==
  ASSUME RpcInv, NEW w \in Worker, OnReply(w)
  PROVE  RpcInv'
<1> DEFINE mine == {c \in Call : phase[c] = "waiting" /\ id[c] = Head1(w).id}
           settled == Settled(Head1(w).event, Head1(w).by)
<1>1. Take(w) /\ Head1(w).event \in {"ok", "error"}
      /\ UNCHANGED <<closed, started, inflight, callId, kind, id, on, inbox, busy, loading, hurried>>
  BY Zenon DEF OnReply
<1>2. /\ w = worker /\ worker # None /\ Quiet
      /\ outbox' \in [Worker -> Seq(Response)] /\ AnswersTaken
  BY Zenon, <1>1, TakeFacts
<1>3. \A d \in mine : d \in Call /\ phase[d] = "waiting" /\ settled \in Outcome /\ settled.by = <<on[d], d>>
  BY Zenon, <1>1, ReplyMine
<1>4. PICK reply : reply = [c \in mine |-> settled]
  OBVIOUS
<1>5. \/ Terminated(reply) /\ Stopped(w)
      \/ /\ phase' = [c \in Call |-> IF c \in mine THEN "done" ELSE phase[c]]
         /\ result' = [c \in Call |-> IF c \in mine THEN reply[c] ELSE result[c]]
         /\ UNCHANGED <<worker, listening, initLost, life>>
  BY <1>4 DEF OnReply
<1>6. DOMAIN reply = mine /\ \A d \in mine : reply[d] = settled
  BY Zenon, <1>4
<1>7. mine \subseteq Call
  OBVIOUS
<1> HIDE DEF mine, settled
<1>8. \A d \in DOMAIN reply : phase[d] = "waiting" /\ reply[d] \in Outcome /\ reply[d].by = <<on[d], d>>
  BY Zenon, <1>3, <1>6
<1>9. CASE Terminated(reply) /\ Stopped(w)
  <2>1. closed' \in BOOLEAN
    BY <1>1, MainFacts
  <2> QED
    BY <1>1, <1>2, <1>6, <1>7, <1>8, <1>9, <2>1, TerminatedKeeps
<1>10. CASE /\ phase' = [c \in Call |-> IF c \in mine THEN "done" ELSE phase[c]]
            /\ result' = [c \in Call |-> IF c \in mine THEN reply[c] ELSE result[c]]
            /\ UNCHANGED <<worker, listening, initLost, life>>
  <2>1. ASSUME NEW d \in Call
        PROVE  \/ phase'[d] = phase[d] /\ result'[d] = result[d]
               \/ /\ phase[d] = "waiting" /\ phase'[d] = "done"
                  /\ result'[d].how \in {"ok", "error"} => result'[d].by = <<on[d], d>>
    BY <1>6, <1>8, <1>10
  <2>2. phase' \in [Call -> Phase] /\ result' \in [Call -> Outcome]
    BY <1>6, <1>8, <1>10, MainFacts DEF Phase
  <2>3. inflight' \in BOOLEAN /\ listening' \in BOOLEAN /\ initLost' \in BOOLEAN /\ (inflight => inflight')
    BY <1>1, <1>10, MainFacts
  <2> QED
    BY <1>1, <1>2, <1>10, <2>1, <2>2, <2>3, SettleKeeps
<1> QED
  BY Zenon, <1>5, <1>9, <1>10

(* No step of any thread breaks the invariant. *)
LEMMA RpcStep == RpcInv /\ [Next]_vars => RpcInv'
<1> SUFFICES ASSUME RpcInv, [Next]_vars PROVE RpcInv'
  OBVIOUS
<1>1. ASSUME NEW c \in Call, ResumeCall(c) PROVE RpcInv'
  <2>1. phase[c] = "resumed" /\ kind' = kind
        /\ UNCHANGED <<closed, worker, started, inflight, listening, initLost, life, outbox, busy, loading, hurried>>
    BY <1>1 DEF ResumeCall
  <2>2. kind' \in [Call -> Kind] /\ CallSound(c)
    BY <2>1, MainFacts
  <2>3. CASE worker # None /\ Post(c, "call") /\ UNCHANGED result
    <3>1. Up(worker)
      BY <2>1, <2>2, <2>3 DEF CallSound
    <3> QED
      BY <2>1, <2>2, <2>3, <3>1, PostKeeps
  <2>4. CASE worker = None /\ Fails(c, "no worker") /\ UNCHANGED <<callId, id, on, inbox>>
    BY <2>1, <2>2, <2>4, FailKeeps
  <2> QED
    BY <1>1, <2>3, <2>4 DEF ResumeCall
<1>2. ASSUME NEW c \in Call, BeginFs(c) PROVE RpcInv'
  <2>1. phase[c] = "none" /\ kind' = [kind EXCEPT ![c] = "fs"]
        /\ UNCHANGED <<closed, worker, started, inflight, listening, initLost, life, outbox, busy, loading, hurried>>
    BY <1>2 DEF BeginFs
  <2>2. kind' \in [Call -> Kind]
    BY <2>1, MainFacts DEF Kind
  <2>3. CASE worker # None /\ Post(c, "fs") /\ UNCHANGED result
    BY <2>1, <2>2, <2>3, PostKeeps
  <2>4. CASE worker = None /\ Fails(c, "no worker") /\ UNCHANGED <<callId, id, on, inbox>>
    BY <2>1, <2>2, <2>4, FailKeeps
  <2> QED
    BY <1>2, <2>3, <2>4 DEF BeginFs
<1>3. ASSUME NEW c \in Call, NEW k \in {"call", "exec"}, BeginCall(c, k) PROVE RpcInv'
  <2>1. ~closed /\ phase[c] = "none" /\ kind' = [kind EXCEPT ![c] = k] /\ AwaitInit(c)
        /\ UNCHANGED <<closed, callId, id, on, result, outbox, busy, loading, hurried>>
    BY <1>3 DEF BeginCall
  <2>2. kind' \in [Call -> Kind]
    BY <2>1, MainFacts DEF Kind
  <2>3. CASE Join(c)
    <3>1. phase' = [phase EXCEPT ![c] = "init"]
          /\ UNCHANGED <<worker, started, inflight, listening, initLost, life, inbox>>
      BY <2>3 DEF Join
    <3> QED
      BY <2>1, <2>2, <3>1, AwaitKeeps
  <2>4. CASE ~inflight /\ HaveWorker(c)
    <3>1. worker # None /\ phase' = [phase EXCEPT ![c] = "resumed"]
          /\ UNCHANGED <<worker, started, inflight, listening, initLost, life, inbox>>
      BY <2>4 DEF HaveWorker
    <3> QED
      BY <2>1, <2>2, <2>4, <3>1, AwaitKeeps
  <2>5. CASE worker = None /\ Start(c)
    BY <2>1, <2>2, <2>5, StartKeeps
  <2> QED
    BY <2>1, <2>3, <2>4, <2>5 DEF AwaitInit
<1>4. CASE Terminate
  <2>1. /\ worker # None /\ closed' = TRUE /\ Terminated(Nobody) /\ Stopped(worker) /\ outbox' = outbox
        /\ UNCHANGED <<started, inflight, callId, kind, id, on, inbox, busy, loading, hurried>>
    BY <1>4 DEF Terminate
  <2>2. DOMAIN Nobody = {}
    BY DEF Nobody
  <2>3. outbox' \in [Worker -> Seq(Response)] /\ AnswersTaken
    BY Zenon, <2>1, MainFacts DEF ThreadTypes, AnswersTaken
  <2>4. PICK reply : reply = Nobody
    OBVIOUS
  <2> QED
    BY <2>1, <2>2, <2>3, <2>4, TerminatedKeeps
<1>5. ASSUME NEW w \in Worker, OnInit(w) PROVE RpcInv'
  <2>1. /\ Take(w) /\ Head1(w).event = "init" /\ listening' = FALSE /\ inflight' = FALSE
        /\ phase' = [c \in Call |-> IF phase[c] = "init" THEN "resumed" ELSE phase[c]]
        /\ UNCHANGED <<closed, worker, started, callId, kind, id, on, result, initLost,
                       life, inbox, busy, loading, hurried>>
    BY <1>5 DEF OnInit
  <2>2. /\ w = worker /\ worker # None /\ Quiet /\ AnswerSound(w, Head1(w))
        /\ outbox' \in [Worker -> Seq(Response)] /\ AnswersTaken
    BY Zenon, <2>1, TakeFacts
  <2>3. Up(worker)
    BY Zenon, <2>1, <2>2 DEF AnswerSound
  <2>4. phase' \in [Call -> Phase] /\ result' \in [Call -> Outcome]
        /\ inflight' \in BOOLEAN /\ listening' \in BOOLEAN /\ initLost' \in BOOLEAN
    BY <2>1, MainFacts DEF Phase
  <2>5. \A d \in Call : \/ phase'[d] = phase[d] /\ result'[d] = result[d]
                        \/ phase[d] = "init" /\ phase'[d] = "resumed" /\ result'[d] = result[d]
    BY <2>1
  <2> QED
    BY <2>1, <2>2, <2>3, <2>4, <2>5, SettleKeeps
<1>6. ASSUME NEW w \in Worker, OnNothing(w) PROVE RpcInv'
  <2>1. /\ Take(w) /\ initLost' = TRUE
        /\ UNCHANGED <<closed, worker, started, inflight, listening, callId, phase, kind, id, on, result,
                       life, inbox, busy, loading, hurried>>
    BY <1>6 DEF OnNothing
  <2>2. outbox' \in [Worker -> Seq(Response)] /\ AnswersTaken
    BY Zenon, <2>1, TakeFacts
  <2>3. phase' \in [Call -> Phase] /\ result' \in [Call -> Outcome]
        /\ inflight' \in BOOLEAN /\ listening' \in BOOLEAN /\ initLost' \in BOOLEAN /\ (inflight => inflight')
    BY <2>1, MainFacts
  <2> QED
    BY <2>1, <2>2, <2>3, SettleKeeps
<1>7. ASSUME NEW w \in Worker, OnExit(w) PROVE RpcInv'
  <2>1. /\ Take(w) /\ Terminated(Nobody) /\ Stopped(w)
        /\ UNCHANGED <<closed, started, inflight, callId, kind, id, on, inbox, busy, loading, hurried>>
    BY <1>7 DEF OnExit
  <2>2. /\ w = worker /\ worker # None /\ Quiet
        /\ outbox' \in [Worker -> Seq(Response)] /\ AnswersTaken
    BY Zenon, <2>1, TakeFacts
  <2>3. DOMAIN Nobody = {}
    BY DEF Nobody
  <2>4. closed' \in BOOLEAN
    BY <2>1, MainFacts
  <2>5. PICK reply : reply = Nobody
    OBVIOUS
  <2> QED
    BY <2>1, <2>2, <2>3, <2>4, <2>5, TerminatedKeeps
<1>8. ASSUME NEW w \in Worker, WorkerGoes(w) \/ WorkerExits(w) PROVE RpcInv'
  <2>1. Types'
    BY Zenon, <1>8, ThreadStepTypes DEF RpcInv
  <2> QED
    BY Zenon, <1>8, <2>1, WorkersStep, WorkerStepsKeep
<1>9. CASE UNCHANGED vars
  BY <1>9 DEF vars, main, threads, RpcInv, Types, MainTypes, ThreadTypes, CallsSound, CallSound,
              WorkersSound, WorkerSound, AskSound, AnswerSound, Posted, Up
<1>10. CASE Next
  BY Zenon, <1>1, <1>2, <1>3, <1>4, <1>5, <1>6, <1>7, <1>8, <1>10, OnReplyKeeps DEF Next, MainTakes
<1> QED
  BY Zenon, <1>9, <1>10

(* It holds at the start. *)
LEMMA RpcStart == Init => RpcInv
<1> SUFFICES ASSUME Init PROVE RpcInv
  OBVIOUS
<1>1. Types
  BY InitTypes
<1>2. CallsSound
  BY DEF Init, CallsSound, CallSound, Pending, None
<1>3. ASSUME NEW w \in Worker PROVE WorkerSound(w)
  <2>1. /\ life[w] = "none" /\ inbox[w] = <<>> /\ outbox[w] = <<>> /\ busy[w] = Idle /\ loading[w] = {}
    BY DEF Init
  <2>2. DOMAIN inbox[w] = {} /\ DOMAIN outbox[w] = {}
    BY <2>1
  <2> QED
    BY Zenon, <2>1, <2>2 DEF WorkerSound
<1>4. hurried = {}
  BY DEF Init
<1> QED
  BY Zenon, <1>1, <1>2, <1>3, <1>4 DEF RpcInv, WorkersSound

(* All of it holds throughout. *)
LEMMA RpcSound == Spec => []RpcInv
BY RpcStart, RpcStep, PTL DEF Spec

(* A call settles with the reply to its own request, from the worker that  *)
(* it was posted to: whatever the order of calls, exits and restarts.      *)
THEOREM OwnReplies == Spec => []OwnReply
<1>1. RpcInv => OwnReply
  BY Zenon DEF RpcInv, CallsSound, CallSound, OwnReply
<1> QED
  BY <1>1, RpcSound, PTL

(* The type of every variable follows: an id in a queue is one given out.  *)
LEMMA RpcTypeOK == RpcInv => TypeOK
<1> SUFFICES ASSUME RpcInv PROVE TypeOK
  OBVIOUS
<1>1. MainTypes /\ ThreadTypes
  BY MainFacts
<1>2. ASSUME NEW w, NEW i, NEW c, Posted(w, i, c) PROVE i \in 0 .. callId /\ c \in Call
  BY <1>1, <1>2 DEF Posted, MainTypes
<1>3. ASSUME NEW w \in Worker PROVE WorkerSound(w)
  BY Zenon, MainFacts
<1>4. 0 \in 0 .. callId
  BY <1>1 DEF MainTypes
<1>5. ASSUME NEW w \in Worker, NEW j \in DOMAIN inbox[w]
      PROVE  inbox[w][j] \in Requests({"init", "call", "fs"})
  <2>1. AskSound(w, j, inbox[w][j])
    BY Zenon, <1>3, <1>5 DEF WorkerSound
  <2>2. inbox[w] \in Seq(Message)
    BY <1>1 DEF ThreadTypes
  <2>3. inbox[w][j] \in Message
    BY <2>2, <1>5, ElementOfSeq, LenProperties
  <2>4. PICK m \in Message : m = inbox[w][j]
    BY <2>3
  <2>5. m.event \in {"init", "call", "fs"} /\ m.id \in 0 .. callId
    BY <1>2, <1>4, <2>1, <2>4 DEF AskSound, None
  <2>6. m \in Requests({"init", "call", "fs"})
    BY <2>5 DEF Requests, Message
  <2> QED
    BY Zenon, <2>4, <2>6
<1>6. ASSUME NEW w \in Worker, NEW j \in DOMAIN outbox[w]
      PROVE  outbox[w][j].event \in {"init", "nothing", "ok", "error", "exit"}
  <2>1. outbox[w] \in Seq(Response)
    BY <1>1 DEF ThreadTypes
  <2>2. outbox[w][j] \in Response
    BY <2>1, <1>6, ElementOfSeq, LenProperties
  <2> QED
    BY <2>2 DEF Response
<1>7. ASSUME NEW w \in Worker PROVE busy[w] \in Requests({"none", "call"})
  <2>1. PICK m \in Message : m = busy[w] /\ m.event \in {"none", "call"}
    BY <1>1 DEF ThreadTypes
  <2>2. m.id \in 0 .. callId
    <3>1. CASE m = Idle
      BY <1>4, <3>1, Requesting DEF None
    <3>2. CASE m # Idle
      BY <1>2, <1>3, <2>1, <3>2 DEF WorkerSound
    <3> QED
      BY <3>1, <3>2
  <2>3. m \in Requests({"none", "call"})
    BY <2>1, <2>2 DEF Requests, Message
  <2> QED
    BY Zenon, <2>1, <2>3
<1>8. ASSUME NEW w \in Worker, NEW r \in loading[w] PROVE r \in Requests({"fs"})
  <2>1. r \in Message /\ r.event = "fs"
    BY <1>1, <1>8 DEF ThreadTypes
  <2>2. r.id \in 0 .. callId
    BY <1>2, <1>3, <1>8 DEF WorkerSound
  <2> QED
    BY <2>1, <2>2 DEF Requests, Message
<1>9. result \in [Call -> [how : {"none", "ok", "error", "exit", "no worker"},
                          by : (Worker \cup {None}) \X (Call \cup {None})]]
  BY <1>1 DEF MainTypes, Outcome, How
<1>10. phase \in [Call -> {"none", "init", "resumed", "waiting", "done"}]
       /\ life \in [Worker -> {"none", "new", "loading", "ready", "failed", "gone"}]
  BY <1>1 DEF MainTypes, ThreadTypes, Phase, Life
<1> QED
  BY Zenon, <1>1, <1>5, <1>6, <1>7, <1>8, <1>9, <1>10 DEF TypeOK, MainTypes, ThreadTypes

(* Every variable keeps its type.                                          *)
THEOREM TypeCorrect == Spec => []TypeOK
BY RpcSound, RpcTypeOK, PTL

(* Nobody waits on a worker that is no longer there, and no call reaches a *)
(* worker before it is ready.                                              *)
THEOREM WaitersServed == Spec => []WaitsOnLiveWorker
<1>1. RpcInv => WaitsOnLiveWorker
  BY Zenon, RpcTypeOK DEF RpcInv, CallsSound, CallSound, WaitsOnLiveWorker
<1> QED
  BY <1>1, RpcSound, PTL

===============================================================================
