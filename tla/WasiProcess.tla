------------------------------ MODULE WasiProcess ------------------------------
(***************************************************************************)
(* Raw WASI children of a CoWasm kernel (core/kernel/src/wasm/posix/       *)
(* fork-exec.ts, wait.ts, signal.ts).                                      *)
(*                                                                         *)
(* One parent, the kernel worker, makes POSIX calls one at a time: fork    *)
(* and exec, kill, wait, waitpid, wait3.  A child either runs to its end   *)
(* inside the fork call ("sync") or in a Node worker thread of its own     *)
(* ("worker").  Parent and child thread share one completion record        *)
(* [done, wait status, requested signal, claimed] and touch it only with   *)
(* Atomics; every such access is a step here, so the two interleave at     *)
(* the grain of the code.                                                  *)
(*                                                                         *)
(* Pid p stands for the synthetic pid 0x40000000 + p - 1.  Pids are handed *)
(* out in increasing order and never enter the table twice, so the         *)
(* insertion order in which the code iterates its Map is the pid order.    *)
(***************************************************************************)
EXTENDS Integers

CONSTANTS
  MaxPid,     \* bound: how many pids the run hands out
  ExitCodes,  \* codes a child may pass to proc_exit
  Signals     \* signals the parent may send with kill, 0 aside

ASSUME PidAssumption == MaxPid \in Nat
ASSUME CodeAssumption == ExitCodes \subseteq Nat /\ Signals \subseteq Nat \ {0}

Pid == 1 .. MaxPid
Any == 0  \* the pid argument -1 of wait, wait3 and waitpid

(* The encodings of a wait status.  A child that raises a signal on itself *)
(* throws the signal's NAME, of which Number() is NaN: a worker reports    *)
(* signal 1 whatever it raised, and a synchronous child exit code 128.     *)
ExitStatus(code) == (code % 256) * 256
SignalStatus(sig) == sig % 128
RaisedInWorker == SignalStatus(1)
RaisedInSync == ExitStatus(128)
FailedStatus == ExitStatus(1)

WorkerStatus == {ExitStatus(c) : c \in ExitCodes} \cup {RaisedInWorker, FailedStatus}
SyncStatus == {ExitStatus(c) : c \in ExitCodes} \cup {RaisedInSync}
WaitStatus ==
  WorkerStatus \cup SyncStatus \cup {SignalStatus(s) : s \in Signals} \cup {0}

VARIABLES
  nextPid,    \* context.state.nextWasmPid
  kind,       \* what was started under each pid
  table,      \* keys of context.state.completedWasmProcesses
  handles,    \* keys of context.state.wasmProcessWorkers
  done,       \* pids whose record says done (sync children: from the start)
  claimed,    \* pids whose completion has been claimed
  status,     \* the wait status stored for each pid
  wpc,        \* where each child thread is
  wstat,      \* the status a child thread is going to publish
  terminated, \* child threads terminate() was called on
  openFds,    \* children whose duplicated descriptors are still open
  started,    \* history: children whose WASI instance was built
  verdict,    \* history: the status meant by whoever claimed completion
  killed,     \* history: pids whose completion kill() claimed
  pc,         \* where the parent is
  call,       \* the wait call the parent is in
  todo,       \* table entries the running scan has yet to look at
  round,      \* first or second attempt to take a completed child
  probed,     \* the call saw a running child (wasmProcess != null)
  target,     \* the child whose record Atomics.wait is called on
  sig,        \* the signal of the kill in progress
  ret         \* history: what the last call returned

(* What the parent and a thread share, what a thread has, the parent's     *)
(* tables, and the local variables of the parent's call.                   *)
record == <<done, claimed, status, verdict, killed>>
thread == <<wpc, wstat, started, openFds>>
tables == <<nextPid, kind, table, handles>>
locals == <<call, todo, round, probed, target, sig>>
vars == <<record, thread, tables, terminated, pc, locals, ret>>

NoCall == [op |-> "none", arg |-> Any, nohang |-> FALSE]
Ret(what, p, s) == [what |-> what, pid |-> p, status |-> s]
NoRet == Ret("none", Any, 0)

Init ==
  /\ nextPid = 1
  /\ kind = [p \in Pid |-> "free"]
  /\ table = {} /\ handles = {}
  /\ done = {} /\ claimed = {}
  /\ status = [p \in Pid |-> 0]
  /\ wpc = [p \in Pid |-> "none"]
  /\ wstat = [p \in Pid |-> 0]
  /\ terminated = {} /\ openFds = {} /\ started = {} /\ killed = {}
  /\ verdict = [p \in Pid |-> 0]
  /\ pc = "idle" /\ call = NoCall
  /\ todo = {} /\ round = 1 /\ probed = FALSE
  /\ target = Any /\ sig = 0
  /\ ret = NoRet

(* A call returns r, and its local variables are gone. *)
Return(r) ==
  /\ pc' = "idle" /\ ret' = r
  /\ call' = NoCall
  /\ todo' = {} /\ round' = 1 /\ probed' = FALSE
  /\ target' = Any /\ sig' = 0

-----------------------------------------------------------------------------
(* fork and exec *)

(* Variant with a mistake: the pid counter does not advance. *)
SpawnWorkerSamePid ==
  /\ pc = "idle" /\ nextPid \in Pid
  /\ kind' = [kind EXCEPT ![nextPid] = "worker"]
  /\ table' = table \cup {nextPid}
  /\ handles' = handles \cup {nextPid}
  /\ openFds' = openFds \cup {nextPid}
  /\ wpc' = [wpc EXCEPT ![nextPid] = "setup"]
  /\ ret' = Ret("child", nextPid, 0)
  /\ UNCHANGED <<nextPid, record, wstat, started, terminated, pc, locals>>

(* The worker path: the descriptors are duplicated, the record starts at   *)
(* zero, and both tables get the new pid before the call returns.          *)
SpawnWorker ==
  /\ pc = "idle" /\ nextPid \in Pid
  /\ nextPid' = nextPid + 1
  /\ kind' = [kind EXCEPT ![nextPid] = "worker"]
  /\ table' = table \cup {nextPid}
  /\ handles' = handles \cup {nextPid}
  /\ openFds' = openFds \cup {nextPid}
  /\ wpc' = [wpc EXCEPT ![nextPid] = "setup"]
  /\ ret' = Ret("child", nextPid, 0)
  /\ UNCHANGED <<record, wstat, started, terminated, pc, locals>>

(* The synchronous path: the child has run to its end, and its encoded     *)
(* status goes straight into the table.                                    *)
SpawnSync(s) ==
  /\ pc = "idle" /\ nextPid \in Pid
  /\ nextPid' = nextPid + 1
  /\ kind' = [kind EXCEPT ![nextPid] = "sync"]
  /\ table' = table \cup {nextPid}
  /\ done' = done \cup {nextPid}
  /\ status' = [status EXCEPT ![nextPid] = s]
  /\ verdict' = [verdict EXCEPT ![nextPid] = s]
  /\ ret' = Ret("child", nextPid, 0)
  /\ UNCHANGED <<handles, claimed, killed, thread, terminated, pc, locals>>

(* The Worker constructor throws after the pid was allocated: the          *)
(* descriptors are closed again and the call returns -1.                   *)
SpawnFails ==
  /\ pc = "idle" /\ nextPid \in Pid
  /\ nextPid' = nextPid + 1
  /\ ret' = Ret("error", Any, 0)
  /\ UNCHANGED <<kind, table, handles, record, thread, terminated, pc, locals>>

-----------------------------------------------------------------------------
(* The child thread *)

At(p, from, to) == wpc[p] = from /\ wpc' = [wpc EXCEPT ![p] = to]

ChildSetup(p) ==
  /\ At(p, "setup", "run")
  /\ started' = started \cup {p}
  /\ UNCHANGED <<record, tables, wstat, openFds, terminated, pc, locals, ret>>

(* new WASI(...) throws, before the try whose finally closes descriptors.  *)
ChildSetupFails(p) ==
  /\ At(p, "setup", "claim")
  /\ wstat' = [wstat EXCEPT ![p] = FailedStatus]
  /\ UNCHANGED <<record, tables, started, openFds, terminated, pc, locals, ret>>

(* The program returns, exits, raises a signal, or fails to load or traps. *)
ChildEnds(p, s) ==
  /\ At(p, "run", "close")
  /\ wstat' = [wstat EXCEPT ![p] = s]
  /\ UNCHANGED <<record, tables, started, openFds, terminated, pc, locals, ret>>

ChildClose(p) ==
  /\ At(p, "close", "claim")
  /\ openFds' = openFds \ {p}
  /\ UNCHANGED <<record, tables, wstat, started, terminated, pc, locals, ret>>

(* Atomics.compareExchange(completion, 3, 0, 1) *)
ChildClaim(p) ==
  /\ wpc[p] = "claim"
  /\ IF p \in claimed
       THEN /\ wpc' = [wpc EXCEPT ![p] = "over"]
            /\ UNCHANGED record
       ELSE /\ wpc' = [wpc EXCEPT ![p] = "store"]
            /\ claimed' = claimed \cup {p}
            /\ verdict' = [verdict EXCEPT ![p] = wstat[p]]
            /\ UNCHANGED <<done, status, killed>>
  /\ UNCHANGED <<tables, wstat, started, openFds, terminated, pc, locals, ret>>

ChildStore(p) ==
  /\ At(p, "store", "publish")
  /\ status' = [status EXCEPT ![p] = wstat[p]]
  /\ UNCHANGED <<done, claimed, verdict, killed, tables, wstat, started, openFds,
                 terminated, pc, locals, ret>>

ChildPublish(p) ==
  /\ At(p, "publish", "notify")
  /\ done' = done \cup {p}
  /\ UNCHANGED <<claimed, status, verdict, killed, tables, wstat, started, openFds,
                 terminated, pc, locals, ret>>

(* The entries a take or a scan goes through. *)
Scope(arg) == IF arg = Any THEN table ELSE table \cap {arg}

Retake ==
  /\ pc' = "take" /\ round' = 2
  /\ todo' = Scope(call.arg)
  /\ UNCHANGED <<call, probed, target, sig, ret>>

(* Variant with a mistake: no notify. *)
ChildNotifySilent(p) ==
  /\ At(p, "notify", "over")
  /\ UNCHANGED <<pc, locals, ret, record, tables, wstat, started, openFds, terminated>>

(* Atomics.notify wakes the parent if it sleeps on this record. *)
ChildNotify(p) ==
  /\ At(p, "notify", "over")
  /\ IF pc = "asleep" /\ target = p THEN Retake ELSE UNCHANGED <<pc, locals, ret>>
  /\ UNCHANGED <<record, tables, wstat, started, openFds, terminated>>

(* terminate() is asynchronous: it stops the thread at any later step, and *)
(* no finally block runs.                                                  *)
ChildStops(p) ==
  /\ p \in terminated
  /\ wpc[p] \notin {"none", "over"}
  /\ wpc' = [wpc EXCEPT ![p] = "over"]
  /\ UNCHANGED <<record, tables, wstat, started, openFds, terminated, pc, locals, ret>>

-----------------------------------------------------------------------------
(* wait, waitpid and wait3 *)

WaitCalls ==
  [op : {"wait"}, arg : {Any}, nohang : {FALSE}]
    \cup [op : {"waitpid"}, arg : Pid \cup {Any}, nohang : BOOLEAN]
    \cup [op : {"wait3"}, arg : {Any}, nohang : BOOLEAN]

BeginWait(c) ==
  /\ pc = "idle" /\ pc' = "take"
  /\ call' = c /\ round' = 1 /\ probed' = FALSE
  /\ todo' = Scope(c.arg)
  /\ ret' = NoRet
  /\ UNCHANGED <<record, thread, tables, terminated, target, sig>>

(* A for..of over the Map: the entry with the least pid comes next. *)
Upcoming(p) == p \in todo /\ \A q \in todo : p <= q
Skip(p) == todo' = todo \ {p} /\ UNCHANGED <<call, round, probed, pc>>

(* takeCompletedWasmProcess: take the first entry found done. *)
TakeMiss(p) ==
  /\ pc = "take" /\ Upcoming(p) /\ p \notin done
  /\ Skip(p)
  /\ UNCHANGED <<record, thread, tables, terminated, target, sig, ret>>

TakeHit(p) ==
  /\ pc = "take" /\ Upcoming(p) /\ p \in done
  /\ table' = table \ {p}
  /\ handles' = handles \ {p}
  /\ Return(Ret("reaped", p, status[p]))
  /\ UNCHANGED <<record, thread, nextPid, kind, terminated>>

(* Nothing to take.  wait goes straight to waitForWasmProcess; waitpid and *)
(* wait3 first remember whether a child is running.  The second attempt,   *)
(* after a sleep, ends the call.                                           *)
TakeEnd ==
  /\ pc = "take" /\ todo = {}
  /\ pc' = CASE round = 2 -> "settle"
             [] round = 1 /\ call.op = "wait" -> "aim"
             [] OTHER -> "probe"
  /\ todo' = Scope(call.arg)
  /\ UNCHANGED <<record, thread, tables, terminated, call, round, probed, target, sig, ret>>

(* Variant with a mistake: a lookup by pid also asks for one not done. *)
RunningNow(p) == kind[p] = "worker" /\ p \notin done

(* runningWasmProcess: a scan of all entries asks for one not done; a      *)
(* lookup by pid returns the record of a worker whatever it says.          *)
Running(p) == kind[p] = "worker" /\ (call.arg = Any => p \notin done)

ProbeMiss(p) ==
  /\ pc = "probe" /\ Upcoming(p) /\ ~Running(p)
  /\ Skip(p)
  /\ UNCHANGED <<record, thread, tables, terminated, target, sig, ret>>

ProbeEnd ==
  /\ pc = "probe"
  /\ \/ todo = {} /\ probed' = FALSE
     \/ \E p \in todo : Upcoming(p) /\ Running(p) /\ probed' = TRUE
  /\ pc' = "aim" /\ todo' = Scope(call.arg)
  /\ UNCHANGED <<record, thread, tables, terminated, call, round, target, sig, ret>>

(* waitForWasmProcess scans again for the record to wait on. *)
AimMiss(p) ==
  /\ pc = "aim" /\ Upcoming(p) /\ ~Running(p)
  /\ Skip(p)
  /\ UNCHANGED <<record, thread, tables, terminated, target, sig, ret>>

AimHit(p) ==
  /\ pc = "aim" /\ Upcoming(p) /\ Running(p)
  /\ pc' = IF call.nohang THEN "settle" ELSE "sleep"
  /\ target' = p
  /\ UNCHANGED <<record, thread, tables, terminated, call, todo, round, probed, sig, ret>>

AimEnd ==
  /\ pc = "aim" /\ todo = {} /\ pc' = "settle"
  /\ UNCHANGED <<record, thread, tables, terminated, locals, ret>>

(* Atomics.wait(process, 0, 0) returns at once if the value is not 0. *)
Sleep ==
  /\ pc = "sleep"
  /\ IF target \in done THEN Retake
                       ELSE pc' = "asleep" /\ UNCHANGED <<locals, ret>>
  /\ UNCHANGED <<record, thread, tables, terminated>>

(* Nothing was reaped: 0 for WNOHANG if a child was seen running, and the  *)
(* host's own wait call otherwise, which knows no synthetic pid.           *)
Settle ==
  /\ pc = "settle"
  /\ Return(Ret(IF probed /\ call.nohang THEN "none yet" ELSE "native wait", call.arg, 0))
  /\ UNCHANGED <<record, thread, tables, terminated>>

-----------------------------------------------------------------------------
(* kill *)

BeginKill(p, s) ==
  /\ pc = "idle"
  /\ IF p \notin table \/ kind[p] = "sync" THEN Return(Ret("native kill", p, 0))
     ELSE IF s = 0 \/ p \in done THEN Return(Ret("killed", p, 0))
     ELSE /\ pc' = "kill claim" /\ target' = p /\ sig' = s
          /\ ret' = NoRet
          /\ UNCHANGED <<call, todo, round, probed>>
  /\ UNCHANGED <<record, thread, tables, terminated>>

(* Variant with a mistake: the claim does not look who came first. *)
KillClaimBlind ==
  /\ pc = "kill claim" /\ pc' = "kill store"
  /\ claimed' = claimed \cup {target}
  /\ killed' = killed \cup {target}
  /\ verdict' = [verdict EXCEPT ![target] = SignalStatus(sig)]
  /\ UNCHANGED <<done, status, locals, ret, thread, tables, terminated>>

KillClaim ==
  /\ pc = "kill claim"
  /\ IF target \in claimed
       THEN Return(Ret("killed", target, 0)) /\ UNCHANGED record
       ELSE /\ pc' = "kill store"
            /\ claimed' = claimed \cup {target}
            /\ killed' = killed \cup {target}
            /\ verdict' = [verdict EXCEPT ![target] = SignalStatus(sig)]
            /\ UNCHANGED <<done, status, locals, ret>>
  /\ UNCHANGED <<thread, tables, terminated>>

KillStore ==
  /\ pc = "kill store" /\ pc' = "kill publish"
  /\ status' = [status EXCEPT ![target] = SignalStatus(sig)]
  /\ UNCHANGED <<done, claimed, verdict, killed, thread, tables, terminated, locals, ret>>

KillPublish ==
  /\ pc = "kill publish" /\ pc' = "kill terminate"
  /\ done' = done \cup {target}
  /\ UNCHANGED <<claimed, status, verdict, killed, thread, tables, terminated, locals, ret>>

(* Variant with a mistake: the worker is not terminated. *)
KillTerminateNot ==
  /\ pc = "kill terminate"
  /\ Return(Ret("killed", target, 0))
  /\ UNCHANGED <<record, thread, tables, terminated>>

(* The notify has nobody to wake: the only waiter is the caller. *)
KillTerminate ==
  /\ pc = "kill terminate"
  /\ terminated' = IF target \in handles THEN terminated \cup {target} ELSE terminated
  /\ Return(Ret("killed", target, 0))
  /\ UNCHANGED <<record, thread, tables>>

-----------------------------------------------------------------------------
Spawn == SpawnWorker \/ SpawnFails \/ \E s \in SyncStatus : SpawnSync(s)

ChildWindsUp(p) ==
  \/ ChildClose(p) \/ ChildClaim(p) \/ ChildStore(p)
  \/ ChildPublish(p) \/ ChildNotify(p)

ChildStartsUp(p) == ChildSetup(p) \/ ChildSetupFails(p)

ChildStep(p) ==
  \/ ChildStartsUp(p)
  \/ \E s \in WorkerStatus : ChildEnds(p, s)
  \/ ChildWindsUp(p) \/ ChildStops(p)

ParentWaits ==
  \/ \E p \in Pid : \/ TakeMiss(p) \/ TakeHit(p) \/ ProbeMiss(p)
                    \/ AimMiss(p) \/ AimHit(p)
  \/ TakeEnd \/ ProbeEnd \/ AimEnd \/ Sleep \/ Settle

ParentKills == KillClaim \/ KillStore \/ KillPublish \/ KillTerminate

Next ==
  \/ Spawn
  \/ \E c \in WaitCalls : BeginWait(c)
  \/ \E p \in Pid, s \in Signals \cup {0} : BeginKill(p, s)
  \/ ParentWaits \/ ParentKills
  \/ \E p \in Pid : ChildStep(p)

(* The parent finishes the call it is in, and a thread starts its program, *)
(* and gets to its end once it has left the program or terminate() was     *)
(* called on it: all of this is running JavaScript.  Nothing makes a       *)
(* program end, or a new call begin.                                       *)
Fairness ==
  /\ WF_vars(ParentWaits) /\ WF_vars(ParentKills)
  /\ \A p \in Pid : /\ WF_vars(ChildStartsUp(p))
                    /\ WF_vars(ChildWindsUp(p))
                    /\ WF_vars(ChildStops(p))

Spec == Init /\ [][Next]_vars
FairSpec == Spec /\ Fairness

-----------------------------------------------------------------------------
(* Properties *)

ChildAt == {"none", "setup", "run", "close", "claim", "store", "publish", "notify", "over"}
AimedAt == {"sleep", "asleep", "kill claim", "kill store", "kill publish", "kill terminate"}
ParentAt == {"idle", "take", "probe", "aim", "settle"} \cup AimedAt
Returns == {"none", "child", "error", "reaped", "none yet", "native wait",
            "native kill", "killed"}

(* The type of every variable; a sleep or a kill is about some child. *)
TypeOK ==
  /\ nextPid \in 1 .. MaxPid + 1
  /\ kind \in [Pid -> {"free", "sync", "worker"}]
  /\ table \subseteq Pid /\ handles \subseteq Pid
  /\ done \subseteq Pid /\ claimed \subseteq Pid
  /\ status \in [Pid -> WaitStatus]
  /\ wpc \in [Pid -> ChildAt]
  /\ wstat \in [Pid -> WorkerStatus \cup {0}]
  /\ terminated \subseteq Pid /\ openFds \subseteq Pid
  /\ started \subseteq Pid /\ killed \subseteq Pid
  /\ verdict \in [Pid -> WaitStatus]
  /\ pc \in ParentAt
  /\ call \in WaitCalls \cup {NoCall}
  /\ todo \subseteq Pid
  /\ round \in {1, 2}
  /\ probed \in BOOLEAN
  /\ target \in Pid \cup {Any}
  /\ pc \in AimedAt => target \in Pid
  /\ sig \in Signals \cup {0}
  /\ ret \in [what : Returns, pid : Pid \cup {Any}, status : WaitStatus]

(* What waitpid reports is what was meant by whoever claimed the child's   *)
(* completion first, the child by ending or the parent by kill: a record   *)
(* that says done never carries the status of the one that lost the race   *)
(* (fork-exec.ts, the compareExchange in the worker; signal.ts, the one in *)
(* signalWasmProcess).                                                     *)
DoneMeansVerdict == \A p \in done : status[p] = verdict[p]
ReapReportsVerdict == ret.what = "reaped" => ret.status = verdict[ret.pid]

(* Once a child's record says done it keeps saying so, with the same       *)
(* status: a natural exit cannot race with signal delivery and replace its *)
(* status, before the child is reaped or after.                            *)
StatusFinal == [][\A p \in done : p \in done' /\ status'[p] = status[p]]_vars

(* A wait for one particular child of ours ends with that child or with    *)
(* "none yet"; it is never handed to the host's waitpid, which would       *)
(* answer ECHILD, while the child is in the table.                         *)
WaitPidServed == ret.what = "native wait" => ret.pid \notin table

(* A worker handle is kept exactly as long as there is a child to reap     *)
(* that runs in a worker: reaping releases it, nothing else does.          *)
HandlesMatchTable == handles = {p \in table : kind[p] = "worker"}

(* A reader of a child's output sees end of file once the child's natural  *)
(* exit can be reaped: the thread closes its duplicates before it          *)
(* publishes.  Not so for a child that was killed or never set up.         *)
ClosedBeforeDone == \A p \in (done \cap started) \ killed : p \notin openFds

(* kill() and a child that has begun to publish do not both win: the       *)
(* thread of a killed child never stores a status.                         *)
KilledStoresNothing == \A p \in killed : wpc[p] \notin {"store", "publish", "notify"}

(* A parent asleep on a child wakes and ends its call once that child has  *)
(* left its program: no wakeup is lost between the load of the done flag   *)
(* in Atomics.wait and the thread's store and notify.                      *)
SleeperWakes ==
  \A p \in Pid :
    pc = "asleep" /\ target = p /\ wpc[p] \notin {"setup", "run"} ~> pc = "idle"

(* A child whose completion kill claimed is stopped, whatever its program  *)
(* is doing: the call that claimed it also gets to terminate it.           *)
KilledThreadStops == \A p \in Pid : p \in killed ~> wpc[p] = "over"

-----------------------------------------------------------------------------
(* Why the record is right: the inductive invariant of the proofs *)

Publishing == {"store", "publish", "notify"}

(* What is known of a pid by the way it was started. *)
StartSound(p) ==
  /\ p >= nextPid => kind[p] = "free"
  /\ kind[p] = "free" => p \notin table \cup done \cup claimed \cup started /\ wpc[p] = "none"
  /\ kind[p] = "sync" => p \in done /\ p \notin claimed \cup started /\ wpc[p] = "none"
  /\ kind[p] # "free" /\ p \notin table => p \in done
  /\ p \in handles <=> p \in table /\ kind[p] = "worker"

(* A record says done after its status is stored, and only the claimer,    *)
(* one of the child and the parent, stores it.                             *)
RecordSound(p) ==
  /\ p \in terminated => p \in killed
  /\ p \in killed => p \in claimed
  /\ p \in claimed \ killed => wpc[p] \in Publishing \cup {"over"}
  /\ p \in done => status[p] = verdict[p] /\ (kind[p] = "sync" \/ p \in claimed)
  /\ wpc[p] \in Publishing => p \in claimed \ killed /\ verdict[p] = wstat[p]
  /\ wpc[p] \in {"store", "publish"} => p \notin done
  /\ wpc[p] = "publish" => status[p] = wstat[p]
  /\ p \in done \ killed => kind[p] = "sync" \/ wpc[p] \in {"notify", "over"}

(* A child that got as far as its program has closed its descriptors when  *)
(* it comes to claim its completion.                                       *)
FdsSound(p) ==
  /\ wpc[p] = "setup" => p \notin started
  /\ p \in started /\ wpc[p] \in Publishing \cup {"claim"} => p \notin openFds
  /\ p \in started \ killed /\ wpc[p] = "over" => p \notin openFds

(* A kill that is past its claim owns the record. *)
KillSound ==
  /\ pc = "kill claim" => kind[target] = "worker"
  /\ pc \in {"kill store", "kill publish", "kill terminate"} =>
       target \in killed /\ verdict[target] = SignalStatus(sig)
  /\ pc \in {"kill store", "kill publish"} => target \notin done
  /\ pc = "kill publish" => status[target] = SignalStatus(sig)

(* A reaped child stays done. *)
ReapSound == ret.what = "reaped" => ret.pid \in done /\ ret.status = verdict[ret.pid]

(* A scan goes through entries of the table.                               *)
ScanOfTable == todo \subseteq table

IInv ==
  /\ TypeOK
  /\ \A p \in Pid : StartSound(p) /\ RecordSound(p) /\ FdsSound(p)
  /\ KillSound
  /\ ReapSound

-----------------------------------------------------------------------------
(* Refinement of the process table a POSIX program expects *)

State(p) ==
  IF kind[p] = "free" THEN "unborn"
  ELSE IF p \notin table THEN "reaped"
  ELSE IF p \in done THEN "zombie" ELSE "running"

childState == [p \in Pid |-> State(p)]
childResult == [p \in Pid |-> IF p \in done THEN status[p] ELSE 0]

Children == INSTANCE ChildTable
  WITH Child <- Pid, Result <- WaitStatus, state <- childState, result <- childResult

(* The tables and the completion records together behave as one process    *)
(* table in which a child runs, becomes a zombie with one result, and is   *)
(* reaped once.                                                            *)
ChildTableSpec == Children!Spec

=============================================================================
