--------------------------- MODULE WasiProcessProofs ---------------------------
(***************************************************************************)
(* What holds of WasiProcess for any number of children, any exit codes    *)
(* and any signals.                                                        *)
(***************************************************************************)
EXTENDS WasiProcess, TLAPS

(* The statuses the actions store are wait statuses. *)
LEMMA Statuses ==
  /\ 0 \in WaitStatus
  /\ FailedStatus \in WorkerStatus
  /\ WorkerStatus \subseteq WaitStatus
  /\ SyncStatus \subseteq WaitStatus
  /\ \A s \in Signals \cup {0} : SignalStatus(s) \in WaitStatus
<1>1. SignalStatus(0) = 0
  BY DEF SignalStatus
<1> QED
  BY <1>1 DEF WaitStatus, WorkerStatus, SyncStatus

(* Pids are positive, so that 0 can stand for "any child". *)
LEMMA AnyIsNoPid == Any \notin Pid /\ Pid \subseteq Nat
BY PidAssumption DEF Any, Pid

(* The pid argument of a wait call. *)
LEMMA CallArg == \A c \in WaitCalls \cup {NoCall} : c.arg \in Pid \cup {Any}
<1> SUFFICES ASSUME NEW c \in WaitCalls \cup {NoCall} PROVE c.arg \in Pid \cup {Any}
  OBVIOUS
<1>1. CASE c \in [op : {"wait"}, arg : {Any}, nohang : {FALSE}]
  BY <1>1
<1>2. CASE c \in [op : {"waitpid"}, arg : Pid \cup {Any}, nohang : BOOLEAN]
  BY <1>2
<1>3. CASE c \in [op : {"wait3"}, arg : {Any}, nohang : BOOLEAN]
  BY <1>3
<1>4. CASE c = NoCall
  BY <1>4 DEF NoCall
<1> QED
  BY <1>1, <1>2, <1>3, <1>4 DEF WaitCalls

(* The call returning r leaves every local variable at rest. *)
LEMMA ReturnType ==
  ASSUME NEW r \in [what : Returns, pid : Pid \cup {Any}, status : WaitStatus],
         Return(r)
  PROVE  /\ pc' \in ParentAt
         /\ call' \in WaitCalls \cup {NoCall}
         /\ todo' \subseteq Pid /\ round' \in {1, 2} /\ probed' \in BOOLEAN
         /\ target' \in Pid \cup {Any}
         /\ pc' \notin AimedAt
         /\ sig' \in Signals \cup {0}
         /\ ret' \in [what : Returns, pid : Pid \cup {Any}, status : WaitStatus]
BY DEF Return, ParentAt, AimedAt

(* What the history variable ret may record. *)
LEMMA RetType ==
  ASSUME NEW what \in Returns, NEW p \in Pid \cup {Any}, NEW s \in WaitStatus
  PROVE  Ret(what, p, s) \in [what : Returns, pid : Pid \cup {Any}, status : WaitStatus]
BY DEF Ret

(* At the start. *)
LEMMA InitType == Init => TypeOK
<1> SUFFICES ASSUME Init PROVE TypeOK
  OBVIOUS
<1>1. NoRet \in [what : Returns, pid : Pid \cup {Any}, status : WaitStatus]
  BY Statuses, RetType DEF NoRet, Returns
<1>2. 1 \in 1 .. MaxPid + 1
  BY PidAssumption
<1> QED
  BY <1>1, <1>2, Statuses DEF Init, TypeOK, ChildAt, ParentAt, AimedAt

(* Each action keeps the types. *)
LEMMA SpawnType == TypeOK /\ Spawn => TypeOK'
<1> SUFFICES ASSUME TypeOK, Spawn PROVE TypeOK'
  OBVIOUS
<1> USE DEF TypeOK
<1>1. nextPid \in Pid => nextPid + 1 \in 1 .. MaxPid + 1
  BY PidAssumption DEF Pid
<1>2. \A p \in Pid : Ret("child", p, 0) \in [what : Returns, pid : Pid \cup {Any}, status : WaitStatus]
  BY Statuses, RetType DEF Returns
<1>3. CASE SpawnWorker
  BY <1>1, <1>2, <1>3 DEF SpawnWorker, record, locals, ChildAt
<1>4. ASSUME NEW s \in SyncStatus, SpawnSync(s) PROVE TypeOK'
  <2>1. s \in WaitStatus
    BY Statuses
  <2> QED
    BY <1>1, <1>2, <1>4, <2>1 DEF SpawnSync, thread, locals
<1>5. CASE SpawnFails
  <2>1. Ret("error", Any, 0) \in [what : Returns, pid : Pid \cup {Any}, status : WaitStatus]
    BY Statuses, RetType DEF Returns
  <2> QED
    BY <1>1, <1>5, <2>1 DEF SpawnFails, record, thread, locals
<1> QED
  BY <1>3, <1>4, <1>5 DEF Spawn

(* The steps of a child: its program, its descriptors, its claim and its   *)
(* status.                                                                 *)
LEMMA ChildType == ASSUME NEW p \in Pid PROVE TypeOK /\ ChildStep(p) => TypeOK'
<1> SUFFICES ASSUME TypeOK, ChildStep(p) PROVE TypeOK'
  OBVIOUS
<1> USE DEF TypeOK, record, tables, locals, ChildAt, At
<1>1. CASE ChildSetup(p)
  BY <1>1 DEF ChildSetup
<1>2. CASE ChildSetupFails(p)
  BY <1>2, Statuses DEF ChildSetupFails
<1>3. ASSUME NEW s \in WorkerStatus, ChildEnds(p, s) PROVE TypeOK'
  BY <1>3 DEF ChildEnds
<1>4. CASE ChildClose(p)
  BY <1>4 DEF ChildClose
<1>5. CASE ChildClaim(p)
  BY <1>5, Statuses DEF ChildClaim
<1>6. CASE ChildStore(p)
  BY <1>6, Statuses DEF ChildStore
<1>7. CASE ChildPublish(p)
  BY <1>7 DEF ChildPublish
<1>8. CASE ChildNotify(p)
  BY <1>8 DEF ChildNotify, Retake, ParentAt, AimedAt, Scope
<1>9. CASE ChildStops(p)
  BY <1>9 DEF ChildStops
<1> QED
  BY <1>1, <1>2, <1>3, <1>4, <1>5, <1>6, <1>7, <1>8, <1>9
     DEF ChildStep, ChildStartsUp, ChildWindsUp

(* The steps of a wait: its scans of the table, its sleep and its return. *)
LEMMA WaitType ==
  TypeOK /\ (ParentWaits \/ \E c \in WaitCalls : BeginWait(c)) => TypeOK'
<1> SUFFICES ASSUME TypeOK, ParentWaits \/ \E c \in WaitCalls : BeginWait(c)
             PROVE  TypeOK'
  OBVIOUS
<1> USE DEF TypeOK, record, thread, tables, locals, ParentAt, AimedAt
<1>1. ASSUME NEW c \in WaitCalls, BeginWait(c) PROVE TypeOK'
  BY <1>1, Statuses, RetType DEF BeginWait, Scope, NoRet, Returns
<1>2. ASSUME NEW p \in Pid, TakeMiss(p) \/ ProbeMiss(p) \/ AimMiss(p) PROVE TypeOK'
  BY <1>2 DEF TakeMiss, ProbeMiss, AimMiss, Skip
<1>3. ASSUME NEW p \in Pid, TakeHit(p) PROVE TypeOK'
  <2>1. Ret("reaped", p, status[p]) \in [what : Returns, pid : Pid \cup {Any}, status : WaitStatus]
    BY RetType DEF Returns
  <2> QED
    BY <1>3, <2>1, ReturnType DEF TakeHit
<1>4. CASE TakeEnd
  BY <1>4 DEF TakeEnd, Scope
<1>5. CASE ProbeEnd
  BY <1>5 DEF ProbeEnd, Scope
<1>6. ASSUME NEW p \in Pid, AimHit(p) PROVE TypeOK'
  BY <1>6 DEF AimHit
<1>7. CASE AimEnd
  BY <1>7 DEF AimEnd
<1>8. CASE Sleep
  BY <1>8 DEF Sleep, Retake, Scope
<1>9. CASE Settle
  <2> DEFINE what == IF probed /\ call.nohang THEN "none yet" ELSE "native wait"
  <2>1. call.arg \in Pid \cup {Any}
    BY CallArg
  <2>2. Ret(what, call.arg, 0) \in [what : Returns, pid : Pid \cup {Any}, status : WaitStatus]
    BY <2>1, Statuses, RetType DEF Returns
  <2>3. Return(Ret(what, call.arg, 0))
    BY <1>9 DEF Settle
  <2> HIDE DEF what
  <2> QED
    BY <1>9, <2>2, <2>3, ReturnType DEF Settle
<1> QED
  BY <1>1, <1>2, <1>3, <1>4, <1>5, <1>6, <1>7, <1>8, <1>9 DEF ParentWaits

(* The steps of a kill. *)
LEMMA KillType ==
  TypeOK /\ (ParentKills \/ \E p \in Pid, s \in Signals \cup {0} : BeginKill(p, s)) => TypeOK'
<1> SUFFICES ASSUME TypeOK,
                    ParentKills \/ \E p \in Pid, s \in Signals \cup {0} : BeginKill(p, s)
             PROVE  TypeOK'
  OBVIOUS
<1> USE DEF TypeOK, record, thread, tables, locals, ParentAt, AimedAt
<1>0. \A p \in Pid \cup {Any} :
        /\ Ret("killed", p, 0) \in [what : Returns, pid : Pid \cup {Any}, status : WaitStatus]
        /\ Ret("native kill", p, 0) \in [what : Returns, pid : Pid \cup {Any}, status : WaitStatus]
  BY Statuses, RetType DEF Returns
<1>1. ASSUME NEW p \in Pid, NEW s \in Signals \cup {0}, BeginKill(p, s) PROVE TypeOK'
  <2>1. CASE Return(Ret("native kill", p, 0)) \/ Return(Ret("killed", p, 0))
    BY <1>0, <1>1, <2>1, ReturnType DEF BeginKill
  <2>2. CASE /\ pc' = "kill claim" /\ target' = p /\ sig' = s
             /\ ret' = NoRet
             /\ UNCHANGED <<call, todo, round, probed>>
    <3>1. NoRet \in [what : Returns, pid : Pid \cup {Any}, status : WaitStatus]
      BY Statuses, RetType DEF NoRet, Returns
    <3> QED
      BY <1>1, <2>2, <3>1 DEF BeginKill
  <2> QED
    BY <1>1, <2>1, <2>2 DEF BeginKill
<1>2. CASE KillClaim
  <2>1. CASE target \in claimed
    BY <1>0, <1>2, <2>1, ReturnType DEF KillClaim
  <2>2. CASE target \notin claimed
    <3>1. SignalStatus(sig) \in WaitStatus /\ target \in Pid
      BY <1>2, Statuses DEF KillClaim
    <3>2. /\ pc' = "kill store"
          /\ claimed' = claimed \cup {target}
          /\ killed' = killed \cup {target}
          /\ verdict' = [verdict EXCEPT ![target] = SignalStatus(sig)]
          /\ UNCHANGED <<done, status, locals, ret, thread, tables, terminated>>
      BY <1>2, <2>2 DEF KillClaim
    <3> QED
      BY <3>1, <3>2
  <2> QED
    BY <2>1, <2>2
<1>3. CASE KillStore
  BY <1>3, Statuses DEF KillStore
<1>4. CASE KillPublish
  BY <1>4 DEF KillPublish
<1>5. CASE KillTerminate
  BY <1>0, <1>5, ReturnType DEF KillTerminate
<1> QED
  BY <1>1, <1>2, <1>3, <1>4, <1>5 DEF ParentKills

(* Type correctness. *)
THEOREM TypeCorrect == Spec => []TypeOK
<1>1. TypeOK /\ [Next]_vars => TypeOK'
  <2> SUFFICES ASSUME TypeOK, [Next]_vars PROVE TypeOK'
    OBVIOUS
  <2>1. CASE UNCHANGED vars
    BY <2>1 DEF TypeOK, vars, record, thread, tables, locals
  <2> QED
    BY <2>1, SpawnType, ChildType, WaitType, KillType DEF Next
<1> QED
  BY <1>1, InitType, PTL DEF Spec

-----------------------------------------------------------------------------
(* The inductive invariant.  An action that leaves the records, threads    *)
(* and tables alone can disturb only what concerns the kill and the reap.  *)

(* The parts of the invariant that speak of one pid. *)
Sound(p) == StartSound(p) /\ RecordSound(p) /\ FdsSound(p)

(* At the start no pid is in use. *)
LEMMA InitSound == Init => IInv
<1> SUFFICES ASSUME Init PROVE IInv
  OBVIOUS
<1>1. TypeOK
  BY InitType
<1>2. \A p \in Pid : StartSound(p) /\ RecordSound(p) /\ FdsSound(p)
  BY DEF Init, StartSound, RecordSound, FdsSound, Publishing
<1>3. KillSound /\ ReapSound
  BY DEF Init, KillSound, ReapSound, NoRet, Ret
<1> QED
  BY <1>1, <1>2, <1>3 DEF IInv

(* What it says of a pid speaks of records, threads and tables only. *)
LEMMA SoundKept ==
  ASSUME \A p \in Pid : Sound(p),
         UNCHANGED <<record, thread, tables, terminated>>
  PROVE  \A p \in Pid : Sound(p)'
BY DEF Sound, StartSound, RecordSound, FdsSound, record, thread, tables

(* A spawn takes a pid that nothing speaks of yet. *)
LEMMA SpawnSound == IInv /\ Spawn => IInv'
<1> SUFFICES ASSUME IInv, Spawn PROVE IInv'
  OBVIOUS
<1>1. TypeOK /\ TypeOK'
  BY SpawnType DEF IInv
<1>2. \A p \in Pid : Sound(p)
  BY DEF IInv, Sound
<1>3. /\ nextPid \in Pid /\ nextPid' = nextPid + 1 /\ pc = "idle" /\ pc' = pc
      /\ ret'.what # "reaped"
  BY DEF Spawn, SpawnWorker, SpawnSync, SpawnFails, Ret
<1>4. kind[nextPid] = "free" /\ nextPid \notin table \cup done \cup claimed \cup started
  <2>1. nextPid >= nextPid
    BY <1>3, AnyIsNoPid
  <2> QED
    BY <1>2, <1>3, <2>1 DEF Sound, StartSound
<1>5. KillSound' /\ ReapSound'
  BY <1>3 DEF KillSound, ReapSound
<1>6. ASSUME NEW p \in Pid PROVE Sound(p)'
  <2>1. p >= nextPid + 1 => p >= nextPid /\ p # nextPid
    BY <1>3, AnyIsNoPid
  <2> USE <1>1, <1>2, <1>3, <1>4, <2>1
          DEF TypeOK, Sound, StartSound, RecordSound, FdsSound, Publishing
  <2>2. CASE SpawnWorker
    BY <2>2 DEF SpawnWorker, record
  <2>3. ASSUME NEW s \in SyncStatus, SpawnSync(s) PROVE Sound(p)'
    BY <2>3 DEF SpawnSync, thread
  <2>4. CASE SpawnFails
    BY <2>4 DEF SpawnFails, record, thread
  <2> QED
    BY <2>2, <2>3, <2>4 DEF Spawn
<1> QED
  BY <1>1, <1>5, <1>6 DEF IInv, Sound

(* A child publishes only what it has claimed, and only once. *)
LEMMA ChildSound == ASSUME NEW c \in Pid PROVE IInv /\ ChildStep(c) => IInv'
<1> SUFFICES ASSUME IInv, ChildStep(c) PROVE IInv'
  OBVIOUS
<1>1. TypeOK /\ TypeOK'
  BY ChildType DEF IInv
<1>2. \A p \in Pid : Sound(p)
  BY DEF IInv, Sound
<1>3. KillSound /\ ReapSound
  BY DEF IInv
<1>4. \A t \in killed : t \in claimed
  BY <1>1, <1>2 DEF TypeOK, Sound, RecordSound
<1>5. KillSound'
  <2> USE <1>1, <1>2, <1>3
          DEF TypeOK, KillSound, Sound, StartSound, RecordSound, Publishing, AimedAt, At
  <2>1. CASE UNCHANGED <<record, pc, target, sig, kind>>
    BY <2>1 DEF record
  <2>2. CASE ChildClaim(c)
    <3>1. CASE c \in claimed
      BY <2>1, <2>2, <3>1 DEF ChildClaim, tables, locals
    <3>2. CASE c \notin claimed
      <4>1. /\ UNCHANGED <<killed, done, status, kind, pc, target, sig>>
            /\ verdict' = [verdict EXCEPT ![c] = wstat[c]]
        BY <2>2, <3>2 DEF ChildClaim, tables, locals
      <4>2. target \in killed => target # c
        BY ONLY <1>4, <3>2
      <4> QED
        BY <4>1, <4>2
    <3> QED
      BY <3>1, <3>2
  <2>3. CASE ChildStore(c)
    BY <2>3 DEF ChildStore, tables, locals
  <2>4. CASE ChildPublish(c)
    BY <2>4 DEF ChildPublish, tables, locals
  <2>5. CASE ChildNotify(c)
    BY <2>5 DEF ChildNotify, Retake, record, tables, locals
  <2> QED
    BY <2>1, <2>2, <2>3, <2>4, <2>5
       DEF ChildStep, ChildStartsUp, ChildWindsUp, ChildSetup, ChildSetupFails, ChildEnds,
           ChildClose, ChildStops, tables, locals
<1>6. ReapSound'
  <2> USE <1>1, <1>2, <1>3 DEF TypeOK, ReapSound, Sound, RecordSound, StartSound
  <2>1. ret' = ret
    BY DEF ChildStep, ChildStartsUp, ChildWindsUp, ChildSetup, ChildSetupFails, ChildEnds,
           ChildClose, ChildClaim, ChildStore, ChildPublish, ChildNotify, ChildStops,
           Retake
  <2>2. done \subseteq done'
    BY DEF ChildStep, ChildStartsUp, ChildWindsUp, ChildSetup, ChildSetupFails, ChildEnds,
           ChildClose, ChildClaim, ChildStore, ChildPublish, ChildNotify, ChildStops, record
  <2>3. \A p \in done : verdict'[p] = verdict[p]
    <3>1. CASE ChildClaim(c)
      BY <3>1 DEF ChildClaim, record, Publishing
    <3> QED
      BY <3>1 DEF ChildStep, ChildStartsUp, ChildWindsUp, ChildSetup, ChildSetupFails,
           ChildEnds, ChildClose, ChildStore, ChildPublish, ChildNotify, ChildStops, record
  <2> QED
    BY <2>1, <2>2, <2>3
<1>7. ASSUME NEW p \in Pid PROVE Sound(p)'
  <2> USE <1>1, <1>2 DEF TypeOK, Sound, StartSound, RecordSound, FdsSound, Publishing,
          At, record, tables
  <2>1. CASE ChildSetup(c)
    BY <2>1 DEF ChildSetup
  <2>2. CASE ChildSetupFails(c)
    BY <2>2 DEF ChildSetupFails
  <2>3. ASSUME NEW s \in WorkerStatus, ChildEnds(c, s) PROVE Sound(p)'
    BY <2>3 DEF ChildEnds
  <2>4. CASE ChildClose(c)
    BY <2>4 DEF ChildClose
  <2>5. CASE ChildClaim(c)
    BY <2>5 DEF ChildClaim
  <2>6. CASE ChildStore(c)
    BY <2>6 DEF ChildStore
  <2>7. CASE ChildPublish(c)
    BY <2>7 DEF ChildPublish
  <2>8. CASE ChildNotify(c)
    BY <2>8 DEF ChildNotify
  <2>9. CASE ChildStops(c)
    BY <2>9 DEF ChildStops
  <2> QED
    BY <2>1, <2>2, <2>3, <2>4, <2>5, <2>6, <2>7, <2>8, <2>9
       DEF ChildStep, ChildStartsUp, ChildWindsUp
<1> QED
  BY <1>1, <1>5, <1>6, <1>7 DEF IInv, Sound

(* A wait takes a pid out of the table only when its status is there. *)
LEMMA WaitSound ==
  IInv /\ (ParentWaits \/ \E c \in WaitCalls : BeginWait(c)) => IInv'
<1> SUFFICES ASSUME IInv, ParentWaits \/ \E c \in WaitCalls : BeginWait(c)
             PROVE  IInv'
  OBVIOUS
<1>1. TypeOK /\ TypeOK'
  BY WaitType DEF IInv
<1>2. \A p \in Pid : Sound(p)
  BY DEF IInv, Sound
<1>3. KillSound /\ ReapSound
  BY DEF IInv
<1>4. ASSUME NEW p \in Pid, TakeHit(p) PROVE IInv'
  <2>1. KillSound' /\ ReapSound'
    BY <1>2, <1>4 DEF TakeHit, Return, Ret, KillSound, ReapSound, record, Sound, RecordSound
  <2>2. ASSUME NEW q \in Pid PROVE Sound(q)'
    BY <1>1, <1>2, <1>4 DEF TakeHit, record, thread, TypeOK, Sound, StartSound, RecordSound,
                            FdsSound
  <2> QED
    BY <1>1, <2>1, <2>2 DEF IInv, Sound
<1>5. CASE /\ UNCHANGED <<record, thread, tables, terminated>>
           /\ pc' \notin {"kill claim", "kill store", "kill publish", "kill terminate"}
           /\ ret' = ret \/ ret'.what # "reaped"
  <2>1. \A p \in Pid : Sound(p)'
    BY <1>2, <1>5, SoundKept
  <2>2. KillSound' /\ ReapSound'
    BY <1>3, <1>5 DEF KillSound, ReapSound, record
  <2> QED
    BY <1>1, <2>1, <2>2 DEF IInv, Sound
<1>6. CASE Settle
  BY <1>5, <1>6 DEF Settle, Return, Ret
<1>7. ASSUME NEW c \in WaitCalls, BeginWait(c) PROVE IInv'
  BY <1>5, <1>7 DEF BeginWait, NoRet, Ret
<1>8. CASE TakeEnd \/ ProbeEnd \/ AimEnd \/ Sleep
  BY <1>5, <1>8 DEF TakeEnd, ProbeEnd, AimEnd, Sleep, Retake, locals
<1>9. ASSUME NEW p \in Pid, TakeMiss(p) \/ ProbeMiss(p) \/ AimMiss(p) \/ AimHit(p)
      PROVE  IInv'
  BY <1>5, <1>9 DEF TakeMiss, ProbeMiss, AimMiss, AimHit, Skip
<1> QED
  BY <1>4, <1>6, <1>7, <1>8, <1>9 DEF ParentWaits

(* A kill claims the status before it stores one, or leaves it to the      *)
(* child.                                                                  *)
LEMMA KillKeepsSound ==
  IInv /\ (ParentKills \/ \E p \in Pid, s \in Signals \cup {0} : BeginKill(p, s)) => IInv'
<1> SUFFICES ASSUME IInv,
                    ParentKills \/ \E p \in Pid, s \in Signals \cup {0} : BeginKill(p, s)
             PROVE  IInv'
  OBVIOUS
<1>1. TypeOK /\ TypeOK'
  BY KillType DEF IInv
<1>2. \A p \in Pid : Sound(p)
  BY DEF IInv, Sound
<1>3. KillSound /\ ReapSound
  BY DEF IInv
<1>4. ASSUME NEW p \in Pid, NEW s \in Signals \cup {0}, BeginKill(p, s) PROVE IInv'
  <2>1. \A q \in Pid : Sound(q)'
    BY <1>2, <1>4, SoundKept DEF BeginKill
  <2>2. ReapSound'
    <3>1. \/ ret' = Ret("native kill", p, 0)
          \/ ret' = Ret("killed", p, 0)
          \/ ret' = NoRet
      BY <1>4 DEF BeginKill, Return
    <3>2. ret'.what \in {"native kill", "killed", "none"}
      <4>1. CASE ret' = NoRet
        BY <4>1 DEF Ret, NoRet
      <4>2. CASE ret' = Ret("native kill", p, 0)
        BY <4>2 DEF Ret
      <4>3. CASE ret' = Ret("killed", p, 0)
        BY <4>3 DEF Ret
      <4> QED
        BY <3>1, <4>1, <4>2, <4>3
    <3> QED
      BY <3>2 DEF ReapSound
  <2>3. KillSound'
    <3>1. p \in table /\ kind[p] # "sync" => kind[p] = "worker"
      BY <1>1, <1>2 DEF TypeOK, Sound, StartSound
    <3> QED
      BY <1>4, <3>1 DEF BeginKill, Return, KillSound, tables
  <2> QED
    BY <1>1, <2>1, <2>2, <2>3 DEF IInv, Sound
<1>5. CASE KillClaim
  <2>1. CASE target \in claimed
    <3>1. \A q \in Pid : Sound(q)'
      <4>1. UNCHANGED <<record, thread, tables, terminated>>
        BY <1>5, <2>1 DEF KillClaim
      <4> QED
        BY <1>2, <4>1, SoundKept
    <3>2. KillSound' /\ ReapSound'
      <4>1. pc' = "idle" /\ ret' = Ret("killed", target, 0)
        BY <1>5, <2>1 DEF KillClaim, Return
      <4>2. ret'.what = "killed"
        BY <4>1 DEF Ret
      <4> QED
        BY <4>1, <4>2 DEF KillSound, ReapSound
    <3> QED
      BY <1>1, <3>1, <3>2 DEF IInv, Sound
  <2>2. CASE target \notin claimed
    <3>1. /\ pc = "kill claim" /\ target \in Pid /\ kind[target] = "worker"
          /\ pc' = "kill store"
          /\ claimed' = claimed \cup {target}
          /\ killed' = killed \cup {target}
          /\ verdict' = [verdict EXCEPT ![target] = SignalStatus(sig)]
          /\ UNCHANGED <<done, status, locals, ret, thread, tables, terminated>>
      BY <1>1, <1>3, <1>5, <2>2 DEF KillClaim, TypeOK, AimedAt, KillSound
    <3>2. target \notin done
      BY <1>2, <2>2, <3>1 DEF Sound, RecordSound
    <3>3. KillSound'
      BY <1>1, <3>1, <3>2 DEF KillSound, locals, TypeOK
    <3>4. ReapSound'
      BY <1>1, <1>3, <3>1, <3>2 DEF ReapSound, TypeOK
    <3>5. ASSUME NEW q \in Pid PROVE Sound(q)'
      BY <1>1, <1>2, <2>2, <3>1, <3>2
         DEF Sound, StartSound, RecordSound, FdsSound, thread, tables, TypeOK, Publishing
    <3> QED
      BY <1>1, <3>3, <3>4, <3>5 DEF IInv, Sound
  <2> QED
    BY <2>1, <2>2
<1>6. CASE KillStore
  <2>1. target \in Pid /\ target \in killed /\ target \notin done
    BY <1>1, <1>3, <1>6 DEF KillStore, TypeOK, AimedAt, KillSound
  <2>2. KillSound'
    BY <1>1, <1>3, <1>6, <2>1 DEF KillStore, KillSound, locals, TypeOK
  <2>3. ReapSound'
    BY <1>3, <1>6 DEF KillStore, ReapSound
  <2>4. ASSUME NEW q \in Pid PROVE Sound(q)'
    BY <1>1, <1>2, <1>6, <2>1
       DEF KillStore, Sound, StartSound, RecordSound, FdsSound, thread, tables, TypeOK, Publishing
  <2> QED
    BY <1>1, <2>2, <2>3, <2>4 DEF IInv, Sound
<1>7. CASE KillPublish
  <2>1. /\ target \in Pid /\ target \in killed
        /\ status[target] = verdict[target] /\ verdict[target] = SignalStatus(sig)
    BY <1>1, <1>3, <1>7 DEF KillPublish, TypeOK, AimedAt, KillSound
  <2>2. KillSound'
    BY <1>3, <1>7, <2>1 DEF KillPublish, KillSound, locals
  <2>3. ReapSound'
    BY <1>3, <1>7 DEF KillPublish, ReapSound
  <2>4. ASSUME NEW q \in Pid PROVE Sound(q)'
    BY <1>1, <1>2, <1>7, <2>1
       DEF KillPublish, Sound, StartSound, RecordSound, FdsSound, thread, tables, TypeOK,
           Publishing
  <2> QED
    BY <1>1, <2>2, <2>3, <2>4 DEF IInv, Sound
<1>8. CASE KillTerminate
  <2>1. target \in Pid /\ target \in killed
    BY <1>1, <1>3, <1>8 DEF KillTerminate, TypeOK, AimedAt, KillSound
  <2>2. KillSound' /\ ReapSound'
    BY <1>8 DEF KillTerminate, Return, Ret, KillSound, ReapSound
  <2>3. ASSUME NEW q \in Pid PROVE Sound(q)'
    BY <1>1, <1>2, <1>8, <2>1
       DEF KillTerminate, Sound, StartSound, RecordSound, FdsSound, record, thread, tables,
           TypeOK, Publishing
  <2> QED
    BY <1>1, <2>2, <2>3 DEF IInv, Sound
<1> QED
  BY <1>4, <1>5, <1>6, <1>7, <1>8 DEF ParentKills

(* Every step keeps the inductive invariant. *)
LEMMA NextSound == IInv /\ [Next]_vars => IInv'
<1> SUFFICES ASSUME IInv, [Next]_vars PROVE IInv'
  OBVIOUS
<1>1. CASE UNCHANGED vars
  <2>1. \A p \in Pid : Sound(p)'
    BY <1>1, SoundKept DEF vars, IInv, Sound
  <2>2. TypeOK' /\ KillSound' /\ ReapSound'
    BY <1>1 DEF vars, IInv, TypeOK, KillSound, ReapSound, record, thread, tables, locals
  <2> QED
    BY <2>1, <2>2 DEF IInv, Sound
<1> QED
  BY <1>1, SpawnSound, ChildSound, WaitSound, KillKeepsSound DEF Next

(* The invariant holds of every behaviour. *)
THEOREM Invariance == Spec => []IInv
BY InitSound, NextSound, PTL DEF Spec

-----------------------------------------------------------------------------
(* What follows from the invariant *)

(* A record that says done carries the status of whoever claimed it.       *)
THEOREM StatusIsTheClaimants == Spec => []DoneMeansVerdict
<1>1. IInv => DoneMeansVerdict
  BY DEF IInv, TypeOK, RecordSound, DoneMeansVerdict
<1> QED
  BY <1>1, Invariance, PTL

(* So does the status a wait call reports. *)
THEOREM ReapIsTheClaimants == Spec => []ReapReportsVerdict
<1>1. IInv => ReapReportsVerdict
  BY DEF IInv, ReapSound, ReapReportsVerdict
<1> QED
  BY <1>1, Invariance, PTL

(* Reaping a child, and nothing else, lets go of its worker handle. *)
THEOREM HandlesAreOfTheTable == Spec => []HandlesMatchTable
<1>1. IInv => HandlesMatchTable
  BY DEF IInv, TypeOK, StartSound, HandlesMatchTable
<1> QED
  BY <1>1, Invariance, PTL

(* A natural exit that can be reaped has closed the child's descriptors. *)
THEOREM DescriptorsCloseFirst == Spec => []ClosedBeforeDone
<1>1. IInv => ClosedBeforeDone
  <2> SUFFICES ASSUME IInv, NEW p \in (done \cap started) \ killed PROVE p \notin openFds
    BY DEF ClosedBeforeDone
  <2>1. p \in Pid /\ StartSound(p) /\ RecordSound(p) /\ FdsSound(p)
    BY DEF IInv, TypeOK
  <2> QED
    BY <2>1 DEF StartSound, RecordSound, FdsSound, Publishing
<1> QED
  BY <1>1, Invariance, PTL

(* The thread of a killed child stores no status. *)
THEOREM KillExcludesPublishing == Spec => []KilledStoresNothing
<1>1. IInv => KilledStoresNothing
  <2> SUFFICES ASSUME IInv, NEW p \in killed PROVE wpc[p] \notin Publishing
    BY DEF KilledStoresNothing, Publishing
  <2>1. RecordSound(p)
    BY DEF IInv, TypeOK
  <2> QED
    BY <2>1 DEF RecordSound
<1> QED
  BY <1>1, Invariance, PTL

(* A step that neither publishes nor starts a child leaves a done record   *)
(* as it is, and the steps that store a status find it not done.           *)
LEMMA DoneStays ==
  ASSUME IInv, [Next]_vars
  PROVE  \A p \in done : p \in done' /\ status'[p] = status[p]
<1>1. /\ \A p \in Pid : Sound(p)
      /\ TypeOK /\ KillSound
  BY DEF IInv, Sound
<1>2. CASE UNCHANGED record
  BY <1>2 DEF record
<1>3. CASE Spawn
  <2>1. nextPid \in Pid => nextPid \notin done
    BY <1>1, AnyIsNoPid DEF Sound, StartSound
  <2> QED
    BY <1>1, <1>3, <2>1 DEF Spawn, SpawnWorker, SpawnSync, SpawnFails, record, TypeOK
<1>4. ASSUME NEW c \in Pid, ChildStep(c) PROVE \A p \in done : p \in done' /\ status'[p] = status[p]
  <2>1. CASE ChildStore(c)
    BY <1>1, <2>1 DEF ChildStore, At, TypeOK, Sound, RecordSound
  <2>2. CASE ChildClaim(c) \/ ChildPublish(c)
    BY <2>2 DEF ChildClaim, ChildPublish, record
  <2> QED
    BY <1>2, <1>4, <2>1, <2>2
       DEF ChildStep, ChildStartsUp, ChildWindsUp, ChildSetup, ChildSetupFails, ChildEnds,
           ChildClose, ChildNotify, ChildStops
<1>5. CASE ParentKills
  <2>1. CASE KillStore
    BY <1>1, <2>1 DEF KillStore, KillSound, TypeOK, AimedAt
  <2>2. CASE KillClaim \/ KillPublish
    BY <2>2 DEF KillClaim, KillPublish, record
  <2> QED
    BY <1>2, <1>5, <2>1, <2>2 DEF ParentKills, KillTerminate
<1>6. CASE ParentWaits \/ UNCHANGED vars
           \/ (\E c \in WaitCalls : BeginWait(c))
           \/ (\E p \in Pid, s \in Signals \cup {0} : BeginKill(p, s))
  BY <1>2, <1>6 DEF ParentWaits, TakeMiss, TakeHit, ProbeMiss, AimMiss, AimHit, TakeEnd,
                    ProbeEnd, AimEnd, Sleep, Settle, BeginWait, BeginKill, vars
<1> QED
  BY <1>3, <1>4, <1>5, <1>6 DEF Next

(* A natural exit and a signal cannot replace each other's status. *)
THEOREM StatusNeverChanges == Spec => StatusFinal
<1>1. IInv /\ [Next]_vars => [\A p \in done : p \in done' /\ status'[p] = status[p]]_vars
  BY DoneStays
<1> QED
  BY <1>1, Invariance, PTL DEF Spec, StatusFinal

-----------------------------------------------------------------------------
(* The process table is implemented *)

(* Steps that touch neither the tables nor a done record are stutters. *)
LEMMA Stutters ==
  ASSUME UNCHANGED <<kind, table, done>>,
         \A p \in done : status'[p] = status[p]
  PROVE  UNCHANGED <<childState, childResult>>
BY DEF childState, childResult, State

(* A spawn enters a free pid, or changes nothing the process table knows. *)
LEMMA SpawnImplements ==
  ASSUME IInv, IInv', Spawn
  PROVE  Children!Next \/ UNCHANGED <<childState, childResult>>
<1>1. TypeOK /\ TypeOK' /\ nextPid \in Pid
  BY DEF IInv, Spawn, SpawnWorker, SpawnSync, SpawnFails
<1>2. kind[nextPid] = "free" /\ nextPid \notin table /\ nextPid \notin done
  <2>1. nextPid >= nextPid
    BY <1>1, AnyIsNoPid
  <2> QED
    BY <1>1, <2>1 DEF IInv, StartSound
<1>3. CASE SpawnWorker
  <2>1. /\ kind' = [kind EXCEPT ![nextPid] = "worker"]
        /\ table' = table \cup {nextPid} /\ done' = done /\ status' = status
    BY <1>3 DEF SpawnWorker, record
  <2>2. childState[nextPid] = "unborn"
    BY <1>1, <1>2 DEF childState, State
  <2>3. childState' = [childState EXCEPT ![nextPid] = "running"]
    <3>1. kind'[nextPid] = "worker" /\ nextPid \in table' /\ nextPid \notin done'
      BY <1>1, <1>2, <2>1 DEF TypeOK
    <3>2. \A q \in Pid \ {nextPid} :
            kind'[q] = kind[q] /\ (q \in table' <=> q \in table) /\ (q \in done' <=> q \in done)
      BY <1>1, <2>1 DEF TypeOK
    <3>3. \A q \in Pid : q = nextPid => State(q)' = "running"
      BY <3>1 DEF State
    <3>4. \A q \in Pid \ {nextPid} : State(q)' = State(q)
      BY <3>2 DEF State
    <3> QED
      BY <1>1, <3>3, <3>4 DEF childState
  <2>4. childResult' = childResult
    BY <2>1 DEF childResult
  <2>5. Children!Start(nextPid)
    BY <2>2, <2>3, <2>4 DEF Children!Start, Children!Move
  <2>6. nextPid \in Pid
    BY <1>1
  <2> QED
    BY <2>5, <2>6 DEF Children!Next
<1>4. ASSUME NEW s \in SyncStatus, SpawnSync(s)
      PROVE  Children!Next
  <2>1. /\ kind' = [kind EXCEPT ![nextPid] = "sync"]
        /\ table' = table \cup {nextPid} /\ done' = done \cup {nextPid}
        /\ status' = [status EXCEPT ![nextPid] = s]
    BY <1>4 DEF SpawnSync
  <2>2. childState[nextPid] = "unborn"
    BY <1>1, <1>2 DEF childState, State
  <2>3. childState' = [childState EXCEPT ![nextPid] = "zombie"]
    BY <1>1, <1>2, <2>1 DEF childState, State, TypeOK
  <2>4. childResult' = [childResult EXCEPT ![nextPid] = s]
    BY <1>1, <1>2, <2>1 DEF childResult, TypeOK
  <2>5. s \in WaitStatus
    BY Statuses
  <2> QED
    BY <1>1, <2>2, <2>3, <2>4, <2>5 DEF Children!Next, Children!StartEnded, Children!Move
<1>5. CASE SpawnFails
  BY <1>5, Stutters DEF SpawnFails, record
<1> QED
  BY <1>3, <1>4, <1>5 DEF Spawn

(* Setting the done flag ends the child with the status stored for it. *)
LEMMA PublishImplements ==
  ASSUME IInv, NEW c \in Pid,
         kind[c] = "worker", c \notin done,
         done' = done \cup {c}, UNCHANGED <<kind, table, status>>
  PROVE  Children!Next
<1>1. TypeOK /\ c \in table
  BY DEF IInv, StartSound
<1>2. childState[c] = "running" /\ childState' = [childState EXCEPT ![c] = "zombie"]
  BY <1>1 DEF childState, State
<1>3. childResult' = [childResult EXCEPT ![c] = status[c]]
  BY <1>1 DEF childResult, TypeOK
<1>4. status[c] \in WaitStatus
  BY <1>1 DEF TypeOK
<1> QED
  BY <1>2, <1>3, <1>4 DEF Children!Next, Children!End, Children!Move

(* The return of a wait with a pid is the reap of an ended child. *)
LEMMA ReapImplements ==
  ASSUME IInv, ScanOfTable, NEW p \in Pid, TakeHit(p)
  PROVE  Children!Next
<1>1. /\ p \in table /\ p \in done /\ table' = table \ {p}
      /\ UNCHANGED <<kind, done, status>> /\ kind[p] # "free"
  <2>1. p \in done
    BY DEF TakeHit
  <2>2. kind[p] # "free"
    BY <2>1 DEF IInv, StartSound
  <2>3. p \in todo
    BY DEF TakeHit, Upcoming
  <2>4. p \in table
    BY <2>3 DEF ScanOfTable
  <2> QED
    BY <2>1, <2>2, <2>4 DEF TakeHit, record
<1>2. childState[p] = "zombie" /\ childState' = [childState EXCEPT ![p] = "reaped"]
  BY <1>1 DEF childState, State
<1>3. childResult' = childResult
  BY <1>1 DEF childResult
<1> QED
  BY <1>2, <1>3 DEF Children!Next, Children!Reap, Children!Move

(* Only TakeHit shrinks the table, and it ends its scan. *)
LEMMA ScansStayInTable == ScanOfTable /\ [Next]_vars => ScanOfTable'
<1> SUFFICES ASSUME ScanOfTable, [Next]_vars PROVE ScanOfTable'
  OBVIOUS
<1>1. \A arg : Scope(arg) \subseteq table
  BY DEF Scope
<1>2. CASE todo' \subseteq todo /\ table \subseteq table'
  BY <1>2 DEF ScanOfTable
<1>3. CASE todo' = {}
  BY <1>3 DEF ScanOfTable
<1>4. CASE Retake /\ UNCHANGED table
  BY <1>1, <1>4 DEF Retake, ScanOfTable
<1>5. CASE Spawn \/ UNCHANGED vars
  BY <1>2, <1>5 DEF Spawn, SpawnWorker, SpawnSync, SpawnFails, vars, locals, tables
<1>6. ASSUME NEW c \in Pid, ChildStep(c) PROVE ScanOfTable'
  BY <1>2, <1>4, <1>6
     DEF ChildStep, ChildStartsUp, ChildWindsUp, ChildSetup, ChildSetupFails, ChildEnds,
         ChildClose, ChildClaim, ChildStore, ChildPublish, ChildNotify, ChildStops,
         tables, locals
<1>7. ASSUME NEW p \in Pid, TakeMiss(p) \/ TakeHit(p) \/ ProbeMiss(p) \/ AimMiss(p) \/ AimHit(p)
      PROVE  ScanOfTable'
  BY <1>2, <1>3, <1>7 DEF TakeMiss, TakeHit, ProbeMiss, AimMiss, AimHit, Skip, Return, tables
<1>8. CASE TakeEnd \/ ProbeEnd \/ (\E c \in WaitCalls : BeginWait(c))
  BY <1>1, <1>8 DEF TakeEnd, ProbeEnd, BeginWait, ScanOfTable, tables
<1>9. CASE AimEnd \/ Sleep \/ Settle
  BY <1>2, <1>3, <1>4, <1>9 DEF AimEnd, Sleep, Settle, Return, tables, locals
<1>10. CASE ParentKills \/ \E p \in Pid, s \in Signals \cup {0} : BeginKill(p, s)
  BY <1>2, <1>3, <1>10
     DEF ParentKills, KillClaim, KillStore, KillPublish, KillTerminate, BeginKill, Return,
         tables, locals
<1> QED
  BY <1>5, <1>6, <1>7, <1>8, <1>9, <1>10 DEF Next, ParentWaits

(* A scan looks at pids of the table, throughout. *)
LEMMA ScansAreOfTheTable == Spec => []ScanOfTable
<1>1. Init => ScanOfTable
  BY DEF Init, ScanOfTable
<1> QED
  BY <1>1, ScansStayInTable, PTL DEF Spec

(* The initial states are those of the process table. *)
LEMMA InitImplements == Init => Children!Init
BY DEF Init, Children!Init, childState, childResult, State

(* Every step is a step of the process table or none. *)
LEMMA StepImplements ==
  ASSUME IInv, IInv', ScanOfTable, [Next]_vars
  PROVE  [Children!Next]_<<childState, childResult>>
<1>1. \A p \in done : status'[p] = status[p]
  BY DoneStays
<1>2. CASE UNCHANGED <<kind, table, done>>
  BY <1>1, <1>2, Stutters
<1>3. CASE Spawn
  BY <1>3, SpawnImplements
<1>4. ASSUME NEW c \in Pid, ChildStep(c)
      PROVE  [Children!Next]_<<childState, childResult>>
  <2>1. CASE ChildPublish(c)
    <3>1. wpc[c] = "publish" /\ done' = done \cup {c} /\ UNCHANGED <<kind, table, status>>
      BY <2>1 DEF ChildPublish, At, tables
    <3>2. c \notin done /\ kind[c] = "worker"
      BY <3>1 DEF IInv, TypeOK, StartSound, RecordSound
    <3> QED
      BY <3>1, <3>2, PublishImplements
  <2>2. CASE ~ChildPublish(c)
    BY <1>2, <1>4, <2>2
       DEF ChildStep, ChildStartsUp, ChildWindsUp, ChildSetup, ChildSetupFails, ChildEnds,
           ChildClose, ChildClaim, ChildStore, ChildNotify, ChildStops, record, tables
  <2> QED
    BY <2>1, <2>2
<1>5. ASSUME NEW p \in Pid, TakeHit(p)
      PROVE  [Children!Next]_<<childState, childResult>>
  BY <1>5, ReapImplements
<1>6. CASE KillPublish
  <2>1. /\ target \in Pid /\ target \in killed /\ target \notin done
        /\ done' = done \cup {target} /\ UNCHANGED <<kind, table, status>>
    BY <1>6 DEF KillPublish, IInv, TypeOK, AimedAt, KillSound, tables
  <2>2. kind[target] = "worker"
    BY <2>1 DEF IInv, TypeOK, StartSound, RecordSound
  <2> QED
    BY <2>1, <2>2, PublishImplements
<1>7. CASE (ParentKills /\ ~KillPublish) \/ UNCHANGED vars
           \/ (\E c \in WaitCalls : BeginWait(c))
           \/ (\E p \in Pid, s \in Signals \cup {0} : BeginKill(p, s))
  BY <1>2, <1>7 DEF ParentKills, KillClaim, KillStore, KillTerminate, BeginWait, BeginKill,
                    record, tables, vars
<1>8. CASE TakeEnd \/ ProbeEnd \/ AimEnd \/ Sleep \/ Settle
           \/ \E p \in Pid : TakeMiss(p) \/ ProbeMiss(p) \/ AimMiss(p) \/ AimHit(p)
  BY <1>2, <1>8 DEF TakeEnd, ProbeEnd, AimEnd, Sleep, Settle, TakeMiss, ProbeMiss, AimMiss,
                    AimHit, record, tables
<1> QED
  BY <1>3, <1>4, <1>5, <1>6, <1>7, <1>8 DEF Next, ParentWaits

(* The two tables and the shared records are one POSIX process table: a    *)
(* child ends once, its result stays, and it is reaped once.               *)
THEOREM Implements == Spec => ChildTableSpec
<1>1. IInv /\ IInv' /\ ScanOfTable /\ [Next]_vars => [Children!Next]_<<childState, childResult>>
  BY StepImplements
<1> QED
  BY <1>1, InitImplements, Invariance, ScansAreOfTheTable, PTL DEF Spec, ChildTableSpec, Children!Spec

-----------------------------------------------------------------------------
(* A wait for one child of ours is answered by us *)

(* What a call knows of the child it names, as long as the child is in the *)
(* table: a scan has yet to reach it or found it running, and a second     *)
(* attempt follows its end.                                                *)
NamedSound ==
  /\ pc = "idle" => call.arg = Any
  /\ call.arg \in table =>
       /\ todo \subseteq {call.arg}
       /\ pc = "take" /\ round = 1 => call.arg \in todo \/ kind[call.arg] = "worker"
       /\ pc = "take" /\ round = 2 => call.arg \in todo /\ call.arg \in done
       /\ pc \in {"probe", "aim"} => call.arg \in todo /\ kind[call.arg] = "worker"
       /\ pc \in {"sleep", "asleep"} => target = call.arg
       /\ pc = "aim" => probed
       /\ pc = "settle" => probed /\ call.nohang

NotifySound == \A p \in Pid : wpc[p] = "notify" => p \in done

WaitInv == NotifySound /\ NamedSound /\ WaitPidServed

(* A thread notifies after it has published. *)
LEMMA NotifyKept ==
  ASSUME IInv, NotifySound, [Next]_vars
  PROVE  NotifySound'
<1>1. wpc \in [Pid -> ChildAt] /\ done \subseteq Pid /\ nextPid \in Nat
  BY PidAssumption DEF IInv, TypeOK
<1>2. CASE done \subseteq done' /\ wpc' = wpc
  BY <1>2 DEF NotifySound
<1>3. CASE Spawn
  BY <1>1, <1>3 DEF Spawn, SpawnWorker, SpawnSync, SpawnFails, record, thread, NotifySound
<1>4. ASSUME NEW c \in Pid, ChildStep(c) PROVE NotifySound'
  BY <1>1, <1>4
     DEF ChildStep, ChildStartsUp, ChildWindsUp, ChildSetup, ChildSetupFails, ChildEnds,
         ChildClose, ChildClaim, ChildStore, ChildPublish, ChildNotify, ChildStops, At,
         record, NotifySound
<1>5. CASE ParentWaits \/ \E c \in WaitCalls : BeginWait(c)
  BY <1>2, <1>5 DEF ParentWaits, BeginWait, TakeMiss, TakeHit, ProbeMiss, AimMiss, AimHit,
                    TakeEnd, ProbeEnd, AimEnd, Sleep, Settle, record, thread
<1>6. CASE ParentKills \/ \E p \in Pid, s \in Signals \cup {0} : BeginKill(p, s)
  BY <1>2, <1>6 DEF ParentKills, BeginKill, KillClaim, KillStore, KillPublish, KillTerminate,
                    record, thread
<1>7. CASE UNCHANGED vars
  BY <1>2, <1>7 DEF vars, record, thread
<1> QED
  BY <1>3, <1>4, <1>5, <1>6, <1>7 DEF Next

(* A call that takes no look at a child, or has none, keeps what it knows. *)
LEMMA NamedAlone ==
  ASSUME WaitInv,
         UNCHANGED <<table, call, todo, round, probed, target, pc>>,
         done \subseteq done', call.arg \in table => kind'[call.arg] = kind[call.arg],
         ret' = ret \/ ret'.what # "native wait"
  PROVE  NamedSound' /\ WaitPidServed'
<1>1. WaitPidServed'
  BY DEF WaitInv, WaitPidServed
<1>2. ASSUME call.arg \in table PROVE NamedSound'
  <2>1. probed' <=> probed
    OBVIOUS
  <2> QED
    BY <1>2, <2>1 DEF WaitInv, NamedSound
<1>3. ASSUME call.arg \notin table PROVE NamedSound'
  BY <1>3 DEF WaitInv, NamedSound
<1> QED
  BY <1>1, <1>2, <1>3

(* A call that returns has forgotten its argument. *)
LEMMA NamedReturns ==
  ASSUME TypeOK, NEW r, Return(r), r.what # "native wait" \/ r.pid \notin table', table' \subseteq table
  PROVE  NamedSound' /\ WaitPidServed'
<1>1. call'.arg = Any /\ Any \notin table'
  BY AnyIsNoPid DEF Return, NoCall, TypeOK
<1> QED
  BY <1>1 DEF Return, NamedSound, WaitPidServed

(* The second attempt begins with the child it is about, which has ended. *)
LEMMA NamedRetakes ==
  ASSUME TypeOK, WaitInv, pc \in {"sleep", "asleep"}, target \in done,
         Retake, UNCHANGED <<table, done>>
  PROVE  NamedSound' /\ WaitPidServed'
<1>1. call.arg \in table => Scope(call.arg) = {call.arg}
  BY AnyIsNoPid DEF Scope, TypeOK
<1>2. call.arg \in table => target = call.arg
  BY DEF WaitInv, NamedSound
<1>3. pc' = "take" /\ round' = 2 /\ todo' = Scope(call.arg) /\ UNCHANGED <<call, ret>>
  BY DEF Retake
<1> QED
  BY <1>1, <1>2, <1>3 DEF WaitInv, NamedSound, WaitPidServed

(* The scans of a wait call. *)
LEMMA NamedInScans ==
  ASSUME IInv, WaitInv, ParentWaits
  PROVE  NamedSound' /\ WaitPidServed'
<1>1. /\ table \subseteq Pid /\ kind \in [Pid -> {"free", "sync", "worker"}]
      /\ TypeOK /\ Any \notin table /\ round \in {1, 2}
  BY AnyIsNoPid DEF IInv, TypeOK
<1>2. \A p \in table : kind[p] # "free" /\ (kind[p] = "sync" => p \in done)
  BY <1>1 DEF IInv, StartSound
<1>3. call.arg \in table => Scope(call.arg) = {call.arg} /\ call.op # "wait"
  <2>1. call \in WaitCalls \cup {NoCall}
    BY <1>1 DEF TypeOK
  <2>2. ASSUME NEW c \in WaitCalls \cup {NoCall}, c.op = "wait" PROVE c.arg = Any
    <3>1. CASE c \in [op : {"wait"}, arg : {Any}, nohang : {FALSE}]
      BY <3>1
    <3>2. CASE c \in [op : {"waitpid"}, arg : Pid \cup {Any}, nohang : BOOLEAN]
      BY <2>2, <3>2
    <3>3. CASE c \in [op : {"wait3"}, arg : {Any}, nohang : BOOLEAN]
      BY <3>3
    <3>4. CASE c = NoCall
      BY <3>4 DEF NoCall
    <3> QED
      BY <3>1, <3>2, <3>3, <3>4 DEF WaitCalls
  <2> QED
    BY <1>1, <2>1, <2>2 DEF Scope
<1>4. WaitPidServed /\ NamedSound
  BY DEF WaitInv
<1>5. ASSUME NEW p \in Pid, TakeMiss(p) PROVE NamedSound' /\ WaitPidServed'
  <2>1. /\ pc = "take" /\ pc' = "take" /\ p \notin done /\ todo' = todo \ {p}
        /\ UNCHANGED <<call, round, kind, table, done, ret>>
    BY <1>5 DEF TakeMiss, Skip, tables, record
  <2> QED
    BY <1>1, <1>2, <1>4, <2>1 DEF NamedSound, WaitPidServed
<1>6. ASSUME NEW p \in Pid, TakeHit(p) PROVE NamedSound' /\ WaitPidServed'
  BY <1>1, <1>6, NamedReturns DEF TakeHit, Ret
<1>7. CASE TakeEnd
  <2>1. /\ pc = "take" /\ todo = {} /\ todo' = Scope(call.arg)
        /\ round = 2 => pc' = "settle"
        /\ round = 1 => pc' = IF call.op = "wait" THEN "aim" ELSE "probe"
        /\ UNCHANGED <<call, round, kind, table, done, ret>>
    BY <1>1, <1>7 DEF TakeEnd, tables, record
  <2> QED
    BY <1>1, <1>3, <1>4, <2>1 DEF NamedSound, WaitPidServed
<1>8. ASSUME NEW p \in Pid, ProbeMiss(p) PROVE NamedSound' /\ WaitPidServed'
  <2>1. /\ pc = "probe" /\ pc' = "probe" /\ todo' = todo \ {p}
        /\ UNCHANGED <<call, round, kind, table, done, ret>>
    BY <1>8 DEF ProbeMiss, Skip, tables, record
  <2>2. call.arg \in table => p # call.arg
    BY <1>1, <1>4, <1>8, <2>1 DEF ProbeMiss, Running, NamedSound
  <2> QED
    BY <1>4, <2>1, <2>2 DEF NamedSound, WaitPidServed
<1>9. CASE ProbeEnd
  <2>1. /\ pc = "probe" /\ pc' = "aim" /\ todo' = Scope(call.arg)
        /\ todo = {} \/ probed' = TRUE
        /\ UNCHANGED <<call, kind, table, ret>>
    BY <1>9 DEF ProbeEnd, tables
  <2> QED
    BY <1>3, <1>4, <2>1 DEF NamedSound, WaitPidServed
<1>10. ASSUME NEW p \in Pid, AimMiss(p) PROVE NamedSound' /\ WaitPidServed'
  <2>1. /\ pc = "aim" /\ pc' = "aim" /\ todo' = todo \ {p} /\ (probed' <=> probed)
        /\ UNCHANGED <<call, kind, table, done, ret>>
    BY <1>10 DEF AimMiss, Skip, tables, record
  <2>2. call.arg \in table => p # call.arg
    BY <1>1, <1>4, <1>10, <2>1 DEF AimMiss, Running, NamedSound
  <2> QED
    BY <1>4, <2>1, <2>2 DEF NamedSound, WaitPidServed
<1>11. ASSUME NEW p \in Pid, AimHit(p) PROVE NamedSound' /\ WaitPidServed'
  <2>1. /\ pc = "aim" /\ pc' = (IF call.nohang THEN "settle" ELSE "sleep")
        /\ target' = p /\ p \in todo /\ (probed' <=> probed)
        /\ UNCHANGED <<call, todo, table, ret>>
    BY <1>11 DEF AimHit, Upcoming, tables
  <2>2. call.arg \in table => target' = call.arg
    BY <1>4, <2>1 DEF NamedSound
  <2> QED
    BY <1>4, <2>1, <2>2 DEF NamedSound, WaitPidServed
<1>12. CASE AimEnd
  <2>1. pc = "aim" /\ todo = {} /\ pc' = "settle" /\ UNCHANGED <<call, todo, table, ret>>
    BY <1>12 DEF AimEnd, locals, tables
  <2> QED
    BY <1>4, <2>1 DEF NamedSound, WaitPidServed
<1>13. CASE Sleep
  <2>1. CASE target \in done
    BY <1>1, <1>13, <2>1, NamedRetakes DEF Sleep, tables, record
  <2>2. CASE target \notin done
    <3>1. pc = "sleep" /\ pc' = "asleep" /\ UNCHANGED <<call, todo, target, table, ret>>
      BY <1>13, <2>2 DEF Sleep, locals, tables
    <3> QED
      BY <1>4, <3>1 DEF NamedSound, WaitPidServed
  <2> QED
    BY <2>1, <2>2
<1>14. CASE Settle
  <2>1. table' = table /\ pc = "settle"
    BY <1>14 DEF Settle, tables
  <2>2. CASE call.arg \in table
    <3>1. probed /\ call.nohang
      BY <1>4, <2>1, <2>2 DEF NamedSound
    <3>2. Return(Ret("none yet", call.arg, 0))
      BY <1>14, <3>1 DEF Settle
    <3> QED
      BY <1>1, <2>1, <3>2, NamedReturns DEF Ret
  <2>3. CASE call.arg \notin table
    BY <1>1, <1>14, <2>1, <2>3, NamedReturns DEF Settle, Ret
  <2> QED
    BY <2>2, <2>3
<1> QED
  BY Zenon, <1>5, <1>6, <1>7, <1>8, <1>9, <1>10, <1>11, <1>12, <1>13, <1>14 DEF ParentWaits

(* Every step keeps it. *)
LEMMA WaitKept ==
  ASSUME IInv, WaitInv, [Next]_vars
  PROVE  WaitInv'
<1> SUFFICES NamedSound' /\ WaitPidServed'
  BY NotifyKept DEF WaitInv
<1>1. NamedSound /\ WaitPidServed
  BY DEF WaitInv
<1>2. TypeOK /\ table \subseteq Pid /\ Any \notin table
  BY AnyIsNoPid DEF IInv, TypeOK
<1>3. CASE Spawn
  <2>1. pc = "idle" /\ pc' = pc /\ call' = call
    BY <1>3 DEF Spawn, SpawnWorker, SpawnSync, SpawnFails, locals
  <2>2. ret'.what = "child" \/ ret'.what = "error"
    BY <1>3 DEF Spawn, SpawnWorker, SpawnSync, SpawnFails, Ret
  <2>3. table' \subseteq table \cup {nextPid} /\ nextPid \in Pid
    BY <1>3 DEF Spawn, SpawnWorker, SpawnSync, SpawnFails, tables
  <2>4. call.arg = Any /\ Any \notin table'
    BY <1>1, <1>2, <2>1, <2>3, AnyIsNoPid DEF NamedSound
  <2>5. WaitPidServed'
    BY <2>2 DEF WaitPidServed
  <2>6. NamedSound'
    BY <2>1, <2>4 DEF NamedSound
  <2> QED
    BY <2>5, <2>6
<1>4. ASSUME NEW c \in Pid, ChildStep(c) PROVE NamedSound' /\ WaitPidServed'
  <2>1. CASE ChildNotify(c) /\ pc = "asleep" /\ target = c
    <3>1. target \in done
      BY <2>1 DEF ChildNotify, At, WaitInv, NotifySound
    <3> QED
      BY <1>2, <2>1, <3>1, NamedRetakes DEF ChildNotify, tables, record
  <2>2. CASE ~(ChildNotify(c) /\ pc = "asleep" /\ target = c)
    BY <1>4, <2>2, NamedAlone
       DEF ChildStep, ChildStartsUp, ChildWindsUp, ChildSetup, ChildSetupFails, ChildEnds,
           ChildClose, ChildClaim, ChildStore, ChildPublish, ChildNotify, ChildStops,
           tables, locals, record
  <2> QED
    BY <2>1, <2>2
<1>5. ASSUME NEW c \in WaitCalls, BeginWait(c) PROVE NamedSound' /\ WaitPidServed'
  <2>1. /\ pc' = "take" /\ call' = c /\ round' = 1 /\ todo' = Scope(c.arg) /\ ret'.what = "none"
        /\ table' = table
    BY <1>5 DEF BeginWait, NoRet, Ret, tables
  <2>2. c.arg \in table => Scope(c.arg) = {c.arg}
    BY <1>2 DEF Scope
  <2> QED
    BY <2>1, <2>2 DEF NamedSound, WaitPidServed
<1>6. ASSUME NEW p \in Pid, NEW s \in Signals \cup {0}, BeginKill(p, s)
      PROVE  NamedSound' /\ WaitPidServed'
  <2>1. table' = table /\ pc = "idle"
    BY <1>6 DEF BeginKill, tables
  <2>2. CASE Return(Ret("native kill", p, 0)) \/ Return(Ret("killed", p, 0))
    BY <1>2, <2>1, <2>2, NamedReturns DEF Ret
  <2>3. CASE pc' = "kill claim" /\ ret' = NoRet /\ UNCHANGED call
    BY <1>1, <1>2, <2>1, <2>3 DEF NoRet, Ret, NamedSound, WaitPidServed
  <2> QED
    BY <1>6, <2>2, <2>3 DEF BeginKill
<1>7. CASE ParentKills
  <2>1. CASE Return(Ret("killed", target, 0)) /\ table' = table
    BY <1>2, <2>1, NamedReturns DEF Ret
  <2>2. CASE pc' \in {"kill store", "kill publish", "kill terminate"} /\ UNCHANGED <<call, todo, table, ret>>
    BY <1>1, <2>2 DEF NamedSound, WaitPidServed
  <2> QED
    BY <1>7, <2>1, <2>2 DEF ParentKills, KillClaim, KillStore, KillPublish, KillTerminate, tables, locals
<1>8. CASE UNCHANGED vars
  BY <1>8, NamedAlone DEF vars, tables, locals, record
<1>9. CASE ParentWaits
  BY <1>9, NamedInScans
<1> QED
  BY Zenon, <1>3, <1>4, <1>5, <1>6, <1>7, <1>8, <1>9 DEF Next

(* A wait for one child that is in the table ends with that child or with  *)
(* "none yet": waitpid of the host, which knows no synthetic pid, is not   *)
(* asked about it, whatever ends or is killed during the scans.            *)
THEOREM WaitsAreServed == Spec => []WaitPidServed
<1>1. Init => WaitInv
  BY AnyIsNoPid DEF Init, NoCall, NoRet, Ret, WaitInv, NotifySound, NamedSound, WaitPidServed
<1>2. IInv /\ WaitInv /\ [Next]_vars => WaitInv'
  BY WaitKept
<1>3. Spec => []WaitInv
  BY <1>1, <1>2, Invariance, PTL DEF Spec
<1> QED
  BY <1>3, PTL DEF WaitInv

===============================================================================
