------------------------------- MODULE FdTable -------------------------------
(***************************************************************************)
(* The descriptor table of a WASI instance (core/wasi-js/src/wasi.ts) and  *)
(* the POSIX calls that change it (core/kernel/src/wasm/posix/unistd.ts,   *)
(* fork-exec.ts), over the descriptors of the host process, with programs  *)
(* run in place (PosixContext.run) and children in workers, which share    *)
(* the host's descriptors but not the table.                               *)
(*                                                                         *)
(* `meant' is what POSIX says: which open file each descriptor of the      *)
(* program refers to.  The table refers to a host number, and the host     *)
(* number to a file; the properties say that the two agree, but for the    *)
(* descriptors in `wrong', which name the cause by the action that put     *)
(* them there, and that no host number is forgotten, but for `lost'.       *)
(***************************************************************************)
EXTENDS Integers, Sequences, FiniteSets

CONSTANTS
  Start,     \* number of standard descriptors; 3 in the code
  TableMax,  \* SC_OPEN_MAX, the largest number in a table
  HostMax,   \* the largest number of a host descriptor
  Own,       \* host descriptors that belong to Node.js itself
  Virtual,   \* numbers the virtual (in-memory) file system hands out
  MaxCalls,  \* bound: calls in a history
  MaxDepth,  \* bound: programs run in place, one inside the other
  MaxKids    \* bound: children in workers at a time

Std == 0..(Start - 1)
Native == 0..HostMax

ASSUME NumberAssumption ==
  /\ {Start, TableMax, HostMax, MaxCalls, MaxDepth, MaxKids} \subseteq Nat
  /\ Start <= TableMax /\ Start + Cardinality(Own) <= HostMax
  /\ Own \subseteq Native \ Std /\ Virtual \subseteq Nat \ Native

VARIABLES
  FD_MAP,  \* the table of the running program: descriptor -> real
  meant,   \* its descriptors as POSIX has them: descriptor -> file
  saved,   \* the tables that run() will put back, the oldest first
  host,    \* the host's descriptors: number -> file or Closed
  kids,    \* children in workers: pid, standard descriptor -> real, meant
  wrong,   \* descriptors some call on another one has spoiled
  lost,    \* host numbers that are open and that nobody will close
  files,   \* the next file's number
  calls    \* number of calls so far

vars == <<FD_MAP, meant, saved, host, kids, wrong, lost, files, calls>>

Closed == -1
Kid == -1    \* stand for a depth: a child's, and Node.js's
Node == -2
Depth == Len(saved)
TableAt(d) == IF d = Depth THEN FD_MAP ELSE saved[d + 1].table
MeantAt(d) == IF d = Depth THEN meant ELSE saved[d + 1].meant

(* Whoever has a host number: a descriptor at some depth, a child, Node.js. *)
Entries == {<<d, g>> : d \in 0..Depth, g \in 0..TableMax}
EntriesOf(real) ==
  {e \in Entries : e[2] \in DOMAIN TableAt(e[1]) /\ TableAt(e[1])[e[2]] = real}
KidReals == UNION {{k.real[g] : g \in Std} : k \in kids}
Holders(real) ==
  EntriesOf(real) \cup ({<<Kid, real>>} \cap {<<Kid, n>> : n \in KidReals})
                  \cup ({<<Node, real>>} \cap {<<Node, n>> : n \in Own})
Here(g) == <<Depth, g>>
OfParents(e) == e[1] \in 0..(Depth - 1)

Call == calls < MaxCalls /\ calls' = calls + 1

Free == {n \in Native : host[n] = Closed}
First(S) == {n \in S : \A m \in S : n <= m}   \* the least number, if there is one
Without(f, g) == [x \in DOMAIN f \ {g} |-> f[x]]
With(f, g, v) == [x \in DOMAIN f \cup {g} |-> IF x = g THEN v ELSE f[x]]

Init ==
  /\ \E dir \in First(Native \ (Own \cup Std)) :   \* the preopened "/"
       /\ FD_MAP = [g \in 0..Start |-> IF g = Start THEN dir ELSE g]
       /\ host = [n \in Native \cup Virtual |-> IF n \in Std \cup Own \cup {dir} THEN n ELSE Closed]
  /\ meant = FD_MAP
  /\ saved = <<>>
  /\ kids = {} /\ wrong = {} /\ lost = {}
  /\ calls = 0
  /\ files = HostMax + 1   \* files are numbered from here; earlier ones are the initial ones

-----------------------------------------------------------------------------
(* getUnusedFileDescriptor                                                  *)

Unused(table) == {g \in Start..TableMax : g \notin DOMAIN table}

(* A file is opened; nothing else has happened to the descriptor g.  Its    *)
(* entry is a new one, whatever was wrong with an earlier one.              *)
OpenedAs(g, real, file) ==
  /\ FD_MAP' = With(FD_MAP, g, real)
  /\ meant' = With(meant, g, file)
  /\ wrong' = wrong \ {Here(g)}

(* path_open of a file, which gets the number `real': the host's lowest     *)
(* free one, or any free one of the virtual file system.  If the table is   *)
(* full, the file has been opened already.                                  *)
PathOpen(real) ==
  /\ Call
  /\ files' = files + 1
  /\ host' = [host EXCEPT ![real] = files]
  /\ \/ /\ \E g \in First(Unused(FD_MAP)) : OpenedAs(g, real, files)
        /\ UNCHANGED lost
     \/ /\ Unused(FD_MAP) = {}
        /\ lost' = lost \cup {real}
        /\ UNCHANGED <<FD_MAP, meant, wrong>>
  /\ UNCHANGED <<saved, kids>>

(* path_open of dev/tty opens nothing and answers 0, which then stands for  *)
(* the terminal as well as for standard input; one of proc/ fails before    *)
(* it does anything.                                                        *)
PathOpenTty ==
  /\ Call
  /\ wrong' = wrong \cup {Here(0)}
  /\ UNCHANGED <<FD_MAP, meant, saved, host, kids, lost, files>>

(* Variant with a mistake: other descriptors of the same file are not       *)
(* looked for.                                                              *)
HostClosingAlways(g) == [host EXCEPT ![FD_MAP[g]] = Closed]

(* closeRealFdIfLastReference: closing fails, and with it the call, when    *)
(* the host's descriptor is closed already.                                 *)
LastReference(g) == \A h \in DOMAIN FD_MAP \ {g} : FD_MAP[h] # FD_MAP[g]
CanClose(g) == LastReference(g) => host[FD_MAP[g]] # Closed
HostClosing(g) ==
  IF LastReference(g) THEN [host EXCEPT ![FD_MAP[g]] = Closed] ELSE host

(* Whose file is gone by a close of g: descriptors of the programs that     *)
(* wait for this one to end, and, when g was wrong itself, anybody's.       *)
SpoiledByClose(g) ==
  IF ~LastReference(g) THEN {}
  ELSE {e \in Holders(FD_MAP[g]) :
          \/ OfParents(e)
          \/ Here(g) \in wrong /\ e # Here(g)}

FdClose(g) ==
  /\ Call
  /\ g \in DOMAIN FD_MAP /\ CanClose(g)
  /\ host' = HostClosing(g)
  /\ FD_MAP' = Without(FD_MAP, g)
  /\ meant' = Without(meant, g)
  /\ wrong' = (wrong \cup SpoiledByClose(g)) \ {Here(g)}
  /\ lost' = lost \ {n \in lost : host'[n] = Closed}
  /\ UNCHANGED <<saved, kids, files>>

(* fd_close of the descriptor that was given for the terminal: POSIX leaves *)
(* standard input open, but it is that which is closed.  An entry that is   *)
(* in `wrong' for another cause may take this step too; its close differs   *)
(* from FdClose in `meant' only, which no property reads while it is there. *)
CloseTty ==
  /\ Call
  /\ Here(0) \in wrong /\ CanClose(0)
  /\ host' = HostClosing(0)
  /\ FD_MAP' = Without(FD_MAP, 0)
  /\ wrong' = wrong \cup SpoiledByClose(0)
  /\ lost' = lost \ {n \in lost : host'[n] = Closed}
  /\ UNCHANGED <<meant, saved, kids, files>>

(* Variant with a mistake: the target's host descriptor is not closed.      *)
FdRenumberLeaving(from, to) ==
  /\ Call /\ {from, to} \subseteq DOMAIN FD_MAP /\ from # to
  /\ FD_MAP' = Without(With(FD_MAP, to, FD_MAP[from]), from)
  /\ meant' = Without(With(meant, to, meant[from]), from)
  /\ wrong' = (wrong \ {Here(from), Here(to)})
                \cup (IF Here(from) \in wrong THEN {Here(to)} ELSE {})
  /\ UNCHANGED <<saved, host, kids, lost, files>>

FdRenumber(from, to) ==
  /\ Call /\ {from, to} \subseteq DOMAIN FD_MAP /\ from # to /\ CanClose(to)
  /\ host' = HostClosing(to)
  /\ FD_MAP' = Without(With(FD_MAP, to, FD_MAP[from]), from)
  /\ meant' = Without(With(meant, to, meant[from]), from)
  /\ wrong' = ((wrong \cup SpoiledByClose(to)) \ {Here(from), Here(to)})
                \cup (IF Here(from) \in wrong THEN {Here(to)} ELSE {})
  /\ lost' = lost \ {n \in lost : host'[n] = Closed}
  /\ UNCHANGED <<saved, kids, files>>

-----------------------------------------------------------------------------
(* dup and dup2: the host's calls know only its own open descriptors; when  *)
(* they fail the new descriptor shares the old one's number.                *)

IsNative(real) == real \in Native /\ host[real] # Closed

(* What the descriptor g gets by a dup or dup2 of old.                      *)
Duplicate(old, g, real, spoiled) ==
  /\ FD_MAP' = With(FD_MAP, g, real)
  /\ meant' = With(meant, g, meant[old])
  /\ wrong' = ((wrong \cup spoiled) \ {Here(g)})
                \cup (IF Here(old) \in wrong THEN {Here(g)} ELSE {})

Dup(old) ==
  /\ Call /\ old \in DOMAIN FD_MAP
  /\ \E g \in First(Unused(FD_MAP)) :
       \/ /\ IsNative(FD_MAP[old])
          /\ \E n \in First(Free) : /\ host' = [host EXCEPT ![n] = host[FD_MAP[old]]]
                                   /\ Duplicate(old, g, n, {})
       \/ /\ ~IsNative(FD_MAP[old]) \/ Free = {}
          /\ Duplicate(old, g, FD_MAP[old], {})
          /\ UNCHANGED host
  /\ UNCHANGED <<saved, kids, lost, files>>

(* Variant with a mistake: the number of the program is taken for the       *)
(* host's.                                                                  *)
DupTargetPlain(newfd) == newfd

(* The host number dup2 replaces: that of newfd, or newfd itself.           *)
DupTarget(newfd) == IF newfd \in DOMAIN FD_MAP THEN FD_MAP[newfd] ELSE newfd

(* Everybody else who has that number is diverted with it: whoever has      *)
(* newfd as a number of the host when it is not open here, the programs     *)
(* that wait, descriptors that share it, and those of an entry that was     *)
(* wrong.                                                                   *)
SpoiledByDup2(newfd) ==
  {e \in Holders(DupTarget(newfd)) \ {Here(newfd)} :
     \/ newfd \notin DOMAIN FD_MAP
     \/ e[1] \in 0..Depth
     \/ Here(newfd) \in wrong}

(* Without the host's help the old number of newfd is forgotten.            *)
Forgotten(newfd) ==
  IF /\ newfd \in DOMAIN FD_MAP /\ host[FD_MAP[newfd]] # Closed
     /\ Holders(FD_MAP[newfd]) = {Here(newfd)}
  THEN {FD_MAP[newfd]} ELSE {}

Dup2(old, newfd) ==
  LET real == FD_MAP[old]  target == DupTarget(newfd) IN
  /\ Call /\ old \in DOMAIN FD_MAP /\ old # newfd
  /\ IF IsNative(real) /\ target \in Native
     THEN /\ host' = [host EXCEPT ![target] = host[real]]
          /\ Duplicate(old, newfd, target, IF target = real THEN {} ELSE SpoiledByDup2(newfd))
          /\ lost' = lost \ {target}
     ELSE /\ Duplicate(old, newfd, real, {})
          /\ lost' = lost \cup (IF real = target THEN {} ELSE Forgotten(newfd))
          /\ UNCHANGED host
  /\ UNCHANGED <<saved, kids, files>>

(* pipe: the host's pipe is there before its two entries are.               *)
Pipe ==
  /\ Call
  /\ files' = files + 2
  /\ \E rd \in First(Free) : \E wr \in First(Free \ {rd}) :
       /\ host' = [host EXCEPT ![rd] = files, ![wr] = files + 1]
       /\ \/ \E g \in First(Unused(FD_MAP)) : \E h \in First(Unused(FD_MAP) \ {g}) :
               /\ FD_MAP' = With(With(FD_MAP, g, rd), h, wr)
               /\ meant' = With(With(meant, g, files), h, files + 1)
               /\ wrong' = wrong \ {Here(g), Here(h)}
               /\ UNCHANGED lost
          \/ \E g \in First(Unused(FD_MAP)) :   \* the program is told of neither
               /\ Unused(FD_MAP) = {g}
               /\ FD_MAP' = With(FD_MAP, g, rd)
               /\ wrong' = wrong \cup {Here(g)}
               /\ lost' = lost \cup {wr}
               /\ UNCHANGED meant
          \/ /\ Unused(FD_MAP) = {}
             /\ lost' = lost \cup {rd, wr}
             /\ UNCHANGED <<FD_MAP, meant, wrong>>
  /\ UNCHANGED <<saved, kids>>

(* spoolCapturedOutput: the two ends of a pipe, files with successive       *)
(* numbers, become a file's; the old host descriptors are closed when no    *)
(* entry is left that has them.                                             *)
SpoolInto(rd, wr, w, r) ==
  LET table == With(With(FD_MAP, rd, r), wr, w)
      gone == {n \in {FD_MAP[rd], FD_MAP[wr]} : \A g \in DOMAIN table : table[g] # n}
  IN
  /\ FD_MAP' = table
  /\ meant' = With(With(meant, rd, files), wr, files + 1)
  /\ host' = [n \in DOMAIN host |-> IF n = w THEN files + 1 ELSE IF n = r THEN files
                                    ELSE IF n \in gone THEN Closed ELSE host[n]]
  /\ wrong' = (wrong \cup {e \in UNION {Holders(n) : n \in gone} :
                             OfParents(e) \/ {Here(rd), Here(wr)} \cap wrong # {}})
                \ {Here(rd), Here(wr)}
  /\ lost' = lost \ gone

Spool(rd, wr) ==
  /\ Call /\ {rd, wr} \subseteq DOMAIN FD_MAP /\ rd # wr
  /\ files' = files + 2
  /\ \E w \in First(Free) : \E r \in First(Free \ {w}) : SpoolInto(rd, wr, w, r)
  /\ UNCHANGED <<saved, kids>>

-----------------------------------------------------------------------------
(* PosixContext.run: the program gets a copy of the table, and the host's   *)
(* descriptors themselves.                                                  *)

BeginRun ==
  /\ Call /\ Depth < MaxDepth
  /\ saved' = Append(saved, [table |-> FD_MAP, meant |-> meant])
  /\ wrong' = wrong \cup {<<Depth + 1, e[2]>> : e \in {x \in wrong : x[1] = Depth}}
  /\ UNCHANGED <<FD_MAP, meant, host, kids, lost, files>>

(* What the program left open is open for good.                             *)
LeftOpen ==
  {FD_MAP[g] : g \in {x \in DOMAIN FD_MAP :
     /\ host[FD_MAP[x]] # Closed
     /\ \A e \in Holders(FD_MAP[x]) : e[1] = Depth}}

EndRun ==
  /\ Call /\ Depth > 0
  /\ saved' = SubSeq(saved, 1, Depth - 1)
  /\ FD_MAP' = saved[Depth].table
  /\ meant' = saved[Depth].meant
  /\ wrong' = {e \in wrong : e[1] # Depth}
  /\ lost' = lost \cup LeftOpen
  /\ UNCHANGED <<host, kids, files>>

-----------------------------------------------------------------------------
(* Children: each standard descriptor is a duplicate of some descriptor of  *)
(* the parent.                                                              *)

(* The host hands out its numbers in turn, the lowest first.                *)
HandedOut(real) ==
  \A i \in DOMAIN real :
    real[i] \in Free /\ {real[j] : j \in {x \in DOMAIN real : x < i}} = {n \in Free : n < real[i]}

(* The i-th of them is made by a dup of the descriptor g, whose number is   *)
(* open or, if it was not, has just been handed out.                        *)
DupInTurn(g, i, real, file) ==
  /\ g \in DOMAIN FD_MAP
  /\ \/ IsNative(FD_MAP[g]) /\ file[i] = host[FD_MAP[g]]
     \/ \E j \in DOMAIN real : j < i /\ real[j] = FD_MAP[g] /\ file[i] = file[j]

Opened(real, file) ==
  [n \in DOMAIN host |->
     IF \E i \in DOMAIN real : real[i] = n
     THEN file[CHOOSE i \in DOMAIN real : real[i] = n] ELSE host[n]]

(* runWasiExecutableInWorker; if a duplicate cannot be made, those that     *)
(* were are closed.                                                         *)
SpawnWorker(from) ==
  /\ Call /\ Cardinality(kids) < MaxKids
  /\ \E real \in [Std -> Free], file \in [Std -> 0..(files - 1)] :
       /\ HandedOut(real)
       /\ \A g \in Std : DupInTurn(from[g], g, real, file)
       /\ host' = Opened(real, file)
       /\ \E pid \in First({p \in 1..MaxKids : \A k \in kids : k.pid # p}) :
            kids' = kids \cup {[pid |-> pid, real |-> real, meant |-> file]}
  /\ UNCHANGED <<FD_MAP, meant, saved, wrong, lost, files>>

(* The numbers of the child k, and those no other child has.                *)
RealsOf(k) == {k.real[g] : g \in Std}
OnlyOf(k) == {n \in RealsOf(k) : \A j \in kids \ {k} : n \notin RealsOf(j)}

(* The worker's finally: each number is closed, errors are ignored.         *)
WorkerEnds(k) ==
  /\ Call /\ k \in kids
  /\ host' = [n \in DOMAIN host |-> IF n \in RealsOf(k) THEN Closed ELSE host[n]]
  /\ kids' = kids \ {k}
  /\ wrong' = (wrong \ {<<Kid, n>> : n \in OnlyOf(k)})
                \cup UNION {Holders(n) \ {<<Kid, n>>} : n \in {m \in RealsOf(k) : <<Kid, m>> \in wrong}}
  /\ lost' = lost \ RealsOf(k)
  /\ UNCHANGED <<FD_MAP, meant, saved, files>>

(* A worker that kill() terminates runs no finally.                         *)
WorkerKilled(k) ==
  /\ Call /\ k \in kids
  /\ kids' = kids \ {k}
  /\ wrong' = wrong \ {<<Kid, n>> : n \in OnlyOf(k)}
  /\ lost' = lost \cup {n \in OnlyOf(k) : host[n] # Closed /\ Holders(n) = {<<Kid, n>>}}
  /\ UNCHANGED <<FD_MAP, meant, saved, host, files>>

(* runWasiExecutable: nothing is undone when a duplicate cannot be made,    *)
(* after "/" and n descriptors have been opened.  Otherwise it runs the     *)
(* child to its end and closes all it opened, which changes nothing here.   *)
SpawnHereFails(from) ==
  /\ Call
  /\ files' = files + 1
  /\ \E n \in Std : \E real \in [0..n -> Free], file \in [0..n -> 0..files] :
       /\ HandedOut(real)
       /\ file[0] = files
       /\ \A g \in 0..(n - 1) : DupInTurn(from[g], g + 1, real, file)
       /\ from[n] \in DOMAIN FD_MAP =>
            \/ ~IsNative(FD_MAP[from[n]]) /\ \A i \in 0..n : real[i] # FD_MAP[from[n]]
            \/ Free = {real[i] : i \in 0..n}
       /\ host' = Opened(real, file)
       /\ lost' = lost \cup {real[i] : i \in 0..n}
  /\ UNCHANGED <<FD_MAP, meant, saved, kids, wrong>>

(* A program uses the descriptors it was given.                             *)
Known == DOMAIN FD_MAP \cap DOMAIN meant

Next ==
  \/ \E real \in First(Free) \cup {n \in Virtual : host[n] = Closed} : PathOpen(real)
  \/ PathOpenTty
  \/ \E g \in Known : FdClose(g)
  \/ 0 \in Known /\ CloseTty
  \/ \E from, to \in Known : FdRenumber(from, to)
  \/ \E old \in Known : Dup(old)
  \/ \E old \in Known, newfd \in 0..TableMax : Dup2(old, newfd)
  \/ Pipe
  \/ \E rd, wr \in Known : meant[wr] = meant[rd] + 1 /\ rd > Start /\ Spool(rd, wr)
  \/ BeginRun \/ EndRun
  \/ \E from \in [Std -> Known] : SpawnWorker(from)
  \/ \E from \in [Std -> 0..TableMax] : SpawnHereFails(from)
  \/ \E k \in kids : WorkerEnds(k) \/ WorkerKilled(k)

Spec == Init /\ [][Next]_vars

-----------------------------------------------------------------------------
TypeOK ==
  /\ \A d \in 0..Depth : /\ DOMAIN TableAt(d) \cup DOMAIN MeantAt(d) \subseteq 0..TableMax
                         /\ \A g \in DOMAIN TableAt(d) : TableAt(d)[g] \in DOMAIN host
  /\ DOMAIN host = Native \cup Virtual
  /\ \A n \in DOMAIN host : host[n] \in {Closed} \cup 0..(files - 1)
  /\ lost \subseteq {n \in DOMAIN host : host[n] # Closed}

(* A descriptor of the program, or of a program that waits for it, is open  *)
(* exactly when POSIX says so and refers to the file POSIX says, whatever   *)
(* is done to other descriptors: opens, closes, duplicates in either order, *)
(* shared numbers, programs run in place and children.  The exceptions are  *)
(* the entries of `wrong': what a program run in place closes or replaces   *)
(* for its parent, dup2 onto a number that is not open, a pipe that finds   *)
(* one descriptor free, and 0 once it has been given for the terminal.      *)
FilesKept ==
  /\ TypeOK
  /\ \A e \in Entries \ wrong :
       LET g == e[2]  table == TableAt(e[1]) IN
       /\ g \in DOMAIN table <=> g \in DOMAIN MeantAt(e[1])
       /\ g \in DOMAIN table => host[table[g]] = MeantAt(e[1])[g]

(* What others have in the host process stays theirs: a child's standard    *)
(* descriptors and those of Node.js.                                        *)
OthersKept ==
  /\ \A k \in kids, g \in Std : <<Kid, k.real[g]>> \in wrong \/ host[k.real[g]] = k.meant[g]
  /\ \A n \in Own : <<Node, n>> \in wrong \/ host[n] = n

(* No host descriptor is forgotten: each one open is in some table, or a    *)
(* child's, or Node.js's own, but for those the code is known to lose (a    *)
(* full table, what a program run in place leaves open, dup2 without the    *)
(* host, a child that is killed or cannot be started).                      *)
NothingForgotten ==
  \A n \in DOMAIN host : host[n] # Closed => Holders(n) # {} \/ n \in lost
=============================================================================
