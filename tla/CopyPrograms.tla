---------------------------- MODULE CopyPrograms ----------------------------
(* cp (cp.c, utils.c) and mv (mv.c, and mv-cp.c and mv-rm.c for a move to    *)
(* another device), on the walk of FileWalk: cp is the loop around fts_read  *)
(* that copies each node, mv a rename or else a copy and the removal of the  *)
(* source.  A step is a system call or the few that belong together; a write *)
(* may fail with part of the file written.  Owners, modes and times, special *)
(* files and the limit on the length of a path are left out.                 *)
EXTENDS TreePrograms

CONSTANT Fresh   \* the inodes that new files, links and directories get

VARIABLE copying \* type   : cp's "op", target : the path it copies to, or into
                 \* to     : the path the current node or operand goes to
                 \* dne    : there was nothing at that path
                 \* ino    : the file open for writing
                 \* k      : which operand mv is at, 0 in other programs
                 \* given  : mv's command line, status : its own result
                 \* into   : whether it moves into its target

copyVars == <<treeVars, copying>>

NoCopy == [type |-> "", target |-> <<>>, to |-> <<>>, dne |-> FALSE, ino |-> None,
           k |-> 0, given |-> {}, status |-> 0, into |-> FALSE]

(* mv and cp look at the target before they walk.                            *)
Init ==
  /\ entries = FirstEntries
  /\ data = FirstData
  /\ moves = {}
  /\ out = FirstOut
  /\ copying = NoCopy
  /\ \E j \in Jobs :
       /\ shut = j.shut /\ FtsOpen(j)
       /\ at = IF j.prog \in {"cp", "mv"} THEN "start" ELSE "read"

WalkKept == UNCHANGED <<moves, job, cwd, levels, dirp, todo, built>>
Goto(where) == at' = where /\ WalkKept
Die == out' = Warn(out) /\ DiskKept /\ UNCHANGED copying /\ Goto("exit")

-----------------------------------------------------------------------------
(* System calls that make a new entry: mkdir, symlink and open with O_CREAT, *)
(* which makes the file where a link at the path points.                     *)

ParentDir(path) == Followed(Front(path))

Unused(kind, path) ==
  {i \in Fresh : Kind[i] = kind /\ Links(i) = 0 /\ Dev[i] = Dev[ParentDir(path)]}

CanMake(kind, path) ==
  Searchable(ParentDir(path)) /\ Linked(path) = None /\ Unused(kind, path) # {}

NewAt(kind, path) == CHOOSE i \in Unused(kind, path) : TRUE

WithEntry(es, path, i) == es \cup {<<ParentDir(path), Last(path), i>>}

CanRead(path) == Followed(path) # None /\ Followed(path) \notin shut

(* The inode open gives for writing, with O_TRUNC and perhaps O_CREAT.       *)
Opened(path, creates) ==
  LET i == Followed(path)
  IN IF i # None THEN IF IsDir(i) \/ i \in ReadOnly THEN None ELSE i
     ELSE IF creates /\ CanMake("file", RealPath(path))
       THEN NewAt("file", RealPath(path)) ELSE None

OpenTo(path, i) ==
  /\ entries' = IF Followed(path) = None THEN WithEntry(entries, RealPath(path), i)
                                         ELSE entries
  /\ data' = [data EXCEPT ![i] = <<>>]
  /\ copying' = [copying EXCEPT !.ino = i]
  /\ UNCHANGED <<shut, out>>

WriteAll(from) == data' = [data EXCEPT ![copying.ino] = data[from]]
WriteSome == "full" \in job.flags /\ data' = [data EXCEPT ![copying.ino] = <<"part">>]

-----------------------------------------------------------------------------
(* cp.c main: how the target is to be read; then the walk.                   *)

CopyType(j, i) ==
  LET first == j.roots[1]
      root == IF j.opts \cap {"logical", "comfollow"} # {} THEN Followed(first)
                                                           ELSE Linked(first)
  IN IF IsDir(i) THEN "FILE_TO_DIR"
     ELSE IF i = None /\ IsDir(root) /\ "R" \in j.flags THEN "DIR_TO_DNE"
     ELSE "FILE_TO_FILE"

StartCopy(j, target, i) ==
  IF (i = None /\ WhyNot(target) # "ENOENT") \/ (~IsDir(i) /\ Len(j.roots) > 1)
    THEN Die
    ELSE /\ FtsReopen(j) /\ at' = "read"
         /\ copying' = [copying EXCEPT !.type = CopyType(j, i), !.target = target]
         /\ out' = [out EXCEPT !.status = 0]
         /\ DiskKept /\ UNCHANGED moves

CpStart ==
  /\ at = "start" /\ Prog("cp")
  /\ StartCopy(job, job.target, Followed(job.target))

(* The path of the copy of the current node.                                 *)
Target ==
  LET root == Head(levels[1]).name
      below == SubSeq(CurPath, Len(root) + 1, Len(CurPath))
  IN CASE copying.type = "FILE_TO_FILE" -> copying.target
       [] copying.type = "FILE_TO_DIR" -> copying.target \o <<Last(root)>> \o below
       [] copying.type = "DIR_TO_DNE" -> copying.target \o below

CpReport ==
  /\ at = "visit" /\ Prog("cp") /\ Cur.info \in {"NS", "DNR", "ERR", "DC"}
  /\ out' = Warn(out)
  /\ Onward /\ DiskKept /\ NodesKept /\ UNCHANGED copying

SkipCur == IF Cur.info = "D" THEN WithCur([Cur EXCEPT !.skip = TRUE]) ELSE levels
GiveUp == out' = Warn(out) /\ Onward /\ NodesKept

(* What is at the target: the same file, or a directory where none can be,   *)
(* is left alone.                                                            *)
CompareTarget(to, i) ==
  IF i # None /\ (i = Cur.ino \/ (Cur.info # "D" /\ IsDir(i)))
    THEN /\ out' = Warn(out) /\ levels' = SkipCur
         /\ Onward /\ UNCHANGED copying
    ELSE /\ copying' = [copying EXCEPT !.to = to, !.dne = (i = None)]
         /\ UNCHANGED out /\ Goto("copy")

(* Variant with a mistake: a node is not compared with what is at its target.*)
CpStatBlind ==
  /\ at = "visit" /\ Prog("cp") /\ Cur.info \in {"D", "F", "SL", "SLNONE"}
  /\ copying' = [copying EXCEPT !.to = Target, !.dne = (Followed(Target) = None)]
  /\ UNCHANGED out /\ Goto("copy") /\ DiskKept

CpStat ==
  /\ at = "visit" /\ Prog("cp") /\ Cur.info \in {"D", "F", "SL", "SLNONE"}
  /\ CompareTarget(Target, Followed(Target))
  /\ DiskKept

(* In post-order a directory gets its mode and times.                        *)
CpLeaveDir ==
  /\ at = "visit" /\ Prog("cp") /\ Cur.info = "DP"
  /\ Onward /\ DiskKept /\ NodesKept /\ UNCHANGED <<out, copying>>

CpDir ==
  /\ at = "copy" /\ Cur.info = "D"
  /\ IF ~Recurse
       THEN /\ out' = Warn(out) /\ levels' = SkipCur
            /\ Onward /\ DiskKept /\ UNCHANGED copying
     ELSE IF copying.dne /\ CanMake("dir", copying.to)
       THEN /\ entries' = WithEntry(entries, copying.to, NewAt("dir", copying.to))
            /\ Onward /\ NodesKept /\ UNCHANGED <<shut, data, out, copying>>
     ELSE IF ~copying.dne /\ IsDir(Followed(copying.to))
       THEN Onward /\ DiskKept /\ NodesKept /\ UNCHANGED <<out, copying>>
       ELSE Die

(* copy_overwrite: the user may say no, which is no failure.                 *)
Decline ==
  /\ ~copying.dne /\ Asks
  /\ out' = [out EXCEPT !.refused = @ \cup {copying.to}]
  /\ Onward /\ DiskKept /\ NodesKept /\ UNCHANGED copying

IsLinkNode == Cur.info \in {"SL", "SLNONE"}

(* copy_link: what is there is unlinked, and a link to the same path made.   *)
CpLink ==
  /\ at = "copy" /\ IsLinkNode
  /\ \/ Decline
     \/ LET to == copying.to
            freed == IF copying.dne THEN {} ELSE EntryAt(to)
            new == NewAt("link", to)
        IN /\ UNCHANGED <<shut, copying>>
           /\ IF /\ Searchable(ParentDir(to)) /\ Unused("link", to) # {}
                 /\ Linked(to) = None \/ freed # {}
                THEN /\ entries' = WithEntry(entries \ freed, to, new)
                     /\ data' = [data EXCEPT ![new] = data[Cur.ino]]
                     /\ Onward /\ NodesKept /\ UNCHANGED out
                ELSE /\ entries' = IF Searchable(ParentDir(to)) THEN entries \ freed
                                                                ELSE entries
                     /\ UNCHANGED data /\ GiveUp

(* copy_file: -f unlinks what is there, -i asks before it is overwritten.    *)
CpFile ==
  /\ at = "copy" /\ Cur.info = "F"
  /\ IF ~CanRead(CurPath)
       THEN GiveUp /\ DiskKept /\ UNCHANGED copying
       ELSE \/ Decline
            \/ /\ entries' = IF ~copying.dne /\ Force /\ Searchable(ParentDir(copying.to))
                               THEN entries \ EntryAt(copying.to) ELSE entries
               /\ Goto("open") /\ UNCHANGED <<shut, data, out, copying>>

CpOpenTo(i) ==
  IF i = None THEN GiveUp /\ DiskKept /\ UNCHANGED copying
              ELSE OpenTo(copying.to, i) /\ Goto("write")

CpOpen ==
  /\ at = "open" /\ Prog("cp")
  /\ CpOpenTo(Opened(copying.to, copying.dne \/ Force))

CpWrite ==
  /\ at = "write" /\ Prog("cp")
  /\ \/ WriteAll(Cur.ino) /\ UNCHANGED out
     \/ WriteSome /\ out' = Warn(out)
  /\ Onward /\ NodesKept /\ UNCHANGED <<entries, shut, copying>>

-----------------------------------------------------------------------------
(* mv.c.                                                                     *)

From == job.roots[copying.k]
Result(status) ==
  /\ copying' = [copying EXCEPT !.k = @ + 1, !.status = IF status = 1 THEN 1 ELSE @]
  /\ Goto("move")
Failed == Result(1) /\ UNCHANGED out

(* A target that is no directory takes one operand only.                     *)
MvStart ==
  /\ at = "start" /\ Prog("mv")
  /\ IF ~IsDir(Followed(job.target)) /\ Len(job.roots) > 1
       THEN Die
       ELSE /\ copying' = [copying EXCEPT !.k = 1, !.given = job,
                                            !.into = IsDir(Followed(job.target))]
            /\ Goto("move") /\ DiskKept /\ UNCHANGED out

RenameError(from, to) ==
  LET f == Linked(from)
      t == Linked(to)
      d == ParentDir(to)
  IN IF ~Searchable(d) THEN "ENOENT"
     ELSE IF Dev[ParentDir(from)] # Dev[d] THEN "EXDEV"
     ELSE IF Dev[f] # Dev[ParentDir(from)] THEN "EBUSY"
     ELSE IF d \in Below(f) THEN "EINVAL"
     ELSE IF t # None /\ IsDir(t) # IsDir(f) THEN "ENOTDIR"
     ELSE IF IsDir(t) /\ \E e \in entries : e[1] = t THEN "ENOTEMPTY"
     ELSE ""

(* do_move: the questions, and the rename, which does nothing when both are  *)
(* names of one file.                                                        *)
MoveTo(from, to, why) ==
  \/ /\ ~Force /\ Followed(to) # None
     /\ \/ Asks /\ Followed(from) # None
        \/ "tty" \in job.flags /\ Followed(to) \in ReadOnly
     /\ out' = [out EXCEPT !.refused = @ \cup {from}]
     /\ DiskKept /\ Result(0)
  \/ IF why = ""
       THEN /\ entries' = IF Linked(from) = Linked(to) THEN entries
              ELSE WithEntry((entries \ EntryAt(from)) \ EntryAt(to), to, Linked(from))
            /\ Result(0) /\ UNCHANGED <<shut, data, out>>
     ELSE IF why = "EXDEV"
       THEN /\ copying' = [copying EXCEPT !.to = to]
            /\ Goto("cross") /\ DiskKept /\ UNCHANGED out
       ELSE Failed /\ DiskKept

MoveTarget ==
  IF copying.into THEN Append(job.target, Last(From)) ELSE job.target

MvMove ==
  /\ at = "move" /\ copying.k <= Len(job.roots)
  /\ IF Linked(From) = None
       THEN Failed /\ DiskKept
       ELSE MoveTo(From, MoveTarget, RenameError(From, MoveTarget))

MvExit ==
  /\ at = "move" /\ copying.k > Len(job.roots)
  /\ out' = [out EXCEPT !.status = copying.status]
  /\ Goto("exit") /\ DiskKept /\ UNCHANGED copying

(* To another device: statvfs tells a mount point, or rather any directory   *)
(* it knows something about; what is at the target is removed.               *)
MvMountPoint ==
  /\ at = "cross" /\ IsDir(Linked(From))
  /\ Failed /\ DiskKept

MvClear ==
  /\ at = "cross"
  /\ LET there == Linked(copying.to)
     IN IF there # None /\ RmError(copying.to, IsDir(there)) # ""
          THEN Failed /\ DiskKept
          ELSE /\ entries' = IF there = None THEN entries
                             ELSE entries \ EntryAt(copying.to)
               /\ Goto(IF Kind[Linked(From)] = "file" THEN "fast" ELSE "tree")
               /\ UNCHANGED <<shut, data, out, copying>>

(* fastcopy of a file; a copy that fails half way is removed.                *)
FastOpenTo(i) ==
  IF i = None THEN Failed /\ DiskKept
              ELSE OpenTo(copying.to, i) /\ Goto("write")

FastOpen ==
  /\ at = "fast"
  /\ FastOpenTo(IF CanRead(From) THEN Opened(copying.to, TRUE) ELSE None)

FastWrite ==
  /\ at = "write" /\ Prog("mv")
  /\ \/ /\ WriteAll(Linked(From))
        /\ Goto("unlink") /\ UNCHANGED <<entries, copying>>
     \/ /\ WriteSome
        /\ entries' = entries \ EntryAt(copying.to)
        /\ Result(1)
  /\ UNCHANGED <<shut, out>>

FastUnlink ==
  /\ at = "unlink"
  /\ entries' = entries \ EntryAt(From)
  /\ Result(0) /\ UNCHANGED <<shut, data, out>>

(* mvcopy: anything else goes the way of cp -PRp and rm -rf.                 *)
MvTree ==
  /\ at = "tree"
  /\ StartCopy([job EXCEPT !.prog = "cp", !.roots = <<From>>, !.opts = {"nochdir"},
                           !.flags = {"R"} \cup (@ \cap {"full"})],
               copying.to, Followed(copying.to))

-----------------------------------------------------------------------------
(* The end of a walk: of cp or the copy in mv, of the removal in mv, or of   *)
(* another program.                                                          *)

Ended == at \in {"ended", "stopped"}
Good == at = "ended" /\ out.status = 0

CopyEnd ==
  /\ Ended /\ Prog("cp") /\ copying.k > 0
  /\ IF ~Good THEN Die
     ELSE /\ FtsReopen([job EXCEPT !.prog = "rm", !.opts = {"nostat"}, !.flags = {"f"}])
          /\ at' = "read" /\ DiskKept /\ UNCHANGED <<moves, out, copying>>

RemovalEnd ==
  /\ Ended /\ Prog("rm") /\ copying.k > 0
  /\ IF ~Good THEN Die
     ELSE /\ job' = copying.given
          /\ copying' = [copying EXCEPT !.k = @ + 1]
          /\ at' = "move" /\ DiskKept
          /\ UNCHANGED <<moves, cwd, levels, dirp, todo, built, out>>

(* Behind fts_read's error a program says so.                                *)
Finish ==
  /\ Ended /\ copying.k = 0
  /\ out' = IF at = "stopped" THEN Warn(out) ELSE out
  /\ Goto("exit") /\ DiskKept /\ UNCHANGED copying

CpStep ==
  \/ CpStart \/ CpReport \/ CpStat \/ CpLeaveDir \/ CpDir \/ CpLink \/ CpFile
  \/ CpOpen \/ CpWrite
MvStep ==
  \/ MvStart \/ MvMove \/ MvExit \/ MvMountPoint \/ MvClear
  \/ FastOpen \/ FastWrite \/ FastUnlink \/ MvTree \/ CopyEnd \/ RemovalEnd

Next ==
  \/ FtsRead /\ UNCHANGED <<out, copying>>
  \/ Others /\ UNCHANGED <<out, copying>>
  \/ Visit /\ UNCHANGED copying
  \/ CpStep \/ MvStep
  \/ Finish

Spec == Init /\ [][Next]_copyVars
=============================================================================
