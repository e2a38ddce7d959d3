---------------------------- MODULE TreePrograms ----------------------------
(* The programs that walk a tree of files: rm -r (rm.c), chmod and chown     *)
(* (chmod.c), du (du.c) and find (find.c).  Each is the loop around fts_read *)
(* of FileWalk and what the program does with a node: one action per kind of *)
(* node, with the system calls the program makes for it.                     *)
EXTENDS FileWalk

CONSTANTS
  Blocks,        \* the blocks each inode takes
  ReadOnly       \* the inodes without write permission

VARIABLE out     \* what the program has done
                 \* status  : what it will exit with
                 \* printed : the paths find has printed, in order
                 \* touched : the entries removed, or the inodes changed
                 \* refused : the paths the user answered "no" for
                 \* total, links : what du has counted, and the hard links to come

treeVars == <<walkVars, out>>

FirstOut ==
  [status |-> 0, printed |-> <<>>, touched |-> {}, refused |-> {}, total |-> 0,
   links |-> <<>>]

Path == cwd \o Cur.acc

Prog(p) == job.prog = p

(* Back to fts_read; a program that only looks changes nothing on the disk.  *)
Onward == at' = "read" /\ UNCHANGED <<moves, job, cwd, dirp, todo, built>>
DiskKept == UNCHANGED disk
NodesKept == UNCHANGED levels

Warn(o) == [o EXCEPT !.status = 1]
Exit == at' = "exit" /\ UNCHANGED <<moves, job, cwd, dirp, todo, built>>

-----------------------------------------------------------------------------
(* rm.c.                                                                     *)

NeedStat == ~Is("nostat")
Force == "f" \in job.flags
Asks == "i" \in job.flags

(* unlink and rmdir of a path, and why they fail.                            *)
RmError(path, dir) ==
  LET i == Linked(path)
  IN IF i = None THEN WhyNot(path)
     ELSE IF dir /\ Kind[i] # "dir" THEN "ENOTDIR"
     ELSE IF dir /\ \E e \in entries : e[1] = i THEN "ENOTEMPTY"
     ELSE IF ~dir /\ Kind[i] = "dir" THEN "EISDIR"
     ELSE ""

(* Whether check() asks at all, for a node that was or was not statted.      *)
MustAsk(node, path) ==
  \/ Asks
  \/ /\ NeedStat /\ ~Force /\ node.info # "SL"
     /\ Followed(path) \in ReadOnly

RemoveEntry(path, dir) ==
  LET why == RmError(path, dir)
  IN /\ entries' = IF why = "" THEN entries \ EntryAt(path) ELSE entries
     /\ out' = IF why = ""
                 THEN [out EXCEPT !.touched = @ \cup EntryAt(path)]
               ELSE IF Force /\ why = "ENOENT" THEN out
               ELSE Warn(out)
     /\ UNCHANGED <<shut, data>>

Refuse == out' = [out EXCEPT !.refused = @ \cup {CurPath}] /\ DiskKept

(* A directory that cannot be read, or a node that cannot be statted.        *)
RmReport ==
  /\ at = "visit" /\ Prog("rm")
  /\ Cur.info = "DNR" \/ (Cur.info = "NS" /\ NeedStat)
  /\ out' = IF Force /\ Cur.err = "ENOENT" THEN out ELSE Warn(out)
  /\ Onward /\ DiskKept /\ NodesKept

(* A directory in which the walk met an error ends the program.              *)
RmDie ==
  /\ at = "visit" /\ Prog("rm") /\ Cur.info = "ERR"
  /\ out' = Warn(out)
  /\ Exit /\ DiskKept /\ NodesKept

(* A directory in pre-order: the user may have it skipped.                   *)
RmEnterDir ==
  /\ at = "visit" /\ Prog("rm") /\ Cur.info = "D"
  /\ \/ DiskKept /\ NodesKept /\ UNCHANGED out
     \/ /\ ~Force /\ MustAsk(Cur, Path)
        /\ levels' = WithCur([Cur EXCEPT !.skip = TRUE, !.number = 1])
        /\ Refuse
  /\ Onward

(* Variant with a mistake: a skipped directory is removed if it can be.      *)
RmDirSkipped ==
  /\ at = "visit" /\ Prog("rm") /\ Cur.info = "DP"
  /\ RemoveEntry(Path, TRUE)
  /\ Onward /\ NodesKept

(* In post-order it is removed, unless it was skipped.                       *)
RmDir ==
  /\ at = "visit" /\ Prog("rm") /\ Cur.info = "DP"
  /\ IF Cur.number = 1 THEN DiskKept /\ UNCHANGED out ELSE RemoveEntry(Path, TRUE)
  /\ Onward /\ NodesKept

(* Anything else is unlinked, after a question where there is one to ask.    *)
RmOther ==
  /\ at = "visit" /\ Prog("rm")
  /\ Cur.info \in {"DC", "SL", "SLNONE", "F", "NSOK"} \/ (Cur.info = "NS" /\ ~NeedStat)
  /\ \/ RemoveEntry(Path, FALSE)
     \/ /\ Cur.info # "NS" /\ ~Force /\ MustAsk(Cur, Path)
        /\ Refuse
  /\ Onward /\ NodesKept

RmVisit == RmReport \/ RmDie \/ RmEnterDir \/ RmDir \/ RmOther

-----------------------------------------------------------------------------
(* chmod.c: chmod and chown.                                                 *)

Recurse == "R" \in job.flags
OnLink == "h" \in job.flags

(* Whether the call follows a link: -H and a walk without -R follow those    *)
(* of the command line, -L all.                                              *)
FollowsHere ==
  IF Is("comfollow") THEN Level = 1 ELSE Is("logical")

Change(o) ==
  LET i == IF FollowsHere THEN Followed(Path) ELSE Linked(Path)
  IN IF i = None
       THEN /\ out' = IF Force THEN o ELSE Warn(o)
            /\ UNCHANGED disk
       ELSE /\ out' = [o EXCEPT !.touched = @ \cup {i}]
            /\ shut' = IF Prog("chown") THEN shut
                       ELSE IF job.shuts /\ Kind[i] = "dir" THEN shut \cup {i}
                       ELSE shut \ {i}
            /\ UNCHANGED <<entries, data>>

ChVisiting == at = "visit" /\ (Prog("chmod") \/ Prog("chown"))

(* chmod changes a directory before it is entered, chown after.              *)
ChDir ==
  /\ ChVisiting /\ Cur.info \in {"D", "DP"}
  /\ levels' = IF Cur.info = "D" /\ ~Recurse
                 THEN WithCur([Cur EXCEPT !.skip = TRUE]) ELSE levels
  /\ IF Prog("chmod") <=> Cur.info = "D" THEN Change(out) ELSE DiskKept /\ UNCHANGED out
  /\ Onward

ChReport ==
  /\ ChVisiting /\ Cur.info \in {"ERR", "NS"}
  /\ out' = Warn(out)
  /\ Onward /\ DiskKept /\ NodesKept

ChOther ==
  /\ ChVisiting /\ Cur.info \notin {"D", "DP", "ERR", "NS"}
  /\ IF Cur.info \in {"SL", "SLNONE"} /\ ~OnLink /\ Is("logical")
       THEN DiskKept /\ UNCHANGED out
       ELSE Change(IF Cur.info = "DNR" THEN Warn(out) ELSE out)
  /\ Onward /\ NodesKept

ChVisit == ChDir \/ ChReport \/ ChOther

-----------------------------------------------------------------------------
(* du.c.                                                                     *)

AddToParent(ls, n) ==
  IF Level = 1 THEN ls
  ELSE [ls EXCEPT ![Level - 1] = <<[Head(@) EXCEPT !.number = @ + n]>> \o Tail(@)]

(* linkchk: whether an inode has been counted by another name; the record of *)
(* it goes with the last of its names.                                       *)
Linkchk(links, i, n) ==
  IF i \in DOMAIN links
    THEN <<TRUE, IF links[i] <= 1
                   THEN [x \in DOMAIN links \ {i} |-> links[x]]
                   ELSE [links EXCEPT ![i] = @ - 1]>>
    ELSE <<FALSE, (i :> n - 1) @@ links>>

DuDir ==
  /\ at = "visit" /\ Prog("du") /\ Cur.info = "DP"
  /\ LET n == Cur.number + Blocks[Cur.ino]
     IN levels' = AddToParent(WithCur([Cur EXCEPT !.number = n]), n)
  /\ out' = [out EXCEPT !.total = @ + Blocks[Cur.ino],
                        !.printed = Append(@, <<CurPath, Cur.number + Blocks[Cur.ino]>>)]
  /\ Onward /\ DiskKept

DuFile ==
  /\ at = "visit" /\ Prog("du") /\ Cur.info \in {"F", "SL", "SLNONE"}
  /\ LET checked == IF Cur.links > 1 THEN Linkchk(out.links, Cur.ino, Cur.links)
                                     ELSE <<FALSE, out.links>>
         n == IF checked[1] THEN 0 ELSE Blocks[Cur.ino]
     IN /\ out' = [out EXCEPT !.links = checked[2], !.total = @ + n]
        /\ levels' = AddToParent(levels, n)
  /\ Onward /\ DiskKept

DuOther ==
  /\ at = "visit" /\ Prog("du") /\ Cur.info \in {"D", "DC", "DNR", "ERR", "NS"}
  /\ out' = IF Cur.info \in {"D", "DC"} THEN out ELSE Warn(out)
  /\ Onward /\ DiskKept /\ NodesKept

DuVisit == DuDir \/ DuFile \/ DuOther

-----------------------------------------------------------------------------
(* find.c: the loop of find_execute with the tests and actions the walk      *)
(* depends on: -depth, -maxdepth, -mindepth, -prune of a name, -delete.      *)

TooDeep == job.maxdepth # -1 /\ Level - 1 >= job.maxdepth
Shallow == job.mindepth # -1 /\ Level - 1 < job.mindepth
Depth == "d" \in job.flags
Deletes == "delete" \in job.flags
LastName == IF Cur.name = <<>> THEN "." ELSE Last(Cur.name)
Prunes == LastName \in job.prune

FindErr == Cur.info \in {"DNR", "NS", "ERR"}
FindSkips ==
  \/ Cur.info = "D" /\ Depth
  \/ Cur.info = "DP" /\ ~Depth
  \/ Shallow

FindReport ==
  /\ at = "visit" /\ Prog("find") /\ FindErr
  /\ out' = IF Cur.info # "ERR" /\ "race" \in job.flags /\ Cur.err = "ENOENT" /\ Level > 1
              THEN out ELSE Warn(out)
  /\ levels' = WithCur([Cur EXCEPT !.skip = TooDeep])
  /\ Onward /\ DiskKept

(* Variant with a mistake: the depth limit is not looked at in -depth.       *)
FindPassDeep ==
  /\ at = "visit" /\ Prog("find") /\ ~FindErr /\ FindSkips
  /\ levels' = levels
  /\ Onward /\ DiskKept /\ UNCHANGED out

(* A visit in the order not asked for, or too high up: nothing is done.       *)
FindPass ==
  /\ at = "visit" /\ Prog("find") /\ ~FindErr /\ FindSkips
  /\ levels' = WithCur([Cur EXCEPT !.skip = TooDeep])
  /\ Onward /\ DiskKept /\ UNCHANGED out

FindAct ==
  /\ at = "visit" /\ Prog("find") /\ ~FindErr /\ ~FindSkips
  /\ levels' = WithCur([Cur EXCEPT !.skip = TooDeep \/ Prunes])
  /\ IF Deletes /\ Cur.acc # <<>>
       THEN LET why == RmError(Path, IsDir(Cur.ino))
            IN /\ entries' = IF why = "" THEN entries \ EntryAt(Path) ELSE entries
               /\ out' = IF why = "" THEN [out EXCEPT !.touched = @ \cup EntryAt(Path)]
                                     ELSE out
               /\ UNCHANGED <<shut, data>>
       ELSE /\ out' = IF Prunes THEN out ELSE [out EXCEPT !.printed = Append(@, CurPath)]
            /\ DiskKept
  /\ Onward

FindVisit == FindReport \/ FindPass \/ FindAct

(* What the programs do with the node the walk is at.                         *)
Visit == RmVisit \/ ChVisit \/ DuVisit \/ FindVisit
=============================================================================
