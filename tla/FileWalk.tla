------------------------------ MODULE FileWalk ------------------------------
(* The walk over file trees the file programs share (lib/fts/fts.c), as it   *)
(* works in this runtime: the working directory of a program is a path kept  *)
(* by its C library, a descriptor of a directory remembers the path it was   *)
(* opened by, fchdir changes to that path and readdir lists that path        *)
(* (unistd.ts fchdir, wasi.ts path_open and fd_readdir).  One action per     *)
(* system call of fts_read, so that another process can rename, remove and   *)
(* create entries between any two of them.                                   *)
(*                                                                           *)
(* A path is a sequence of names below Top, the directory the program is     *)
(* started in.  An FTSENT is a record; "levels" holds, for every depth of    *)
(* the walk, the node it is in or at followed by the rest of its list.       *)
EXTENDS Integers, FiniteSets, Sequences, SequencesExt

CONSTANTS
  Kind,          \* what each inode is: "dir", "file" or "link"
  Dev,           \* the device each inode is on
  Top,           \* the inode of the directory the program is started in
  FirstEntries,  \* the directory entries <<dir, name, inode>> at the start
  FirstData,     \* what the files contain, and the path (without links)
                 \* each symbolic link names
  Spare,         \* inodes of files another process may create
  MovedNames,    \* names it uses
  Orders,        \* the orders in which directories are listed
  Jobs           \* the command lines, [prog, roots, opts, ...], with the
                 \* directories "shut" at the start, the bound "moves" on the
                 \* changes of another process and the inodes "moved" by it

ASSUME WalkAssumption ==
  /\ Kind[Top] = "dir" /\ Dev \in [DOMAIN Kind -> Nat]
  /\ DOMAIN FirstData = DOMAIN Kind
  /\ \A j \in Jobs : j.moves \in Nat

VARIABLES
  entries,   \* the directory entries on the disk
  shut,      \* the directories without read and search permission
  data,      \* the contents of files and links
  moves,     \* the changes made by another process, [from, to]
  job,       \* the command line of this run
  cwd,       \* the path the C library keeps as the working directory
  levels,    \* the lists of nodes, from the operands down to the current one
  at,        \* where in fts_read the walk is
  dirp,      \* the open directory of fts_build: its inode, its path, nlinks
  todo,      \* the directory entries fts_build has not made nodes of
  built      \* the nodes it has made

disk == <<entries, shut, data>>
walkVars == <<entries, shut, data, moves, job, cwd, levels, at, dirp, todo, built>>

None == 0

-----------------------------------------------------------------------------
(* The file system.                                                          *)

Searchable(d) == d # None /\ Kind[d] = "dir" /\ d \notin shut

Child(d, n) ==
  IF Searchable(d) /\ \E e \in entries : e[1] = d /\ e[2] = n
    THEN (CHOOSE e \in entries : e[1] = d /\ e[2] = n)[3]
    ELSE None

Plain(path) == FoldLeft(Child, Top, path)

Deref(i) == IF i # None /\ Kind[i] = "link" THEN Plain(data[i]) ELSE i

(* What lstat and what stat find at a path.                                  *)
Linked(path) == FoldLeft(LAMBDA d, n : Child(Deref(d), n), Top, path)
Followed(path) == Deref(Linked(path))

(* The path realpath gives a descriptor when it is opened.                   *)
RealPath(path) ==
  FoldLeft(LAMBDA q, n :
             LET i == Linked(Append(q, n))
             IN IF i # None /\ Kind[i] = "link" THEN data[i] ELSE Append(q, n),
           <<>>, path)

(* Why a path does not lead anywhere.                                        *)
WhyNot(path) ==
  IF \E k \in 0..Len(path) - 1 : Followed(SubSeq(path, 1, k)) \in shut
    THEN "EACCES"
  ELSE IF \E k \in 0..Len(path) - 1 :
            LET i == Followed(SubSeq(path, 1, k)) IN i # None /\ Kind[i] # "dir"
    THEN "ENOTDIR"
    ELSE "ENOENT"

Links(i) == Cardinality({e \in entries : e[3] = i})

IsDir(i) == i # None /\ Kind[i] = "dir"

(* st_nlink of a directory: its own name, "." and the ".." of each one in it. *)
Nlink(i) ==
  IF IsDir(i) THEN 2 + Cardinality({e \in entries : e[1] = i /\ IsDir(e[3])})
              ELSE Links(i)

EntryAt(path) ==
  {e \in entries : e[1] = Followed(Front(path)) /\ e[2] = Last(path)}

-----------------------------------------------------------------------------
(* Nodes of the walk.                                                        *)

Is(o) == o \in job.opts

Level == Len(levels)
Cur == Head(levels[Level])
Ancestors(k) == {Head(levels[j]).ino : j \in 1..k}
ParentOfCur == Head(levels[Level - 1])

(* fts_path of the node at the head of a level.                              *)
FtsPath(k) == FoldLeft(LAMBDA p, l : p \o Head(l).name, <<>>, SubSeq(levels, 1, k))
CurPath == FtsPath(Level)

(* The working directory does not change in a walk that is not to change it, *)
(* so every access path is then a whole one.                                 *)
StaysPut == Is("logical") \/ Is("nochdir")

Node(name, acc) ==
  [name |-> name, acc |-> acc, info |-> "INIT", ino |-> None, links |-> 0,
   err |-> "", dont |-> FALSE, skip |-> FALSE, number |-> 0]

WithCur(node) == [levels EXCEPT ![Level] = <<node>> \o Tail(@)]

Kinds == [dir |-> "D", link |-> "SL", file |-> "F"]

(* fts_stat: what is at a node's access path; a directory that is one of the *)
(* node's ancestors is a cycle.                                              *)
FtsStat(node, base, follow, above) ==
  LET path == base \o node.acc
      i == IF follow THEN Followed(path) ELSE Linked(path)
  IN IF i = None
       THEN IF follow /\ Linked(path) # None
              THEN [node EXCEPT !.info = "SLNONE", !.ino = Linked(path), !.links = 1]
              ELSE [node EXCEPT !.info = "NS", !.err = WhyNot(path)]
       ELSE [node EXCEPT !.info = IF Kind[i] = "dir" /\ i \in above
                                    THEN "DC" ELSE Kinds[Kind[i]],
                         !.ino = i, !.links = Nlink(i)]

(* fts_open stats the operands and makes a dummy node the current one.       *)
Operand(j, path) ==
  FtsStat(Node(path, path), <<>>, "logical" \in j.opts \/ "comfollow" \in j.opts, {})

Operands(j) ==
  << <<Node(<<>>, <<>>)>> \o [k \in 1..Len(j.roots) |-> Operand(j, j.roots[k])] >>

NoDir == [ino |-> None, path |-> <<>>, nlinks |-> 0, descend |-> FALSE,
          err |-> "", short |-> FALSE]

FtsOpen(j) ==
  /\ job = j
  /\ cwd = <<>>
  /\ levels = Operands(j)
  /\ dirp = NoDir
  /\ todo = <<>> /\ built = <<>>

(* A program that has ended its walk starts another one in the same place.   *)
FtsReopen(j) ==
  /\ job' = j
  /\ cwd' = <<>>
  /\ levels' = Operands(j)
  /\ dirp' = NoDir
  /\ todo' = <<>> /\ built' = <<>>

(* open and chdir: a directory that may be read, and the path of its         *)
(* descriptor.                                                               *)
CanOpen(path) == Searchable(Followed(path))
CanEnter(path) == IsDir(Followed(path)) /\ Followed(path) \notin shut

(* fts_safe_changedir with ".."; the parent of a path is found in the path.  *)
CanClimb(ino) ==
  /\ cwd # <<>>
  /\ CanOpen(Front(cwd)) /\ Followed(Front(cwd)) = ino

(* The way back to the directory of a node at level k: the descriptor of the *)
(* start for an operand, otherwise one directory up.                         *)
BackOk(k) == StaysPut \/ k = 1 \/ CanClimb(Head(levels[k - 1]).ino)
BackTo(k) ==
  IF StaysPut THEN cwd ELSE IF k = 1 THEN <<>> ELSE RealPath(Front(cwd))

NoBuild == UNCHANGED <<dirp, todo, built>>

-----------------------------------------------------------------------------
(* fts_read.                                                                 *)

CrossesMount == Is("xdev") /\ Dev[Cur.ino] # Dev[Head(levels[1]).ino]

(* A directory the program skips, or on another device, is left at once.     *)
SkipDir ==
  /\ at = "read" /\ Cur.info = "D" /\ (Cur.skip \/ CrossesMount)
  /\ levels' = WithCur([Cur EXCEPT !.info = "DP", !.skip = FALSE])
  /\ at' = "visit"
  /\ NoBuild /\ UNCHANGED <<entries, shut, data, moves, job, cwd>>

(* fts_build opens the directory it is to list.                              *)
OpenDir ==
  /\ at = "read" /\ Cur.info = "D" /\ ~Cur.skip /\ ~CrossesMount
  /\ LET path == cwd \o Cur.acc
     IN IF CanOpen(path)
          THEN /\ dirp' = [ino |-> Followed(path), path |-> RealPath(path),
                           nlinks |-> IF Is("nostat") /\ ~Is("logical")
                                        THEN Cur.links - 2 ELSE -1,
                           descend |-> FALSE, err |-> "", short |-> FALSE]
               /\ at' = "opened"
               /\ UNCHANGED levels
          ELSE /\ levels' = WithCur([Cur EXCEPT !.info = "DNR",
                 !.err = IF Followed(path) = None THEN WhyNot(path)
                         ELSE IF IsDir(Followed(path)) THEN "EACCES" ELSE "ENOTDIR"])
               /\ at' = "visit"
               /\ UNCHANGED dirp
  /\ UNCHANGED <<entries, shut, data, moves, job, cwd, todo, built>>

(* fts_safe_changedir into the directory: the one that was opened must be    *)
(* the one that was statted, and there must be a directory at its path.      *)
EnterDir ==
  /\ at = "opened"
  /\ at' = "entered"
  /\ LET why == IF dirp.ino # Cur.ino THEN "ENOENT"
                ELSE IF Followed(dirp.path) = None THEN WhyNot(dirp.path)
                ELSE "EACCES"
     IN IF StaysPut \/ (dirp.ino = Cur.ino /\ CanEnter(dirp.path))
          THEN /\ cwd' = IF StaysPut THEN cwd ELSE dirp.path
               /\ dirp' = [dirp EXCEPT !.descend = TRUE]
               /\ UNCHANGED levels
          ELSE /\ dirp' = [dirp EXCEPT !.err = why]
               /\ levels' = WithCur([Cur EXCEPT !.dont = TRUE,
                    !.err = IF dirp.nlinks # 0 THEN why ELSE @])
               /\ UNCHANGED cwd
  /\ UNCHANGED <<entries, shut, data, moves, job, todo, built>>

(* readdir lists the path of the descriptor, in one of the orders.           *)
ListDir ==
  /\ at = "entered"
  /\ at' = "listed"
  /\ \E order \in Orders :
       todo' = IF CanOpen(dirp.path)
                 THEN SelectSeq(order, LAMBDA n : Child(Followed(dirp.path), n) # None)
                 ELSE <<>>
  /\ dirp' = [dirp EXCEPT !.short = ~CanOpen(dirp.path)]
  /\ built' = <<>>
  /\ UNCHANGED <<entries, shut, data, moves, job, cwd, levels>>

(* Then the kernel's side lstats every name of the list.  When one of them   *)
(* is gone by now the whole call fails, and fts_build, for which a readdir   *)
(* that returns nothing is the end of the directory, sees an empty one.      *)
ListKinds ==
  /\ at = "listed"
  /\ at' = "stat"
  /\ LET found(n) == Linked(Append(dirp.path, n))
     IN IF \A k \in DOMAIN todo : found(todo[k]) # None
          THEN /\ todo' = [k \in DOMAIN todo |-> <<todo[k], Kind[found(todo[k])]>>]
               /\ UNCHANGED dirp
          ELSE todo' = <<>> /\ dirp' = [dirp EXCEPT !.short = TRUE]
  /\ UNCHANGED <<entries, shut, data, moves, job, cwd, levels, built>>

(* fts_build makes a node of the next name.  In a directory it could not     *)
(* enter, every access path is that of the directory itself; without a need  *)
(* of stats only what may be a directory is statted.                         *)
MakeNode ==
  /\ at = "stat" /\ todo # <<>>
  /\ LET name == Head(todo)[1]
         isDir == Head(todo)[2] = "dir"
         plain == Node(<<name>>, IF StaysPut THEN CurPath \o <<name>> ELSE <<name>>)
         node ==
           IF dirp.err # ""
             THEN [plain EXCEPT !.acc = Cur.acc,
                                !.info = IF dirp.nlinks # 0 THEN "NS" ELSE "NSOK",
                                !.err = IF dirp.nlinks # 0 THEN dirp.err ELSE ""]
           ELSE IF dirp.nlinks = 0 \/ (Is("nostat") /\ ~Is("logical") /\ ~isDir)
             THEN [plain EXCEPT !.info = "NSOK"]
             ELSE FtsStat(plain, cwd, Is("logical"), Ancestors(Level))
     IN /\ built' = Append(built, node)
        /\ dirp' = [dirp EXCEPT
             !.nlinks = IF @ > 0 /\ dirp.err = "" /\ node.info \in {"D", "DC"}
                          THEN @ - 1 ELSE @]
  /\ todo' = Tail(todo)
  /\ UNCHANGED <<entries, shut, data, moves, job, cwd, levels, at>>

(* The list is complete: the first of it is the next node, or, of an empty   *)
(* directory, the directory itself, once the walk is back above it.          *)
Descend ==
  /\ at = "stat" /\ todo = <<>> /\ built # <<>>
  /\ levels' = Append(levels, built)
  /\ at' = "visit"
  /\ NoBuild /\ UNCHANGED <<entries, shut, data, moves, job, cwd>>

Stop == at' = "stopped" /\ UNCHANGED <<levels, cwd>>

LeaveEmpty ==
  /\ at = "stat" /\ todo = <<>> /\ built = <<>>
  /\ IF dirp.descend /\ ~BackOk(Level)
       THEN Stop
       ELSE /\ cwd' = IF dirp.descend THEN BackTo(Level) ELSE cwd
            /\ levels' = WithCur([Cur EXCEPT !.info = "DP"])
            /\ at' = "visit"
  /\ NoBuild /\ UNCHANGED <<entries, shut, data, moves, job>>

(* Behind a node that is no directory to enter: the next one of its list; an *)
(* operand is read from the start directory.                                 *)
NextNode ==
  /\ at = "read" /\ Cur.info # "D" /\ Len(levels[Level]) > 1
  /\ levels' = [levels EXCEPT ![Level] = Tail(@)]
  /\ cwd' = IF Level = 1 /\ ~StaysPut THEN <<>> ELSE cwd
  /\ at' = "visit"
  /\ NoBuild /\ UNCHANGED <<entries, shut, data, moves, job>>

(* Variant with a mistake: the directory above is entered even when the one  *)
(* below was not.                                                            *)
ClimbAlways ==
  /\ at = "read" /\ Cur.info # "D" /\ Len(levels[Level]) = 1 /\ Level > 1
  /\ LET p == ParentOfCur
     IN IF StaysPut \/ Level = 2 \/ CanOpen(Front(cwd))
          THEN /\ cwd' = IF StaysPut THEN cwd
                         ELSE IF Level = 2 THEN <<>> ELSE Front(cwd)
               /\ levels' = [SubSeq(levels, 1, Level - 1) EXCEPT ![Level - 1] =
                   <<[p EXCEPT !.info = IF p.err = "" THEN "DP" ELSE "ERR"]>> \o Tail(@)]
               /\ at' = "visit"
          ELSE Stop
  /\ NoBuild /\ UNCHANGED <<entries, shut, data, moves, job>>

(* Behind the last one: the directory they are in, in post-order, from the   *)
(* directory above it.                                                       *)
Climb ==
  /\ at = "read" /\ Cur.info # "D" /\ Len(levels[Level]) = 1 /\ Level > 1
  /\ LET p == ParentOfCur
         stay == p.dont /\ Level > 2
     IN IF stay \/ BackOk(Level - 1)
          THEN /\ cwd' = IF stay THEN cwd ELSE BackTo(Level - 1)
               /\ levels' = [SubSeq(levels, 1, Level - 1) EXCEPT ![Level - 1] =
                   <<[p EXCEPT !.info = IF p.err = "" THEN "DP" ELSE "ERR"]>> \o Tail(@)]
               /\ at' = "visit"
          ELSE Stop
  /\ NoBuild /\ UNCHANGED <<entries, shut, data, moves, job>>

(* Behind the last operand: the end; fts_close returns to the start.         *)
FtsEnd ==
  /\ at = "read" /\ Cur.info # "D" /\ Len(levels[Level]) = 1 /\ Level = 1
  /\ at' = "ended"
  /\ cwd' = IF StaysPut THEN cwd ELSE <<>>
  /\ NoBuild /\ UNCHANGED <<entries, shut, data, moves, job, levels>>

FtsRead ==
  \/ SkipDir \/ OpenDir \/ EnterDir \/ ListDir \/ ListKinds \/ MakeNode
  \/ Descend \/ LeaveEmpty \/ NextNode \/ Climb \/ FtsEnd

-----------------------------------------------------------------------------
(* Another process renames, removes or creates an entry.                     *)

Below(i) ==
  LET Deeper[k \in Nat] ==
        IF k = 0 THEN {i} ELSE {e[3] : e \in {x \in entries : x[1] \in Deeper[k - 1]}}
  IN UNION {Deeper[k] : k \in 0..3}

Busy == at \notin {"ended", "stopped"} /\ Cardinality(moves) < job.moves

Moves(from, to) == moves' = moves \cup {[from |-> from, to |-> to]}

OthersRename ==
  /\ Busy
  /\ \E e \in {x \in entries : x[3] \in job.moved}, n \in MovedNames :
     \E d \in ({x[3] : x \in entries} \cup {Top}) \ Below(e[3]) :
      /\ Kind[d] = "dir" /\ Dev[d] = Dev[e[1]]
      /\ ~\E x \in entries : x[1] = d /\ x[2] = n
      /\ entries' = (entries \ {e}) \cup {<<d, n, e[3]>>}
      /\ Moves(e, <<d, n, e[3]>>)
      /\ UNCHANGED <<shut, data, job, cwd, levels, at, dirp, todo, built>>

OthersRemove ==
  /\ Busy
  /\ \E e \in {x \in entries : x[3] \in job.moved} :
    /\ ~\E x \in entries : x[1] = e[3]
    /\ entries' = entries \ {e}
    /\ Moves(e, <<>>)
    /\ UNCHANGED <<shut, data, job, cwd, levels, at, dirp, todo, built>>

OthersCreate ==
  /\ Busy
  /\ \E i \in Spare \cap job.moved, n \in MovedNames, d \in {x[3] : x \in entries} \cup {Top} :
    /\ Kind[d] = "dir"
    /\ ~\E x \in entries : x[3] = i \/ (x[1] = d /\ x[2] = n)
    /\ entries' = entries \cup {<<d, n, i>>}
    /\ Moves(<<>>, <<d, n, i>>)
    /\ UNCHANGED <<shut, data, job, cwd, levels, at, dirp, todo, built>>

Others == OthersRename \/ OthersRemove \/ OthersCreate
=============================================================================
