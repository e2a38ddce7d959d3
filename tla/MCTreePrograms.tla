--------------------------- MODULE MCTreePrograms ---------------------------
(* A small tree for the programs of TreePrograms and what their results must *)
(* be:                                                                       *)
(*   a/        b/  with  g (the same file as a/f) and the empty directory e  *)
(*             f, and the link l to z                                        *)
(*   z/        x, and the link y to z itself                                 *)
(* z is on a device of its own.                                              *)
EXTENDS CopyPrograms

MCKind ==
  [i \in 1..25 |-> IF i \in {1, 2, 3, 6, 10} \cup 11..16 THEN "dir"
                   ELSE IF i \in {5, 8, 17, 18, 19} THEN "link" ELSE "file"]
MCData ==
  [i \in 1..25 |-> IF i \in {5, 8} THEN <<"z">> ELSE <<"text", ToString(i)>>]
MCDev == [i \in 1..25 |-> IF i \in {6, 7, 8, 11, 12, 13, 17, 20, 21} THEN 2 ELSE 1]
MCFirst ==
  {<<1, "a", 2>>, <<1, "z", 6>>, <<2, "b", 3>>, <<2, "f", 4>>, <<2, "l", 5>>,
   <<3, "g", 4>>, <<3, "e", 10>>, <<6, "x", 7>>, <<6, "y", 8>>}
MCOrders == {<<"a", "b", "e", "f", "g", "l", "n", "x", "y", "z">>,
             <<"z", "y", "x", "n", "l", "g", "f", "e", "b", "a">>}
MCBlocks == [i \in 1..25 |-> 2^i]
MCFresh == 11..25

Job(prog, roots, opts, flags) ==
  [prog |-> prog, roots |-> roots, opts |-> opts, flags |-> flags, moves |-> 0,
   moved |-> {}, shut |-> {}, shuts |-> FALSE, maxdepth |-> -1, mindepth |-> -1,
   prune |-> {}, target |-> <<>>]

(* With one change of another process, or with two by which one directory    *)
(* can take the place of another.                                            *)
Disturbed(j) ==
  {[j EXCEPT !.moves = 1, !.moved = {2, 3, 4, 9, 10}],
   [j EXCEPT !.moves = 2, !.moved = {3, 10}]}

A == << <<"a">> >>
AZ == << <<"a">>, <<"z">> >>

RmJobs ==
  {Job("rm", AZ, {}, {}), Job("rm", A, {"nostat"}, {"i"}),
   [Job("rm", A, {}, {}) EXCEPT !.shut = {10}]}
  \cup Disturbed(Job("rm", A, {}, {})) \cup Disturbed(Job("rm", A, {"nostat"}, {"f"}))
ChJobs ==
  {Job("chmod", A, {"comfollow"}, {"R"}), Job("chmod", A, {"logical"}, {"R"}),
   Job("chmod", AZ, {"comfollow"}, {}), Job("chmod", << <<"a", "l">> >>, {}, {"h"}),
   [Job("chmod", A, {}, {"R"}) EXCEPT !.shuts = TRUE],
   [Job("chmod", A, {}, {"R", "f"}) EXCEPT !.shut = {2, 3}],
   [Job("chown", A, {}, {"R"}) EXCEPT !.shut = {3}]}
  \cup Disturbed(Job("chmod", A, {}, {"R"})) \cup Disturbed(Job("chown", A, {}, {"R"}))
DuJobs ==
  {Job("du", A, {}, {}), Job("du", AZ, {}, {}), Job("du", AZ, {"logical"}, {}),
   Job("du", A, {"logical", "xdev"}, {}), [Job("du", A, {}, {}) EXCEPT !.shut = {3}]}
FindJobs ==
  {Job("find", AZ, {"nostat"}, {}), Job("find", A, {"nostat"}, {"d"}),
   Job("find", AZ, {"nostat", "logical"}, {}), Job("find", A, {"logical", "xdev"}, {"d"}),
   Job("find", << <<"a", "l">>, <<"z">> >>, {"comfollow"}, {}),
   Job("find", << <<>> >>, {"nostat"}, {}),
   [Job("find", A, {"nostat"}, {"race"}) EXCEPT !.shut = {10}],
   [Job("find", A, {"nostat"}, {}) EXCEPT !.prune = {"b"}]}
  \cup Disturbed(Job("find", A, {}, {"d", "delete", "race"}))
  \cup {[Job("find", A, {"nostat"}, fl) EXCEPT !.maxdepth = n, !.mindepth = m]
          : n \in {0, 1}, m \in {-1, 1}, fl \in {{}, {"d"}}}

Copies(prog, roots, opts, flags, target) ==
  [Job(prog, roots, opts, flags) EXCEPT !.target = target]
Cp(roots, more, flags, target) ==
  Copies("cp", roots, {"nochdir"} \cup more, flags, target)
Mv(roots, flags, target) == Copies("mv", roots, {}, flags, target)

F == << <<"a", "f">> >>
N == <<"n">>
Z == <<"z">>
X == <<"z", "x">>
CpJobs ==
  {Cp(F, {"logical"}, {"full"}, N), Cp(F, {"logical"}, {"full"}, Z),
   Cp(F, {"logical"}, {"i", "full"}, X), Cp(F, {"logical"}, {"f"}, X),
   Cp(<<X>>, {"logical"}, {}, F[1]), Cp(<<X>>, {"logical"}, {"f"}, F[1]),
   Cp(A, {}, {"R", "full"}, N), Cp(A, {}, {"R"}, Z), Cp(A, {"logical"}, {"R"}, N),
   Cp(<< <<"a", "l">> >>, {"comfollow"}, {"R"}, N), Cp(AZ, {}, {"R"}, N),
   Cp(AZ, {"logical"}, {"R"}, <<"a", "b">>), Cp(<<Z>>, {}, {"R", "i"}, <<"a">>),
   Cp(A, {"logical"}, {}, N), Cp(A, {}, {"R"}, F[1]),
   Cp(<<X>>, {"logical"}, {}, <<"a", "l">>), Cp(F, {"logical"}, {"f"}, <<"a", "b", "g">>),
   Cp(<< <<"z", "y">> >>, {}, {"R"}, F[1]), Cp(<< <<"z", "y">>, X>>, {}, {"R"}, <<"a", "b">>),
   Cp(<< <<"z", "y">>, <<"a", "l">> >>, {}, {"R"}, <<"a", "b">>),
   Cp(<< <<"a", "b">>, F[1]>>, {}, {"R", "full"}, Z)}
  \cup {[Cp(A, {}, {"R"}, N) EXCEPT !.shut = {i}] : i \in {3, 4, 10}}
MvJobs ==
  {Mv(F, {}, N), Mv(F, {"full"}, Z), Mv(A, {"full"}, Z), Mv(F, {"i", "full"}, X),
   Mv(<<X>>, {"tty"}, F[1]), Mv(<<X>>, {"f"}, F[1]), Mv(<< <<"a", "b">> >>, {}, <<"a", "b", "e">>),
   Mv(<< <<"a", "l">> >>, {}, Z), Mv(F, {}, <<"a", "b", "g">>),
   Mv(<< <<"z", "y">>, X>>, {"full"}, <<"a">>), Mv(<<X, F[1]>>, {}, N), Mv(A, {}, <<"a", "b">>),
   Mv(<<Z>>, {}, N), Mv(<< <<"a", "b">> >>, {}, F[1]), Mv(F, {}, <<"a", "l">>),
   Mv(<< <<"a", "b", "e">>, <<"a", "b">>, N>>, {}, <<"a">>),
   Mv(<< <<"a", "b">>, F[1]>>, {"full"}, Z)}
  \cup {[Mv(A, {}, Z) EXCEPT !.shut = {i}] : i \in {3, 4, 10}}
  \cup {[Mv(A, {}, Z) EXCEPT !.moves = 1, !.moved = {3, 4, 9, 10}]}

MCJobs == CpJobs \cup MvJobs \cup RmJobs \cup ChJobs \cup DuJobs \cup FindJobs

-----------------------------------------------------------------------------
(* Reference: the tree below an operand, read off the first entries.         *)

FirstChild(d, n) ==
  IF \E e \in FirstEntries : e[1] = d /\ e[2] = n
    THEN (CHOOSE e \in FirstEntries : e[1] = d /\ e[2] = n)[3] ELSE None
FirstDeref(i) ==
  IF i # None /\ Kind[i] = "link" THEN FoldLeft(FirstChild, Top, FirstData[i]) ELSE i
FirstAt(path) ==
  FoldLeft(LAMBDA d, n : FirstChild(FirstDeref(d), n), Top, path)

AllNames == {e[2] : e \in FirstEntries}

(* The paths of a walk from an operand: below directories only, through the  *)
(* links of directories when the walk is logical, never below a directory    *)
(* that is an ancestor of itself, not to another device when the walk is to  *)
(* stay on one, and not below what "stops" holds.                            *)
Roots == {job.roots[k] : k \in DOMAIN job.roots}
SeenAs(path) ==
  IF Is("logical") \/ (Is("comfollow") /\ path \in Roots)
    THEN FirstDeref(FirstAt(path)) ELSE FirstAt(path)
PathsAbove(path) == {SubSeq(path, 1, k) : k \in 0..Len(path) - 1}
Loops(path) == \E q \in PathsAbove(path) : q # <<>> /\ SeenAs(q) = SeenAs(path)

TreePaths(root, stops) ==
  LET Deeper[k \in Nat] ==
        IF k = 0 THEN {root}
        ELSE {q \in {Append(p, n) : p \in {x \in Deeper[k - 1] :
                /\ IsDir(SeenAs(x)) /\ ~Loops(x) /\ x \notin stops
                /\ ~(Is("xdev") /\ Dev[SeenAs(x)] # Dev[SeenAs(root)])}, n \in AllNames} :
                FirstAt(q) # None}
  IN UNION {Deeper[k] : k \in 0..4}

AllPaths == UNION {TreePaths(r, {}) : r \in Roots}

DepthOf(p) == Len(p) - Len(CHOOSE r \in Roots : IsPrefix(r, p))

Done == at = "exit"
Undisturbed == Done /\ moves = {}

-----------------------------------------------------------------------------
(* Whatever is renamed, removed or created while a walk is going on, the     *)
(* access path a program is given for a node names, from the directory the   *)
(* walk has gone to, the path the node is reported by - or, in a directory   *)
(* that could not be entered, that directory: what a program removes or      *)
(* changes is what it says it does.                                          *)
PathsAgree ==
  at = "visit" /\ ~Is("comfollow") =>
    \/ Path = CurPath
    \/ Level > 1 /\ ParentOfCur.dont /\ Path = FtsPath(Level - 1)

(* find prints every entry of the tree it is asked for exactly once, a       *)
(* directory before (with -depth: after) what is in it, nothing beyond the   *)
(* depth limits or below a pruned directory, operand by operand.             *)
FindRight ==
  Undisturbed /\ Prog("find") /\ out.status = 0 =>
    LET stops == {p \in AllPaths : p # <<>> /\ Last(p) \in job.prune}
        wanted == {p \in UNION {TreePaths(r, stops) : r \in Roots} \ stops :
                     /\ job.maxdepth = -1 \/ DepthOf(p) <= job.maxdepth
                     /\ DepthOf(p) >= job.mindepth}
        out1 == out.printed
    IN IF Deletes THEN entries = {e \in FirstEntries : e[1] \notin {2, 3} /\ e[2] # "a"}
       ELSE /\ ToSet(out1) = wanted /\ Len(out1) = Cardinality(wanted)
            /\ \A k, m \in DOMAIN out1 :
                 IsPrefix(out1[k], out1[m]) /\ k # m => (k < m <=> ~Depth)

(* The entries of the tree rm is to remove that it leaves: what was refused  *)
(* or cannot be read, all that is below it, and the directories above it.    *)
Unread == {p \in AllPaths : FirstAt(p) \in job.shut}
Kept ==
  {p \in AllPaths : \E r \in out.refused \cup Unread : IsPrefix(r, p) \/ IsPrefix(p, r)}

EntryOf(p) == <<FirstAt(Front(p)), Last(p), FirstAt(p)>>

RmRight ==
  Done /\ Prog("rm") =>
    /\ moves = {} =>
         /\ entries = FirstEntries \ {EntryOf(p) : p \in AllPaths \ Kept}
         /\ out.status = IF Unread = {} /\ Kept \ {p \in AllPaths : \E r \in out.refused : IsPrefix(r, p)}
                            = {} THEN 0 ELSE 1
    /\ out.status = 0 /\ out.refused = {} =>
         \A r \in Roots : Linked(r) = None
                          \/ \E m \in moves : m.to # <<>> /\ EntryAt(r) = {m.to}

(* chmod and chown: when they say they succeeded, every entry of the tree    *)
(* has been changed, and nothing else - but for what another process has     *)
(* moved in, and for what is below a directory it has taken something out    *)
(* of, whose listing may have failed without a word.                         *)
TakenFrom(p) ==
  \E m \in moves, q \in PathsAbove(p) :
    m.from # <<>> /\ SeenAs(q) = m.from[1]

ChRight ==
  Done /\ (Prog("chmod") \/ Prog("chown")) /\ out.status = 0 =>
    LET reached == IF Recurse THEN AllPaths ELSE Roots
    IN /\ \A p \in reached : TakenFrom(p) \/ SeenAs(p) \in out.touched
       /\ out.touched \subseteq {SeenAs(p) : p \in reached}
            \cup UNION {Below(m.to[3]) : m \in {x \in moves : x.to # <<>>}}

(* du counts every entry of the tree, but a file with several names once.    *)
Counted(p) ==
  \/ IsDir(SeenAs(p)) /\ ~Loops(p)
  \/ /\ ~IsDir(SeenAs(p))
     /\ Links(SeenAs(p)) = 1 \/ p = CHOOSE q \in AllPaths : SeenAs(q) = SeenAs(p)

DuRight ==
  Undisturbed /\ Prog("du") /\ out.status = 0 =>
    out.total = MapThenSumSet(LAMBDA p : Blocks[SeenAs(p)], {p \in AllPaths : Counted(p)})

(* Where cp and mv are to put what is at a path below an operand.            *)
Given == IF copying.k > 0 THEN copying.given ELSE job
Into == IsDir(FirstDeref(FirstAt(Given.target)))
PutAt(root, p) ==
  Given.target \o (IF Into THEN <<Last(root)>> ELSE <<>>)
               \o SubSeq(p, Len(root) + 1, Len(p))

GivenRoots == {Given.roots[k] : k \in DOMAIN Given.roots}
Sources == {x \in GivenRoots \X UNION {TreePaths(r, {}) : r \in GivenRoots} :
              IsPrefix(x[1], x[2]) /\ FirstAt(x[1]) # None}

(* The copy of what was at a path: a file or link with the same contents.    *)
IsCopy(i, c) ==
  c # None /\ Kind[c] = Kind[i] /\ (Kind[i] = "dir" \/ data[c] = FirstData[i])

(* cp: when it says it succeeded, everything it was to copy and was not told *)
(* to leave is there, and nothing else has changed.  And whatever goes wrong,*)
(* at every moment every entry and file is what it was, but for what is at a *)
(* target.                                                                   *)
Targets == {PutAt(x[1], x[2]) : x \in Sources}
FirstTargets == {FirstDeref(FirstAt(t)) : t \in Targets} \ {None}

CpRight ==
  Given.prog = "cp" =>
    /\ Done /\ out.status = 0 =>
         \A x \in Sources :
           LET t == PutAt(x[1], x[2])
           IN t \in out.refused
              \/ IsCopy(SeenAs(x[2]), IF Kind[SeenAs(x[2])] = "link" THEN Linked(t) ELSE Followed(t))
    /\ \A e \in FirstEntries : e \in entries \/ e \in {EntryOf(t) : t \in Targets}
    /\ \A e \in FirstEntries : data[e[3]] = FirstData[e[3]] \/ e[3] \in FirstTargets

(* mv: at every moment - so too if the program is killed - each file below   *)
(* the source is there, or complete at its new place; and when mv says it    *)
(* succeeded, everything is at the new place and nothing at the old one.     *)
(* Only the files of a directory another process has taken something out of  *)
(* may be lost: the copy may have taken a failed listing for its end.        *)
MvRight ==
  Given.prog = "mv" =>
    \A x \in Sources :
      LET i == FirstAt(x[2])
          there == Linked(PutAt(x[1], x[2]))
          declined == \E r \in out.refused : IsPrefix(r, x[2])
      IN /\ Kind[i] = "file" =>
              \/ EntryOf(x[2]) \in entries /\ data[i] = FirstData[i]
              \/ IsCopy(i, there)
              \/ TakenFrom(x[2])
         /\ Undisturbed /\ out.status = 0 /\ ~declined =>
              IsCopy(i, there) /\ (Linked(x[2]) = None \/ there = i)

(* What the programs that look say, what those that change leave, and what   *)
(* those that copy and move do, as the definitions above have it.            *)
ReportsRight == FindRight /\ DuRight
ChangesRight == RmRight /\ ChRight
CopiesRight == CpRight /\ MvRight
=============================================================================
