------------------------------- MODULE FindPlan -------------------------------
(***************************************************************************)
(* find: its arguments become a list of nodes (find-function.c), the list  *)
(* a plan (find.c, find-operator.c), and the plan is run on what fts_read  *)
(* returns.  An argument is a record of the primary or operator and its    *)
(* own argument, which for a number is the sequence of its characters.     *)
(***************************************************************************)
EXTENDS Text

CONSTANTS Commands,   \* the names that may follow -exec: a command fails on a set of files
          Agreed      \* the files the user agrees to when asked by -ok

Block == 2            \* FIND_SIZE, 512
Kilo == 4             \* a unit of -size
QuadMax == 31         \* the largest off_t
Minute == 3
Day == 6
ArgMax == 2           \* files in one run of -exec ... +: e_pnummax

DigitsInOrder == <<"0", "1", "2", "3", "4", "5", "6", "7", "8", "9">>
DigitOf(c) == SelectInSeq(DigitsInOrder, LAMBDA d : d = c) - 1
Sorry(i, G) == [G EXCEPT !.err = i]

-----------------------------------------------------------------------------
(* find_parsenum and find_parsetime, with strtoq.                          *)
Elg(s) == IF s = <<>> THEN "equal" ELSE IF Head(s) = "+" THEN "more" ELSE IF Head(s) = "-" THEN "less" ELSE "equal"
AfterElg(s) == IF Elg(s) = "equal" THEN s ELSE Tail(s)
NumberEnd(s) == FirstOf(Append(s, ""), {"", "+", "-", "s", "m", "d", "c", "k"})
Strtoq(s) == FoldLeft(LAMBDA n, c : 10 * n + DigitOf(c), 0, Upto(s, NumberEnd(s) - 1))
Rest(s) == From(s, NumberEnd(s))

BadNum == [bad |-> TRUE, elg |-> "equal", n |-> 0, end |-> ""]
ParseNum(s, endch) ==
  LET t == AfterElg(s)
  IN IF NumberEnd(t) = 1 \/ (Rest(t) # <<>> /\ ~endch) THEN BadNum
     ELSE [bad |-> FALSE, elg |-> Elg(s), n |-> Strtoq(t), end |-> IF Rest(t) = <<>> THEN "" ELSE Head(Rest(t))]

UnitSecs(c) == CASE c = "s" -> 1 [] c = "m" -> Minute [] c = "d" -> Day
RECURSIVE UnitsSum(_, _)
UnitsSum(t, secs) ==
  IF t = <<>> THEN secs
  ELSE IF NumberEnd(t) = 1 \/ Rest(t) = <<>> THEN -1
  ELSE IF Head(Rest(t)) \notin {"s", "m", "d"} THEN -1
  ELSE UnitsSum(Tail(Rest(t)), secs + Strtoq(t) * UnitSecs(Head(Rest(t))))
ParseTime(s) ==
  LET t == AfterElg(s)
      plain == NumberEnd(t) = Len(t) + 1 /\ t # <<>>
      secs == IF plain THEN Strtoq(t) ELSE UnitsSum(t, 0)
  IN [bad |-> t = <<>> \/ secs = -1, elg |-> Elg(s), n |-> secs, exact |-> ~plain]

(* COMPARE, and TIME_CORRECT.                                              *)
Holds(elg, a, b) == CASE elg = "equal" -> a = b [] elg = "less" -> a < b [] elg = "more" -> a > b
Corrected(elg, n) == IF elg = "less" THEN n + 1 ELSE n

-----------------------------------------------------------------------------
(* The c_ functions: a node, or none, and what they set for the whole run: *)
(* divsize too is one for all -size.                                       *)
Setup == [nodes |-> <<>>, isoutput |-> FALSE, isdepth |-> FALSE, nostat |-> TRUE, divsize |-> TRUE,
          maxdepth |-> -1, mindepth |-> -1, race |-> FALSE, execplus |-> <<>>, err |-> 0]
Node(kind, at) == [kind |-> kind, at |-> at]
Adds(G, node) == [G EXCEPT !.nodes = Append(@, node)]
Stats(G) == [G EXCEPT !.nostat = FALSE]

Number(G, x, i, p) ==
  IF p.bad THEN Sorry(i, G) ELSE Adds(G, Node(x.kind, i) @@ [elg |-> p.elg, n |-> p.n])
CXmin(G, x, i, p) ==
  IF p.bad THEN Sorry(i, G)
  ELSE Adds(Stats(G), Node("Xmin", i) @@ [time |-> x.time, elg |-> p.elg, n |-> Corrected(p.elg, p.n)])
CXtime(G, x, i, p) ==
  IF p.bad THEN Sorry(i, G)
  ELSE Adds(Stats(G), Node("Xtime", i) @@ [time |-> x.time, elg |-> p.elg, exact |-> p.exact,
                                           n |-> IF p.exact THEN p.n ELSE Corrected(p.elg, p.n)])
Scale(end) == IF end = "k" THEN Kilo ELSE 1
CSize(G, x, i, p) ==
  IF p.bad \/ p.end \notin {"", "c", "k"} THEN Sorry(i, G)
  ELSE IF p.end = "" THEN Adds(Stats(G), Node("size", i) @@ [elg |-> p.elg, n |-> p.n])
  ELSE IF p.n > QuadMax \div Scale(p.end) THEN Sorry(i, G)
  ELSE Adds([Stats(G) EXCEPT !.divsize = FALSE], Node("size", i) @@ [elg |-> p.elg, n |-> p.n * Scale(p.end)])
CDepth(G, x, i, p) ==
  IF p.bad THEN Sorry(i, G)
  ELSE IF x.kind = "maxdepth" THEN Adds([G EXCEPT !.maxdepth = p.n], Node("true", i))
  ELSE Adds([G EXCEPT !.mindepth = p.n], Node("true", i))
CLevel(G, x, i) ==
  IF x.arg = <<>> THEN Adds([G EXCEPT !.isdepth = TRUE], Node("true", i)) ELSE Number(G, x, i, ParseNum(x.arg, FALSE))
CExec(G, x, i) ==
  Adds([G EXCEPT !.isoutput = TRUE, !.execplus = IF x.plus THEN <<i>> \o @ ELSE @],
       Node("exec", i) @@ [plus |-> x.plus, ok |-> x.ok, command |-> x.command])

CUser(G, x, i) == Adds(Stats(G), x @@ Node("user", i))
CNewer(G, x, i) == Adds(Stats(G), x @@ Node("newer", i))
CPerm(G, x, i) == Adds(Stats(G), x @@ Node("perm", i))
CType(G, x, i) == Adds(IF x.type = "d" THEN G ELSE Stats(G), x @@ Node("type", i))
CIgnoreReaddirRace(G, i) == Adds([G EXCEPT !.race = TRUE], Node("true", i))
CPrint(G, i) == Adds([G EXCEPT !.isoutput = TRUE], Node("print", i))
CDelete(G, i) == Adds([Stats(G) EXCEPT !.isoutput = TRUE, !.isdepth = TRUE], Node("delete", i))

CreateNode(G, x, i) ==
  IF G.err # 0 THEN G
  ELSE CASE x.kind = "-a" -> G
         [] x.kind \in {"(", ")", "!", "-o", "true", "false", "prune", "quit", "name"} -> Adds(G, x @@ Node(x.kind, i))
         [] x.kind \in {"links", "inum"} -> Number(Stats(G), x, i, ParseNum(x.arg, FALSE))
         [] x.kind = "Xmin" -> CXmin(G, x, i, ParseNum(x.arg, FALSE))
         [] x.kind = "Xtime" -> CXtime(G, x, i, ParseTime(x.arg))
         [] x.kind = "size" -> CSize(G, x, i, ParseNum(x.arg, TRUE))
         [] x.kind \in {"maxdepth", "mindepth"} ->
              IF Elg(x.arg) = "less" THEN Sorry(i, G) ELSE CDepth(G, x, i, ParseNum(x.arg, FALSE))
         [] x.kind = "depth" -> CLevel(G, x, i)
         [] x.kind = "newer" -> CNewer(G, x, i)
         [] x.kind = "perm" -> CPerm(G, x, i)
         [] x.kind = "type" -> CType(G, x, i)
         [] x.kind = "user" -> CUser(G, x, i)
         [] x.kind = "empty" -> Adds(Stats(G), Node("empty", i))
         [] x.kind = "race" -> CIgnoreReaddirRace(G, i)
         [] x.kind = "print" -> CPrint(G, i)
         [] x.kind = "delete" -> CDelete(G, i)
         [] x.kind = "exec" -> CExec(G, x, i)

Created(args) == FoldLeftDomain(LAMBDA G, i : CreateNode(G, args[i], i), Setup, args)
WithPrint(nodes) ==
  IF nodes = <<>> THEN <<Node("print", 0)>>
  ELSE <<Node("(", 0)>> \o nodes \o <<Node(")", 0), Node("print", 0)>>

-----------------------------------------------------------------------------
(* find-operator.c.  A squish returns the plan so far, what is left of the *)
(* list, and whether it is an error.                                       *)
Wrong == [plan |-> <<>>, rest |-> <<>>, err |-> TRUE]
Squished(plan, rest) == [plan |-> plan, rest |-> rest, err |-> FALSE]

RECURSIVE ParenSquish(_, _, _), YankExpr(_, _)
(* Inside parentheses the list ends at ")", outside at its end.            *)
ParenSquish(list, plan, inside) ==
  IF list = <<>> THEN IF inside THEN Wrong ELSE Squished(plan, <<>>)
  ELSE IF Head(list).kind = ")"
    THEN IF inside /\ plan # <<>> THEN Squished(plan, Tail(list)) ELSE Wrong
  ELSE IF Head(list).kind = "(" THEN YankExpr(ParenSquish(Tail(list), <<>>, TRUE), [plan |-> plan, inside |-> inside])
  ELSE ParenSquish(Tail(list), Append(plan, Head(list)), inside)
YankExpr(sub, outer) ==
  IF sub.err THEN Wrong
  ELSE ParenSquish(sub.rest, Append(outer.plan, [kind |-> "expr", a |-> sub.plan]), outer.inside)

WrongNode == [kind |-> "wrong"]
NotsBefore(plan) ==
  CHOOSE n \in 0 .. Len(plan) : /\ \A j \in 1 .. n : plan[j].kind = "!"
                                /\ n < Len(plan) => plan[n + 1].kind # "!"
RECURSIVE NotSquish(_)
InExpr(node) == IF node.kind = "expr" THEN [node EXCEPT !.a = NotSquish(@)] ELSE node
Negation(n, node) == IF n % 2 = 1 THEN [kind |-> "not", a |-> <<node>>] ELSE node
NotSquish(plan) ==
  IF plan = <<>> THEN <<>>
  ELSE LET n == NotsBefore(plan)
       IN IF n = Len(plan) THEN <<WrongNode>>
          ELSE IF n > 0 /\ plan[n + 1].kind = "-o" THEN <<WrongNode>>
          ELSE <<Negation(n, InExpr(plan[n + 1]))>> \o NotSquish(From(plan, n + 2))

(* or_squish: what stands before "-o" and the rest become its two plans.   *)
RECURSIVE OrSquish(_)
Deeper(node) == IF node.kind \in {"expr", "not"} THEN [node EXCEPT !.a = OrSquish(@)] ELSE node
OrSquish(plan) ==
  LET k == SelectInSeq(plan, LAMBDA node : node.kind = "-o")
      before == IF k = 0 THEN plan ELSE Upto(plan, k - 1)
      here == [i \in DOMAIN before |-> Deeper(before[i])]
  IN IF k = 0 THEN here
     ELSE IF k = 1 \/ k = Len(plan) THEN <<WrongNode>>
     ELSE <<[kind |-> "or", a |-> here, b |-> OrSquish(From(plan, k + 1))]>>

RECURSIVE Sound(_)
Sound(plan) == \A i \in DOMAIN plan :
  /\ plan[i].kind # "wrong"
  /\ plan[i].kind \in {"expr", "not", "or"} => Sound(plan[i].a)
  /\ plan[i].kind = "or" => Sound(plan[i].b)

(* find_formplan.                                                          *)
PlanOf(paren) == IF paren.err THEN <<WrongNode>> ELSE OrSquish(NotSquish(paren.plan))
FormPlan(G) == PlanOf(ParenSquish(IF G.isoutput THEN G.nodes ELSE WithPrint(G.nodes), <<>>, FALSE))

-----------------------------------------------------------------------------
(* The f_ functions.  An entry e is what fts_read returned; the state of a *)
(* run has what was put out, the files collected for -exec ... +, what was *)
(* pruned, the exit status, and whether -quit ended it.                    *)
Run0 == [val |-> FALSE, out |-> <<>>, pending |-> [i \in 1 .. 9 |-> <<>>], skip |-> {}, status |-> 0, quit |-> FALSE]
Is(st, v) == [st EXCEPT !.val = v]
Puts(st, event) == [st EXCEPT !.out = Append(@, event)]

(* Without st_birthtime in struct stat a time of access is not looked at.  *)
TimeOf(e, time) == CASE time = "c" -> e.ctime [] time = "a" -> e.atime [] time = "m" -> e.mtime
NewerTime(e, time) == IF time = "c" THEN e.ctime ELSE e.mtime
RoundedUp(n, unit) == (IF n < 0 THEN -((-n) \div unit) ELSE n \div unit)

FXtime(e, x, now) ==
  LET since == now - TimeOf(e, x.time)
  IN Holds(x.elg, IF x.exact THEN since ELSE RoundedUp(since + Day - 1, Day), x.n)
FXmin(e, x, now) == Holds(x.elg, RoundedUp(now - TimeOf(e, x.time) + Minute - 1, Minute), x.n)
FSize(e, x, divsize) == Holds(x.elg, IF divsize THEN (e.size + Block - 1) \div Block ELSE e.size, x.n)
FPerm(e, x) == CASE x.how = "atleast" -> x.mode \subseteq e.mode
                 [] x.how = "any" -> x.mode \cap e.mode # {}
                 [] x.how = "exact" -> x.mode = e.mode
FEmpty(e) == IF e.type = "f" THEN e.size = 0 ELSE e.type = "d" /\ e.childless
FName(e, x) == e.path \in x.names
FNumber(x, n) == Holds(x.elg, n, x.n)
FType(e, x) == IF x.type = "d" THEN e.info \in {"D", "DC", "DNR", "DOT", "DP"} ELSE e.type = x.type

CommandFails(command, files) == files \cap Commands[command] # {}
RunPlus(st, x) ==
  [Puts(st, <<x.at, st.pending[x.at]>>) EXCEPT
     !.pending[x.at] = <<>>, !.val = TRUE,
     !.status = IF CommandFails(x.command, ToSet(st.pending[x.at])) THEN 1 ELSE @]
FExec(st, e, x) ==
  IF x.plus
    THEN LET more == [st EXCEPT !.pending[x.at] = Append(@, e.path), !.val = TRUE]
         IN IF Len(more.pending[x.at]) < ArgMax THEN more ELSE RunPlus(more, x)
  ELSE IF x.ok /\ e.path \notin Agreed THEN Is(st, FALSE)
  ELSE Is(Puts(st, <<x.at, <<e.path>>>>), ~CommandFails(x.command, {e.path}))
RECURSIVE PlusNodes(_)
PlusNodes(plan) ==
  UNION {IF plan[i].kind = "exec" THEN (IF plan[i].plus THEN {plan[i]} ELSE {})
         ELSE IF plan[i].kind = "or" THEN PlusNodes(plan[i].a) \cup PlusNodes(plan[i].b)
         ELSE IF plan[i].kind \in {"expr", "not"} THEN PlusNodes(plan[i].a) ELSE {} : i \in DOMAIN plan}

(* finish_execplus, the last one first.                                    *)
FinishExecplus(st, G, plan) ==
  FoldLeft(LAMBDA s, at : IF s.pending[at] = <<>> THEN s
                          ELSE RunPlus(s, CHOOSE x \in PlusNodes(plan) : x.at = at), st, G.execplus)

FPrint(st, e, x) == Is(Puts(st, <<x.at, <<e.path>>>>), TRUE)
FPrune(st, e) == Is([st EXCEPT !.skip = @ \cup {<<e.path, e.info>>}], TRUE)
FQuit(st, G, plan) == [FinishExecplus(st, G, plan) EXCEPT !.quit = TRUE]
ExecutePrimary(st, e, x, G, plan, now) ==
  CASE x.kind = "true" -> Is(st, TRUE)
    [] x.kind = "false" -> Is(st, FALSE)
    [] x.kind = "name" -> Is(st, FName(e, x))
    [] x.kind = "depth" -> Is(st, FNumber(x, e.level))
    [] x.kind = "links" -> Is(st, FNumber(x, e.nlink))
    [] x.kind = "inum" -> Is(st, FNumber(x, e.ino))
    [] x.kind = "Xmin" -> Is(st, FXmin(e, x, now))
    [] x.kind = "Xtime" -> Is(st, FXtime(e, x, now))
    [] x.kind = "size" -> Is(st, FSize(e, x, G.divsize))
    [] x.kind = "newer" -> Is(st, NewerTime(e, x.time) > x.than)
    [] x.kind = "perm" -> Is(st, FPerm(e, x))
    [] x.kind = "type" -> Is(st, FType(e, x))
    [] x.kind = "user" -> Is(st, FNumber(x, e.uid))
    [] x.kind = "empty" -> Is(st, FEmpty(e))
    [] x.kind = "prune" -> FPrune(st, e)
    [] x.kind \in {"print", "delete"} -> FPrint(st, e, x)
    [] x.kind = "exec" -> FExec(st, e, x)
    [] x.kind = "quit" -> FQuit(st, G, plan)

RECURSIVE RunNodes(_, _, _, _, _, _)
(* The lists in a node start from a state that is false.                   *)
FExpr(st, e, x, G, plan, now) == RunNodes(Is(st, FALSE), e, x.a, G, plan, now)
Inverted(r) == Is(r, ~r.val)
FNot(st, e, x, G, plan, now) == Inverted(FExpr(st, e, x, G, plan, now))
OrSecond(r, e, x, G, plan, now) == IF r.val \/ r.quit THEN r ELSE RunNodes(r, e, x.b, G, plan, now)
FOr(st, e, x, G, plan, now) == OrSecond(FExpr(st, e, x, G, plan, now), e, x, G, plan, now)
Execute(st, e, x, G, plan, now) ==
  CASE x.kind = "expr" -> FExpr(st, e, x, G, plan, now)
    [] x.kind = "not" -> FNot(st, e, x, G, plan, now)
    [] x.kind = "or" -> FOr(st, e, x, G, plan, now)
    [] OTHER -> ExecutePrimary(st, e, x, G, plan, now)
RunNodes(st, e, nodes, G, plan, now) ==
  IF nodes = <<>> \/ st.quit THEN st
  ELSE LET r == Execute(st, e, Head(nodes), G, plan, now)
       IN IF r.val THEN RunNodes(r, e, Tail(nodes), G, plan, now) ELSE r

-----------------------------------------------------------------------------
(* find_execute: what is done about an entry before the plan is run.       *)
Below(path, dir) == Len(path) > Len(dir) /\ Upto(path, Len(dir)) = dir
Skipped(st, e) == \E d \in st.skip : d[2] = "D" /\ Below(e.path, d[1])
AtDepth(st, e, G) ==
  IF G.maxdepth # -1 /\ e.level >= G.maxdepth THEN [st EXCEPT !.skip = @ \cup {<<e.path, e.info>>}] ELSE st
PassedOver(e, G) ==
  \/ e.info = "D" /\ G.isdepth
  \/ e.info = "DP" /\ ~G.isdepth
  \/ e.info \in {"DNR", "NS"} /\ G.race /\ e.gone /\ e.level > 0
Visit(st, e, G, plan, now) ==
  IF st.quit \/ Skipped(st, e) THEN st
  ELSE LET s == AtDepth(st, e, G)
       IN IF PassedOver(e, G) THEN s
          ELSE IF e.info \in {"DNR", "NS", "ERR"} THEN [s EXCEPT !.status = 1]
          ELSE IF G.mindepth # -1 /\ e.level < G.mindepth THEN s
          ELSE RunNodes(s, e, plan, G, plan, now)

(* With FTS_NOSTAT only directories have been asked for their attributes.  *)
Unknown == [mtime |-> -1, atime |-> -1, ctime |-> -1, size |-> -1, nlink |-> -1, ino |-> -1, mode |-> {"?"},
            uid |-> -1, type |-> "?"]
Statted(e, G) == IF G.nostat /\ e.info \in {"F", "SL"} THEN Unknown @@ [e EXCEPT !.info = "NSOK"] ELSE e
FindExecute(entries, G, plan, now) ==
  LET st == FoldLeft(LAMBDA s, e : Visit(s, Statted(e, G), G, plan, now), Run0, entries)
  IN IF st.quit THEN st ELSE FinishExecplus(st, G, plan)
FindMain(entries, G, plan, now) ==
  IF G.err # 0 \/ ~Sound(plan) THEN [Run0 EXCEPT !.status = 1] ELSE FindExecute(entries, G, plan, now)
Find(args, entries, now) ==
  FindMain(entries, Created(args), IF Created(args).err = 0 THEN FormPlan(Created(args)) ELSE <<>>, now)
=============================================================================
