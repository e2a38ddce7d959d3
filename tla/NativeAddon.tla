------------------------------ MODULE NativeAddon ------------------------------
(***************************************************************************)
(* The native addon (core/posix-node/src/addon.c): what its functions take *)
(* from JavaScript, what they allocate, how they fail, and the state some  *)
(* of them keep: the terminal in raw mode and the signal that was seen.    *)
(* A JavaScript value is a record of what it is and, for an array, of its  *)
(* elements; what the operating system answers is chosen by the caller.    *)
(***************************************************************************)
EXTENDS Text

(* A call in progress.  blocks: what it allocated, "live" or "freed";      *)
(* fails: the allocations, by number, that malloc refuses; thrown, code:   *)
(* the pending exception and its code, an errno, Plain for none or Stale   *)
(* for the errno some earlier call left; asked: the system call was made;  *)
(* cleared: 0, 1 and 2 no longer close on exec; returned: what JavaScript  *)
(* gets.                                                                   *)
Plain == 0
Stale == 0 - 1
Begin(fails) ==
  [blocks |-> <<>>, fails |-> fails, count |-> 0, twice |-> FALSE, stopped |-> FALSE,
   thrown |-> FALSE, code |-> Plain, asked |-> FALSE, cleared |-> FALSE, returned |-> "undefined"]
(* throw_error, throw_errno: an exception that is pending is kept.         *)
Throw(c, code) == IF c.thrown THEN c ELSE [c EXCEPT !.thrown = TRUE, !.code = code]
Stop(c, code) == [Throw(c, code) EXCEPT !.stopped = TRUE]
HasBlock(c, b) == b \in DOMAIN c.blocks
Malloc(c, b) ==
  IF c.count + 1 \in c.fails THEN [c EXCEPT !.count = @ + 1]
  ELSE [c EXCEPT !.count = @ + 1, !.blocks = (b :> "live") @@ @]
Free(c, bs) ==
  [c EXCEPT !.twice = @ \/ \E b \in bs : HasBlock(c, b) /\ c.blocks[b] = "freed",
            !.blocks = [b \in DOMAIN @ |-> IF b \in bs THEN "freed" ELSE @[b]]]
Live(c) == {b \in DOMAIN c.blocks : c.blocks[b] = "live"}
OrThrow(c, b) == IF HasBlock(c, b) THEN c ELSE Throw(c, Plain)

-----------------------------------------------------------------------------
(* Arguments.  A step takes one: numbers, booleans and texts that go into  *)
(* a buffer end the call when they are not what they must be; a string or  *)
(* an array of strings that is copied is only found missing after all have *)
(* been read.  An array is read up to the first element that is no string, *)
(* and not at all under an exception; what was read then stays in it.      *)
Takes(kind) == [kind |-> kind, name |-> ""]
Copies(kind, name) == [kind |-> kind, name |-> name]
TypeFor(kind) ==
  CASE kind \in {"i32", "u32"} -> "number"
    [] kind = "i64" -> "bigint"
    [] kind = "bool" -> "boolean"
    [] kind = "buffer" -> "buffer"
    [] OTHER -> "string"
StringAlloc(c, arg, b) == IF arg.is # "string" THEN Throw(c, Plain) ELSE OrThrow(Malloc(c, b), b)
ArrayElement(c, name, of, i) == IF c.thrown THEN c ELSE StringAlloc(c, of[i], <<name, i>>)
ArrayElements(c, arg, name) ==
  IF ~HasBlock(c, <<name, 0>>) THEN Throw(c, Plain)
  ELSE FoldLeft(LAMBDA d, i : ArrayElement(d, name, arg.of, i), c, [i \in DOMAIN arg.of |-> i])
ArrayToStrings(c, arg, name) ==
  IF arg.is # "array" THEN Throw(c, Plain) ELSE ArrayElements(Malloc(c, <<name, 0>>), arg, name)
GetNumber(c, step, arg) == IF arg.is = TypeFor(step.kind) THEN c ELSE Stop(c, Plain)
GetBuffer(c, arg) == IF arg.is = "buffer" THEN c ELSE Stop(c, Stale)
Convert(c, step, arg) ==
  CASE c.stopped -> c
    [] step.kind = "strings" -> ArrayToStrings(c, arg, step.name)
    [] step.kind = "string" -> StringAlloc(c, arg, <<step.name, 0>>)
    [] step.kind = "buffer" -> GetBuffer(c, arg)
    [] OTHER -> GetNumber(c, step, arg)
(* get_args: too few arguments end the call, more are not looked at.       *)
Arguments(c, takes, args) ==
  IF Len(args) < Len(takes) THEN Stop(c, Plain)
  ELSE FoldLeft(LAMBDA d, i : Convert(d, takes[i], args[i]), c, [i \in DOMAIN takes |-> i])
Complete(c, takes) ==
  ~c.stopped /\ \A i \in DOMAIN takes : takes[i].name # "" => HasBlock(c, <<takes[i].name, 0>>)
(* get_string_buf: what fits into a buffer of size n with its NUL.         *)
GetStringBuf(s, n) == Upto(s, Smaller(Len(s), n - 1))

-----------------------------------------------------------------------------
(* A function: what it takes; how it fails: with the errno as the code,    *)
(* without a code, with its own code, by a value, or never; what it gives; *)
(* what it allocates for the answer, before the system is asked or after.  *)
Function(takes, fails, gives, before, after) ==
  [takes |-> takes, fails |-> fails, gives |-> gives, before |-> before, after |-> after, clears |-> FALSE]
Does(kinds) == Function([i \in DOMAIN kinds |-> Takes(kinds[i])], "errno", "undefined", "", "")
Gives(kinds) == [Does(kinds) EXCEPT !.gives = "result"]
CannotFail(kinds) == [Gives(kinds) EXCEPT !.fails = "never"]
FailsPlain(kinds) == [Gives(kinds) EXCEPT !.fails = "plain"]
GivesMinusOne(kinds) == [Gives(kinds) EXCEPT !.fails = "value"]
PathKinds == <<"text">>
Copied(takes) == Function(takes, "errno", "result", "", "")
ClearCloexec(f) == [f EXCEPT !.clears = TRUE]
WaitCalls == [wait |-> Gives(<<>>), wait3 |-> Gives(<<"i32">>), waitpid |-> Gives(<<"i32", "i32">>)]
IdentityCalls ==
  [chroot |-> Does(PathKinds), getegid |-> CannotFail(<<>>), geteuid |-> CannotFail(<<>>),
   gethostname |-> Gives(<<>>), getpgid |-> Gives(<<"i32">>), getpgrp |-> CannotFail(<<>>),
   getppid |-> CannotFail(<<>>), setegid |-> Does(<<"u32">>), seteuid |-> Does(<<"u32">>),
   sethostname |-> Does(PathKinds), setpgid |-> Does(<<"i32", "i32">>), setregid |-> Does(<<"u32", "u32">>),
   setreuid |-> Does(<<"u32", "u32">>), setsid |-> Gives(<<>>)]
ClockCalls ==
  [ttyname |-> Gives(<<"i32">>), alarm |-> CannotFail(<<"u32">>), sleep |-> CannotFail(<<"u32">>),
   usleep |-> GivesMinusOne(<<"u32">>)]
ExecCalls ==
  [execv |-> ClearCloexec(Copied(<<Copies("string", "path"), Copies("strings", "argv")>>)),
   execvp |-> ClearCloexec(Copied(<<Copies("string", "file"), Copies("strings", "argv")>>)),
   _execve |-> ClearCloexec(Copied(<<Copies("string", "path"), Copies("strings", "argv"), Copies("strings", "envp")>>)),
   _fexecve |-> Copied(<<Takes("i32"), Copies("strings", "argv"), Copies("strings", "envp")>>)]
ProcessCalls ==
  [fork |-> Gives(<<>>), close_event_loop |-> [Does(<<>>) EXCEPT !.fails = "plain"], pipe |-> Gives(<<>>),
   pipe2 |-> Gives(<<"i32">>), lockf |-> Does(<<"i32", "i32", "i64">>), pause |-> GivesMinusOne(<<>>)]
FileCalls ==
  [dup |-> Gives(<<"i32">>), dup2 |-> Gives(<<"i32", "i32">>), chdir |-> Does(PathKinds), getcwd |-> Gives(<<>>),
   getresuid |-> Gives(<<>>), getresgid |-> Gives(<<>>), setresuid |-> Does(<<"u32", "u32", "u32">>),
   setresgid |-> Does(<<"u32", "u32", "u32">>)]
InterfaceCalls ==
  [if_indextoname |-> FailsPlain(<<"u32">>), if_nametoindex |-> FailsPlain(PathKinds),
   if_nameindex |-> Function(<<>>, "errno", "result", "", "nameindex")]
NameCalls ==
  [gethostbyname |-> FailsPlain(PathKinds), gethostbyaddr |-> FailsPlain(PathKinds),
   gai_strerror |-> CannotFail(<<"i32">>), hstrerror |-> CannotFail(<<"i32">>),
   _getaddrinfo |-> Function(<<Copies("string", "node"), Copies("string", "service"),
                               Takes("i32"), Takes("i32"), Takes("i32"), Takes("i32")>>,
                             "code", "result", "", "addrinfo")]
SocketCalls ==
  [socket |-> Gives(<<"i32", "i32", "i32">>), _bind |-> Does(<<"i32", "i32", "i32", "buffer">>),
   _connect |-> Does(<<"i32", "i32", "i32", "buffer">>), getsockname |-> Gives(<<"i32">>),
   getpeername |-> Gives(<<"i32">>), recv |-> Gives(<<"i32", "buffer", "i32">>),
   send |-> Gives(<<"i32", "buffer", "i32">>)]
ConnectionCalls ==
  [shutdown |-> Does(<<"i32", "i32">>), listen |-> Does(<<"i32", "i32">>), accept |-> Gives(<<"i32">>),
   getsockopt |-> [Gives(<<"i32", "i32", "i32", "u32">>) EXCEPT !.before = "option"],
   setsockopt |-> Does(<<"i32", "i32", "i32", "buffer">>), pollSocket |-> Does(<<"i32", "i32", "i32">>)]
SystemCalls ==
  [login_tty |-> Does(<<"i32">>), _statvfs |-> [Gives(PathKinds) EXCEPT !.after = "json"],
   _fstatvfs |-> [Gives(<<"i32">>) EXCEPT !.after = "json"], ctermid |-> FailsPlain(<<>>),
   tcgetattr |-> Gives(<<"i32">>), fcntlSetFlags |-> Does(<<"i32", "i32">>), fcntlGetFlags |-> Gives(<<"i32">>)]
(* The table the module registers; the functions with more to them follow. *)
Exported ==
  WaitCalls @@ IdentityCalls @@ ClockCalls @@ ExecCalls @@ ProcessCalls @@ FileCalls @@ InterfaceCalls
    @@ NameCalls @@ SocketCalls @@ ConnectionCalls @@ SystemCalls

(* What follows the system call: its failure is thrown when what was       *)
(* copied has been freed, and its answer is made into an object.           *)
FreeAll(c) == Free(c, Live(c))
Failed(f, c, e) ==
  CASE f.fails \in {"errno", "code"} -> Throw(c, e)
    [] f.fails = "plain" -> Throw(c, Plain)
    [] f.fails = "value" -> [c EXCEPT !.returned = "-1"]
    [] f.fails = "never" -> [c EXCEPT !.returned = f.gives]
Answered(f, c) == [c EXCEPT !.returned = f.gives]
(* The lists of interfaces and addresses are the system's to allocate.     *)
Answer(f, c) ==
  CASE f.after = "" -> Answered(f, c)
    [] f.after = "json" -> (LET json == OrThrow(Malloc(c, <<"json", 0>>), <<"json", 0>>)
                            IN IF HasBlock(json, <<"json", 0>>) THEN Answered(f, FreeAll(json)) ELSE json)
    [] OTHER -> Answered(f, FreeAll([c EXCEPT !.blocks = (<<f.after, 0>> :> "live") @@ @]))
Asking(f, c) == FreeAll([c EXCEPT !.asked = TRUE, !.cleared = f.clears])
Ask(f, c, e) == IF e # 0 THEN Failed(f, Asking(f, c), e) ELSE Answer(f, Asking(f, c))
Perform(f, c, e) ==
  IF f.before = "" THEN Ask(f, c, e)
  ELSE LET Ready(m) == IF HasBlock(m, <<f.before, 0>>) THEN Ask(f, m, e) ELSE m
       IN Ready(OrThrow(Malloc(c, <<f.before, 0>>), <<f.before, 0>>))
CallWith(f, c, e) == IF Complete(c, f.takes) THEN Perform(f, c, e) ELSE FreeAll(c)
Invoke(f, args, e, fails) == CallWith(f, Arguments(Begin(fails), f.takes, args), e)

(* getgrouplist: n groups, and n2 when it is asked again with room for n;  *)
(* MaxGroups is 50 in the code.  The function sets no errno.               *)
MaxGroups == 2
GroupsAgain(c, n, n2) ==
  IF ~HasBlock(c, <<"larger", 0>>) THEN Throw(Free(c, {<<"groups", 0>>}), Plain)
  ELSE LET Second(d) == IF n2 > n THEN Throw(Free(d, {<<"larger", 0>>}), Stale)
                        ELSE [Free(d, {<<"larger", 0>>}) EXCEPT !.returned = "result"]
       IN Second(Free(c, {<<"groups", 0>>}))
GroupsFound(c, n, n2) ==
  CASE ~HasBlock(c, <<"groups", 0>>) -> Throw(c, Plain)
    [] n <= MaxGroups -> [Free(c, {<<"groups", 0>>}) EXCEPT !.returned = "result"]
    [] OTHER -> GroupsAgain(Malloc(c, <<"larger", 0>>), n, n2)
GetGroupList(args, n, n2, fails) ==
  LET Groups(c) == IF c.stopped THEN c ELSE GroupsFound(Malloc(c, <<"groups", 0>>), n, n2)
  IN Groups(Arguments(Begin(fails), <<Takes("text"), Takes("u32")>>, args))

(* fork_exec: an array of numbers is read like one of strings, into one    *)
(* block; under an exception the descriptors are all 0.  Nothing is freed  *)
(* when fork fails.                                                        *)
IntElement(c, arg, i) == IF c.thrown \/ arg.of[i].is = "number" THEN c ELSE Throw(c, Plain)
ArrayToI32(c, arg, name) ==
  IF arg.is # "array" THEN Throw(c, Plain)
  ELSE LET Elements(m) == IF ~HasBlock(m, <<name, 0>>) THEN Throw(m, Plain)
                          ELSE FoldLeft(LAMBDA d, i : IntElement(d, arg, i), m, [i \in DOMAIN arg.of |-> i])
       IN Elements(Malloc(c, <<name, 0>>))
ForkStrings == <<Copies("strings", "exec_array"), Copies("strings", "argv"), Copies("strings", "envp"),
                 Copies("string", "cwd"), Copies("string", "wasi_fd_info")>>
ForkTakes == ForkStrings \o <<Copies("numbers", "fds_to_keep"), Copies("numbers", "err_map")>>
ForkNumbers(c, args) == ArrayToI32(ArrayToI32(c, args[6], "fds_to_keep"), args[7], "err_map")
Forked(c, e) ==
  CASE ~Complete(c, ForkTakes) -> FreeAll(c)
    [] e # 0 -> Throw([c EXCEPT !.asked = TRUE], e)
    [] OTHER -> [FreeAll(c) EXCEPT !.asked = TRUE, !.returned = "result"]
ForkExecCall(args, e, fails) ==
  Forked(ForkNumbers(Arguments(Begin(fails), ForkStrings, Upto(args, 5)), args), e)

(* posix_spawn: each action and attribute is right, of the wrong type or   *)
(* refused by the C library; the library keeps the actions in a block,     *)
(* which the early returns do not destroy.                                 *)
FreePath(c) == Free(c, {<<"path", 0>>})
SpawnStep(c, a, block) ==
  CASE c.stopped -> c
    [] a # "right" -> Stop(FreePath(c), Plain)
    [] block = "" \/ HasBlock(c, <<block, 0>>) -> c
    [] OTHER -> [c EXCEPT !.blocks = (<<block, 0>> :> "live") @@ @]
SpawnSteps(c, steps, block) == FoldLeft(LAMBDA d, a : SpawnStep(d, a, block), c, steps)
SpawnLists == <<Copies("strings", "argv"), Copies("strings", "envp")>>
(* A list that is missing frees what was copied, the actions excepted.     *)
CopiedBlocks(c) == Live(c) \ {<<"actions", 0>>}
Spawned(c, e) ==
  CASE ~Complete(c, SpawnLists) -> Free(c, CopiedBlocks(c))
    [] e # 0 -> Throw([FreeAll(c) EXCEPT !.asked = TRUE], e)
    [] OTHER -> [FreeAll(c) EXCEPT !.asked = TRUE, !.returned = "result"]
SpawnFrom(c, args, e) == IF c.stopped THEN c ELSE Spawned(Arguments(c, SpawnLists, args), e)
PosixSpawnCall(path, actions, attrs, lists, e, fails) ==
  LET Path(c) == IF ~HasBlock(c, <<"path", 0>>) THEN c
                 ELSE SpawnFrom(SpawnSteps(SpawnSteps(c, actions, "actions"), attrs, ""), lists, e)
  IN Path(StringAlloc(Begin(fails), path, <<"path", 0>>))

-----------------------------------------------------------------------------
(* Standard input as a terminal.  stdin: "tty", "pipe" or "closed"; nonblock*)
(* and lflag are the system's, raw is raw_input_enabled; locale: one can   *)
(* be set.  A call gives the terminal after it and how it ends; a read     *)
(* waits for a line while ICANON is set.                                   *)
Outcome(t, ended) == [t |-> t, ended |-> ended]
Blocking(t) == [t EXCEPT !.nonblock = FALSE]
MakeStdinBlocking(t) == IF t.stdin = "closed" THEN Outcome(t, "throws") ELSE Outcome(Blocking(t), "returns")
Unbuffered(t) == [Blocking(t) EXCEPT !.lflag = @ \ {"ICANON"}]
EnableRawInput(t) ==
  CASE t.raw -> Outcome(t, "returns")
    [] t.stdin = "closed" -> Outcome(t, "throws")
    [] t.stdin # "tty" -> Outcome(Blocking(t), "throws")
    [] ~t.locale -> Outcome(Unbuffered(t), "throws")
    [] OTHER -> Outcome([Unbuffered(t) EXCEPT !.raw = TRUE], "returns")
SetLflag(t, lflag) == IF t.stdin # "tty" THEN Outcome(t, "throws") ELSE Outcome([t EXCEPT !.lflag = lflag], "returns")
SetEcho(t, enable) == SetLflag(t, IF enable THEN t.lflag \cup {"ECHO"} ELSE t.lflag \ {"ECHO"})
(* Nothing is typed yet: a read that may not wait is an end of input.      *)
GetChar(t) ==
  LET Read(r) ==
        CASE r.ended = "throws" -> r
          [] r.t.nonblock -> Outcome(r.t, "throws")
          [] "ICANON" \in r.t.lflag -> Outcome(r.t, "line")
          [] OTHER -> Outcome(r.t, "character")
  IN Read(EnableRawInput(t))
TerminalCall(t, c) ==
  CASE c.op = "makeStdinBlocking" -> MakeStdinBlocking(t)
    [] c.op = "enableRawInput" -> EnableRawInput(t)
    [] c.op = "setEcho" -> SetEcho(t, c.enable)
    [] c.op = "tcsetattr" -> SetLflag(t, c.lflag)
    [] c.op = "getChar" -> GetChar(t)
    [] c.op = "unblocked" -> Outcome([t EXCEPT !.nonblock = t.stdin # "closed"], "returns")

(* SIGINT: handle_sigint sets a flag, getSignalState reads and resets it,  *)
(* and a signal may come between the two.                                  *)
SignalStart == [watched |-> FALSE, state |-> FALSE, dead |-> FALSE, reads |-> <<>>]
HandleSigint(g) == IF g.watched THEN [g EXCEPT !.state = TRUE] ELSE [g EXCEPT !.dead = TRUE]
GetSignalState(g, between) ==
  LET Reset(h) == [h EXCEPT !.state = FALSE]
      Arrives(h) == IF between THEN HandleSigint(h) ELSE h
  IN Reset(Arrives([g EXCEPT !.reads = Append(@, g.state)]))
SignalEvent(g, ev) ==
  CASE g.dead -> g
    [] ev = "watch" -> [g EXCEPT !.watched = TRUE]
    [] ev = "signal" -> HandleSigint(g)
    [] ev = "read" -> GetSignalState(g, FALSE)
    [] ev = "read, signal" -> GetSignalState(g, TRUE)

-----------------------------------------------------------------------------
(* Socket addresses: a family and the bytes after it, in a storage of      *)
(* StorageLen bytes; what the system is told is cut at a length of its own.*)
StorageLen == 128
AfInet == 2
AfInet6 == 10
FillSockaddr(family, data) ==
  [family |-> family, bytes |-> [i \in 1 .. StorageLen - 2 |-> IF i <= Len(data) THEN data[i] ELSE 0]]
NativeSockaddrLen(family, supplied) == CASE family = AfInet -> 16 [] family = AfInet6 -> 28 [] OTHER -> supplied
SockaddrToObject(addr, len) ==
  [sa_len |-> len, sa_family |-> addr.family, sa_data |-> IF len > 2 THEN Upto(addr.bytes, len - 2) ELSE <<>>]
(* What bind and connect hand to the system.                               *)
Told(sa) == SockaddrToObject(FillSockaddr(sa.sa_family, sa.sa_data), NativeSockaddrLen(sa.sa_family, sa.sa_len))

(* A host: its addresses are turned into texts, one of no known family     *)
(* into an empty one.  inet_pton reads such a text back.                   *)
InetNtop(family, a) == IF family \in {AfInet, AfInet6} THEN <<family, a>> ELSE <<>>
CreateHostent(h) ==
  [h_name |-> h.name, h_addrtype |-> h.family, h_length |-> IF h.family = AfInet THEN 4 ELSE 16,
   h_aliases |-> h.aliases, h_addr_list |-> [i \in DOMAIN h.addrs |-> InetNtop(h.family, h.addrs[i])]]
CreateAddrinfo(a) == a.address @@ [ai_socktype |-> a.socktype, ai_addrlen |-> a.address.sa_len,
                                   ai_canonname |-> a.canonname]
(* gethostbyaddr decides the family by a colon in the text.                *)
AddrFamily(text) == IF \E i \in DOMAIN text : text[i] = ":" THEN AfInet6 ELSE AfInet
===============================================================================
