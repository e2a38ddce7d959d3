-------------------------------- MODULE MCHost --------------------------------
(***************************************************************************)
(* The native addon and the calls built on it, with right and wrong        *)
(* arguments, every errno of the host and memory that runs out; native     *)
(* children of every small parent: which of 0, 1 and 2 are closed, what    *)
(* each stream of the child is to be, what is kept, where it fails.        *)
(***************************************************************************)
EXTENDS ProgramCalls, HostCalls

-----------------------------------------------------------------------------
(* Arguments with one defect at place p: a value of another type, an array *)
(* with such an element, or the argument and those after it left out.      *)
Text0 == [is |-> "string", of |-> <<>>]
ArgFor(kind) ==
  CASE kind = "strings" -> [is |-> "array", of |-> <<Text0, Text0>>]
    [] kind = "numbers" -> [is |-> "array", of |-> <<JsValue("number"), JsValue("number")>>]
    [] OTHER -> JsValue(TypeFor(kind))
BadFor(kind, defect) ==
  IF defect = "element" /\ kind \in {"strings", "numbers"}
  THEN [is |-> "array", of |-> <<ArgFor(kind).of[1], JsValue("null")>>] ELSE JsValue("null")
ArgsFor(takes, p, defect) ==
  LET args == [i \in DOMAIN takes |-> IF i = p THEN BadFor(takes[i].kind, defect) ELSE ArgFor(takes[i].kind)]
  IN IF p > 0 /\ defect = "short" THEN Upto(args, p - 1) ELSE args
Refused == {{}, {1}, {2}, {3}, {4}, {5}, {7}}
CallAddon == Idle("host") /\ \E f \in DOMAIN Exported, p \in 0 .. 6, defect \in {"kind", "element", "short"},
    e \in {0, 2, 64}, fails \in Refused :
  /\ p <= Len(Exported[f].takes)
  /\ p = 0 => defect = "kind"
  /\ Runs([prog |-> "addon", f |-> f, p |-> p, defect |-> defect, e |-> e, fails |-> fails],
          Invoke(Exported[f], ArgsFor(Exported[f].takes, p, defect), e, fails))
(* Every failure ends in one exception, which says what went wrong and not *)
(* what came later; the system is asked only when all that it needs was    *)
(* copied; all memory is freed, once.  A list whose elements are not all   *)
(* strings is used up to there, and the exception comes all the same.      *)
Reads(f, i) == f.takes[i].kind
Partial(f, p, defect) == p > 0 /\ defect = "element" /\ Reads(f, p) = "strings"
AllocatesText(f) == \E i \in DOMAIN f.takes : f.takes[i].name # ""
AddonRight(f, p, defect, e, fails, c) ==
  LET starved == c.count > 0 /\ \E k \in fails : k <= c.count
      bad == p > 0
  IN /\ Live(c) = {} /\ ~c.twice
     /\ bad \/ starved => c.thrown
     /\ bad /\ ~Partial(f, p, defect) => ~c.asked
     /\ ~bad /\ ~starved => c.asked /\ (c.thrown <=> e # 0 /\ f.fails \in {"errno", "code", "plain"})
     /\ c.thrown => c.returned \in {"undefined", f.gives} /\ (c.returned # "undefined" => bad \/ starved)
     /\ ~bad /\ ~starved /\ e # 0 /\ f.fails \in {"errno", "code"} => c.code = e
     /\ bad \/ starved => c.code \in {Plain, Stale} /\ (c.code = Stale => Reads(f, p) = "buffer" /\ defect # "short")
     /\ c.cleared => c.asked

GroupsOf == Idle("host") /\ \E n, n2 \in 0 .. 4, fails \in SUBSET {1, 2} :
  Runs([prog |-> "groups", n |-> n, n2 |-> n2, fails |-> fails], GetGroupList(<<Text0, JsValue("number")>>, n, n2, fails))
GroupsRight(n, n2, fails, c) ==
  /\ Live(c) = {} /\ ~c.twice
  /\ c.thrown <=> 1 \in fails \/ (n > MaxGroups /\ (2 \in fails \/ n2 > n))
  /\ ~c.thrown => c.returned = "result"

ForkNative == Idle("host") /\ \E p \in 0 .. 7, defect \in {"kind", "element"}, e \in {0, 11}, fails \in SUBSET (1 .. 10) :
  /\ Cardinality(fails) < 3
  /\ p = 0 => defect = "kind"
  /\ Runs([prog |-> "fork_exec", p |-> p, defect |-> defect, e |-> e, fails |-> fails],
          ForkExecCall(ArgsFor(ForkTakes, p, defect), e, fails))
(* As above, but nothing is freed when fork fails, and a partial list is   *)
(* enough for a child, whose start then still ends in an exception.        *)
ForkNativeRight(p, defect, e, fails, c) ==
  /\ ~c.twice
  /\ Live(c) # {} => e # 0 /\ c.asked
  /\ p > 0 \/ (\E k \in fails : k <= c.count) => c.thrown
  /\ c.asked /\ p > 0 => defect = "element"
  /\ c.thrown /\ c.code # Plain => c.code = e

SpawnNative == Idle("host") /\ \E path \in {"string", "null"}, actions, attrs \in {<<>>, <<"right">>, <<"right", "wrong">>},
    p \in 0 .. 2, defect \in {"kind", "element"}, e \in {0, 2}, fails \in SUBSET (1 .. 5) :
  /\ p = 0 => defect = "kind"
  /\ Runs([prog |-> "posix_spawn", path |-> path, actions |-> actions, attrs |-> attrs, p |-> p, defect |-> defect,
           e |-> e, fails |-> fails],
          PosixSpawnCall(JsValue(path), actions, attrs, ArgsFor(SpawnLists, p, defect), e, fails))
(* Here only the actions the C library keeps are left, when the call ends  *)
(* before the system is asked.                                             *)
SpawnNativeRight(x, c) ==
  LET refused == "wrong" \in ToSet(x.actions \o x.attrs) \/ x.path # "string"
  IN /\ ~c.twice
     /\ Live(c) \subseteq {<<"actions", 0>>} /\ (Live(c) # {} => ~c.asked /\ c.thrown)
     /\ refused => c.thrown /\ ~c.asked
     /\ x.p > 0 \/ x.e # 0 \/ (\E k \in x.fails : k <= c.count) => c.thrown
     /\ ~refused /\ x.p = 0 /\ x.e = 0 /\ ~c.thrown => c.returned = "result"
NativeRight ==
  CASE call.prog = "addon" -> AddonRight(Exported[call.f], call.p, call.defect, call.e, call.fails, result)
    [] call.prog = "groups" -> GroupsRight(call.n, call.n2, call.fails, result)
    [] call.prog = "fork_exec" -> ForkNativeRight(call.p, call.defect, call.e, call.fails, result)
    [] call.prog = "posix_spawn" -> SpawnNativeRight(call, result)
    [] OTHER -> TRUE

-----------------------------------------------------------------------------
(* Every sequence of up to three calls on a terminal, a pipe or nothing.   *)
TerminalCalls ==
  {[op |-> o] : o \in {"makeStdinBlocking", "enableRawInput", "getChar", "unblocked"}}
    \cup {[op |-> "setEcho", enable |-> b] : b \in BOOLEAN}
    \cup {[op |-> "tcsetattr", lflag |-> l] : l \in {{}, {"ICANON", "ECHO"}}}
TerminalsAfter(t, calls) ==
  FoldLeft(LAMBDA s, c : Append(s, TerminalCall(Last(s).t, c)), <<Outcome(t, "returns")>>, calls)
UseTerminal == Idle("host") /\ \E n \in 1 .. 3 : \E calls \in [1 .. n -> TerminalCalls],
    stdin \in {"tty", "pipe", "closed"}, nonblock, locale \in BOOLEAN :
  LET t == [stdin |-> stdin, nonblock |-> nonblock, lflag |-> {"ICANON", "ECHO"}, raw |-> FALSE, locale |-> locale]
  IN Runs([prog |-> "terminal", t |-> t, calls |-> calls], TerminalsAfter(t, calls))
(* A character is read without its line and without being changed by what  *)
(* was echoed; only a tcsetattr after raw mode was set makes a read wait   *)
(* for a line again, and only an O_NONBLOCK set after it ends one early.   *)
SetsCanonical(c) == c.op = "tcsetattr" /\ c.lflag # {}
RawBefore(r, k) == {j \in 1 .. k : r[j].t.raw}
TerminalRight(t, calls, r) ==
  \A k \in DOMAIN calls : calls[k].op = "getChar" =>
    /\ r[k + 1].ended \in {"character", "line"} => t.stdin = "tty" /\ t.locale
    /\ r[k + 1].ended = "line" => \E j \in RawBefore(r, k) : \E i \in j .. k - 1 : SetsCanonical(calls[i])
    /\ r[k + 1].ended = "throws" /\ t.stdin = "tty" /\ t.locale =>
         \E j \in RawBefore(r, k) : \E i \in j .. k - 1 : calls[i].op = "unblocked"
    /\ "ECHO" \in r[k + 1].t.lflag <=> "ECHO" \in r[k].t.lflag

Signals == Idle("host") /\ \E n \in 1 .. 6 : \E events \in [1 .. n -> {"watch", "signal", "read", "read, signal"}] :
  Runs([prog |-> "signals", events |-> events], FoldLeft(SignalEvent, SignalStart, events))
(* A signal that is watched for is read once, by the next read, unless it  *)
(* comes between a read and its reset.                                     *)
ReadsIn(ev) == SelectSeq([i \in DOMAIN ev |-> i], LAMBDA i : ev[i] \in {"read", "read, signal"})
SignalRight(ev, g) ==
  LET watched == SelectInSeq(ev, LAMBDA e : e = "watch")
      comes == {i \in DOMAIN ev : ev[i] \in {"signal", "read, signal"}}
  IN /\ g.dead <=> \E i \in comes : watched = 0 \/ i < watched
     /\ ~g.dead => /\ Len(g.reads) = Len(ReadsIn(ev))
                   /\ \A k \in DOMAIN g.reads :
                        LET before == IF k = 1 THEN 0 ELSE ReadsIn(ev)[k - 1]
                        IN g.reads[k] <=> \E i \in before + 1 .. ReadsIn(ev)[k] - 1 : ev[i] = "signal"

-----------------------------------------------------------------------------
(* Every call of the guest, with every errno of the host.                  *)
CallHost == Idle("host") /\ \E w \in DOMAIN Wrappers, open \in BOOLEAN, host \in 0 .. 133, errno \in {0, 6}, stale \in {4} :
  Runs([prog |-> "posix", w |-> w, open |-> open, host |-> host, errno |-> errno, stale |-> stale],
       Posix(Wrappers[w], open, host, errno, stale))
(* The errno the guest sees has the name of the host's, and one that one   *)
(* of them has not leaves the old one (64 is ENONET, but also ECHONL); a   *)
(* success leaves it too.  setreuid and setregid always fail, for they     *)
(* pass one argument of two; a descriptor the guest has not is never taken *)
(* for one of the host, but by ttyname, which does not translate it.       *)
OnDescriptors ==
  {"fexecve", "lockf", "bind", "connect", "getsockname", "getpeername", "recv", "send", "shutdown", "listen", "accept",
   "getsockopt", "setsockopt", "pollSocket", "login_tty", "fstatvfs", "tcgetattr"}
Errnos0 == ToSet(SubSeq(SocketErrnos, 11, Len(SocketErrnos)) \o FileErrnos)
Echonl == 64
Translated(host) == {GuestErrnos[p[1]] : p \in {p \in Errnos0 : p[2] = host /\ p[1] \in DOMAIN GuestErrnos}}
ErrnoAfter(host, errno) ==
  IF Translated(host) # {} THEN Translated(host) ELSE IF host = Echonl THEN {Echonl} ELSE {errno}
PosixRight(name, open, host, errno, r) ==
  LET w == Wrappers[name]
      f == Exported[w.addon]
      unknown == ~open /\ name \in OnDescriptors
      short == name \in {"setreuid", "setregid"}
      asked == IF unknown /\ w.fd = "minus one" THEN Ebadf ELSE host
      fails == unknown \/ short \/ (asked # 0 /\ f.fails \in {"errno", "code", "plain"})
      coded == ~short /\ ~(unknown /\ w.fd = "open") /\ f.fails = "errno"
  IN /\ fails <=> r.ret \in {"0", "-1", "number"} /\ (r.ret = w.bad \/ r.ret = "number") /\ ~(f.fails = "value")
     /\ ~fails \/ ~coded => r.errno = errno
     /\ fails /\ coded => r.errno \in ErrnoAfter(asked, errno)

(* Types of sockets, and the families and ends of a connection.            *)
SocketTypes == Idle("host") /\ \E bits \in SUBSET {0, 1, 2, 3, 13}, native \in SUBSET {0, 1, 2, 19} :
  Runs([prog |-> "sockets", bits |-> bits, native |-> native],
       [socket |-> Socket(bits), back |-> NativeToWasmSocktype(native)])
(* A stream is a stream on both sides, with or without its flag; a         *)
(* datagram's type shares a bit with it and comes out as both, which is    *)
(* the host's type of raw sockets; what is left over is refused.           *)
Raw == NativeSock.SOCK_STREAM \cup NativeSock.SOCK_DGRAM
SocketsRight(bits, native, r) ==
  /\ bits \ {13} = GuestSock.SOCK_STREAM => r.socket.native = [left |-> {}, got |-> NativeSock.SOCK_STREAM]
  /\ bits \ {13} = GuestSock.SOCK_DGRAM => r.socket.native = [left |-> {}, got |-> Raw]
  /\ r.socket.native.left = {} => bits \subseteq {0, 1, 2, 13}
  /\ r.socket.inheritable <=> 13 \notin bits
  /\ native \subseteq NativeSock.SOCK_STREAM \cup NativeSock.SOCK_CLOEXEC =>
       WasmToNativeSocktype(r.back.got) = [left |-> {}, got |-> native] /\ r.back.left = {}
  /\ r.back.left = {} <=> 2 \notin native

(* An address goes to the host and comes back into the guest's memory.     *)
Addresses == Idle("host") /\ \E family \in 0 .. 3, len \in 2 .. 8, told \in 2 .. 8 :
  LET mem == [family |-> family, data |-> <<11, 12, 13, 14, 15, 16, 17, 18, 19>>]
      sa == GetSockaddr(mem, len)
  IN Runs([prog |-> "address", mem |-> mem, len |-> len, told |-> told],
          [sa |-> sa, told |-> Told(sa),
           back |-> SendSockaddr([family |-> 0, data |-> [i \in 1 .. 9 |-> 99]],
                                 SockaddrToObject(FillSockaddr(sa.sa_family, sa.sa_data), told))])
(* The host is told the address as the guest has it, whole; what comes     *)
(* back has it too, but the two bytes after it are overwritten.            *)
AddressRight(mem, len, told, r) ==
  mem.family \in {1, 2} =>
    /\ r.told.sa_family = IF mem.family = 1 THEN AfInet ELSE AfInet6
    /\ Upto(r.told.sa_data, len - 2) = Upto(mem.data, len - 2)
    /\ \A i \in len - 1 .. Len(r.told.sa_data) : r.told.sa_data[i] = 0
    /\ r.back.family = mem.family
    /\ \A i \in 1 .. 9 : r.back.data[i] =
         IF i > told THEN 99 ELSE IF i <= told - 2 /\ i <= len - 2 THEN mem.data[i] ELSE 0

-----------------------------------------------------------------------------
(* The lists the guest gets, with allocation k refused (0: none).          *)
Hosts == Idle("host") /\ \E family \in {AfInet, AfInet6, 1}, aliases, n \in 0 .. 2, k \in 0 .. 13 :
  LET native == CreateHostent([name |-> "h", family |-> family, aliases |-> [i \in 1 .. aliases |-> "a"],
                               addrs |-> [i \in 1 .. n |-> i]])
      guest == [native EXCEPT !.h_addrtype = NativeToWasmFamily(family),
                              !.h_addr_list = [i \in 1 .. n |-> IF native.h_addr_list[i] = <<>> THEN <<>>
                                                 ELSE <<NativeToWasmFamily(family), native.h_addr_list[i][2]>>]]
  IN Runs([prog |-> "hosts", family |-> family, aliases |-> aliases, n |-> n, k |-> k], HostentFor(guest, {k}))
(* The addresses come as they were, the texts they came in are freed, once,*)
(* and what the guest can reach is all that is left; a call that runs out  *)
(* of memory gives no host.                                                *)
HostsRight(x, r) ==
  LET starved == x.k > 0 /\ x.k <= r.c.count
      kept == {<<"name", 0>>, <<"hostent", 0>>} \cup {<<"aliases", i>> : i \in 0 .. x.aliases}
                \cup {<<"binary", i>> : i \in 0 .. x.n}
  IN /\ ~r.c.twice
     /\ r.ptr # Null <=> ~starved /\ (x.family # 1 \/ x.n = 0)
     /\ r.ptr # Null => Live(r.c) = kept /\ r.addrs = [i \in 1 .. x.n |-> <<i>>]
     /\ \A b \in DOMAIN r.c.blocks : r.c.blocks[b] = "freed" => b[1] \in {"texts", "hostent"}

Lists == Idle("host") /\ \E n \in 1 .. 3, k \in 0 .. 9 : \E named \in [1 .. n -> BOOLEAN], ni \in [1 .. n -> 0 .. 2] :
  LET built == AddrinfoList(named, {k})
      names == NameIndexArray(ni, {k})
  IN Runs([prog |-> "lists", named |-> named, ni |-> ni, k |-> k],
          [built |-> built, freed |-> FreeAddrinfo(built, 1, n), names |-> names, gone |-> FreeNameIndexArray(names, ni)])
(* Freeing a list frees all of it and nothing twice; so it is for the list *)
(* of interfaces, none of which has number 0.                              *)
ListsRight(named, ni, k, r) ==
  /\ ~r.freed.twice /\ (~r.built.thrown => Live(r.freed) = {})
  /\ r.built.thrown <=> k > 0 /\ k <= 2 * Len(named) + Cardinality({i \in DOMAIN named : named[i]})
  /\ ~r.gone.twice /\ (~r.names.thrown /\ (\A i \in DOMAIN ni : ni[i] # 0) => Live(r.gone) = {})

Terminals == Idle("host") /\ \E native, asked \in SUBSET {0, 4, 5, 6, 7}, speed \in SUBSET {0, 4, 12} :
  Runs([prog |-> "termios", native |-> native, asked |-> asked, speed |-> speed],
       [word |-> Tcsetattr(native, asked), out |-> Cfsetospeed(asked, speed), in |-> Cfsetispeed(asked, speed)])
(* What the host's terminal becomes is what the guest asked for, and what  *)
(* it does not name is kept.  A size of 6 or 7 bits is read as 8 and comes *)
(* out as 8 of a terminal that had them.                                   *)
TerminalsRight(native, asked, speed, r) ==
  LET keptSize == native \cap {4, 5} # {} /\ asked \cap {4, 5} # {}
  IN /\ r.word \cap {6, 7} = asked \cap {6, 7} /\ r.word \cap {0} = native \cap {0}
     /\ native \cap {4, 5} = {} => r.word \cap {4, 5} = IF asked \cap {4, 5} = {} THEN {} ELSE {4, 5}
     /\ asked \cap {4, 5} = {} => r.word \cap {4, 5} = {}
     /\ NativeToWasi(native) = asked => r.word = native
     /\ r.out.ret = "EINVAL" <=> ~(speed \subseteq Cbaud)
     /\ r.out.ret = "0" => Cfgetispeed(r.out.word) = speed /\ r.out.word \ Cbaud = asked \ Cbaud
     /\ r.in = IF speed = {} THEN [word |-> asked, ret |-> "0"] ELSE r.out

(* Strings, counts and the text of the constants.                          *)
Copies0 == Idle("host") /\ \E n \in 0 .. 4, size \in 0 .. 5, value \in 0 .. 70 :
  \E digits \in [1 .. n -> {1, 11}] :
    Runs([prog |-> "copies", n |-> n, size |-> size, value |-> value, digits |-> digits],
         [vis |-> Strnvis(Repeat(7, n), size), statvfs |-> SetStatvfs([f_bsize |-> value, f_blocks |-> value], 5),
          json |-> JsonSize([i \in 1 .. n |-> 4]), printed |-> Printed([i \in 1 .. n |-> 4], digits)])
(* No more is written than there is room for, and the length tells whether *)
(* it was cut; a block size beyond 32 bits (5 here) loses its top.         *)
CopiesRight(x, r) ==
  /\ Len(r.vis.dst) <= x.size /\ (x.size > 0 => Last(r.vis.dst) = 0)
  /\ r.vis.ret < x.size <=> r.vis.dst = Strvis(Repeat(7, x.n)).dst
  /\ r.statvfs.f_blocks = x.value /\ (r.statvfs.f_bsize = x.value <=> x.value < 32)
  /\ r.printed <= r.json

(* Thread-specific data: three keys of which each sets and deletes.        *)
KeyCalls ==
  {[op |-> o, key |-> key, value |-> v] : o \in {"set", "delete"}, key \in 1 .. 4, v \in {5, 6}}
KeysUsed == Idle("host") /\ \E n \in 1 .. 4 : \E calls \in [1 .. n -> {c \in KeyCalls : c.op = "delete" => c.value = 5}] :
  Runs([prog |-> "keys of threads", calls |-> calls], FoldLeft(KeyCall, KeyStart, calls))
(* A key has the value that was last set, until more keys than there is    *)
(* room for have been used, deleted ones included; the warning comes       *)
(* before that.                                                            *)
LastSet(calls, key) == SelectLastInSeq(calls, LAMBDA c : c.op = "set" /\ c.key = key)
KeysOfThreadsRight(calls, s) ==
  LET used == {calls[i].key : i \in {i \in DOMAIN calls : calls[i].op = "set"}}
  IN /\ \A key \in 1 .. 4 : Getspecific(s, key) = IF LastSet(calls, key) = 0 THEN 0 ELSE calls[LastSet(calls, key)].value
     /\ s.beyond <=> Cardinality(used) > Size
     /\ s.beyond => s.boom
GuestRight ==
  CASE call.prog = "terminal" -> TerminalRight(call.t, call.calls, result)
    [] call.prog = "signals" -> SignalRight(call.events, result)
    [] call.prog = "posix" -> PosixRight(call.w, call.open, call.host, call.errno, result)
    [] call.prog = "sockets" -> SocketsRight(call.bits, call.native, result)
    [] call.prog = "address" -> AddressRight(call.mem, call.len, call.told, result)
    [] call.prog = "hosts" -> HostsRight(call, result)
    [] call.prog = "lists" -> ListsRight(call.named, call.ni, call.k, result)
    [] call.prog = "termios" -> TerminalsRight(call.native, call.asked, call.speed, result)
    [] call.prog = "copies" -> CopiesRight(call, result)
    [] call.prog = "keys of threads" -> KeysOfThreadsRight(call.calls, result)
    [] OTHER -> TRUE

-----------------------------------------------------------------------------
(* Native children *)
(* Node has 3.  The parent opens files at the lowest free numbers, all to  *)
(* be closed on exec.  x may be inheritable, and may have a number the     *)
(* child does not close; full: Node has the numbers that are left.         *)
FdOf(t, f) == IF \E fd \in Fds : t.file[fd] = f THEN CHOOSE fd \in Fds : t.file[fd] = f ELSE No
OpenedAt(t, names) ==
  FoldLeft(LAMBDA u, f : SetInheritable(PlaceFd(u, Min(FreeFds(u)), f), Min(FreeFds(u)), FALSE), t, names)
Standard(closed) ==
  [file |-> [fd \in Fds |-> IF fd > 3 \/ fd \in closed THEN Closed ELSE <<"in", "out", "err", "node">>[fd + 1]],
   cloexec |-> {3}]
WithX(t, x) ==
  IF x = "high" THEN PlaceFd(t, MaxFd - 1, "x")
  ELSE LET Set(u) == SetInheritable(u, FdOf(u, "x"), x = "inheritable") IN Set(OpenedAt(t, <<"x">>))
PipesFor(c) ==
  (IF c.sin = "pipe" THEN <<"p2c read", "p2c write">> ELSE <<>>)
    \o (IF c.sout = "pipe" THEN <<"c2p read", "c2p write">> ELSE <<>>)
    \o (IF c.serr = "pipe" THEN <<"err read", "err write">> ELSE <<>>) \o <<"errpipe read", "errpipe write">>
Filled(t, full) == IF full THEN NodeOpens(t, MaxFd + 1) ELSE t
Parent(c) == Filled(OpenedAt(WithX(Standard(c.closed), c.x), <<"f">> \o PipesFor(c)), c.full)
(* What Python asks for; "virtual" is a file that has no host descriptor.  *)
Asked(t, kind, pipe) ==
  CASE kind = "pipe" -> FdOf(t, pipe)
    [] kind = "file" -> FdOf(t, "f")
    [] kind = "virtual" -> MaxFd + 1
    [] OTHER -> No
OutputAsked(t, c) == Asked(t, c.sout, "c2p write")
ErrorsAsked(t, c) ==
  IF c.serr # "stdout" THEN Asked(t, c.serr, "err write")
  ELSE IF c.sout = "inherit" THEN IF 1 \in c.closed THEN No ELSE 1 ELSE OutputAsked(t, c)
Options(t, c) ==
  [p2cread |-> Asked(t, c.sin, "p2c read"), p2cwrite |-> FdOf(t, "p2c write"),
   c2pread |-> FdOf(t, "c2p read"), c2pwrite |-> OutputAsked(t, c),
   errread |-> FdOf(t, "err read"), errwrite |-> ErrorsAsked(t, c),
   errpipeRead |-> FdOf(t, "errpipe read"), errpipeWrite |-> FdOf(t, "errpipe write"),
   keep |-> {FdOf(t, "errpipe write")} \cup (IF c.keep THEN {FdOf(t, "x")} ELSE {}),
   closeFds |-> c.closeFds, fails |-> c.fails]
GuestX == 7
GuestOf(t, o) ==
  [g \in {g \in 0 .. 2 : t.file[g] \in {"in", "out", "err"}} \cup {GuestX, 8, 9} |->
     CASE g < 3 -> g [] g = GuestX -> FdOf(t, "x") [] g = 8 -> FdOf(t, "f") [] g = 9 -> o.errpipeWrite]
GuestFiles(guest, n) == [g \in DOMAIN guest |-> n.file[guest[g]]]
FoundIn(map, n) == GuestFiles(InitWasiFdInfo(map, n), n)
Child(c, t, o, r) ==
  [runs |-> r.runs, t |-> r.t, told |-> r.told,
   guest |-> IF r.runs THEN FoundIn(InheritableMap(GuestOf(t, o), t, {9} \cup (IF c.keep THEN {GuestX} ELSE {})),
                                    NodeOpens(r.t, 2))
             ELSE <<>>]
ForkWith(c, t, o) == Runs([prog |-> "fork"] @@ c, Child(c, t, o, ForkExec(t, o, 2, <<11, 12, 13>>)))
ForkFrom(c, t) == ForkWith(c, t, Options(t, c))
ForkOf(c) == ForkFrom(c, Parent(c))
SpawnChild == Idle("spawn") /\ \E closed \in SUBSET (0 .. 2), sin, sout \in {"inherit", "pipe", "file"},
    serr \in {"inherit", "pipe", "file", "stdout"}, x \in {"low", "inheritable", "high"},
    keep, closeFds, full \in BOOLEAN :
  ForkOf([closed |-> closed, sin |-> sin, sout |-> sout, serr |-> serr, x |-> x, keep |-> keep,
          closeFds |-> closeFds, full |-> full, fails |-> ""])
SpawnFails == Idle("spawn") /\ \E closed \in SUBSET (0 .. 2), sin, sout \in {"inherit", "pipe", "virtual"},
    serr \in {"inherit", "file", "stdout", "virtual"}, closeFds \in BOOLEAN, fails \in {"", "setenv", "chdir", "exec"} :
  ForkOf([closed |-> closed, sin |-> sin, sout |-> sout, serr |-> serr, x |-> "low", keep |-> TRUE,
          closeFds |-> closeFds, full |-> FALSE, fails |-> fails])

(* The file of each stream and of each other number in the child.          *)
Inherits(t, o, fd) == fd \notin t.cloexec \/ fd \in o.keep \ {o.errpipeWrite}
StreamOf(t, o, fd, asked) ==
  IF asked # No THEN t.file[asked] ELSE IF Inherits(t, o, fd) THEN t.file[fd] ELSE Closed
ChildFile(t, o, fd) ==
  CASE fd = 0 -> StreamOf(t, o, 0, o.p2cread)
    [] fd = 1 -> StreamOf(t, o, 1, o.c2pwrite)
    [] fd = 2 -> StreamOf(t, o, 2, o.errwrite)
    [] OTHER -> IF Inherits(t, o, fd) /\ (fd \in o.keep \/ ~o.closeFds \/ fd >= CloseLimit)
                THEN t.file[fd] ELSE Closed
(* Not so when a number is missing to move a stream, which then stays as   *)
(* it is, and when the pipe for errors has a stream's number: the guest    *)
(* closed that stream, and Python only sees to its WASI number.  A file    *)
(* that is kept gives way in the same case, and what is closed in the      *)
(* child may be listed for it, as the number of something of Node's.       *)
Moves(o) == (IF o.c2pwrite = 0 THEN 1 ELSE 0) + (IF o.errwrite \in {0, 1} THEN 2 ELSE 0)
HasRoom(t, o) == Cardinality(FreeFds(t)) >= Moves(o)
LowErrpipe(o) == o.errpipeWrite < 3
Failure(c) ==
  CASE c.fails = "setenv" -> "noexec"
    [] "virtual" \in {c.sin, c.sout, c.serr} \/ (c.serr = "stdout" /\ c.sout = "virtual") -> "noexec"
    [] c.fails = "chdir" -> "noexec"
    [] c.fails = "exec" -> "exec"
    [] OTHER -> ""
ForkRight(c, t, o, r) ==
  LowErrpipe(o) \/ ~HasRoom(t, o) \/
    /\ r.runs = (Failure(c) = "")
    /\ r.runs => r.told = <<>> /\ \A fd \in Fds : r.t.file[fd] = ChildFile(t, o, fd)
    /\ ~r.runs => r.told = <<[to |-> "errpipe write", errno |-> 12, at |-> Failure(c)]>>
    /\ FdOf(t, "x") > 2 =>
         /\ r.runs /\ c.keep => GuestX \in DOMAIN r.guest /\ r.guest[GuestX] = "x"
         /\ \A g \in DOMAIN r.guest : r.guest[g] \in {"x", "node"}

ForkedRight(c, t, r) == ForkRight(c, t, Options(t, c), r)

(* exec in the parent itself: the streams stay, also those the guest opened *)
(* anew, which fexecve closes.                                             *)
ExecParent == Idle("spawn") /\ \E closed \in SUBSET (0 .. 2), x \in {"low", "inheritable"}, streams \in BOOLEAN :
  LET Executes(t) == Runs([prog |-> "exec", t |-> t, streams |-> streams], IF streams THEN ExecStreams(t) ELSE ExecCall(t))
  IN Executes(OpenedAt(WithX(Standard(closed), x), <<"f", "g">>))
ExecRight(t, streams, r) ==
  \A fd \in Fds : r.file[fd] = IF fd \notin t.cloexec \/ (streams /\ fd < 3) THEN t.file[fd] ELSE Closed

-----------------------------------------------------------------------------
(* Calls on signal sets and spawn attributes, and posix_spawn after them.  *)
SpawnSignals == {"INT", "TERM"}
SpawnCalls ==
  {[op |-> "sigaddset", p |-> p, sig |-> sig] : p \in {"p", "q"}, sig \in SpawnSignals}
    \cup {[op |-> "sigdelset", p |-> "q", sig |-> "INT"], [op |-> "sigemptyset", p |-> "p"], [op |-> "init"],
          [op |-> "getsigmask", p |-> "q"], [op |-> "action", action |-> "close"]}
    \cup {[op |-> "set", name |-> n, v |-> p] : n \in {"sigmask", "sigdefault"}, p \in {"p", "q"}}
    \cup {[op |-> "set", name |-> n, v |-> "1"] : n \in {"flags", "schedparam"}}
    \cup {[op |-> "sigprocmask", how |-> how, p |-> p, old |-> old] :
            how \in {"block", "unblock", "set"}, p \in {"p", "null"}, old \in {"q", "null"}}
SpawnSequence == Idle("spawn") /\ \E calls \in Texts(SpawnCalls, 3) :
  Runs([prog |-> "spawn calls", calls |-> calls],
       LET Seen(s) == [p |-> SignalsAt(s, "p"), q |-> SignalsAt(s, "q"), mask |-> s.mask, spawn |-> PosixSpawn(s)]
       IN Seen(FoldLeft(SpawnCall, SpawnInit({"p", "q"}), calls)))
(* The same with sets for values: what is given away is a copy, and the    *)
(* old mask is the one before.                                             *)
ByCopy(s, c) ==
  CASE c.op = "sigemptyset" -> [s EXCEPT !.set[c.p] = {}]
    [] c.op = "sigaddset" -> [s EXCEPT !.set[c.p] = @ \cup {c.sig}]
    [] c.op = "sigdelset" -> [s EXCEPT !.set[c.p] = @ \ {c.sig}]
    [] c.op = "sigprocmask" ->
         LET m == CASE c.p = "null" -> s.mask
                    [] c.how = "block" -> s.mask \cup s.set[c.p]
                    [] c.how = "unblock" -> s.mask \ s.set[c.p]
                    [] c.how = "set" -> s.set[c.p]
         IN [s EXCEPT !.mask = m, !.set["q"] = IF c.old = "q" THEN s.mask ELSE @]
    [] c.op = "init" -> [s EXCEPT !.attr = <<>>]
    [] c.op = "set" -> [s EXCEPT !.attr = With(@, c.name, IF c.v = "1" THEN "1" ELSE s.set[c.v])]
    [] c.op = "getsigmask" ->
         [s EXCEPT !.set["q"] = IF "sigmask" \in DOMAIN s.attr THEN s.attr["sigmask"] ELSE {}]
    [] c.op = "action" -> s
(* Where pointers and values differ: a set that is changed after it was    *)
(* given away or read out, an old mask that is asked for while it changes. *)
ChangesSet(c, p) ==
  \/ c.op \in {"sigemptyset", "sigaddset", "sigdelset", "getsigmask"} /\ c.p = p
  \/ c.op = "sigprocmask" /\ c.old = p
GivenAway(c, p) ==
  \/ c.op = "set" /\ c.v = p
  \/ c.op = "getsigmask"
PlainCalls(calls) ==
  /\ \A i, j \in DOMAIN calls : i < j => \A p \in {"p", "q"} : ~(GivenAway(calls[i], p) /\ ChangesSet(calls[j], p))
  /\ \A i \in DOMAIN calls : calls[i].op = "sigprocmask" /\ calls[i].old = "q" => calls[i].p = "null"
SpawnCallsRight(calls, r) ==
  LET s == FoldLeft(ByCopy, [set |-> [p \in {"p", "q"} |-> {}], mask |-> {}, attr |-> <<>>], calls)
  IN PlainCalls(calls) =>
       /\ r.p = s.set["p"] /\ r.q = s.set["q"] /\ r.mask = s.mask
       /\ r.spawn.attr = [n \in DOMAIN s.attr \cap KnownAttrs |-> s.attr[n]]

-----------------------------------------------------------------------------
(* A native child runs with the streams that were asked for, with what was *)
(* to be kept and with nothing else open, so that no end of a pipe is held *)
(* by the wrong side; when it cannot run, the parent is told once, with    *)
(* the reason.  posix_spawn gets the attributes that were last set.        *)
SpawnRight ==
  CASE call.prog = "fork" -> ForkedRight(call, Parent(call), result)
    [] call.prog = "exec" -> ExecRight(call.t, call.streams, result)
    [] call.prog = "spawn calls" -> SpawnCallsRight(call.calls, result)
    [] OTHER -> TRUE
SpawnNext == SpawnChild \/ ExecParent \/ SpawnFails \/ SpawnSequence

-----------------------------------------------------------------------------
(* What native children, the addon and the guest's calls of it promise,    *)
(* one by one above.                                                       *)
HostRight == SpawnRight /\ NativeRight /\ GuestRight
HostNext ==
  \/ SpawnNext
  \/ CallAddon \/ GroupsOf \/ ForkNative \/ SpawnNative \/ UseTerminal \/ Signals \/ CallHost \/ SocketTypes
  \/ Addresses \/ Hosts \/ Lists \/ Terminals \/ Copies0 \/ KeysUsed
===============================================================================
