------------------------------ MODULE HostCalls -------------------------------
(***************************************************************************)
(* What the guest gets of the native addon: the calls of                   *)
(* kernel/src/wasm/posix, how their errors become the guest's errno, how   *)
(* types, options and addresses are translated, and the C functions of     *)
(* kernel/src/kernel/interface.c that build the guest's structures.        *)
(***************************************************************************)
EXTENDS NativeAddon

(* The constants by their numbers on Linux, in the order the addon sets    *)
(* them, those that begin with E only: a later one replaces an earlier     *)
(* one with its number.                                                    *)
SocketErrnos ==
  <<<<"EAI_BADFLAGS", 0 - 1>>, <<"EAI_NONAME", 0 - 2>>, <<"EAI_AGAIN", 0 - 3>>, <<"EAI_FAIL", 0 - 4>>,
    <<"EAI_FAMILY", 0 - 6>>, <<"EAI_SOCKTYPE", 0 - 7>>, <<"EAI_SERVICE", 0 - 8>>, <<"EAI_MEMORY", 0 - 10>>,
    <<"EAI_SYSTEM", 0 - 11>>, <<"EAI_OVERFLOW", 0 - 12>>, <<"EADDRINUSE", 98>>, <<"EADDRNOTAVAIL", 99>>,
    <<"EAFNOSUPPORT", 97>>, <<"EAGAIN", 11>>, <<"EALREADY", 114>>, <<"ECONNREFUSED", 111>>, <<"EFAULT", 14>>,
    <<"EHOSTUNREACH", 113>>, <<"EINPROGRESS", 115>>, <<"EISCONN", 106>>, <<"ENETDOWN", 100>>,
    <<"ENETUNREACH", 101>>, <<"ENOBUFS", 105>>, <<"ENOTSOCK", 88>>, <<"ENOPROTOOPT", 92>>, <<"EOPNOTSUPP", 95>>,
    <<"EPROTOTYPE", 91>>, <<"ETIMEDOUT", 110>>, <<"ECONNRESET", 104>>, <<"ELOOP", 40>>, <<"ENAMETOOLONG", 36>>,
    <<"ENOTCONN", 107>>>>
TerminalNames == <<<<"ECHO", 8>>, <<"ECHOE", 16>>, <<"ECHOK", 32>>, <<"ECHONL", 64>>>>
FileErrnos ==
  <<<<"E2BIG", 7>>, <<"EACCES", 13>>, <<"EBADF", 9>>, <<"EBUSY", 16>>, <<"ECHILD", 10>>, <<"EDEADLK", 35>>,
    <<"EEXIST", 17>>, <<"EFBIG", 27>>, <<"EINTR", 4>>, <<"EINVAL", 22>>, <<"EIO", 5>>, <<"EISDIR", 21>>,
    <<"EMFILE", 24>>, <<"EMLINK", 31>>, <<"ENFILE", 23>>, <<"ENODEV", 19>>, <<"ENOENT", 2>>, <<"ENOEXEC", 8>>,
    <<"ENOMEM", 12>>, <<"ENOSPC", 28>>, <<"ENOTBLK", 15>>, <<"ENOTDIR", 20>>, <<"ENOTTY", 25>>, <<"ENXIO", 6>>,
    <<"EPERM", 1>>, <<"EPIPE", 32>>, <<"EROFS", 30>>, <<"ESPIPE", 29>>, <<"ESRCH", 3>>, <<"ETXTBSY", 26>>,
    <<"EXDEV", 18>>>>
NativeConstants == SocketErrnos \o TerminalNames \o FileErrnos
(* The same of the guest, with WASI's numbers; EAI_ and ECHO as on Linux.  *)
GuestErrnos ==
  [E2BIG |-> 1, EACCES |-> 2, EADDRINUSE |-> 3, EADDRNOTAVAIL |-> 4, EAFNOSUPPORT |-> 5, EAGAIN |-> 6,
   EALREADY |-> 7, EBADF |-> 8, EBUSY |-> 10, ECHILD |-> 12, ECONNREFUSED |-> 14, ECONNRESET |-> 15,
   EDEADLK |-> 16, EEXIST |-> 20, EFAULT |-> 21, EFBIG |-> 22, EHOSTUNREACH |-> 23, EINPROGRESS |-> 26,
   EINTR |-> 27, EINVAL |-> 28, EIO |-> 29, EISCONN |-> 30, EISDIR |-> 31, ELOOP |-> 32, EMFILE |-> 33,
   EMLINK |-> 34, ENAMETOOLONG |-> 37, ENETDOWN |-> 38, ENETUNREACH |-> 40, ENFILE |-> 41, ENOBUFS |-> 42,
   ENODEV |-> 43, ENOENT |-> 44, ENOEXEC |-> 45, ENOMEM |-> 48, ENOPROTOOPT |-> 50, ENOSPC |-> 51,
   ENOTCONN |-> 53, ENOTDIR |-> 54, ENOTSOCK |-> 57, ENOTSUP |-> 58, EOPNOTSUPP |-> 58, ENOTTY |-> 59,
   ENXIO |-> 60, EPERM |-> 63, EPIPE |-> 64, EPROTOTYPE |-> 67, EROFS |-> 69, ESPIPE |-> 70, ESRCH |-> 71,
   ETIMEDOUT |-> 73, ETXTBSY |-> 74, EXDEV |-> 75]
SameNumbers == {SocketErrnos[i] : i \in 1 .. 10} \cup ToSet(TerminalNames)
GuestConstants ==
  [n \in DOMAIN GuestErrnos \cup {p[1] : p \in SameNumbers} |->
     IF n \in DOMAIN GuestErrnos THEN GuestErrnos[n] ELSE (CHOOSE p \in SameNumbers : p[1] = n)[2]]

(* initNativeErrnoToSymbol and setErrnoFromNative.                         *)
SymbolsOf(number) == SelectSeq(NativeConstants, LAMBDA p : p[2] = number /\ p[1] \in DOMAIN GuestConstants)
SetErrnoFromNative(errno, number) ==
  IF SymbolsOf(number) = <<>> THEN errno ELSE GuestConstants[Last(SymbolsOf(number))[1]]

-----------------------------------------------------------------------------
(* A wrapper: the addon's function, the kinds of values it passes, what it *)
(* does with its descriptor, what it gives, and what when it fails.  With  *)
(* "open" an unknown descriptor fails without a code, with "minus one" the *)
(* host is asked about -1; "caught" keeps the errno, and "number" is the   *)
(* host's own number as the answer.                                        *)
Passes(addon, kinds) ==
  [addon |-> addon, kinds |-> kinds, fd |-> "none", gives |-> "0", bad |-> "-1", errors |-> "errno"]
Forwards(addon, kinds) == [Passes(addon, kinds) EXCEPT !.gives = "result"]
OnOpen(w) == [w EXCEPT !.fd = "open"]
OrMinusOne(w) == [w EXCEPT !.fd = "minus one"]
NullOnError(w) == [w EXCEPT !.bad = "0"]
One == <<"number">>
Two == <<"number", "number">>
Three == <<"number", "number", "number">>
IdentityWrappers ==
  [getpgid |-> Forwards("getpgid", One), setpgid |-> Passes("setpgid", Two), getpgrp |-> Forwards("getpgrp", <<>>),
   seteuid |-> Passes("seteuid", One), setegid |-> Passes("setegid", One), setsid |-> Forwards("setsid", One),
   setreuid |-> Passes("setreuid", One), setregid |-> Passes("setregid", One),
   getppid |-> Forwards("getppid", <<>>), sethostname |-> Passes("sethostname", <<"string">>),
   ttyname |-> Forwards("ttyname", One), alarm |-> Forwards("alarm", One), getresuid |-> Passes("getresuid", <<>>),
   getresgid |-> Passes("getresgid", <<>>), setresuid |-> Passes("setresuid", Three),
   setresgid |-> Passes("setresgid", Three)]
ProcessWrappers ==
  [fork |-> Forwards("fork", <<>>), execve |-> Passes("_execve", <<"string", "array", "array">>),
   execv |-> Passes("execv", <<"string", "array">>), execvp |-> Passes("execvp", <<"string", "array">>),
   fexecve |-> OnOpen(Passes("_fexecve", <<"number", "array", "array">>)), pipe |-> Passes("pipe", <<>>),
   pipe2 |-> Passes("pipe2", One), lockf |-> OnOpen(Passes("lockf", <<"number", "number", "bigint">>)),
   pause |-> Forwards("pause", <<>>), wait |-> Forwards("wait", <<>>), waitpid |-> Forwards("waitpid", Two),
   wait3 |-> Forwards("wait3", One)]
NameWrappers ==
  [if_indextoname |-> [NullOnError(Forwards("if_indextoname", One)) EXCEPT !.errors = "caught"],
   if_nametoindex |-> [NullOnError(Forwards("if_nametoindex", <<"string">>)) EXCEPT !.errors = "caught"],
   if_nameindex |-> NullOnError(Forwards("if_nameindex", <<>>)),
   gethostbyname |-> NullOnError(Forwards("gethostbyname", <<"string">>)),
   gethostbyaddr |-> NullOnError(Forwards("gethostbyaddr", <<"string">>)),
   getaddrinfo |-> [Passes("_getaddrinfo", <<"string", "string">> \o Three \o One) EXCEPT !.errors = "number"]]
SocketWrappers ==
  [socket |-> Forwards("socket", Three), bind |-> OnOpen(Passes("_bind", Three \o <<"buffer">>)),
   connect |-> OnOpen(Passes("_connect", Three \o <<"buffer">>)), getsockname |-> OnOpen(Passes("getsockname", One)),
   getpeername |-> OnOpen(Passes("getpeername", One)),
   recv |-> OnOpen(Forwards("recv", <<"number", "buffer", "number">>)),
   send |-> OnOpen(Forwards("send", <<"number", "buffer", "number">>)), shutdown |-> OnOpen(Passes("shutdown", Two)),
   listen |-> OnOpen(Passes("listen", Two)), accept |-> OnOpen(Forwards("accept", One)),
   getsockopt |-> OnOpen(Passes("getsockopt", Three \o One)),
   setsockopt |-> OnOpen(Passes("setsockopt", Three \o <<"buffer">>)), pollSocket |-> OnOpen(Passes("pollSocket", Three))]
OtherWrappers ==
  [login_tty |-> OrMinusOne(Passes("login_tty", One)), statvfs |-> Passes("_statvfs", <<"string">>),
   fstatvfs |-> OrMinusOne(Passes("_fstatvfs", One)), ctermid |-> Forwards("ctermid", <<>>),
   tcgetattr |-> OnOpen(Passes("tcgetattr", One))]
Wrappers == IdentityWrappers @@ ProcessWrappers @@ NameWrappers @@ SocketWrappers @@ OtherWrappers

(* Q[name]: host is the errno of the system call, 0 when it succeeds, and  *)
(* stale the errno some earlier call of the addon left.                    *)
Ebadf == 9
JsValue(kind) == [is |-> kind, of |-> <<>>]
HostCall(w, host) == Invoke(Exported[w.addon], [i \in DOMAIN w.kinds |-> JsValue(w.kinds[i])], host, {})
CodeOf(c, stale) == IF c.code = Stale THEN stale ELSE c.code
Caught(w, c, errno, stale) ==
  CASE c.code = Plain \/ w.errors = "caught" -> [ret |-> w.bad, errno |-> errno]
    [] w.errors = "number" -> [ret |-> "number", errno |-> errno]
    [] OTHER -> [ret |-> w.bad, errno |-> SetErrnoFromNative(errno, CodeOf(c, stale))]
Ended(w, c, errno, stale) ==
  IF c.thrown THEN Caught(w, c, errno, stale)
  ELSE [ret |-> IF w.gives = "0" THEN "0" ELSE c.returned, errno |-> errno]
Posix(w, open, host, errno, stale) ==
  CASE ~open /\ w.fd = "open" -> [ret |-> w.bad, errno |-> errno]
    [] ~open /\ w.fd = "minus one" -> Ended(w, HostCall(w, Ebadf), errno, stale)
    [] OTHER -> Ended(w, HostCall(w, host), errno, stale)

-----------------------------------------------------------------------------
(* Socket types are sets of bits: 6, 5 and 8192 in the guest, in the order *)
(* of the constants, and 1, 2 and 2^19 on Linux.  A type that shares a bit *)
(* takes all of its own away; a rest that is left is refused.              *)
SockNames == <<"SOCK_STREAM", "SOCK_DGRAM", "SOCK_CLOEXEC">>
GuestSock == [SOCK_STREAM |-> {2, 1}, SOCK_DGRAM |-> {2, 0}, SOCK_CLOEXEC |-> {13}]
NativeSock == [SOCK_STREAM |-> {0}, SOCK_DGRAM |-> {1}, SOCK_CLOEXEC |-> {19}]
TypeStep(from, to, s, n) ==
  IF from[n] \cap s.left = {} THEN s ELSE [left |-> s.left \ from[n], got |-> s.got \cup to[n]]
TypeSteps(from, to, bits) ==
  FoldLeft(LAMBDA s, n : TypeStep(from, to, s, n), [left |-> bits, got |-> {}], SockNames)
WasmToNativeSocktype(bits) == TypeSteps(GuestSock, NativeSock, bits)
NativeToWasmSocktype(bits) == TypeSteps(NativeSock, GuestSock, bits)
(* socket: SOCK_CLOEXEC is taken off first, and done by set_inheritable.   *)
Socket(bits) ==
  [native |-> WasmToNativeSocktype(bits \ GuestSock.SOCK_CLOEXEC), socktype |-> bits \ GuestSock.SOCK_CLOEXEC,
   inheritable |-> GuestSock.SOCK_CLOEXEC \cap bits = {}]

(* Families 1 and 2 of the guest, 2 and 10 of Linux; 0 is no family.       *)
Unsupported == 0 - 1
WasmToNativeFamily(f) == CASE f = 0 -> 0 [] f = 1 -> AfInet [] f = 2 -> AfInet6 [] OTHER -> Unsupported
NativeToWasmFamily(f) == CASE f = 0 -> 0 [] f = AfInet -> 1 [] f = AfInet6 -> 2 [] OTHER -> Unsupported
(* shutdown: 1, 2, 3 of the guest and 0, 1, 2 of Linux; others are EINVAL. *)
RealHow(how) == IF how \in 1 .. 3 THEN how - 1 ELSE Unsupported
(* Options have Linux's numbers on both sides, but the host names fewer of *)
(* them, and the level does not count.                                     *)
GuestOptions == ((1 .. 62) \ {54, 58}) \cup {68}
HostOptions == {30, 6, 1, 5, 4, 9, 13, 10, 8, 18, 20, 2, 15, 7, 19, 21, 29, 3}
NativeOptionName(option) == IF option \in HostOptions THEN option ELSE Unsupported

(* An address in the guest's memory: its family and the bytes after it.    *)
(* getSockaddr reads len - 2 of them, sendSockaddr writes len, the two     *)
(* that are missing as zeros.                                              *)
GetSockaddr(mem, len) ==
  [sa_family |-> WasmToNativeFamily(mem.family), sa_len |-> len, sa_data |-> SubSeq(mem.data, 1, len - 2)]
SendSockaddr(mem, sa) ==
  [family |-> NativeToWasmFamily(sa.sa_family),
   data |-> [i \in DOMAIN mem.data |->
      CASE i > sa.sa_len -> mem.data[i] [] i <= Len(sa.sa_data) -> sa.sa_data[i] [] OTHER -> 0]]

-----------------------------------------------------------------------------
(* The guest's heap, as a call in progress of NativeAddon; a pointer is    *)
(* the name of its block, Null when malloc refused.  SendAlloc throws,     *)
(* and nothing that was sent before is freed then.                         *)
Null == <<"null", 0>>
SendAlloc(c, b) == IF c.stopped THEN c ELSE LET Got(m) == IF HasBlock(m, b) THEN m ELSE Stop(m, Plain) IN Got(Malloc(c, b))
SendArrayOfStrings(c, name, n) == FoldLeft(LAMBDA d, i : SendAlloc(d, <<name, i>>), c, [i \in 1 .. n + 1 |-> i - 1])

(* convert_h_addr_list_to_binary: a text that is no address of the family  *)
(* or a block that is missing gives no list, and what there is stays.      *)
InetPton(family, text) == IF text = <<>> THEN <<>> ELSE IF text[1] = family THEN <<text[2]>> ELSE <<>>
BinaryStep(d, family, texts, i) ==
  IF ~d.ok THEN d
  ELSE LET Set(m) == [c |-> m, ok |-> HasBlock(m, <<"binary", i>>) /\ InetPton(family, texts[i]) # <<>>,
                      list |-> Append(d.list, InetPton(family, texts[i]))]
       IN Set(Malloc(d.c, <<"binary", i>>))
ConvertList(c, family, texts) ==
  LET First(m) == FoldLeft(LAMBDA d, i : BinaryStep(d, family, texts, i),
                           [c |-> m, ok |-> HasBlock(m, <<"binary", 0>>), list |-> <<>>], [i \in DOMAIN texts |-> i])
  IN First(Malloc(c, <<"binary", 0>>))
TextBlocks(c) == {b \in DOMAIN c.blocks : b[1] = "texts"}
SendHostent(c, h) ==
  LET Converted(d) ==
        IF d.ok THEN [c |-> Free(d.c, TextBlocks(d.c)), ptr |-> <<"hostent", 0>>, addrs |-> d.list]
        ELSE [c |-> Free(d.c, {<<"hostent", 0>>}), ptr |-> Null, addrs |-> <<>>]
      Filled(m) == IF HasBlock(m, <<"hostent", 0>>) THEN Converted(ConvertList(m, h.h_addrtype, h.h_addr_list))
                   ELSE [c |-> m, ptr |-> Null, addrs |-> <<>>]
  IN IF c.stopped THEN [c |-> c, ptr |-> Null, addrs |-> <<>>] ELSE Filled(Malloc(c, <<"hostent", 0>>))
(* netdb's sendHostent, of what the addon's create_hostent made.           *)
HostentFor(h, fails) ==
  LET Sent(c) == SendAlloc(c, <<"name", 0>>)
      Aliases(c) == SendArrayOfStrings(c, "aliases", Len(h.h_aliases))
      Addresses(c) == SendArrayOfStrings(c, "texts", Len(h.h_addr_list))
  IN SendHostent(Addresses(Aliases(Sent(Begin(fails)))), h)

(* getaddrinfo builds its list from the end; a node has a block of its     *)
(* own, one for its address and one for its name, if it has one.           *)
SendNode(c, i, named) ==
  LET Address(d) == SendAlloc(d, <<"address", i>>)
      CanonName(d) == IF named THEN SendAlloc(d, <<"canonname", i>>) ELSE d
  IN SendAlloc(CanonName(Address(c)), <<"node", i>>)
AddrinfoList(named, fails) ==
  FoldLeft(LAMBDA c, i : SendNode(c, i, named[i]), Begin(fails), Reverse([i \in DOMAIN named |-> i]))
(* freeaddrinfo from node i on, the rest of the list first.                *)
FreeAddrinfo(c, i, n) ==
  FoldLeft(LAMBDA d, k : Free(Free(Free(d, {<<"canonname", k>>}), {<<"address", k>>}), {<<"node", k>>}), c,
           Reverse([k \in 1 .. (n - i) + 1 |-> (i + k) - 1]))

(* if_nameindex: the array ends at the first index 0, which the host never *)
(* gives to an interface, and freeNameIndexArray reads to there.           *)
NameIndexArray(ni, fails) ==
  FoldLeft(LAMBDA c, i : SendAlloc(c, <<"if_name", i>>), SendAlloc(Begin(fails), <<"array", 0>>),
           [i \in DOMAIN ni |-> i])
UpToZero(ni) == {i \in DOMAIN ni : \A k \in 1 .. i : ni[k] # 0}
FreeNameIndexArray(c, ni) == Free(Free(c, {<<"if_name", i>> : i \in UpToZero(ni)}), {<<"array", 0>>})

-----------------------------------------------------------------------------
(* termios: a flag word is a set of bits, a flag the bits of its name; the *)
(* two sides have the same bits, in the order tcsetattr visits them.       *)
CFlagNames == <<"CSIZE", "CS5", "CS6", "CS7", "CS8", "CSTOPB", "CREAD">>
CFlag == [CSIZE |-> {4, 5}, CS5 |-> {}, CS6 |-> {4}, CS7 |-> {5}, CS8 |-> {4, 5}, CSTOPB |-> {6}, CREAD |-> {7}]
NativeToWasi(word) == UNION {CFlag[n] : n \in {n \in ToSet(CFlagNames) : CFlag[n] \cap word # {}}}
Changes(asked, current, n) == asked \cap CFlag[n] # current \cap CFlag[n]
ChangeFlag(native, asked, current, n) ==
  CASE ~Changes(asked, current, n) -> native
    [] asked \cap CFlag[n] # {} -> native \cup CFlag[n]
    [] OTHER -> native \ CFlag[n]
Tcsetattr(native, asked) ==
  FoldLeft(LAMBDA w, n : ChangeFlag(w, asked, NativeToWasi(native), n), native, CFlagNames)
(* Speeds are the bits of CBAUD of the same word.                          *)
Cbaud == {0, 1, 2, 3, 12}
Cfsetospeed(word, speed) ==
  IF speed \ Cbaud # {} THEN [word |-> word, ret |-> "EINVAL"]
  ELSE [word |-> (word \ Cbaud) \cup speed, ret |-> "0"]
Cfsetispeed(word, speed) == IF speed = {} THEN [word |-> word, ret |-> "0"] ELSE Cfsetospeed(word, speed)
Cfgetispeed(word) == word \cap Cbaud

(* strnvis copies what fits with its NUL, and gives the length of it all.  *)
Strnvis(src, size) == [dst |-> IF size = 0 THEN <<>> ELSE Append(Upto(src, Smaller(Len(src), size - 1)), 0),
                       ret |-> Len(src)]
Strvis(src) == [dst |-> Append(src, 0), ret |-> Len(src)]
(* set_statvfs: unsigned long has Bits bits, the counts twice as many.     *)
SetStatvfs(x, bits) == [n \in DOMAIN x |-> IF n \in {"f_blocks", "f_files"} THEN x[n] ELSE x[n] % (2 ^ bits)]
(* getConstants: what is printed of names and values, with their quotes,   *)
(* commas and the NUL, and what is allocated for it.                       *)
Printed(names, digits) ==
  25 + Sum0([i \in DOMAIN names |-> (names[i] + 2) + digits[i]]) + 2 * (IF names = <<>> THEN 0 ELSE Len(names) - 1)
JsonSize(names) == 25 + Sum0([i \in DOMAIN names |-> names[i] + 16])

(* Thread-specific data (posix-wasm/src/threads.c): a key keeps a slot     *)
(* from its first value on, pthread_key_delete frees none; Size slots,     *)
(* 1000 in the code.  boom: the warning was printed; beyond: a value went  *)
(* past the arrays.                                                        *)
Size == 3
KeyStart == [keys |-> <<>>, values |-> <<>>, next |-> 1, boom |-> FALSE, beyond |-> FALSE]
SlotOf(s, key) == SelectInSeq(s.keys, LAMBDA k : k = key)
Getspecific(s, key) == IF SlotOf(s, key) = 0 THEN 0 ELSE s.values[SlotOf(s, key)]
Setspecific(s, key, value) ==
  IF SlotOf(s, key) # 0 THEN [s EXCEPT !.values[SlotOf(s, key)] = value]
  ELSE [s EXCEPT !.keys = Append(@, key), !.values = Append(@, value),
                 !.boom = @ \/ Len(s.keys) + 1 >= Size, !.beyond = @ \/ Len(s.keys) + 1 > Size]
KeyCreate(s) == [s EXCEPT !.next = @ + 1]
KeyDelete(s, key) == s
KeyCall(s, c) ==
  CASE c.op = "create" -> KeyCreate(s)
    [] c.op = "set" -> Setspecific(s, c.key, c.value)
    [] c.op = "delete" -> KeyDelete(s, c.key)
(* Attributes keep the stack size that was set; there is one thread, every *)
(* lock is free, and pthread_create fails.                                 *)
StackSize(attr, size) == [attr EXCEPT !.stack_size = size]
LocksAndWaits(op) == IF op = "pthread_create" THEN "-1" ELSE "0"

-----------------------------------------------------------------------------
(* Native child processes: fork_exec of the addon and its caller           *)
(* (core/posix-node/src/addon.c, core/kernel/src/wasm/posix/fork-exec.ts), *)
(* the descriptors the child finds under its WASI numbers, and what the    *)
(* posix_spawn calls leave for the addon (spawn.ts, signal.ts).            *)

(* A host descriptor table: the file of each number, and which are closed  *)
(* when a program is executed.  No is -1, for a stream left alone.         *)
MaxFd == 16
CloseLimit == 15       \* close_open_fds stops at 256
Fds == 0 .. MaxFd
Closed == "closed"
No == 0 - 1
IsOpen(t, fd) == IF fd \in Fds THEN t.file[fd] # Closed ELSE FALSE
FreeFds(t) == {fd \in Fds : t.file[fd] = Closed}
Close(t, fds) ==
  [file |-> [fd \in Fds |-> IF fd \in fds THEN Closed ELSE t.file[fd]], cloexec |-> t.cloexec \ fds]
PlaceFd(t, fd, f) == [file |-> [t.file EXCEPT ![fd] = f], cloexec |-> t.cloexec \ {fd}]
Dup(t, fd) ==
  IF IsOpen(t, fd) /\ FreeFds(t) # {}
  THEN [t |-> PlaceFd(t, Min(FreeFds(t)), t.file[fd]), fd |-> Min(FreeFds(t))]
  ELSE [t |-> t, fd |-> No]

SetInheritable(t, fd, inheritable) ==
  IF ~IsOpen(t, fd) THEN t
  ELSE [t EXCEPT !.cloexec = IF inheritable THEN @ \ {fd} ELSE @ \cup {fd}]
IsInheritable(t, fd) == IsOpen(t, fd) /\ fd \notin t.cloexec
(* execv, execvp, execve; fexecve leaves the streams as they are.          *)
ExecCall(t) == Close(t, t.cloexec)
ExecStreams(t) == ExecCall([t EXCEPT !.cloexec = @ \ (0 .. 2)])

-----------------------------------------------------------------------------
(* do_exec_child.  A descriptor that is another stream's number is moved   *)
(* first (errwrite up to twice); a duplicate that fails leaves none.       *)
MovedOnce(t, fd, low) ==
  IF fd \notin low THEN [t |-> t, fd |-> fd]
  ELSE LET NotInherited(d) == [t |-> SetInheritable(d.t, d.fd, FALSE), fd |-> d.fd] IN NotInherited(Dup(t, fd))
MovedAgain(m, low) == MovedOnce(m.t, m.fd, low)
MovedUp(t, fd, low) == MovedAgain(MovedOnce(t, fd, low), low)
(* The descriptor is already there, stays alone, or is duplicated there,   *)
(* which fails for a file that is not the host's.                          *)
(* Variant with a mistake: a descriptor already there stays as it is.      *)
OntoUnmarked(s, fd, to) ==
  CASE s.failed \/ fd = No \/ fd = to -> s
    [] ~IsOpen(s.t, fd) -> [s EXCEPT !.failed = TRUE]
    [] OTHER -> [s EXCEPT !.t = PlaceFd(@, to, @.file[fd])]
Onto(s, fd, to) ==
  CASE s.failed \/ fd = No -> s
    [] fd = to -> [s EXCEPT !.t = SetInheritable(@, to, TRUE)]
    [] ~IsOpen(s.t, fd) -> [s EXCEPT !.failed = TRUE]
    [] OTHER -> [s EXCEPT !.t = PlaceFd(@, to, @.file[fd])]
CloseOpenFds(t, errpipe, keep) == Close(t, (3 .. CloseLimit - 1) \ ({errpipe} \cup keep))
PutInPlace(out, e, o) == Onto(Onto(Onto([t |-> e.t, failed |-> FALSE], o.p2cread, 0), out, 1), e.fd, 2)
StreamDups(t, o) ==
  LET Errors(c) == PutInPlace(c.fd, MovedUp(c.t, o.errwrite, {0, 1}), o)
  IN Errors(MovedUp(Close(t, {o.p2cwrite, o.c2pread, o.errread, o.errpipeRead}), o.c2pwrite, {0}))
KeepOpen(t, o) == [t EXCEPT !.cloexec = @ \ (o.keep \ {o.errpipeWrite})]
BeforeExec(t, o) ==
  SetInheritable(IF o.closeFds THEN CloseOpenFds(t, o.errpipeWrite, o.keep) ELSE t, o.errpipeWrite, FALSE)
(* o.fails: where the child fails; stopped: the table it fails with.       *)
Executed(t, streams, o) ==
  CASE o.fails = "setenv" -> [code |-> 0 - 2, t |-> t]
    [] streams.failed -> [code |-> 0 - 3, t |-> streams.t]
    [] o.fails = "chdir" -> [code |-> 0 - 4, t |-> streams.t]
    [] o.fails = "exec" -> [code |-> 0 - 5, t |-> BeforeExec(streams.t, o)]
    [] OTHER -> [code |-> 0, t |-> ExecCall(BeforeExec(streams.t, o))]
DoExecChild(t, o) == Executed(t, StreamDups(KeepOpen(t, o), o), o)
(* fork_exec in the child: a failure is told to the file that stands under *)
(* errpipe_write, with the error number the map has for it or -1.          *)
WasmErrno(e, map) == IF e \in DOMAIN map THEN map[e] ELSE No
ChildEnded(c, o, e, map) ==
  [runs |-> c.code = 0, t |-> c.t,
   told |-> IF c.code = 0 \/ ~IsOpen(c.t, o.errpipeWrite) THEN <<>>
            ELSE <<[to |-> c.t.file[o.errpipeWrite], errno |-> WasmErrno(e, map),
                    at |-> IF c.code = 0 - 5 THEN "exec" ELSE "noexec"]>>]
ForkExec(t, o, e, map) == ChildEnded(DoExecChild(t, o), o, e, map)

-----------------------------------------------------------------------------
(* getInheritableDescriptorsMap: guest is the parent's WASI table (number  *)
(* to host number); keep are WASI numbers.  initWasiFdInfo: the child      *)
(* takes the numbers that are open in it and that it has not itself.       *)
InheritableMap(guest, t, keep) ==
  [g \in {g \in DOMAIN guest : IsInheritable(t, guest[g]) \/ g \in keep} |-> guest[g]]
InitWasiFdInfo(map, child) ==
  [g \in {g \in DOMAIN map : g > 3 /\ IsOpen(child, map[g])} |-> map[g]]
(* Node itself opens some descriptors before.                              *)
NodeOpens(t, n) ==
  [t EXCEPT !.file = [fd \in Fds |-> IF fd \in FreeFds(t) /\ Cardinality({x \in FreeFds(t) : x < fd}) < n
                                    THEN "node" ELSE t.file[fd]]]

-----------------------------------------------------------------------------
(* Calls of a program on signal sets and spawn attributes.  s.at: the set  *)
(* object a pointer stands for; s.set: its signals; s.mask: the process'   *)
(* mask; s.attr: what was set, masks as pointers; s.actions: file actions. *)
(* getSignalSet makes the object on first use; an object has the name of   *)
(* the pointer it was made for.                                            *)
SpawnInit(pointers) ==
  LET ptrs == pointers \cup {"undefined"}
  IN [at |-> [p \in ptrs |-> p], set |-> [p \in ptrs |-> {}],
      mask |-> {}, attr |-> <<>>, actions |-> <<>>]
SignalsAt(s, p) == s.set[s.at[p]]
WithSet(s, p, signals) == [s EXCEPT !.set[s.at[p]] = signals]
(* sigprocmask: the old mask is stored after the change.                   *)
NewMask(s, how, p) ==
  CASE p = "null" -> s.mask
    [] how = "block" -> s.mask \cup SignalsAt(s, p)
    [] how = "unblock" -> s.mask \ SignalsAt(s, p)
    [] how = "set" -> SignalsAt(s, p)
Sigprocmask(s, how, p, old) ==
  LET m == [s EXCEPT !.mask = NewMask(s, how, p)]
  IN IF old = "null" THEN m ELSE WithSet(m, old, m.mask)
With(attr, name, v) == [n \in DOMAIN attr \cup {name} |-> IF n = name THEN v ELSE attr[n]]
(* getFileActions tests a field that is never set: every call begins with  *)
(* an empty table.                                                         *)
FileAction(s, action) == [s EXCEPT !.actions = <<action>>]
SpawnCall(s, c) ==
  CASE c.op = "sigemptyset" -> WithSet(s, c.p, {})
    [] c.op = "sigaddset" -> WithSet(s, c.p, SignalsAt(s, c.p) \cup {c.sig})
    [] c.op = "sigdelset" -> WithSet(s, c.p, SignalsAt(s, c.p) \ {c.sig})
    [] c.op = "sigprocmask" -> Sigprocmask(s, c.how, c.p, c.old)
    [] c.op = "init" -> [s EXCEPT !.attr = <<>>]
    [] c.op = "set" -> [s EXCEPT !.attr = With(@, c.name, c.v)]
    [] c.op = "getsigmask" ->
         [s EXCEPT !.at[c.p] = s.at[IF "sigmask" \in DOMAIN s.attr THEN s.attr["sigmask"] ELSE "undefined"]]
    [] c.op = "action" -> FileAction(s, c.action)
(* posix_spawn: getAttr(attr, true) puts the signals of now in the place   *)
(* of the pointers; the addon applies what it knows by name, which         *)
(* schedparam is not, and the actions of a table that is empty again.      *)
KnownAttrs == {"schedpolicy", "flags", "pgroup", "sigmask", "sigdefault"}
PosixSpawn(s) ==
  [attr |-> [n \in DOMAIN s.attr \cap KnownAttrs |->
               IF n \in {"sigmask", "sigdefault"} THEN SignalsAt(s, s.attr[n]) ELSE s.attr[n]],
   actions |-> <<>>]
===============================================================================
