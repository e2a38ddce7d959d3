# CoWasm: specifications, model checking and proofs

CoWasm runs POSIX programs compiled to WebAssembly (a shell, the BSD
coreutils, CPython and its extension modules) in Node.js and in a browser.
Two parts of the repository have a logic of their own, and this project models
both:

- the *kernel*, `core/kernel/src/wasm`, with `core/wasi-js`, `core/dylink` and
  `core/posix-node`: a main thread that owns the terminal, a worker thread that
  runs WebAssembly and blocks when the program blocks, the POSIX calls the
  worker answers, and the processes it has or pretends to have;
- the *programs*, `core/coreutils`, with the C library functions they share in
  `core/posix-wasm`: `sort`, `find`, `cp`, `xargs`, `grep`, `pr` and some forty
  more, as ported to this runtime.

Paths below are relative to `src/core/kernel/src/wasm/` for the kernel and to
`src/core/coreutils/src/utils/` for the programs, unless they begin with
`core/`, `python/` or another top-level directory of the repository.

## 1. Inventory

### Threads and who shares what

```
 main thread                       kernel worker                 child worker (one per
 import.ts  WasmInstanceAbstract   worker/import.ts, instance.ts raw WASI child)
 io-using-atomics.ts  (provider)   worker/io-using-atomics.ts    fork-exec.ts workerSource
        |  postMessage {id, name, params}  ->  |                        |
        |  <-  postMessage {id, result}        |  workerData            |
        |  shared: output, input, signal       |  shared: completion -> |
        |          buffers and lengths         |  kill: terminate()  -> |
```

| component | state | operations | interacts through |
|---|---|---|---|
| WASI children (`posix/fork-exec.ts`, `posix/wait.ts`, `posix/signal.ts`) | `completedWasmProcesses`, `wasmProcessWorkers`, `nextWasmPid`, one completion record (`done`, `status`, `claimed`) per child | fork/exec in a worker or in place, `wait`, `waitpid`, `wait3`, `kill`, the child's own winding up | shared memory with `Atomics`, `Worker.terminate`, host descriptors |
| Output (`io-using-atomics.ts`, `worker/io-using-atomics.ts`) | `outputBuffer` with the stream in cell 0, `outputLength` | `sendOutput`, `readOutput`, polling by `monitorOutput` | shared memory |
| Input and signals (same files) | `stdinBuffer`, `stdinLength`, `signalState`, `sleepArray` | `writeToStdin`, `signal`, `getStdin`, `getSignalState`, `sleep` | shared memory |
| Service-worker IO (`io-using-service-worker.ts`, its worker side, `worker/service-worker.js`) | per-id caches of input, output, signal, one pending reader | synchronous requests of the kernel worker, fetches of the page | HTTP requests intercepted by a service worker |
| Worker RPC and life cycle (`import.ts`, `worker/init.ts`, `reuseInFlight.js`) | `worker`, `callId`, `result`, listeners on an emitter, the init promise in flight | `init`, `callWithString`, `waitForResponse`, `exec`, `terminate`, `signal` | messages |
| In-process exec (`worker/posix-context.ts`, `worker/trampoline.ts`) | snapshot of memory, WASI, POSIX and dlopen state | `run` of a program inside its parent's memory | calls |
| Dynamic linking (`core/dylink/src`) | libraries by path and handle, function table, global offset table, pending symbols | `dlopen`, `dlsym`, `dlclose`, `dlerror` | one memory and one table |
| Descriptor table (`core/wasi-js/src/wasi.ts`, `posix/unistd.ts`) | `FD_MAP` from WASI to host descriptors | `path_open`, `fd_close`, `fd_renumber`, `dup`, `dup2`, `pipe` | host descriptors |
| `posix_spawn` (`posix/spawn.ts`) | attributes and file actions by pointer | init, set, add, destroy | guest memory |
| POSIX wrapper (`posix/index.ts`) | the process's working directory, errno | enter and leave a directory around each call | host process |
| Native addon and the calls on it (`core/posix-node/src/addon.c`, the rest of `posix/`, `core/kernel/src/kernel/interface.c`) | terminal mode, a seen signal, pending exceptions, blocks allocated for one call | one host call each, with translated numbers, errors and structures | host process, guest memory |
| Marshalling, shell and Python front ends, web and desktop applications, build system | little or none | conversions, one host call each, user interfaces, scripts | |

The programs keep their state in static variables and on the disk:

| component | state | operations | interacts through |
|---|---|---|---|
| text programs (`cat`, `cut`, `comm`, `csplit`, `expand`, `fmt`, `fold`, `head`, `join`, `nl`, `paste`, `pr`, `split`, `tail`, `tr`, `unexpand`, `uniq`, `wc`) | buffers, counters and marks carried from one line, read or page to the next | a loop over the input each | standard streams, files |
| `sort` | keys, lists of lines, temporary files, the output file | compare, read, spill, merge, replace | files, signals |
| `tsort`, and the tables of `ohash.c` and `core/coreutils/src/compat/tree.h` | graph, heap, hash table, trees | insert, remove, order, break cycles | calls |
| programs on file trees (`rm`, `chmod`, `chown`, `du`, `find`, `cp`, `mv`, on `core/posix-wasm/src/lib/fts`) | the walk, the working directory, the tree itself | one system call at a time | the file system, which others change meanwhile |
| decisions (`test`, `expr`, `find`'s expressions, symbolic modes) | the place in the arguments, a plan | parse and evaluate | arguments, file status |
| `xargs`, `grep` | the argument buffer, children; the queue of context lines | read, collect, run; match, print | children, streams |
| numbers and dates (`seq`, `factor`, `scan_scaled.c`, the date grammar of `find`) | none | arithmetic | |
| listings (`ls`, `stat`) | widths and totals of one directory | read, sort, lay out | the file system |

### What makes it correct, component by component

- *WASI children.* A child ends once, with one status, whoever decides it: the
  child by ending or its parent by `kill`. `waitpid` reports that status, and
  each child is reaped once. A parent asleep on a child wakes.
- *Output.* Every byte written arrives on the terminal once, in order, on the
  stream it was written to; a writer that waits for room goes on.
- *Input and signals.* What is typed is received once and in order, a signal
  is seen, and a program blocked in a read or a sleep returns for either.
- *Service-worker IO.* The same three promises when the shared memory is a
  service worker's caches and every access is a request that can be late.
- *Worker RPC.* A call gets the reply to itself or an error; it never waits on
  a worker that is gone, and never reaches one that is still loading.
- *Dynamic linking.* Two owners never share a slot of the function table, a
  pointer handed to C code stays what it was, and a program run in place takes
  its linking with it when it ends.
- *In-process exec.* The parent is, after `run`, as it was before, but for what
  the two share on purpose.
- *Descriptor table.* A guest descriptor names one host descriptor, which is
  closed when its last guest name goes.

- *Native children.* A child finds at its descriptors what its parent asked for
  and nothing that was to be closed; the parent learns of a failure to start it.
- *Text programs.* The output is a simple function of the whole input, however
  the input is cut into reads, lines and files.
- *Sort.* The output is the input in order, stable or not as asked, whatever
  went through temporary files; the input survives until the output replaces
  it; no temporary file stays. The comparison is an order.
- *Trees.* A program says what it did. It does not touch what is outside its
  tree, reports every entry once, and does not claim a success it did not have;
  `mv` and `cp` never lose a file.
- *Decisions, `xargs`, `grep`.* What is decided is what the arguments mean;
  every word and every line is used once.

### Where the behaviour is hard

- **Two threads and plain memory.** The kernel worker may block its thread, so
  it cannot get messages; input, output and signals pass through shared words
  that both sides load and store, partly without `Atomics`, with a lock that
  is a convention (cell 0 of the output buffer).
- **A thread killed from outside.** `Worker.terminate` stops the kernel worker
  or a child at any instruction. The shared buffers outlive the worker;
  `finally` blocks do not run.
- **A race for a verdict.** `kill` and a natural exit both want to decide a
  child's status. One compare-and-exchange decides.
- **Requests that overtake each other.** In a browser without shared memory all
  IO is HTTP requests, several under way, with timers that give up.
- **Failure half way.** A `dlopen` can fail after it opened the libraries it
  needs, reserved slots and registered names; nothing undoes that.
- **State that has to be put back.** `PosixContext.run` runs a program in the
  memory of another and must undo all its effects.

- **Buffers reused.** `sort`'s reader, `xargs`' argument buffer, `pr`'s page and
  `tail`'s ring are overwritten while something of their old content is needed.
- **A tree that changes under a walk**, read through paths that were true when
  they were remembered.
- **Boundaries of arithmetic** in scaled numbers, offsets and counts.

PROJECT.json lists 39 such places at their lines, each with the properties
that would notice it going wrong or the reason there is none.

## 2. Plan

Order of work, the most important behaviour first:

| # | module | of | composes | state of the work |
|---|---|---|---|---|
| 1 | `ChildTable` | the process table a POSIX program expects (abstract) | | done |
| 2 | `WasiProcess` | children, `wait`, `kill` | implements `ChildTable` | checked; safety proved |
| 3 | `…Proofs` of 2, 4 to 9, and of `SortRun` | their theorems (section 5) | each extends its module and `TLAPS` | 31 theorems |
| 4 | `AtomicsOutput` | output through shared memory | | checked; safety proved |
| 5 | `AtomicsInput` | input, signals and sleep through shared memory | | checked; safety proved |
| 6 | `ServiceWorkerIO` | the same through a service worker | | checked; safety proved |
| 7 | `WorkerRpc` | calls into the worker and its life | | checked; safety proved |
| 8 | `Dylink` | dynamic linking and its restoration by `run` | | checked; safety proved |
| 9 | `FdTable` | `FD_MAP` with everything that changes it, `run`'s save and restore, children | | checked; safety proved |
| 10 | `HostCalls`, its second part | native children and what `posix_spawn` gives them | | checked |
| 11 | `FileWalk`, `TreePrograms`, `CopyPrograms` | fts, and the programs on it | each extends the one before | checked |
| 12 | `SortKeys`, `LibSorts`, `SortReader`, `SortRun` | `sort` | `SortReader` extends the first two; `MCSortRun` gives `SortRun` its sort and merge from it | checked; `SortRun` proved but for the order of lines |
| 13 | `Conditions`, `FindPlan`, `GetDate`, `XargsGrep` | decisions, dates and tools | | checked |
| 14 | `LineFilters`, `StreamFilters`, `TextShaping`, `Listing`, `SearchTables`, `NumberPrograms` | text, listings, graphs, tables, numbers, modes | | checked |
| 15 | `NativeAddon`, `HostCalls`, its first part | the addon's functions and what the guest gets of them | the second extends the first | checked |
| 16 | a composition of `WorkerRpc` and `AtomicsOutput` | `exec` terminates the worker with output in the buffer | 4 and 7 | planned |
| 17 | `PosixWrapper` | the working directory around each POSIX call | with 9 | planned |
| 18 | the rest of the programs | `df`, `touch`, `id`, `date`, option parsing | | planned |

The abstract specification worth having is `ChildTable`: it is what `fork`,
`wait` and `kill` promise to a program that knows nothing of workers. For
output and input the abstract statement is a stream, and it is stated directly
as an invariant over histories (`OutputIntact`, `StreamsIntact`, `InputIntact`):
what came out, plus what is on its way, is what went in. For `FdTable` it is
the history `meant`: which file POSIX says each descriptor refers to. For the
programs it is a definition of the result beside the one of the code.

The next proof worth having is `PathsAgree` of the programs on trees; section 5
says what it would take.

## 3. The modules and the code

Every module names its variables after the code's or says which they stand for;
PROJECT.json maps each definition to its lines. In each module a *variant with
a mistake* stands before the definition it is a variant of. No specification
uses a variant: it records a mistake that one of the properties notices.

### `WasiProcess` (with `ChildTable`)

Source: `posix/fork-exec.ts`, `posix/wait.ts`, `posix/signal.ts`.

*State.* `table` and `handles` are the key sets of `completedWasmProcesses` and
`wasmProcessWorkers`. The completion record in shared memory is `done`,
`status`, `claimed`. `wpc` and `wstat` are the position and the status of each
child thread; `pc`, `call`, `todo`, `round`, `probed`, `target`, `sig` those of
the parent's call. `verdict`, `killed`, `started` and `ret` are histories.

*Actions.* `SpawnWorker`, `SpawnSync` and `SpawnFails` are the paths of the
fork call. A child thread goes through `ChildSetup`, `ChildEnds`, `ChildClose`,
`ChildClaim` (the compare-and-exchange), `ChildStore`, `ChildPublish`,
`ChildNotify`; `ChildSetupFails` and `ChildEndsOpen` are the error paths, and
`ChildStops` is `terminate()` taking hold, at any of these points. A wait call is
two scans of the table and a sleep between: `BeginWait`, `TakeHit`, `TakeMiss`,
`TakeEnd`, then `Probe…`, `Aim…`, `Sleep`, the second scan, `Settle`. `kill` is
`BeginKill`, `KillClaim`, `KillStore`, `KillPublish`, `KillTerminate`. Each
access to the shared record is one step, because `Atomics` makes it one.

*Abstraction.* A sleeping `Atomics.wait` is entered with its load in one step,
as the specification of `Atomics.wait` has it. Exit codes and signals keep
their encodings (`ExitStatus` takes the low byte). Sub-steps that touch no
shared state, such as building the WASI instance, are one step. Programs are
any program: they may run forever or end with any code.

### `AtomicsOutput`

Source: `sendOutput` in `worker/io-using-atomics.ts`, `readOutput` in
`io-using-atomics.ts`, `readOutput`, `terminate` and `init` in `import.ts`.

*State.* `buf` and `len` are `outputBuffer` and `outputLength[0]`; the rest are
the two threads' positions and locals. `live` is `this.worker != null`.
`stored`, `out`, `handed`, `overlapped` are histories.

*Actions.* One step per load or store: the worker's `CheckLength`, `CheckTag`,
`CheckFull`, `LoadExpected`, `Wait`, `Lock`, `InitLength`, `CopyIn`, `Count`,
`StoreLength`, `Unlock`; the main thread's `ReadTag`, `ReadLength`, `CopyOut`,
`Reset`, `Finish`. `Terminate` stops the worker anywhere, `Restart` starts one
on the same buffers.

*Abstraction.* Memory is sequentially consistent. A copy of several cells is
one step. Bytes are numbers above 2: text, without the control characters 0, 1
and 2. That matters only when a reset of the reader falls into a locked
section, where a byte can stand in cell 0 until `Unlock` overwrites it.

### `AtomicsInput`

Source: `writeToStdin` and `signal` of the main thread (with the control-C test
in `import.ts`), `getStdin`, `getSignalState` and `sleep` of the worker.

*Actions.* `BeginWrite`, `CopyIn`, `Count`, `Store`, `Notify`, `Interrupt` and
`Signal` are the main thread's; `BeginRead`, `Check`, `Wait`, `TimeOut`,
`CheckSignal`, `LoadLength`, `CopyOut`, `Reset` are `getStdin`; `Poll` and
`Clear` are `getSignalState`; `BeginSleep`, `NapOver`, `Rested` are `sleep`, in
slices of 500 ms. A timeout may come whenever the worker sleeps.
`overlapped`, `overflowed` and `unseen` are histories. Memory is as in
`AtomicsOutput`; the length is not bounded by the buffer, as in the code.

### `ServiceWorkerIO`

Source: `worker/service-worker.js`, `worker/io-using-service-worker.ts`,
`io-using-service-worker.ts`.

*State.* The caches of one kernel id: `stdin`, `out`, `sig`, and `waiter`, the
function in `callOnStdin`. `posted`, `asking` and `answers` are fetches of the
page under way, sets because nothing orders them. `wpc` is where the kernel
worker's one synchronous request is.

*Actions.* One per handler of the service worker (`HandleReadStdin`,
`HandleWriteStdin`, `HandleWriteSignal`, `HandleReadOutput`,
`HandleWriteOutput` with `Delay`, `Retry`, `GiveUp`, `HandlePoll`, and
`NapOver` and `Look` for `sleep`), one per request. A reader woken by input
takes it in the same step: the promise's continuation is a microtask, which
runs before the next message. A failed request makes the page reload and ends a
run. An item of output is never empty.

### `WorkerRpc`

Source: `import.ts`, `worker/init.ts`, `reuseInFlight.js`.

*State.* `worker`, `callId`, the promise of `init` (`inflight`, `listening`),
each call's `phase`, `id` and `on`, and the two message queues of each worker.
`hurried` and `initLost` are histories.

*Actions.* `BeginCall` is `callWithString` or `exec` up to the await of `init`
(`AwaitInit` is `reuseInFlight`); `ResumeCall` posts; `BeginFs` is
`waitUntilFsLoaded` or `fetch`, which await no init. `OnInit`, `OnReply`,
`OnNothing`, `OnExit` are the main thread's handlers, `ReceiveInit`, `Loaded`,
`LoadFails`, `ReceiveCall`, `ProgramEnds`, `ReceiveFs`, `FsEnds` the worker's.
`WorkerExits` is an exit or crash at any time. `exec` awaits `init` twice, once
itself and once in the call it makes; the second finds the worker and is merged
with the first. The terminal's listeners are left out.

### `Dylink`

Source: `core/dylink/src/dlopen.ts`, `function-table.ts`,
`global-offset-table.ts`; `run` in `worker/posix-context.ts`.

*State.* `table`, `available` and `next` are the function table with
`availableTableIndexes` and `nextTablePos`; `got` is `GOT`, `funcMap` and
`memMap` the names in it that wait for a value; `libs` is `handleToLibrary`,
from which `pathToLibrary` is derived; `frames` is
the stack of nested `dlopen` calls and `runs` that of nested `run` calls with
the state each will restore; `ending` says that the innermost of them is closing
what its program left open. `loads`, `tries`, `clean` and `started` are
histories, and so is `shut` in each member of `runs`: the handles of a program that
waits which were closed since.

*Actions.* `BeginOpen`, `OpenNeeded`, `Load` are a `dlopen` that succeeds;
`NotALibrary`, `ImportFails`, `UnresolvedFunction`, `UnresolvedData`,
`CtorsFail` are its failures, each with the state it leaves behind;
`OpenMain` is a call for main. A call that finds a library open returns its handle
and changes nothing, so it is no action: no references are counted.
`Dlclose` closes any library, whoever opened or uses it, as the code does, and the
end of a run unloads in the same way (`Unload`). A run begins
with `BeginRun`; its end is one `CloseNew` for each new handle, in their order,
which is `DlopenManager.setState`, and then `EndRun`, whose `ForgetNew` is
`GlobalOffsetTable.setState`. Nothing comes between these steps (`Idle`).

*Abstraction.* One thread: a step is the work between two nested `dlopen`s. A
library is what the linker reads of it. Libraries may need each other in a circle:
the nested `dlopen`s then go on until one throws. Imports
through `env` are bound once and keep no state, so all that is kept of them is
that reading the imports may throw after any number of `GOT` reads. Linear
memory and the pointers kept in it (`dlerrorPtr`, `errnoPtr`, the environment)
are left out. A library's accessor exports are folded into `symToPtr`. The
elements of a library's own part of the table stay after `dlclose`, as in the
code.

### `FdTable`

Source: `core/wasi-js/src/wasi.ts`, `posix/unistd.ts`, `posix/fork-exec.ts`,
`worker/posix-context.ts`.

*State.* `FD_MAP` of the running program, the stack of those `run` will put
back, the copies children have, and the host's descriptors. `meant` is the
history of what POSIX promises: the file of each descriptor. `wrong` and `lost`
name the descriptors and host numbers that a known call has spoiled, by that
call, so that the properties speak of all others.

*Actions.* `path_open`, also of the terminal (`PathOpenTty`: descriptor 0 is the
answer and nothing is opened; `CloseTty`: its close closes standard input),
`fd_close`, `fd_renumber`, `dup`, `dup2`, `pipe`, the capture of output, `run` and its end, children in workers and in place with
their ends by exit or `terminate`. A child's three standard descriptors are
duplicates of any of its parent's, made one after the other, and one of them may
duplicate the one just made. The host hands out its least free number
(`First`; `HandedOut` for several). Two children can come to share a number, when
a call of the program closed it for the first: the end of one then closes it for
the other, which stays in `wrong` until it ends too. Node.js keeps what it has
open (`Own`) throughout.

### `HostCalls`, its second part

Source: `core/posix-node/src/addon.c`, `posix/fork-exec.ts`, `posix/spawn.ts`,
`posix/signal.ts`. (The first part is in the table below.) A host table gives each number its file and says which are
closed on exec. `ForkExec` is `fork_exec` with `do_exec_child` in its order:
duplications, the error pipe, close-on-exec, close, exec. The guest's table is
what `WASI_FD_INFO` tells the child. The rest is what a program stores with the
`posix_spawnattr` and `posix_spawn_file_actions` calls and what of it reaches
the addon. A table has 17 numbers and `close_open_fds` stops at 15 (in the code
256), so that numbers above the limit exist.

### `FileWalk`, `TreePrograms`, `CopyPrograms`

Source: `core/posix-wasm/src/lib/fts/fts.c` and the programs' `.c` files.

*State.* The tree: `Kind`, `entries`, link counts, devices, modes and data by
inode. The walk: the levels from the root to the node at hand with the rest of
each list, the working directory as the *path* the runtime keeps, descriptors
as the paths they were opened by, because `fchdir` and `readdir` in this runtime
work by path (`posix/unistd.ts:658`, `wasi.ts` `fd_readdir`).

*Actions.* One per system call of `fts_read` and `fts_build`; one per kind of
node for each program, with the calls it makes; `cp` and `mv` with writes that
stop half way; another process that moves, removes and creates entries between
any two of these.

### Programs computed in one step

Programs without a state between calls, and algorithms, are operators. In
`ProgramCalls` a step chooses a program and its input and computes the result
as the code does; an invariant compares it with what it should be. Loops are
folds or recursive functions over a record of the loop's variables.

| module | code | compared with |
|---|---|---|
| `Text` | characters, lines, and small helpers | |
| `LineFilters` | `uniq`, `comm`, `join`, `paste`, `split`, `csplit` | runs, set differences, pairs of lines; the pieces put together give the input |
| `StreamFilters` | `cat`, `head`, `wc`, `nl`, `tail`; `pr` in one column, several, and `-m` | the input, its lines, its first or last part; every line once, in its place on a page |
| `Listing` | `ls` with its sorts and columns, `stat` with its formats | every entry once, in order, in its column; the numbers meant |
| `TextShaping` | `cut`, `expand`, `unexpand`, `fold`, `tr`, `fmt` | columns of the same text; a function of characters; words kept, lines within the goal |
| `SortKeys` | keys and comparisons of `sort` | total preorders and the numbers meant |
| `LibSorts` | `mergesort` and `heapsort` of the C library | sorted permutations, stable |
| `SortReader` | files cut into lines through a buffer, the options of `sort`, `-g`, what a sort and a merge write (`SortOf`, `MergeOf`) | the lines of the file; the keys and modifiers asked for |
| `SortRun` | one run of `sort` with temporary files, a state machine; the sort and the merge are parameters (`Sorting`, `Merging`) | see `sort_run` |
| `SearchTables` | `tsort`; `ohash.c`, the lists of `queue.h`, red-black and splay trees of `tree.h` | an order of the nodes, cycles reported are cycles; a set or list under insert, remove, find; the shape of the tree |
| `NumberPrograms` | `seq`, `factor`, `fmt_scaled`, `scan_scaled`, `setmode` and `getmode` | arithmetic progressions, factors, rounding; the clauses of a mode applied one by one |
| `GetDate` | the parser tables and the actions of `find -newerXt`'s dates | the moment the text means, by the calendar |
| `Conditions` | `test`, `expr` | the grammars, by definition |
| `FindPlan` | `find`'s expressions, tests and `-exec … +` | the meaning of the expression |
| `XargsGrep` | `xargs`; `grep`: options, reading, matching, context, status | the words of the input and the limits; the matching lines and their neighbours |
| `NativeAddon` | arguments, memory and errors of the addon's functions; terminal and signal state | nothing leaks or is freed twice, but for the named cases; a call that fails throws |
| `HostCalls` | the wrappers of `posix/`, errno, socket types, options, addresses, host and interface lists, termios, thread keys | the translation there and back; the guest's memory freed once |

`MCTextPrograms`, `MCListing`, `MCAlgorithms`, `MCUtilities` and `MCHost` hold
the inputs and the comparisons; `MCPrograms` puts them in one run. `MCSortRun`, `MCTreePrograms` and `MCDylink`
give state machines their constants.

## 4. What is checked

All runs use the bounds in their `.cfg`; the figures are distinct states.

### Runs that pass

**wasi_process** (140,875 states; 2 pids, exit code 257, signal 15). Two is the
number of children at which scans, a wait for any, and a kill of another child
than the one waited for exist, and the protocol of one child has no part that
involves a third. 257 shows the low byte being taken. `IInv`, the inductive
invariant of the proofs, contains the type invariant and the safety properties
of section 5; `WaitPidServed`: a wait for a child of ours is never passed to the
host; `ChildTableSpec`: `ChildTable` is implemented; `SleeperWakes`,
`KilledThreadStops`: no lost wakeup, and a kill ends.

**atomics_output** (664,634 states; 3 cells, 4 bytes, 1 restart). The buffer
holds a tag and two bytes, so four bytes fill it twice, in pieces, on either
stream. `OutputIntact` is stated while no read overlaps a locked section:
the reader can test the lock before the writer takes it and copy after, and
then nothing is promised. `SleeperOnDataWakes`: the writer that waits on a
buffer with data wakes.

**atomics_input** (854,232 states; 3 cells, 5 bytes, 2 signals, 2 slices). Five
bytes overflow the buffer, two signals can merge. `InputIntact` under the
conditions that no write overlapped a read and the buffer sufficed;
`SignalKept` without conditions; `BlockedReturns`.

**service_worker** (550,056 states; 2 items in, 3 out, 1 signal, 2 reads). Two
reads are what it takes for answers to cross, three items for both streams to
be delayed by each other. `ReaderSound`; `StreamsIntact` (input against the
order of *arrival*, because fetches may overtake each other; output while no
write gave up, and in order while no answers crossed); `DelayedWriteEnds`;
`SleepInterrupted`.

**worker_rpc** (240,582 states; 3 calls, 2 workers). Three calls can share an
init, wait together and be split by the end of the worker; the second worker
tells replies of one apart from those of the other. `OwnReply`,
`WaitsOnLiveWorker` (which includes that no call reaches a worker that is
still loading), `CallSettles`, `InitSettles`. Calls are finite and users stop,
so the run allows deadlock.

**dylink** (2,138,653 states; 3 libraries, 3 opens of libraries that are not open,
2 runs, nested or in turn; any library closed at any time). `b` needs `a`; `c` imports from `a`
without needing it and takes the address of a function of its own; the main
program exports some of the names too: so each branch of the resolution is
taken. `SlotsSound`, `ExportsGood`; `PointersGood` for a program whose libraries
nobody closed; `RunRestores`, which exempts by name the libraries of the parent
that a program run in place closed (`shut`). The program
may stop, so the run allows deadlock.

**fd_table** (552,529 states; 4 guest numbers, 5 host numbers, 5 calls, one run in
place, two children). With five host numbers the host reuses one that the table
still names; five calls are the shortest way to most of the named causes; two
children can share a number.
`FilesKept`: a descriptor of the program refers to the file POSIX says;
`OthersKept`: those of Node.js, of waiting programs and of children too;
`NothingForgotten`: every open host number is somebody's. Each is stated up to
the named causes in `wrong` and `lost`, which are what the code does; a
descriptor spoilt by anything else violates them. Calls are bounded, so the run
allows deadlock.

**programs** (1,741,251 states). All programs computed in one step, on all
inputs up to a length of three to eight characters, lines, tokens or elements,
with every combination of the options that interact. The lengths are such that
each buffer of the scaled-down code fills, wraps and is used again.
`TextRight`, `DecisionsRight`, `ToolsRight`, `HostRight`, `KeysRight`,
`SortsInOrder`, `LinesReadOnce` and `GraphsRight` are conjunctions with one part
for each program, which stands with its comment in the MC module of its group.
A call ends a behaviour, so the run allows deadlock. Scaled down: `THRESHOLD` 4
(16 in the code), `Patience` 2 (6); in `SearchTables` `MINSIZE` 4 (16) and
`MINDELETED` 2 (4); in `HostCalls` 17 numbers and `CloseLimit` 15 (256); in
`NumberPrograms` primes to 13 (65537), the sieve's pattern of 3 primes (13),
window 8 (256K), `BIG` 150 (2^64), 32 for 1024; in `XargsGrep` a buffer of 3 and 3
matches (32); in `SortKeys` `ULLONG_MAX` 20; in `FindPlan` blocks of 2 (512),
units of 4, `QuadMax` 31.

**sort_run** (3,618,342 states; one line of memory, two files open at a time).
The smallest memory and the smallest batch force temporary files and merges in
several rounds. A signal may come at any step, and in the midst of a write, with
part of the file on the disk; a file may not open, a write may fail in its midst
(`WriteFails`), the rename may fail; and one write of a run (`MaxShort`) may be cut
short without notice, of a temporary file or of the output. `unlink` is assumed to
work: its result is not looked at.
`ResultRight`: a run that says it succeeded, and in which no write failed unnoticed,
leaves the sorted lines; `InputsKept`: an input keeps its lines, and one that is also
the output is there until the whole result is under its other name, from when on
one of the two is. Two causes are exempt, by name: a signal between unlink and
rename, which removes the result too, and a result written short unnoticed.
`NoTmpLeft`: a run that ends, or that a signal ends, leaves none of its own files,
and the number of names it makes is bounded, by three times the lists it spilled or
twice the files it was given. (A run that `err` ends leaves its files, in the code
too.) One short write is enough: what a second adds is another file that is short,
and `short > 0` makes no difference between them.

**file_tree** (387,147 states; ten inodes with hard links, symbolic links, two
devices, an unreadable directory; one change by another process). One change
at every point is what the hazards of `fts.c` need; a second would double what
one already shows. `PathsAgree`: the path a program is given leads to the inode
it is told of, while nobody moved it; `ReportsRight`: `find` and `du` report
each entry once; `ChangesRight`: `rm` and `chmod` touch nothing outside and
claim nothing they did not do; `CopiesRight`: `cp` and `mv` copy all they say
and lose no file. A program ends, so the run allows deadlock.

Each property of these runs is violated by a mistake in the model that a bug in
the code would make: the `mutants` of PROJECT.json.

### Runs that find a disagreement

Each checks one statement of the repository's own and ends in a counterexample.

| run | statement | what the code does |
|---|---|---|
| output_lost_wakeup | `worker/io-using-atomics.ts:119`: the writer waits for the reader | the value to wait on is loaded again after the decision; after the reader's reset the writer waits on 0, for good |
| sort_reader | `sort/file.c`: the reader gives the lines of the file | a file that does not end in a newline and whose last read fills the buffer gives its last lines twice |

### Seen in the models

What the code does that its documentation, POSIX or its own intent says
otherwise, met while modelling. The models do what the code does; the
properties exempt these cases by name. Those marked * were seen in the compiled
programs too.

*Kernel.* `kill` of a synchronous child passes its made-up pid to the host
(`posix/signal.ts:54`). A wait for any child sleeps on one running child and
misses others that end, also between its two scans. Input is lost when
`writeToStdin` loads the length twice and a read comes between
(`io-using-atomics.ts:60`). A lock left by a terminated worker stops its
successor. An init whose answer is lost is waited for by all later calls. The
service worker's stream tag arrives as a character and is compared with a
number: all output is `stderr` (`worker/init.ts:24`). `dlclose` unloads at once
(`core/dylink/src/dlopen.ts:1530` speaks of a count) and frees slots that
others' `GOT` entries name. A program run in place that opens and closes a library
its parent has open takes it from the parent: `setState` only closes. If a library
of the program's own then gets the same handle, it is not new to `setState`, and the
parent finds it under that handle. Further, a second try of a `dlopen` that failed for a missing
symbol succeeds with the pointer zero (`dlopen.ts:1411`).

*Descriptors.* `dup2` on a guest number that is not open uses it as a host
number, and as an alias forgets the old host number. A program run in place
closes and duplicates its parent's host descriptors, and leaks what it leaves
open; `terminate()` leaves a child's duplicates open; `path_open`, `pipe` and
`runWasiExecutable` leak when the table is full or a later step fails. Opening
`/dev/tty` gives descriptor 0, so closing it closes standard input.

*Spawn.* File actions of `posix_spawn` never reach the child, and their table is
reset on every access (`posix/spawn.ts:18`); the scheduling parameter is stored
under a name the addon does not read; signal masks are kept by pointer;
`sigprocmask` stores the mask after the change as the old one
(`posix/signal.ts:182`), so a save and restore never restores. A duplicate that
fails in `do_exec_child` leaves the stream as it is; an error pipe with a number
below 3 is overwritten; the child's table lists descriptors that `close_fds`
then closes, and numbers from 256 on are not closed.

*File trees.* `fts_safe_changedir`'s inode check does not pin a directory,
because `fchdir` goes by path. `fd_readdir` fails as a whole when an entry
vanishes while it reads, `fts_build` takes that for the end of the directory,
and `chmod -R`, `du`, `find` and `cp -R` skip it with status 0; `mv` of a
directory to another device then copies nothing of it and removes what is left.
`rm -i` unlinks a file it cannot stat without asking (`rm/rm.c:162`). `du -L`
counts a file reached by two routes twice. `mv`'s check of mount points refuses
every directory across devices when `statvfs` works. `cp -R a a/n` never ends;
`mv` of one hard link of a file onto another leaves both.

*Sort.* `bwsfgetln` tests `!f` for `!nptr`. A key whose only modifier is `i` loses it
(`sort/sort.c:224`); `--sort=WORD` passes by the check of exclusive orders; a line
that ends in two bytes of a three-byte character ends the program
(`bwstring.c:286`). A last write that fails is not noticed, neither that of a line's
end (`bwstring.c:464`) nor what `fclose` still has to write (`file.c:604`): on a full
disk `sort` can leave a result that is cut short and say that it succeeded, and
with `-o` onto an input, that input is lost. Between the unlink of the input and
the rename of the output (`sort.c:1381`) a signal removes the result as one of
`tmp_files` (`file.c:157`), and then both are gone.

*Text.* `tr` with a shorter second string that ends in a class gives a value out
of range; `tr -ds x '[a*]'` never ends. `pr -i` doubles single spaces; `pr`'s
last page of columns can hold old text or miss its last line; `pr -m` closes a
file twice. `cat -v` numbers a line too many after byte 0x8a. `csplit` with an
offset before -1 loses lines. `tsort -h` with a cycle of nodes without hints
fails an assertion. `split` is not built.

*Numbers.** `seq 999999 1000000` prints 1e+06 twice; `seq -w 1 -2 -10` is a column
too wide; `1e` is a number; `factor` reads a word behind its table of primes when
65537 divides the number; `fmt_scaled` can print 1024K; `scan_scaled("-8.5E")`
overflows and succeeds.

*Decisions.** `test -z =`, `test -n -eq`, `test ! = x` and `test ! ! !` exit 2
against `test.1:317`; a sign followed by blanks is a number. `expr` divides the
smallest number by -1 in its test of overflow. All `-size` primaries of one `find`
share one unit; without birth times `-newerB` compares modification times;
`find d -true ')' '(' -true` is accepted.

*xargs.** The end marker of `-E` is compared before the word is terminated and is
missed after a longer word (`xargs/xargs.c:296`); the command runs once more at
the marker; an empty quoted word at the end is lost; a leading newline with `-L`
runs the command with nothing.

*grep.** `eflags` is always 0, so `grep -o a` and `grep -w ba` on `abab` never end;
`-m 0` prints everything against `grep.1:336`; `-Fow a` finds the first of
`a xa a` only; `-L` on standard input has the opposite status.

*Dates.* `find-getdate.tab.c` reads "2020-01-31 1 month" as about 1970-01-01
instead of refusing it (lines 2350 and 2622); "20230531 tomorrow" takes the date
for an amount; "1 day ago 1 hour ago" counts forwards; a zone in the text shifts
relative months.

*Listings.* `ls -aR` without an option that needs a status does not descend where
directories have one link (`fts.c:656`); `ls -m -p` leaves no room for the slash
(`ls/print.c:288`); sizes of nine digits leave their column (`print.c:112`); a
cycle is warned of with status 0. `stat -r` always fails with "bad format"
(`stat/stat.c:54`); `H`, `M` and `L` of `%p` mean different parts as numbers and
as strings.

*Host calls.* A datagram socket becomes a raw one (`posix/netdb.ts:298`: the type
5 of WASI holds the bit of a stream). The reverse table of errors takes every
name that begins with E, so that 64 becomes EPIPE by way of `ECHONL`; ENOSYS has
no number in the guest. `setreuid` and `setregid` pass one argument of two and
always fail; `ttyname` and `pipe2` pass numbers of the other side; `sendto` sends
zeros; a socket option is looked up by its number whatever its level;
`tcsetattr` with CS6 or CS7 ends as CS8. In `addon.c` `fork_exec` frees nothing
when `fork` fails, `posix_spawn` does not destroy its file actions on its early
returns, a list with an element that is no string is passed on as far as it
goes, `bind` and its like throw an old errno for an argument of the wrong type, a
terminal restored by `tcsetattr` still counts as raw, and a SIGINT between the
read and the reset of `getSignalState` is lost. Keys of `threads.c` are never
freed: after 1000 it warns and writes on.

*Modes.** Without a class `t` makes the sticky bit all that an action changes; `X`
adds under `-` and `=` too; `u=rg` keeps only the last of a copy and letters.

### Fairness

- `WasiProcess`: weak fairness of the parent's call (its thread runs until the
  call returns), of each child thread outside its program, and of a
  termination that was requested. None for a program: it may run forever. (That a
  requested `terminate` takes hold is a little more than Node.js says of a thread
  that is blocked in a call of native code.)
- `AtomicsOutput`: of the worker inside `sendOutput` and of the main thread's
  read. `monitorOutput` polls for as long as the worker is there, and each
  thread is scheduled by the host. None for sending, terminating, restarting.
- `AtomicsInput`: of the main thread inside `writeToStdin` and of the worker
  inside a call; the timeout of its wait is one of these steps. None for
  typing and signals.
- `ServiceWorkerIO`: of the page's reading (`monitorOutput` polls), of the
  handlers, and of the kernel worker's retries. None for `GiveUp`: it happens
  after three seconds, and in `DelayedWriteEnds` the page is quicker.
- `WorkerRpc`: of resumed promises, of the main thread's taking of messages,
  and of each worker's message loop. None for the ends of a worker or for
  users' calls.
- The others: none; nothing there is live that the code promises, a program
  runs its calls to their end.

## 5. What is proved

TLAPS proves the safety of eight modules: the seven state machines of the kernel,
with every invariant and every action property the runs check of them and the
refinement of `ChildTable`, and `SortRun` but for the order of its lines. A proof
is for all values of the constants, so it says of any number of children, cells,
bytes, restarts, requests, workers, libraries, descriptors, files and calls what a
run shows of the few in its `.cfg`. The
assumptions are the named `ASSUME`s and ask nothing the code does not provide.

Each proof has the same shape. An *inductive invariant* adds to the property what
the code relies on without saying it; it holds at the start; every action
keeps it, one lemma or step for each; the property follows. TLC finds the
invariants to hold on the instances of the runs (`FdInv` and `SortInv` without
their `Types`, whose sets it cannot enumerate), that of `FdTable` also with more calls and with nested runs.
Those of `Dylink` and `SortRun` hold in all states of their runs.

| module | for all | assumed | theorem | property |
|---|---|---|---|---|
| `WasiProcess` | pids, exit codes, signals | `PidAssumption`, `CodeAssumption`: the bound and the codes are naturals, signals positive | 10, in the table below | |
| `AtomicsOutput` | sizes of the buffer, bytes, restarts | `SizeAssumption`: the buffer has a tag and at least one byte | `TypeCorrect`, `OutputsIntact` | `OutputIntact` |
| `AtomicsInput` | sizes, bytes, signals, slices of sleep | `BoundAssumption`: the buffer is not empty | `TypeCorrect`, `InputsIntact`, `SignalsKept` | `InputIntact`, `SignalKept` |
| `ServiceWorkerIO` | items in and out, signals, reads | `BoundsAreNaturals` | `TypeCorrect`, `StreamsKept`, `ReaderServed` | `StreamsIntact`, `ReaderSound` |
| `WorkerRpc` | calls, workers | `WorkersAssumption`: the bound is a natural | `TypeCorrect`, `OwnReplies`, `WaitersServed` | `OwnReply`, `WaitsOnLiveWorker` |
| `Dylink` | libraries with any needs, exports and imports, main programs, calls, nested runs | `KindAssumption`: functions, data and libraries have different names; `LibraryAssumption`, `MainAssumption`: what a binary lists is of the right kind, and an export, a `GOT` import or a function of main's table is listed once; `BoundAssumption` | `SlotsStay`, `ExportsStay`, `RunsRestore`, `PointersStay` | `SlotsSound`, `ExportsGood`, `RunRestores`, `PointersGood` |
| `FdTable` | sizes of the tables, files, calls, nested runs, children | `NumberAssumption`: the descriptors at the start have numbers, Node.js's are the host's | `InvariantHolds`, `FilesStay`, `OthersStay`, `NoneForgotten` | `FilesKept`, `OthersKept`, `NothingForgotten` |
| `SortRun` | memory and batch sizes, inputs, ways to sort and to merge | `SortLimits`: memory for a line, a batch of two files at least; the bound on short writes is a natural | `InputsStay`, `NoTmpStays` | `InputsKept`, `NoTmpLeft` |

### `WasiProcess`

| theorem | states |
|---|---|
| `TypeCorrect` | `Spec => []TypeOK` |
| `Invariance` | `Spec => []IInv` |
| `StatusIsTheClaimants`, `ReapIsTheClaimants` | the status is the claimant's, stored and reported |
| `StatusNeverChanges` | a done record keeps its status (an action property) |
| `HandlesAreOfTheTable` | a worker handle is kept until its child is reaped |
| `DescriptorsCloseFirst` | a natural exit closes its descriptors before it can be reaped |
| `KillExcludesPublishing` | the thread of a killed child stores nothing |
| `Implements` | `Spec => ChildTableSpec`: the refinement |
| `WaitsAreServed` | `WaitPidServed`: a wait for a child of ours is answered by us |

*The argument.* None of these is inductive alone. `DoneMeansVerdict` could be
broken by a child and a parent that both store, so the invariant has to say who
may: `RecordSound` says that a thread past its claim (`Publishing`) is the
claimer and has not been killed, that the store comes before the flag, and that
a killed child was claimed by `kill`; `KillSound` says the same of the parent in
the midst of a kill. Together they make the two claimers exclusive.
`StartSound` ties pids to the tables: what has not been handed out has no
record, a synchronous child is done from the start, and a child that left the
table is done; the last is what lets a scan take only finished children and what
the refinement needs for `zombie` before `reaped`. `FdsSound` carries the order
of closing and claiming. `ReapSound` keeps what was reported equal to a record
that no longer changes. `IInv` is `TypeOK` and these parts.

The refinement maps a pid to `unborn`, `running`, `zombie` or `reaped` by
`kind`, `table` and `done`. A spawn maps to `Start` or `StartEnded`, the two
publications (`ChildPublish`, `KillPublish`) to `End`, a successful `TakeHit` to
`Reap`, and every other step to a stutter. `TakeHit` maps to `Reap` only because
what a scan looks at is still in the table; that is `ScanOfTable`, a small
invariant of its own.

`WaitPidServed` is a claim about where a call can end, so `WaitInv` follows it
from its first scan to its last (`NamedSound`): in the first scan the child waited
for is still to be looked at or was seen running in a worker; once the call
probes, aims or sleeps it does so for that child; in the second scan the child is
done and still to be looked at, so the scan takes it. `NotifySound` is what makes
the second scan find it done: a thread notifies after it has published.

### `AtomicsOutput` and `AtomicsInput`

What the reader emitted and what is in the buffer are what was stored
(`Accounted`), which is what `OutputIntact` says once both threads' locals are
counted. To keep it through a write, the invariant needs the checks before the
lock to hold still inside it: there is room and the buffer's bytes are for the
writer's stream (`Room`), the tag is zero while the lock is held and the bytes are
for the stream it will name (`Held`), the bytes copied stand behind the length
(`CopiedIn`). To keep it through a read, it says that the data at hand are the
buffer's first bytes and the tag is not zero (`ReadSoFar`). All this holds while
no read overlapped a locked section; that the history `overlapped` is set as
soon as both threads are inside is part of the invariant and not assumed. A
`Terminate` may come anywhere, also between the lock and the unlock; what the
dead worker copied and did not count is nobody's. The types needed an argument of
their own, for they hold with overlaps too: a reset between the worker's loads
of the length makes a stored length smaller, never too large.

`InputIntact` has the same argument in the other direction (`Accounted`,
`CopiedIn`, `CopiedOut` of `ByteInv`). Its types rest on `Budget`: no length exceeds
what was typed, because a stale length that is added to counts bytes once typed.
`SignalKept` needs one fact more, that what `getSignalState` is about to clear it
has loaded.

### `ServiceWorkerIO`

`StreamInv` is `TypeInv`, the input (`ReaderSound`, `InputIntact`, which are inductive
together) and `OutputInv`. For the output, items have numbers and the
invariant says where each stored one is: emitted, in an answer on its way, or in
the cache, in exactly one of these (`Placed`), with each cache and each answer of one
stream and in rising order (`Batch`). That is kept as long as no write gave up.
As long as no answers crossed there is one answer at most, and what is emitted comes
before what is on its way, and that before what is in the cache (`InOrder`);
so emitting the answer keeps the order.

### `WorkerRpc`

`RpcInv` says that every message in a queue, every call a worker is busy with and
every request that waits for the file system was `Posted` by its call, to this
worker and under the call's id, and that ids are not shared (`CallsSound`,
`WorkersSound`). A reply then settles the call it is about, and no other. That
no call reaches a loading worker rests on one fact about the whole path of
`init`: the init message is first in its worker's queue, its answer is sent by a worker
that is up, a call is resumed only after that answer or the end of the worker,
and when no init is in flight the worker is up. A call that waits has `on[c] =
worker`, because the end of a worker settles all that wait on it.

### `FdTable`

The three properties exempt what is in `wrong` and `lost`. The proof shows that
nothing else is ever spoiled. They are not inductive: a close that is right for
the program must not take a number from someone else, so `FdInv` adds that the
number of a descriptor that is not in `wrong` is relied on neither by a child
nor by Node.js (`Alone`), and a child's that is not in `wrong` by no other
child and not by Node.js. Descriptors of the tables may share a number, of the
running program or of those that wait for it; that is aliasing, which
`SpoiledByClose` follows. So what a call closes has only holders it names
(`ClosedIsWrong` and the lemmas about `Holders`). The actions are then reduced
to two kinds: steps of the running program, which set some descriptors and
change some numbers (`CallKeepsSound`, `CallForgetsNone`: what they ask is that the
holders of a changed number are in `wrong` or among those set), and steps of
children, which leave the tables alone (`TablesStay`, `ChildGone`). The
restoration at the end of a run is by itself: a level of the stack takes the
place of the running table. The model was wrong in one place and the proof would
not go through there: of two children that share a number, the end of one was
taken to set the other right.

### `Dylink`

Four invariants, each on top of the one before (`LinkInv` is all of them).

`SlotInv` is `SlotsSound` with what it relies on. Main's slots are main's for
ever (`MainSound`). A `dlopen` under way is of a library that is not open, all the
needed ones it has passed are open, and each waits for the next on the stack
(`FramesSound`): so when one loads, no other call further down is of the same
library, even if libraries need each other in a circle, and a path gets one
handle. Slots are handed out in the order of `Slot(p, i)`, first those that were
freed and then those behind the library's own part of the table; `SlotFacts` says
that these are free and different, `TakeFacts` what is left, `WaitingFacts` and
`NewSlots` that the names of `funcMap` and the new exports have a slot each, and
`TableFacts` what is set in the end. The failures keep the invariant because they
leave reserved slots with the names that stay in `funcMap`, never with nobody.

`PtrsSound` says that a slot in `symToPtr` holds a function of its name, the
library's own if it exports one. A new library's pointers are to its own functions,
or copies of what a pointer of an open library or main is to (`NewPointers`); an
open library's slots change only when it is closed (`OwnedKept`).

`SavedSound` says of each program that waits for another that its handles are
still open and as they were, but for those closed since (`Held` is the rest), that its names are still in `GOT`, and, if its own `dlopen`s all
succeeded, that they have the values they had and that none of them waits for one.
The last is why `setState` suffices: the inner program may fail at any stage and
leave names in `funcMap` and `memMap`, but these are new names, and the end of its
run deletes them. What was saved further out is contained in what was saved
further in, so the end of one run leaves the others' as it was (`EndRunRestores`).

`GotSound` is stronger than `PointersGood`: all names in `GOT`, not only those that
open libraries import, point to a slot that main or an open library *owns*, or to
an instance that is main or of an open library; and it says the same of each
program that waits, for its own libraries and names. In this form a step of an
inner program cannot break it for a program whose libraries nobody closed, since no
step touches the slots or names of the others (`GoodKept`, `SavedStaysGood`). A library that loads with nothing left
waiting has each new name resolved to main, to itself or to a library that is open
(`LoadIsGood`). `PointersGood` by itself is not inductive: it says nothing of the
programs that wait, nothing after the running one failed or closed something, and
nothing of who owns the slots.

Nothing in these proofs needs what a sequence operator of a library module
computes by recursion: a list that loses some elements is `Kept`, whose k-th
element is the one of rank k (`Ranks`, `KeptFacts`).

### `SortRun`

`SortInv` says where the files of a run's own are. `OutputSound`: when the output
is also an input it is written under another name, and the two names are
different from every input. `ResultSound`: from the end of the last write on, the
file that is to be the output has the whole result, unless a write was short; so
what `RenameOutfile` moves is that, and `signalAt` names only where a run was
killed. A write cut off in its midst, by a signal or by `err`, changes the lines of
one file only, one of `tmp_files` or the output, never an input (`CutShort`). `FilesSound`: a file of its own is in `tmp_files`,
and only such files are; so a signal removes all of them and no other.
`ListsSound`: such a file is in the list of files to merge, in the new list of
`shrink_file_list`, or is the output; so the end removes them. A merge that removes
its group must not remove an input, which is `fltmp`: the list is the run's own.
`CountSound` bounds the names: a merge of a batch takes at least two files and
makes one, so each name that is made pays for one that goes (`counter + 2 * Len(fl)`
does not grow, with the new list counted in). An earlier form of `NoTmpLeft` bounded
the names by twice the lines and inputs; its proof did not go through, and it is
false with 129 lines, one line of memory and a batch of two.

### What is only model-checked

- *Liveness:* `SleeperWakes`, `KilledThreadStops`, `SleeperOnDataWakes`,
  `BlockedReturns`, `DelayedWriteEnds`, `SleepInterrupted`, `CallSettles`,
  `InitSettles`. Fairness is stated with ENABLED, which is out of the prover's
  reach.
- *The order of lines*, `ResultRight` of `SortRun`: what a sort and a merge make of
  the lines is recursive (`SortKeys`, `LibSorts`) and a parameter of the proved
  module.
- *The programs on trees.* No RECURSIVE operator stands in the way of `PathsAgree`,
  but the invariant would have to speak of every remembered path and of trees of
  any depth; not attempted.
- *The programs computed in one step.* What they state is the result of a loop over
  data.

## 6. What is not modelled

- *Parts of programs:* most option parsing, usage messages, locale tables, character
  sets beyond a few representatives, owners, modes and times of copies,
  `tail -f`, the radix sort and threads of `sort`, regular expressions beyond
  plain characters.
- *Generated code and data:* the C that Cython wrote under `python/bench`, the
  rest of the prime tables of `factor`, the test programs under `sagemath`, and headers of declarations: more than a third
  of the C in the repository, with nothing in it that a definition could state.
- *The memory image in `PosixContext.run`* and the POSIX and WASI state copied
  with it: they are copied and put back whole, so a model would restate the
  copy. What `run` does not put back is listed as a hazard: the function cache,
  pointers into `malloc`ed memory, the module-wide signal mask.
- *The working directory around each POSIX call* (`posix/index.ts`): planned.
- *`cowasm_vforkexec`, captured output of children:* calls into the host.
- *The rest of `posix/`, marshalling, the C library's shims:* one host call each,
  or conversions; what state there is lives in the host.
- *Shell, Python, web, desktop, build system, vendored programs:* user
  interfaces, scripts and other projects' code.
- *Weak memory.* The code mixes plain and atomic accesses. The models have
  single accesses in program order; the disagreements found need no more.
