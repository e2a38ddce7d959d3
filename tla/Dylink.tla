-------------------------------- MODULE Dylink --------------------------------
(***************************************************************************)
(* Dynamic linking in one WebAssembly instance (core/dylink/src/dlopen.ts, *)
(* function-table.ts, global-offset-table.ts), and what running a program  *)
(* inside its parent's memory does to it (PosixContext.run in              *)
(* core/kernel/src/wasm/worker/posix-context.ts).                          *)
(*                                                                         *)
(* Everything here runs on one thread.  A dlopen of a library that needs   *)
(* others opens those first; `frames' is the stack of these calls, and     *)
(* each step of the module is the work between two of them.  A library's   *)
(* binary is abstracted to what the linker reads from it: the paths it     *)
(* needs, the functions and data it exports, the names in its GOT.func and *)
(* GOT.mem imports and the size of its part of the function table.         *)
(* Linear memory is left out but for the identity of the instance that a   *)
(* data pointer points into.                                               *)
(***************************************************************************)
EXTENDS Integers, SequencesExt

CONSTANTS
  Lib,          \* paths of the dynamic libraries
  Main,         \* the path "" of the main instance
  FuncSym,      \* names of functions
  DataSym,      \* names of data
  Needs,        \* metadata.neededDynlibs of each library
  Exports,      \* the functions each library exports, in order
  DataExports,  \* the data each library exports
  GotImports,   \* the names each library imports through GOT.func and GOT.mem
  TableSize,    \* metadata.tableSize of each library
  MainTable,    \* the functions of main with a __WASM_EXPORT__ accessor, in order
  MainFuncs,    \* further functions that main provides
  MainData,     \* the data of main with an accessor
  MaxTries,     \* bound: calls of dlopen for libraries that are not open
  MaxRuns       \* bound: programs run inside others

ASSUME KindAssumption == FuncSym \cap DataSym = {} /\ Main \notin Lib

ASSUME LibraryAssumption ==
  /\ Needs \in [Lib -> Seq(Lib)] /\ TableSize \in [Lib -> Nat]
  /\ Exports \in [Lib -> Seq(FuncSym)] /\ DataExports \in [Lib -> SUBSET DataSym]
  /\ GotImports \in [Lib -> Seq(FuncSym \cup DataSym)]
  /\ \A l \in Lib : IsInjective(Exports[l]) /\ IsInjective(GotImports[l])

ASSUME MainAssumption ==
  /\ MainTable \in Seq(FuncSym) /\ IsInjective(MainTable)
  /\ MainFuncs \subseteq FuncSym /\ MainData \subseteq DataSym

ASSUME BoundAssumption == MaxTries \in Nat /\ MaxRuns \in Nat

VARIABLES
  table,      \* the function table: the slots that are not null
  available,  \* availableTableIndexes, a Set kept in order of insertion
  next,       \* nextTablePos
  got,        \* GOT: a slot for a function, an instance for data
  funcMap,    \* names in funcMap, in order: their slot is reserved, not set
  memMap,     \* names in memMap, in order
  libs,       \* handleToLibrary
  frames,     \* dlopen calls under way, the innermost last
  runs,       \* PosixContext.run calls under way: the state to restore and, as
              \* history, the handles in it that were closed since
  ending,     \* the last of them closes the libraries that its program left open
  loads,      \* history: instances made; an instance is known by its number
  tries,      \* history: dlopens that had something to do
  clean,      \* history: no dlopen threw and no library was closed since the program began
  started     \* history: programs run so far

linker == <<table, available, next, got, funcMap, memMap, libs>>
vars == <<linker, frames, runs, ending, loads, tries, clean, started>>

(* Instances: main is 1, libraries count on; 0 is the address of a GOT.mem  *)
(* entry that has not been resolved.                                        *)
NoAddress == 0
MainInstance == 1

(* A function in the table; the functions of a library's own part of the    *)
(* table have no name that matters.                                         *)
Element == "element"
Function(i, s) == [of |-> i, sym |-> s]

Path == Lib \cup {Main}
MainSlot(s) == CHOOSE i \in DOMAIN MainTable : MainTable[i] = s
Loaded(p) == \E h \in DOMAIN libs : libs[h].path = p
HandleOf(p) == CHOOSE h \in DOMAIN libs : libs[h].path = p
Named(l, s) == {i \in DOMAIN l.ptrs : l.ptrs[i].sym = s}
Slots(l) == [i \in DOMAIN l.ptrs |-> l.ptrs[i].slot]
Without(f, S) == [x \in DOMAIN f \ S |-> f[x]]

(* The elements of s that are in S, in their order.                         *)
Rank(I, i) == Cardinality({j \in I : j <= i})
Kept(s, S) ==
  LET I == {i \in DOMAIN s : s[i] \in S}
  IN [k \in 1 .. Cardinality(I) |-> s[CHOOSE i \in I : Rank(I, i) = k]]

(* dlsym with the handle of a library: its symToPtr.                        *)
Dlsym(h, s) == libs[h].ptrs[CHOOSE i \in Named(libs[h], s) : TRUE].slot

Init ==
  /\ table = [i \in 1 .. Len(MainTable) |-> Function(MainInstance, MainTable[i])]
  /\ available = <<>> /\ next = Len(MainTable) + 1
  /\ got = [s \in {} |-> 0] /\ funcMap = <<>> /\ memMap = <<>>
  /\ libs = [h \in {} |-> 0] /\ frames = <<>> /\ runs = <<>> /\ ending = FALSE
  /\ loads = MainInstance /\ tries = 0 /\ clean = TRUE /\ started = 0

-----------------------------------------------------------------------------
(* Opening *)

(* createLibrary *)
NextHandle == Max({0} \cup DOMAIN libs) + 1
WithLibrary(p, i, ptrs) ==
  [h \in DOMAIN libs \cup {NextHandle} |->
     IF h = NextHandle THEN [path |-> p, load |-> i, ptrs |-> ptrs] ELSE libs[h]]

Idle == frames = <<>> /\ ~ending

(* The dlopen of a library that is open changes nothing: it returns the     *)
(* handle, and counts no references.                                        *)
OpenMain ==
  /\ Idle /\ ~Loaded(Main)
  /\ libs' = WithLibrary(Main, MainInstance, <<>>)
  /\ UNCHANGED <<table, available, next, got, funcMap, memMap, frames, runs, ending, loads, tries,
                 clean, started>>

BeginOpen(p) ==
  /\ Idle /\ tries < MaxTries /\ ~Loaded(p)
  /\ tries' = tries + 1
  /\ frames' = <<[path |-> p, need |-> 1]>>
  /\ UNCHANGED <<linker, runs, ending, loads, clean, started>>

Top == frames[Len(frames)]
NeedsDone == frames # <<>> /\ Top.need > Len(Needs[Top.path])

(* The next library that the one being opened needs: dlopen returns at once *)
(* when it is open.                                                         *)
OpenNeeded ==
  /\ frames # <<>> /\ ~NeedsDone
  /\ LET n == Needs[Top.path][Top.need] IN
     frames' = IF Loaded(n) THEN [frames EXCEPT ![Len(frames)].need = @ + 1]
                            ELSE Append(frames, [path |-> n, need |-> 1])
  /\ UNCHANGED <<linker, runs, ending, loads, tries, clean, started>>

(* An exception leaves every dlopen under way; nothing is undone.           *)
Throws ==
  /\ frames' = <<>> /\ clean' = FALSE
  /\ UNCHANGED <<libs, runs, ending, tries, started>>

(* The file is missing or is not a valid library.                           *)
NotALibrary ==
  /\ frames # <<>> /\ Throws
  /\ UNCHANGED <<table, available, next, got, funcMap, memMap, loads>>

-----------------------------------------------------------------------------
(* The import of the library on top of the stack *)

(* prepareForImport: the library's part of the table begins at `next'.      *)
Prepared(p) == next + TableSize[p]

(* getNextAvailableIndex: the i-th slot handed out once the library's part  *)
(* is set aside.                                                            *)
Slot(p, i) ==
  IF i <= Len(available) THEN available[i] ELSE Prepared(p) + i - Len(available) - 1

Behind(n) == IF n > Len(available) THEN n - Len(available) ELSE 0
(* Variant with a mistake: a slot that was freed stays available.           *)
TakeSlotsKeeping(p, n) ==
  /\ available' = available
  /\ next' = Prepared(p) + Behind(n)
TakeSlots(p, n) ==
  /\ available' = SubSeq(available, n + 1, Len(available))
  /\ next' = Prepared(p) + Behind(n)

(* GOTFuncHandler and GOTMemHandler for the first k imports: a name that is *)
(* in GOT already keeps its value.                                          *)
Unknown(p, k) == Kept(SubSeq(GotImports[p], 1, k), (FuncSym \cup DataSym) \ DOMAIN got)
NewData(p, k) == Kept(Unknown(p, k), DataSym)
NewFuncs(p, k) == Kept(Unknown(p, k), FuncSym \ ToSet(MainTable))

GotEntry(p, k, s) ==
  IF s \in DataSym THEN NoAddress
  ELSE IF s \in ToSet(MainTable) THEN MainSlot(s)
  ELSE Slot(p, CHOOSE i \in DOMAIN NewFuncs(p, k) : NewFuncs(p, k)[i] = s)

GotRead(p, k) ==
  [s \in DOMAIN got \cup ToSet(Unknown(p, k)) |->
     IF s \in DOMAIN got THEN got[s] ELSE GotEntry(p, k, s)]

(* The import throws, after some of the names were looked up: a function of *)
(* env is missing or has another type, or the import order put it first.    *)
ImportFails(k) ==
  /\ NeedsDone /\ k <= Len(GotImports[Top.path])
  /\ LET p == Top.path IN
     /\ TakeSlots(p, Len(NewFuncs(p, k)))
     /\ got' = GotRead(p, k)
     /\ funcMap' = funcMap \o NewFuncs(p, k) /\ memMap' = memMap \o NewData(p, k)
  /\ Throws /\ UNCHANGED <<table, loads>>

-----------------------------------------------------------------------------
(* Linking what was imported *)

All(p) == Len(GotImports[p])
Pending(p) == funcMap \o NewFuncs(p, All(p))
PendingData(p) == memMap \o NewData(p, All(p))

(* The exports that no pending name waits for get slots of their own.       *)
Fresh(p) == Kept(Exports[p], FuncSym \ ToSet(Pending(p)))
(* Variant with a mistake: forgets the slots that the import took. *)
FreshSlotFirst(p, i) == Slot(p, i)

FreshSlot(p, i) == Slot(p, Len(NewFuncs(p, All(p))) + i)

(* getFunctionFromPaths, then getFunction: the needed libraries in order,   *)
(* then all of them by handle; a pointer to an empty slot is not a function.*)
Offers(s) == {h \in DOMAIN libs : \E i \in Named(libs[h], s) : libs[h].ptrs[i].slot \in DOMAIN table}
NeededFirst(p, H) ==
  LET at == {i \in DOMAIN Needs[p] : Loaded(Needs[p][i]) /\ HandleOf(Needs[p][i]) \in H} IN
  IF at # {} THEN HandleOf(Needs[p][Min(at)]) ELSE Min(H)

Resolvable(p, s) ==
  \/ s \in ToSet(Exports[p]) \/ Offers(s) # {} \/ s \in MainFuncs
Resolve(p, s) ==
  IF s \in ToSet(Exports[p]) THEN Function(loads + 1, s)
  ELSE IF Offers(s) # {} THEN table[Dlsym(NeededFirst(p, Offers(s)), s)]
  ELSE Function(MainInstance, s)

(* memMap: the library's own data, the needed libraries, the others, main.  *)
DataOffers(s) == {h \in DOMAIN libs : libs[h].path \in Lib /\ s \in DataExports[libs[h].path]}
DataResolvable(p, s) == s \in DataExports[p] \/ DataOffers(s) # {} \/ s \in MainData
DataResolve(p, s) ==
  IF s \in DataExports[p] THEN loads + 1
  ELSE IF DataOffers(s) # {} THEN libs[NeededFirst(p, DataOffers(s))].load
  ELSE MainInstance

(* The first n names can be resolved, and, if there are more, the next not. *)
LinksTo(p, n) ==
  /\ \A i \in 1 .. n : Resolvable(p, Pending(p)[i])
  /\ n < Len(Pending(p)) => ~Resolvable(p, Pending(p)[n + 1])
DataLinksTo(p, n) ==
  /\ \A i \in 1 .. n : DataResolvable(p, PendingData(p)[i])
  /\ n < Len(PendingData(p)) => ~DataResolvable(p, PendingData(p)[n + 1])

(* The table once the library's part, its exports and the first n pending   *)
(* names are set.                                                           *)
PartOf(p) == next .. next + TableSize[p] - 1
TableWith(p, n) ==
  LET exported == [i \in 1 .. Len(Fresh(p)) |-> FreshSlot(p, i)]
      named == [i \in 1 .. n |-> GotRead(p, All(p))[Pending(p)[i]]]
      set == PartOf(p) \cup ToSet(exported) \cup ToSet(named)
      Value(x) ==
        IF x \in ToSet(named)
          THEN Resolve(p, Pending(p)[CHOOSE i \in 1 .. n : named[i] = x])
        ELSE IF x \in ToSet(exported)
          THEN Function(loads + 1, Fresh(p)[CHOOSE i \in DOMAIN exported : exported[i] = x])
        ELSE Function(loads + 1, Element)
  IN [x \in DOMAIN table \cup set |-> IF x \in set THEN Value(x) ELSE table[x]]

(* GOT once the first n pending names of memMap are resolved.               *)
GotWith(p, n) ==
  LET resolved == {PendingData(p)[i] : i \in 1 .. n} IN
  [s \in DOMAIN GotRead(p, All(p)) |->
     IF s \in resolved THEN DataResolve(p, s) ELSE GotRead(p, All(p))[s]]

(* symToPtr *)
Pointers(p) ==
  [i \in 1 .. Len(Fresh(p)) |-> [sym |-> Fresh(p)[i], slot |-> FreshSlot(p, i)]]
  \o [i \in 1 .. Len(Pending(p)) |->
        [sym |-> Pending(p)[i], slot |-> GotRead(p, All(p))[Pending(p)[i]]]]

Instantiate(p) ==
  /\ TakeSlots(p, Len(NewFuncs(p, All(p))) + Len(Fresh(p)))
  /\ loads' = loads + 1

UnresolvedFunction ==
  /\ NeedsDone
  /\ LET p == Top.path IN
     /\ Instantiate(p)
     /\ \E n \in 0 .. Len(Pending(p)) - 1 :
          /\ LinksTo(p, n)
          /\ table' = TableWith(p, n)
          /\ funcMap' = SubSeq(Pending(p), n + 1, Len(Pending(p)))
     /\ got' = GotRead(p, All(p)) /\ memMap' = PendingData(p)
  /\ Throws

(* The name that cannot be resolved leaves memMap, but stays in GOT.        *)
UnresolvedData ==
  /\ NeedsDone
  /\ LET p == Top.path IN
     /\ Instantiate(p)
     /\ LinksTo(p, Len(Pending(p))) /\ table' = TableWith(p, Len(Pending(p)))
     /\ \E n \in 0 .. Len(PendingData(p)) - 1 :
          /\ DataLinksTo(p, n)
          /\ got' = GotWith(p, n)
          /\ memMap' = SubSeq(PendingData(p), n + 2, Len(PendingData(p)))
  /\ funcMap' = <<>>
  /\ Throws

Link(p) ==
  /\ LinksTo(p, Len(Pending(p))) /\ DataLinksTo(p, Len(PendingData(p)))
  /\ Instantiate(p)
  /\ table' = TableWith(p, Len(Pending(p))) /\ got' = GotWith(p, Len(PendingData(p)))
  /\ funcMap' = <<>> /\ memMap' = <<>>

(* __wasm_apply_data_relocs or __wasm_call_ctors throws.                    *)
CtorsFail == NeedsDone /\ Link(Top.path) /\ Throws

Load ==
  /\ NeedsDone /\ Link(Top.path)
  /\ libs' = WithLibrary(Top.path, loads + 1, Pointers(Top.path))
  /\ frames' = Front(frames)
  /\ UNCHANGED <<runs, ending, tries, clean, started>>

-----------------------------------------------------------------------------
(* Closing *)

(* functionTable.delete for each pointer of the library.                    *)
Freed(l) == Kept(Slots(l), Nat \ ToSet(available))
Unload(h) ==
  /\ table' = Without(table, ToSet(Slots(libs[h])))
  /\ available' = available \o Freed(libs[h])
  /\ libs' = Without(libs, {h}) /\ clean' = FALSE

(* dlclose unloads at once, whoever else opened the library or uses it; the *)
(* main library stays.                                                      *)
Shut(h) ==
  [i \in DOMAIN runs |->
     IF h \in DOMAIN runs[i].libs THEN [runs[i] EXCEPT !.shut = @ \cup {h}] ELSE runs[i]]
Dlclose(h) ==
  /\ Idle /\ libs[h].path \in Lib
  /\ Unload(h)
  /\ runs' = Shut(h)
  /\ UNCHANGED <<next, got, funcMap, memMap, frames, ending, loads, tries, started>>

-----------------------------------------------------------------------------
(* Running a program inside the memory of the one that runs *)

(* getDlopenState: the handles and the names in GOT.                        *)
BeginRun ==
  /\ Idle /\ started < MaxRuns /\ started' = started + 1
  /\ runs' = Append(runs, [libs |-> libs, got |-> got, clean |-> clean, shut |-> {}])
  /\ UNCHANGED <<linker, frames, ending, loads, tries, clean>>

(* Variant with a mistake: leaves the program's libraries open. *)
NewHandlesNone == {}
(* DlopenManager.setState: dlclose of the handles that are new, in order.   *)
NewHandles == DOMAIN libs \ DOMAIN Last(runs).libs
CloseNew ==
  /\ frames = <<>> /\ runs # <<>> /\ ending' = TRUE
  /\ \E h \in NewHandles : (\A k \in NewHandles : h <= k) /\ Unload(h)
  /\ UNCHANGED <<next, got, funcMap, memMap, frames, runs, loads, tries, started>>

(* Variant with a mistake: forgets nothing.                                 *)
ForgetNewNothing(old) == UNCHANGED <<got, funcMap, memMap>>

(* GlobalOffsetTable.setState *)
ForgetNew(old) ==
  /\ got' = Without(got, DOMAIN got \ old)
  /\ funcMap' = Kept(funcMap, old) /\ memMap' = Kept(memMap, old)

EndRun ==
  /\ frames = <<>> /\ runs # <<>> /\ NewHandles = {}
  /\ LET saved == Last(runs) IN
     /\ ForgetNew(DOMAIN saved.got)
     /\ clean' = (saved.clean /\ saved.shut = {})
  /\ runs' = Front(runs) /\ ending' = FALSE
  /\ UNCHANGED <<table, available, next, libs, frames, loads, tries, started>>

-----------------------------------------------------------------------------
Opens == OpenMain \/ \E p \in Lib : BeginOpen(p)
Linking ==
  \/ OpenNeeded \/ NotALibrary \/ (\E k \in 0 .. (IF frames = <<>> THEN 0 ELSE All(Top.path)) : ImportFails(k))
  \/ UnresolvedFunction \/ UnresolvedData \/ CtorsFail \/ Load

Next ==
  \/ Opens \/ Linking
  \/ \E h \in DOMAIN libs : Dlclose(h)
  \/ BeginRun \/ CloseNew \/ EndRun

Spec == Init /\ [][Next]_vars

-----------------------------------------------------------------------------
(* Properties *)

Handle == Nat \ {0}
Index == 0 .. next - 1

(* Every variable keeps its type; a name that waits for a value has its     *)
(* entry in GOT.                                                            *)
TypeOK ==
  /\ DOMAIN table \subseteq Nat /\ next \in Nat /\ available \in Seq(Nat)
  /\ \A x \in DOMAIN table :
       table[x] \in [of : MainInstance .. loads, sym : FuncSym \cup {Element}]
  /\ DOMAIN got \subseteq FuncSym \cup DataSym
  /\ \A s \in DOMAIN got : got[s] \in (IF s \in DataSym THEN NoAddress .. loads ELSE Nat)
  /\ funcMap \in Seq(FuncSym \cap DOMAIN got) /\ memMap \in Seq(DataSym \cap DOMAIN got)
  /\ DOMAIN libs \subseteq Handle
  /\ \A h \in DOMAIN libs : /\ libs[h].path \in Path /\ libs[h].load \in MainInstance .. loads
                           /\ libs[h].ptrs \in Seq([sym : FuncSym, slot : Nat])
  /\ \A i \in DOMAIN frames : frames[i].path \in Lib /\ frames[i].need \in Nat
  /\ ending \in BOOLEAN /\ clean \in BOOLEAN
  /\ loads \in Nat \ {0} /\ tries \in 0 .. MaxTries /\ started \in 0 .. MaxRuns

(* The slots of the function table have one owner each: main, an open       *)
(* library's symToPtr, a name in funcMap, or nobody, and then it may be     *)
(* handed out.  So the error "trying to set a table index that is already   *)
(* set" of FunctionTable.set is never thrown, whatever was opened, closed,  *)
(* run, or failed before.  A library has one handle: pathToLibrary and      *)
(* handleToLibrary agree.                                                   *)
Reserved == {got[funcMap[i]] : i \in DOMAIN funcMap}
SlotsOf(h) == ToSet(Slots(libs[h]))
AvailableAreFree ==
  /\ IsInjective(available) /\ ToSet(available) \cap DOMAIN table = {}
  /\ ToSet(available) \cup DOMAIN table \subseteq Index
ReservedAreFree ==
  /\ IsInjective(funcMap) /\ IsInjective([i \in DOMAIN funcMap |-> got[funcMap[i]]])
  /\ Reserved \cap (DOMAIN table \cup ToSet(available)) = {} /\ Reserved \subseteq Index
OwnedAreSet ==
  /\ \A h \in DOMAIN libs : /\ IsInjective(Slots(libs[h])) /\ SlotsOf(h) \subseteq DOMAIN table
                           /\ SlotsOf(h) \cap DOMAIN MainTable = {}
  /\ \A h, k \in DOMAIN libs : h # k => SlotsOf(h) \cap SlotsOf(k) = {}
OneHandle == \A h, k \in DOMAIN libs : libs[h].path = libs[k].path => h = k
SlotsSound == TypeOK /\ AvailableAreFree /\ ReservedAreFree /\ OwnedAreSet /\ OneHandle

(* dlsym on an open library finds the library's own function, whatever      *)
(* other libraries of the same names were opened and closed around it.      *)
ExportsGood ==
  \A h \in DOMAIN libs : libs[h].path \in Lib =>
    \A s \in ToSet(Exports[libs[h].path]) :
      Dlsym(h, s) \in DOMAIN table /\ table[Dlsym(h, s)] = Function(libs[h].load, s)

(* What the GOT entries of an open library's imports point to is there and  *)
(* is what was asked for.                                                   *)
Instances == {MainInstance} \cup {libs[h].load : h \in DOMAIN libs}
PointsRight(s) ==
  IF s \in DataSym
    THEN \/ got[s] = MainInstance /\ s \in MainData
         \/ \E h \in DOMAIN libs : /\ libs[h].path \in Lib /\ got[s] = libs[h].load
                                  /\ s \in DataExports[libs[h].path]
    ELSE /\ got[s] \in DOMAIN table /\ table[got[s]].sym = s
         /\ table[got[s]].of \in Instances
AllPointRight ==
  \A h \in DOMAIN libs : libs[h].path \in Lib =>
    \A s \in ToSet(GotImports[libs[h].path]) : s \in DOMAIN got /\ PointsRight(s)

(* Between dlopen calls, a program that saw no dlopen fail, and whose       *)
(* libraries nobody closed, has good pointers in all of them, even if       *)
(* programs it ran in its memory meanwhile failed to open libraries, and    *)
(* opened and closed others: setDlopenState in PosixContext.run takes back  *)
(* all they did.                                                            *)
PointersGood == Idle /\ clean => AllPointRight

(* When a program run in place ends, its parent has no handle it did not    *)
(* have before, and each library that no program run meanwhile closed is    *)
(* the one it was; if the parent's own dlopens all succeeded, it has the    *)
(* GOT it had, whatever was opened, closed or failed.  A library of the     *)
(* parent that such a program closes is gone: DlopenManager.setState only   *)
(* closes, and a handle that was used again by then is not a new one to it. *)
RunRestores ==
  [][Len(runs') < Len(runs) =>
       LET saved == Last(runs) IN
       /\ DOMAIN libs' \subseteq DOMAIN saved.libs
       /\ \A h \in DOMAIN saved.libs \ saved.shut : h \in DOMAIN libs' /\ libs'[h] = saved.libs[h]
       /\ saved.clean => got' = saved.got /\ funcMap' = <<>> /\ memMap' = <<>>]_vars

=============================================================================
