--------------------------------- MODULE SortRun ---------------------------------
(***************************************************************************)
(* One run of sort: reading into memory, the temporary files it fills and  *)
(* merges, the output file and its replacement, and what a signal or a     *)
(* failing write leaves (core/coreutils/src/utils/sort/{file,sort}.c and   *)
(* bwstring.c).  What a sort or a merge makes of the lines is a parameter. *)
(* A file name is <<kind, n>>.                                             *)
(***************************************************************************)
EXTENDS Integers, SequencesExt

CONSTANTS
  MaxShort,       \* bound on the writes of a run that fail unnoticed
  Memory,         \* lines kept before they go to a temporary file (-S)
  MaxOpen,        \* max_open_files: the batch size plus one
  Sorting(_, _),  \* the lines of a list, sorted as a command asks
  Merging(_, _)   \* the lines of several sorted files, merged
ASSUME SortLimits ==
  Memory \in Nat \ {0} /\ MaxOpen \in Nat /\ MaxOpen >= 3 /\ MaxShort \in Nat

VARIABLES
  args,           \* [inputs, dest, mode, o, keys]: the command
  was,            \* the files as the run finds them
  fs,             \* the files there are: name -> lines
  pc,
  cur,            \* <<input, lines of it read>>
  list,           \* sort_list
  fl, fltmp,      \* file_list: its names, and whether they are its own
  newfl,          \* the list shrink_file_list builds
  dest, real,     \* outfile, and real_outfile or NoName
  tmpFiles,       \* tmp_files: what a signal removes
  counter,        \* tfcounter
  spills,         \* history: lists that went to a temporary file
  short,          \* history: the writes that failed unnoticed
  result,         \* history: the lines the output file was to get
  signalAt        \* history: the pc at which a signal came, or "none"
history == <<short, result, signalAt>>
vars == <<args, was, fs, pc, cur, list, fl, fltmp, newfl, dest, real, tmpFiles, counter, spills,
          history>>

NoName == <<"none", 0>>
Tmp(n) == <<"tmp", n>>
Suffixed(f) == <<"suffixed", f[2]>>
Ended == {"done", "killed", "failed"}

-----------------------------------------------------------------------------
(* sort_list_to_file and merge_files_array: what they write.               *)
SortList(lines) == Sorting(args, lines)
MergeFiles(names, files) == Merging(args, [i \in DOMAIN names |-> files[names[i]]])

Without(files, names) == [f \in DOMAIN files \ names |-> files[f]]
With(files, f, lines) == [g \in DOMAIN files \cup {f} |-> IF g = f THEN lines ELSE files[g]]

(* bwsfwrite and closefile: a write that fails leaves part of the lines.   *)
(* Most failures end the run (err); that of the last fwprintf of a line,   *)
(* and that of fclose, which writes what is buffered, pass unnoticed.  The *)
(* part is taken to be the first lines: a line cut in two, or a gap, is no *)
(* other case to the properties.                                           *)
Parts(lines) == {SubSeq(lines, 1, n) : n \in 0 .. Len(lines)}
Written(lines) == IF short < MaxShort THEN Parts(lines) \cup {lines} ELSE {lines}
ShortOf(lines, written) == short' = short + (IF written = lines THEN 0 ELSE 1)

-----------------------------------------------------------------------------
(* The names of temporary files carry the process id and are nobody else's, *)
(* and the name with ".tmp" is one that access does not find.               *)
Own(f) == f[1] \in {"tmp", "suffixed"}
Command ==
  /\ args.inputs \in Seq(DOMAIN was) /\ args.mode \in {"sort", "merge"}
  /\ \A f \in DOMAIN was \cup {args.dest} : ~Own(f) /\ f # NoName
Init ==
  /\ Command /\ fs = was
  /\ pc = "start" /\ cur = <<1, 0>> /\ list = <<>>
  /\ fl = <<>> /\ fltmp = TRUE /\ newfl = <<>>
  /\ dest = args.dest /\ real = NoName
  /\ tmpFiles = {} /\ counter = 0 /\ spills = 0
  /\ short = 0 /\ result = <<>> /\ signalAt = "none"

(* main: an output file that is also read is written under another name.   *)
(* Variant with a mistake: the output file is written whatever it is. *)
StartMainInPlace ==
  /\ pc = "start"
  /\ IF args.mode = "merge"
       THEN pc' = "merge" /\ fl' = args.inputs /\ fltmp' = FALSE
       ELSE pc' = "read" /\ UNCHANGED <<fl, fltmp>>
  /\ UNCHANGED <<args, was, fs, cur, list, newfl, dest, real, tmpFiles, counter, spills, history>>
StartMain ==
  /\ pc = "start"
  /\ IF dest \in ToSet(args.inputs)
       THEN /\ real' = dest /\ dest' = Suffixed(dest)
            /\ tmpFiles' = tmpFiles \cup {Suffixed(dest)}
       ELSE UNCHANGED <<real, dest, tmpFiles>>
  /\ IF args.mode = "merge"
       THEN pc' = "merge" /\ fl' = args.inputs /\ fltmp' = FALSE
       ELSE pc' = "read" /\ UNCHANGED <<fl, fltmp>>
  /\ UNCHANGED <<args, was, fs, cur, list, newfl, counter, spills, history>>

(* procfile.                                                               *)
ReadLine ==
  /\ pc = "read" /\ cur[1] <= Len(args.inputs)
  /\ LET lines == fs[args.inputs[cur[1]]]
         more == cur[2] < Len(lines)
     IN /\ list' = IF more THEN Append(list, lines[cur[2] + 1]) ELSE list
        /\ cur' = IF more THEN <<cur[1], cur[2] + 1>> ELSE <<cur[1] + 1, 0>>
        /\ pc' = IF more /\ Len(list') >= Memory THEN "spill" ELSE "read"
  /\ UNCHANGED <<args, was, fs, fl, fltmp, newfl, dest, real, tmpFiles, counter, spills, history>>
ReadDone ==
  /\ pc = "read" /\ cur[1] > Len(args.inputs)
  /\ pc' = IF fl = <<>> THEN "write" ELSE IF list # <<>> THEN "spill" ELSE "merge"
  /\ UNCHANGED <<args, was, fs, cur, list, fl, fltmp, newfl, dest, real, tmpFiles, counter, spills, history>>

(* new_tmp_file_name: a name is remembered before its file is there.       *)
(* Variant with a mistake: the name is not remembered. *)
NewTmpFileNameOnly ==
  /\ pc \in {"spill", "shrink"}
  /\ counter' = counter + 1 /\ spills' = spills + (IF pc = "spill" THEN 1 ELSE 0)
  /\ pc' = IF pc = "spill" THEN "spilling" ELSE "shrinking"
  /\ UNCHANGED <<args, was, fs, cur, list, fl, fltmp, newfl, dest, real, tmpFiles, history>>
NewTmpFileName ==
  /\ pc \in {"spill", "shrink"}
  /\ tmpFiles' = tmpFiles \cup {Tmp(counter)} /\ counter' = counter + 1
  /\ spills' = spills + (IF pc = "spill" THEN 1 ELSE 0)
  /\ pc' = IF pc = "spill" THEN "spilling" ELSE "shrinking"
  /\ UNCHANGED <<args, was, fs, cur, list, fl, fltmp, newfl, dest, real, history>>
SpillList ==
  /\ pc = "spilling"
  /\ \E lines \in Written(SortList(list)) :
       fs' = With(fs, Tmp(counter - 1), lines) /\ ShortOf(SortList(list), lines)
  /\ fl' = Append(fl, Tmp(counter - 1)) /\ list' = <<>>
  /\ pc' = "read"
  /\ UNCHANGED <<args, was, cur, fltmp, newfl, dest, real, tmpFiles, counter, spills, result, signalAt>>
(* Nothing went to a file: the list is the result.                         *)
WriteList ==
  /\ pc = "write"
  /\ result' = SortList(list)
  /\ \E lines \in Written(result') : fs' = With(fs, dest, lines) /\ ShortOf(result', lines)
  /\ pc' = "clean"
  /\ UNCHANGED <<args, was, cur, list, fl, fltmp, newfl, dest, real, tmpFiles, counter, spills, signalAt>>

(* merge_files and shrink_file_list: too many files are merged in groups.  *)
GroupSize == IF Len(fl) >= MaxOpen THEN MaxOpen - 1 ELSE Len(fl)
ShrinkFileList ==
  /\ pc = "merge" /\ Len(fl) >= MaxOpen
  /\ pc' = "shrink"
  /\ UNCHANGED <<args, was, fs, cur, list, fl, fltmp, newfl, dest, real, tmpFiles, counter, spills, history>>
Group == SubSeq(fl, 1, GroupSize)
ShrinkGroup ==
  /\ pc = "shrinking"
  /\ LET rest == SubSeq(fl, GroupSize + 1, Len(fl))
         merged == MergeFiles(Group, fs)
         files == Append(newfl, Tmp(counter - 1))
     IN /\ \E lines \in Written(merged) :
             /\ fs' = Without(With(fs, Tmp(counter - 1), lines), IF fltmp THEN ToSet(Group) ELSE {})
             /\ ShortOf(merged, lines)
        /\ IF rest = <<>> THEN fl' = files /\ newfl' = <<>> /\ fltmp' = TRUE /\ pc' = "merge"
           ELSE fl' = rest /\ newfl' = files /\ UNCHANGED fltmp /\ pc' = "shrink"
  /\ UNCHANGED <<args, was, cur, list, dest, real, tmpFiles, counter, spills, result, signalAt>>
FinalLines == MergeFiles(fl, With(fs, dest, <<>>))
FinalMerge ==
  /\ pc = "merge" /\ Len(fl) < MaxOpen
  /\ result' = FinalLines
  /\ \E lines \in Written(result') : fs' = With(fs, dest, lines) /\ ShortOf(result', lines)
  /\ pc' = "clean"
  /\ UNCHANGED <<args, was, cur, list, fl, fltmp, newfl, dest, real, tmpFiles, counter, spills, signalAt>>

(* file_list_clean, and the output file takes the place of its input.      *)
FileListClean ==
  /\ pc = "clean"
  /\ fs' = Without(fs, IF fltmp THEN ToSet(fl) ELSE {})
  /\ fl' = <<>> /\ fltmp' = FALSE
  /\ pc' = IF real = NoName THEN "done" ELSE "unlink"
  /\ UNCHANGED <<args, was, cur, list, newfl, dest, real, tmpFiles, counter, spills, history>>
UnlinkReal ==
  /\ pc = "unlink" /\ fs' = Without(fs, {real}) /\ pc' = "rename"
  /\ UNCHANGED <<args, was, cur, list, fl, fltmp, newfl, dest, real, tmpFiles, counter, spills, history>>
RenameOutfile ==
  /\ pc = "rename" /\ fs' = Without(With(fs, real, fs[dest]), {dest}) /\ pc' = "done"
  /\ UNCHANGED <<args, was, cur, list, fl, fltmp, newfl, dest, real, tmpFiles, counter, spills, history>>

(* The file that a step writes, and what is of it when the step is not     *)
(* finished: it is not opened yet, or has part of its lines.               *)
Writing == \/ pc \in {"spilling", "shrinking", "write"}
           \/ pc = "merge" /\ Len(fl) < MaxOpen
Target == IF pc \in {"spilling", "shrinking"} THEN Tmp(counter - 1) ELSE dest
Meant == CASE pc \in {"spilling", "write"} -> SortList(list)
           [] pc = "shrinking" -> MergeFiles(Group, fs)
           [] OTHER -> FinalLines
Unfinished == {fs} \cup IF Writing THEN {With(fs, Target, part) : part \in Parts(Meant)} ELSE {}

(* sig_handler with clear_tmp_files, also in the midst of a write.         *)
SigHandler ==
  /\ pc \notin Ended
  /\ \E files \in Unfinished : fs' = Without(files, tmpFiles)
  /\ pc' = "killed" /\ signalAt' = pc
  /\ UNCHANGED <<args, was, cur, list, fl, fltmp, newfl, dest, real, tmpFiles, counter, spills, short, result>>
(* err ends the run as it stands: openfile cannot create the file, a write *)
(* fails, or rename does.                                                  *)
WriteFails ==
  /\ Writing /\ fs' \in Unfinished /\ pc' = "failed"
  /\ UNCHANGED <<args, was, cur, list, fl, fltmp, newfl, dest, real, tmpFiles, counter, spills, history>>
RenameFails ==
  /\ pc = "rename" /\ pc' = "failed"
  /\ UNCHANGED <<args, was, fs, cur, list, fl, fltmp, newfl, dest, real, tmpFiles, counter, spills, history>>

Step ==
  \/ StartMain \/ ReadLine \/ ReadDone \/ NewTmpFileName \/ SpillList \/ WriteList
  \/ ShrinkFileList \/ ShrinkGroup \/ FinalMerge
  \/ FileListClean \/ UnlinkReal \/ RenameOutfile
Next == Step \/ SigHandler \/ WriteFails \/ RenameFails
Spec == Init /\ [][Next]_vars

-----------------------------------------------------------------------------
(* The input files stay as they are, however the run ends.  The one that   *)
(* is also the output is there until all of the result is under the other  *)
(* name, and from then on one of the two is, but for two named causes: a   *)
(* signal between unlink and rename, which removes the result as well      *)
(* (sort.c:1381), and a result that was written short unnoticed.           *)
ResultIn(f) == f \in DOMAIN fs /\ (fs[f] = result \/ short > 0)
InputsKept ==
  \A f \in ToSet(args.inputs) :
    \/ f \in DOMAIN fs /\ fs[f] = was[f]
    \/ f = args.dest /\ pc \in {"rename", "failed"} /\ ResultIn(Suffixed(f))
    \/ f = args.dest /\ pc = "done" /\ ResultIn(f)
    \/ f = args.dest /\ signalAt = "rename"

(* Neither a finished run nor one that a signal ends leaves its own files, *)
(* and each round of merges leaves fewer: a run names at most three times  *)
(* as many as it filled, or twice as many as it was given.                 *)
NamesAllowed == IF args.mode = "merge" THEN 2 * Len(args.inputs) ELSE 3 * spills
NoTmpLeft ==
  /\ pc \in {"done", "killed"} => \A f \in DOMAIN fs : ~Own(f)
  /\ counter <= NamesAllowed

=============================================================================
