-------------------------------- MODULE MCSortRun --------------------------------
(* Runs of sort on two files of a few lines: "a" and "A" are the same under *)
(* the key's -f.                                                            *)
EXTENDS SortRun, SortReader

Keys == {<<[order |-> "", d |-> FALSE, i |-> FALSE, f |-> TRUE, b |-> FALSE, r |-> r,
            spec |-> WholeLine(FALSE)]>> : r \in BOOLEAN}
Options == {[t |-> "", s |-> su \in {"s", "su"}, u |-> su = "su", complex |-> TRUE, r |-> FALSE] :
              su \in {"", "s", "su"}}
Ins == <<<<"in", 1>>, <<"in", 2>>>>
LineTexts == {<<"a">>, <<"A">>, <<"b">>}
Numbered(s, from) == [i \in DOMAIN s |-> <<s[i], from + i>>]

InitRun ==
  \E keys \in Keys, o \in Options, mode \in {"sort", "merge"},
     d \in {<<"out", 0>>, <<"in", 1>>, <<"in", 2>>},
     s1 \in Texts(LineTexts, 3), s2 \in Texts(LineTexts, 2) :
    /\ args = [inputs |-> Ins, dest |-> d, mode |-> mode, o |-> o, keys |-> keys]
    /\ was = Ins[1] :> Numbered(s1, 0) @@ Ins[2] :> Numbered(s2, Len(s1))
    /\ mode = "merge" => \A f \in DOMAIN was : InOrder(was[f], Coll(was[f], args))
    /\ Init
MCSpec == InitRun /\ [][Next]_vars

AllLines == FlattenSeq([i \in DOMAIN args.inputs |-> was[args.inputs[i]]])
OutputRight(out, cmp) ==
  LET firsts == {x \in ToSet(AllLines) :
                   \A y \in ToSet(AllLines) : cmp[x, y] = 0 => x[2] <= y[2]}
  IN IF args.o.u THEN ToSet(out) = firsts /\ InOrder(out, cmp) /\ Len(out) = Cardinality(firsts)
     ELSE IF args.o.s THEN SortsStably(AllLines, cmp, out)
     ELSE SortsRight(AllLines, cmp, out)
(* A finished run has written the lines of all its inputs in order, those  *)
(* that compare equal as they came with -s, and with -u the first of each, *)
(* however many temporary files and merges it took, unless a write failed  *)
(* that bwsfwrite and closefile do not check (bwstring.c:464, file.c:604). *)
ResultRight == pc = "done" /\ short = 0 => OutputRight(fs[args.dest], Coll(AllLines, args))
=================================================================================
