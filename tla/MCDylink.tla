------------------------------- MODULE MCDylink -------------------------------
(* A small world for TLC: "a" exports a function and data, "b" needs "a"    *)
(* and imports both, "c" takes the address of a function of its own and     *)
(* imports from "a" without naming it as needed.                            *)
EXTENDS Dylink

Libraries == {"a", "b", "c"}
Functions_ == {"f", "g", "h", "k", "m", "n"}
Data == {"d", "e"}
NeedsOf == [l \in Libraries |-> IF l = "b" THEN <<"a">> ELSE <<>>]
ExportsOf ==
  [l \in Libraries |-> CASE l = "a" -> <<"f">> [] l = "b" -> <<"g">> [] l = "c" -> <<"h", "k">>]
DataOf == [l \in Libraries |-> IF l = "a" THEN {"d"} ELSE {}]
ImportsOf ==
  [l \in Libraries |-> CASE l = "a" -> <<"e">>
                         [] l = "b" -> <<"f", "d", "m">>
                         [] l = "c" -> <<"h", "n", "d">>]
SizeOf == [l \in Libraries |-> IF l = "b" THEN 0 ELSE 1]
TableOfMain == <<"m">>
=============================================================================
