------------------------------ MODULE MCPrograms ------------------------------
(* All programs and algorithms in one run.                                  *)
EXTENDS MCTextPrograms, MCAlgorithms, MCUtilities

Ls == INSTANCE MCListing
Host == INSTANCE MCHost

Init == InitOf({"lines", "streams", "pages", "keys", "sorts", "tables", "conditions", "utilities", "numbers", "dates", "spawn",
                "listing", "host"})
Next == TextNext \/ AlgorithmNext \/ DecisionNext \/ UtilityNext \/ NumberNext \/ Ls!ListingNext \/ Host!HostNext
Spec == Init /\ [][Next]_vars

(* The programs on text, those that lay out pages, and ls and stat.        *)
TextRight == FiltersRight /\ PagesRight /\ Ls!ListingRight
(* xargs, grep and modes; seq, factor and scaled numbers.                  *)
ToolsRight == UtilitiesRight /\ NumbersRight
(* Native children, the native addon and the guest's calls of it.          *)
HostRight == Host!HostRight
(* tsort, and the tables it and du keep their nodes and files in.          *)
GraphsRight == TsortGood /\ TablesRight
===============================================================================
