----------------------------- MODULE ProgramCalls -----------------------------
(***************************************************************************)
(* Programs and algorithms without a state between calls are checked on    *)
(* all small inputs: a step chooses one of them and its input and computes *)
(* the result, and an invariant compares the two.  The initial states only *)
(* choose a group, for TLC to work on several at a time.                   *)
(***************************************************************************)
VARIABLES call, result
vars == <<call, result>>

InitOf(groups) == call \in [prog : groups] /\ result = <<>>
Idle(group) == call.prog = group
Runs(c, r) == call' = c /\ result' = r
===============================================================================
