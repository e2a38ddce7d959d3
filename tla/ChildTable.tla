------------------------------ MODULE ChildTable ------------------------------
(***************************************************************************)
(* What a POSIX program may rely on of its children, whatever they run in: *)
(* a child is started, ends once with one result, keeps that result as a   *)
(* zombie until it is reaped, and is reaped once.                          *)
(***************************************************************************)

CONSTANTS Child, Result

VARIABLES state, result

Init ==
  /\ state = [c \in Child |-> "unborn"]
  /\ result = [c \in Child |-> 0]

Move(c, from, to) == state[c] = from /\ state' = [state EXCEPT ![c] = to]

Start(c) == Move(c, "unborn", "running") /\ UNCHANGED result

(* A child that has ended by the time its parent learns of it. *)
StartEnded(c, r) ==
  /\ Move(c, "unborn", "zombie")
  /\ result' = [result EXCEPT ![c] = r]

End(c, r) ==
  /\ Move(c, "running", "zombie")
  /\ result' = [result EXCEPT ![c] = r]

Reap(c) == Move(c, "zombie", "reaped") /\ UNCHANGED result

Next ==
  \E c \in Child :
    \/ Start(c) \/ Reap(c)
    \/ \E r \in Result : StartEnded(c, r) \/ End(c, r)

Spec == Init /\ [][Next]_<<state, result>>

=============================================================================
