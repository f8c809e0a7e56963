--------------------------- MODULE ExecutionFence ---------------------------
(***************************************************************************)
(* What an interruption promises whoever asks for it: from the request on  *)
(* no agent takes new input; the interruption is done only when no agent   *)
(* executes; and it stays so until new user input releases the agents.     *)
(***************************************************************************)
CONSTANT Agent

VARIABLES
  gate,      \* "open", "settling" (requested) or "held" (done)
  active     \* the agents that execute an exchange

vars == <<gate, active>>

Init == gate = "open" /\ active = {}

Begin(a) == gate = "open" /\ active' = active \cup {a} /\ UNCHANGED gate
End(a) == active' = active \ {a} /\ UNCHANGED gate
Interrupt == gate = "open" /\ gate' = "settling" /\ UNCHANGED active
Settle == gate = "settling" /\ active = {} /\ gate' = "held" /\ UNCHANGED active
Release == gate = "held" /\ gate' = "open" /\ UNCHANGED active

Next == Interrupt \/ Settle \/ Release \/ \E a \in Agent : Begin(a) \/ End(a)

Spec == Init /\ [][Next]_vars
=============================================================================
