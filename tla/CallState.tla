------------------------------ MODULE CallState ------------------------------
(***************************************************************************)
(* What a call promises to its observers: the four-state lifecycle of       *)
(* state_machine.py.  StateMachine.transition_to ignores a move to the      *)
(* current state and only warns about a move outside LEGAL_TRANSITIONS, so  *)
(* that the graph is respected is a property of its callers.                *)
(***************************************************************************)

VARIABLE state

States == {"init", "in_call", "transferring", "end"}

LEGAL_TRANSITIONS ==
  [s \in States |->
     CASE s = "init"         -> {"in_call", "end"}
       [] s = "in_call"      -> {"transferring", "end"}
       [] s = "transferring" -> {"end"}
       [] s = "end"          -> {}]

Init == state = "init"

transition_to ==
  /\ state \in States
  /\ state' \in LEGAL_TRANSITIONS[state]

Spec == Init /\ [][transition_to]_state
=============================================================================
