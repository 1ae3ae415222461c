------------------------------ MODULE CleanSwitch ------------------------------
(***************************************************************************)
(* What the control loop reads from a switch: a level, and two flags that  *)
(* are TRUE for exactly the update in which the level rose or fell.  Every *)
(* update has a time of its own, so that a flag left up by an update that  *)
(* changed no level is a step of this module and not a stutter.            *)
(***************************************************************************)
VARIABLES now, currentState, pressed, released

vars == <<now, currentState, pressed, released>>

Init ==
  /\ currentState \in BOOLEAN
  /\ pressed = FALSE /\ released = FALSE

Update ==
  /\ now' # now
  /\ currentState' \in BOOLEAN
  /\ pressed' = (currentState' /\ ~currentState)
  /\ released' = (currentState /\ ~currentState')

Spec == Init /\ [][Update]_vars
=============================================================================
