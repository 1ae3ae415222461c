-------------------------------- MODULE Blaster --------------------------------
(***************************************************************************)
(* What a solenoid blaster promises the person holding it, without timers, *)
(* modes, voltages or speeds: darts are owed only because the trigger      *)
(* moved, a dart is pushed only into ready wheels and pays for exactly one *)
(* shot owed, the wheels are not let go while the pusher is out, and a     *)
(* pusher that is out comes back.  Module Dettlaff is shown to keep it.    *)
(***************************************************************************)
EXTENDS Naturals

VARIABLES
  trigger,    \* is the trigger held?
  wheels,     \* "idle", "spinning" or "ready"
  owed,       \* shots requested and not yet pushed
  pushing     \* is the pusher out?

vars == <<trigger, wheels, owed, pushing>>

Init ==
  /\ trigger \in BOOLEAN
  /\ wheels = "idle"
  /\ owed = 0
  /\ pushing = FALSE

\* Moving the trigger may change what is owed; nothing else may.
OwedByTrigger(spent) ==
  /\ owed' \in Nat
  /\ trigger' = trigger => owed >= spent /\ owed' = owed - spent

MayTurn(from, to) == wheels = from /\ wheels' = to /\ UNCHANGED pushing

SpinUp == MayTurn("idle", "spinning") /\ OwedByTrigger(0)

GetReady == MayTurn("spinning", "ready") /\ OwedByTrigger(0)

\* The wheels did not get ready in time: everything owed is cancelled.
GiveUp == MayTurn("spinning", "idle") /\ owed' = 0

\* The wheels are let go once nothing is owed and the pusher is home.
LetGo ==
  /\ MayTurn("ready", "idle") /\ ~pushing
  /\ owed' = 0 /\ OwedByTrigger(0)

Push ==
  /\ wheels = "ready" /\ ~pushing
  /\ pushing' = TRUE
  /\ OwedByTrigger(1)
  /\ UNCHANGED wheels

Retract ==
  /\ pushing
  /\ pushing' = FALSE
  /\ OwedByTrigger(0)
  /\ UNCHANGED wheels

Hold == OwedByTrigger(0) /\ UNCHANGED <<wheels, pushing>>

Next ==
  /\ trigger' \in BOOLEAN
  /\ SpinUp \/ GetReady \/ GiveUp \/ LetGo \/ Push \/ Retract \/ Hold

SafeSpec == Init /\ [][Next]_vars

\* A pusher that is out comes back.
Spec == SafeSpec /\ (pushing ~> ~pushing)
=============================================================================
