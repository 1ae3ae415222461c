------------------------------ MODULE MCDettlaff ------------------------------
(***************************************************************************)
(* Instances of Dettlaff for TLC.  Times are scaled so that the order of   *)
(* the configured delays is kept (extend < retract < firing delay < idle   *)
(* time); speeds are in thousands of rpm and voltages in volts, which      *)
(* leaves the integer quotient rpm / millivolt unchanged.                  *)
(***************************************************************************)
EXTENDS Dettlaff

EveryMode(x) == [m \in Modes |-> x]

\* Mode 1 as configured, in ticks of 5 ms; the idle time is cut to 300 ms.
RealDelay     == EveryMode(25)
RealIdleDelay == EveryMode(20)
RealIdle      == EveryMode(60)

NoDelay    == EveryMode(0)
ShortDelay == EveryMode(1)
LongDelay  == EveryMode(5)
MidDelay   == EveryMode(4)
ShortIdle  == EveryMode(4)
IdleFor    == EveryMode(8)

\* CONFIGURATION.h: 40000 rpm in the first mode, 500 rpm (here 1) to idle.
FastRPM  == EveryMode([i \in Channels |-> 40])
SlowIdle == [i \in Channels |-> 1]

ByMode(a, b, c) ==
  [m \in Modes |-> CASE m = 0 -> a [] m = 1 -> b [] m = 2 -> c]
\* Slow enough to count as at speed with a negative minFiringRPM.
SlowRPM    == EveryMode([i \in Channels |-> 5])
NoFloor    == -1
SlowOrFast == ByMode(SlowRPM[0], FastRPM[1], FastRPM[2])
ThreeShots  == EveryMode(3)
TwoShots    == EveryMode(2)
MixedBursts == ByMode(3, 1, 2)

AutoAlways  == EveryMode("AUTO")
BurstAlways == EveryMode("BURST")
\* burstModeSet as configured; burstLengthSet with 100 cut to 4 and 5 to 3.
ShippedModes  == ByMode("AUTO", "AUTO", "BURST")
ShippedBursts == ByMode(4, 3, 1)
MixedModes  == ByMode("AUTO", "BURST", "BINARY")
=============================================================================
