------------------------------- MODULE Dettlaff -------------------------------
(***************************************************************************)
(* The blaster control loop of dettlaff/dettlaff.c: dettlaffInit and the   *)
(* 1 kHz task body dettlaffUpdate.  One step of this specification is one  *)
(* whole call of dettlaffUpdate, which the cooperative scheduler runs to   *)
(* completion: it reads the switches and the battery, does the trigger     *)
(* logic, moves the flywheel state machine and the pusher, and computes    *)
(* the throttles.  What the mixer then makes of motor[] is module          *)
(* MotorOutput; here the pusher's output is the last command given to it.  *)
(*                                                                         *)
(* Timestamps are kept as ages: revAge is time_ms - lastRevTime_ms, and so *)
(* on, so "time_ms > t + D" reads "age > D".  An age stops at a horizon    *)
(* beyond which every comparison has the same outcome.  Speeds, voltages   *)
(* and times are in any one consistent scale.                              *)
(***************************************************************************)
EXTENDS Integers

CONSTANTS
  Motors,           \* the channels i with motors[i] TRUE
  PusherType, FlywheelControl, SelectFireType,
  SelectPins,       \* the select switches that have a pin
  HasCycleSwitch, DefaultFiringMode, VariableFPS,
  BurstLength, BurstMode, BinaryTimeout,
  RevRPM, IdleRPM, IdleTime, FiringRPMTolerance, MinFiringRPM,
  FullThrottleTolerance, MinTelemetryRPM, SpindownSpeed, MotorKv,
  FiringDelay, FiringDelayIdle, MinFiringDelay, MinFiringDelayIdle,
  TimeOverrideWhenIdling, SpinUpTimeout,
  SolenoidExtendTime, SolenoidRetractTime,
  ReversePolarityDuration, DwellTime, StallTime,
  LowVoltageCutoff, DefaultVoltage

\* Bounds on the inputs: voltages the ADC may report, milliseconds from one
\* update to the next (0 when a late update is followed at once by another),
\* microseconds an update takes, and the horizons of the ages.
CONSTANTS Batteries, StepTimes, LoopTimes,
          RevHorizon, PusherHorizon, TriggerHorizon

VARIABLES
  trigger, rev, cycle,     \* currentState of the three debounced switches
  selected,                \* select switches whose currentState is TRUE
  battery,                 \* batteryVoltage_mv as read in the last update
  firingMode, fpsMode, shotsToFire, triggerAge,
  flywheelState, fromIdle, revved, revAge,
  targetRPM, currentSpindownSpeed, loopTime, throttleValue,
  firing, reverseBraking, pusherDwelling, pusherAge,
  pusherCommand,           \* the last call of pusherDriver
  sinceHome                \* history: time since the home switch last closed

inputs   == <<trigger, rev, cycle, selected, battery>>
wheels   == <<flywheelState, fromIdle, revved, revAge, targetRPM,
              currentSpindownSpeed>>
pusher   == <<firing, reverseBraking, pusherDwelling, pusherAge>>
vars     == <<inputs, wheels, pusher, firingMode, fpsMode, shotsToFire,
              triggerAge, loopTime, throttleValue, pusherCommand, sinceHome>>

Channels == 0..3
Modes    == 0..2
FlywheelStates == {"IDLE", "ACCELERATING", "FULLSPEED"}

Min2(a, b) == IF a <= b THEN a ELSE b
Max2(a, b) == IF a >= b THEN a ELSE b

ASSUME ConfigAssumption ==
  /\ Motors \subseteq Channels
  /\ PusherType \in {"NO_PUSHER", "MOTOR_CLOSEDLOOP", "SOLENOID_OPENLOOP"}
  /\ FlywheelControl \in {"OPEN_LOOP", "TWO_LEVEL", "PID"}
  /\ SelectFireType \in {"NO_SELECT_FIRE", "SWITCH", "BUTTON"}
  /\ SelectPins \subseteq Modes /\ DefaultFiringMode \in Modes
  /\ HasCycleSwitch \in BOOLEAN /\ VariableFPS \in BOOLEAN
  /\ TimeOverrideWhenIdling \in BOOLEAN
  /\ BurstLength \in [Modes -> Nat \ {0}]
  /\ BurstMode \in [Modes -> {"AUTO", "BURST", "BINARY"}]

ASSUME RpmAssumption ==
  /\ RevRPM \in [Modes -> [Channels -> Nat]]
  /\ IdleRPM \in [Channels -> Nat]
  /\ \A m \in Modes, i \in Channels : IdleRPM[i] <= RevRPM[m][i]
  /\ FiringRPMTolerance \in Nat /\ MinFiringRPM \in Int
  /\ FullThrottleTolerance \in Nat /\ MinTelemetryRPM \in Nat
  /\ SpindownSpeed \in Nat /\ MotorKv \in Nat \ {0}
  /\ LoopTimes \subseteq Nat /\ LoopTimes # {}
  /\ Batteries \subseteq Nat /\ Batteries # {}
  /\ LowVoltageCutoff \in Nat /\ DefaultVoltage \in Nat \ {0}

ASSUME TimeAssumption ==
  /\ StepTimes \subseteq Nat /\ StepTimes # {}
  /\ {RevHorizon, PusherHorizon, TriggerHorizon} \subseteq Nat
  /\ {BinaryTimeout, SpinUpTimeout, SolenoidExtendTime, SolenoidRetractTime,
      ReversePolarityDuration, DwellTime, StallTime} \subseteq Nat
  /\ \A f \in {IdleTime, FiringDelay, FiringDelayIdle, MinFiringDelay,
               MinFiringDelayIdle} :
        f \in [Modes -> Nat] /\ \A m \in Modes : f[m] < RevHorizon
  /\ SpinUpTimeout < RevHorizon
  /\ \A t \in {SolenoidExtendTime, SolenoidRetractTime, DwellTime,
               ReversePolarityDuration, StallTime} : t < PusherHorizon
  /\ BinaryTimeout <= TriggerHorizon

-----------------------------------------------------------------------------
(* Ages at the update's millis(), dt after the previous one. *)

RevAge(dt)     == Min2(revAge + dt, RevHorizon)
PusherAge(dt)  == Min2(pusherAge + dt, PusherHorizon)
TriggerAge(dt) == Min2(triggerAge + dt, TriggerHorizon)

\* Speeds of the firing mode locked at boot; channels not wired stay at 0.
revRPM == [i \in Channels |-> IF i \in Motors THEN RevRPM[fpsMode][i] ELSE 0]

-----------------------------------------------------------------------------
(* Switches and select fire.  The debouncing itself is module Debounce.    *)

\* The mode the select switches ask for: the lowest pressed one wins, and
\* with none pressed only a selector switch falls back to the default.
SelectedMode(sel, mode) ==
  CASE SelectFireType = "NO_SELECT_FIRE" -> mode
    [] SelectFireType # "NO_SELECT_FIRE" /\ sel # {} ->
         CHOOSE m \in sel : \A n \in sel : m <= n
    [] SelectFireType = "SWITCH" /\ sel = {} -> DefaultFiringMode
    [] SelectFireType = "BUTTON" /\ sel = {} -> mode

Pressed  == trigger' /\ ~trigger
Released == trigger /\ ~trigger'
CyclePressed == cycle' /\ ~cycle

\* Sections 1, 2 and 4: every switch is sampled and debounced, then the
\* firing mode follows the selector, and the battery is read.
ReadInputs(dt) ==
  /\ trigger' \in BOOLEAN
  /\ rev' \in BOOLEAN
  /\ cycle' \in {c \in BOOLEAN : c => HasCycleSwitch}
  /\ selected' \in SUBSET SelectPins
  /\ battery' \in Batteries
  /\ firingMode' = SelectedMode(selected', firingMode)
  /\ sinceHome' = IF CyclePressed THEN 0
                 ELSE Min2(sinceHome + dt, ReversePolarityDuration + 1)
  /\ UNCHANGED fpsMode

-----------------------------------------------------------------------------
(* Section 3: trigger logic. *)

\* A pull, or in BINARY mode a release soon enough after the last request.
Requests(dt) ==
  \/ Pressed
  \/ /\ BurstMode[firingMode'] = "BINARY"
     /\ Released
     /\ TriggerAge(dt) < BinaryTimeout

\* Mutant: a request is added whatever is still owed.
Mutant_ShotsPileUp(dt) ==
  IF Requests(dt) THEN shotsToFire + BurstLength[firingMode'] ELSE shotsToFire

\* Mutant: the release of the trigger is not acted on.
Mutant_ShotsIgnoreRelease(dt) ==
  IF Requests(dt) THEN BurstLength[firingMode'] ELSE shotsToFire

ShotsAfterTrigger(dt) ==
  LET length == BurstLength[firingMode']
      auto   == BurstMode[firingMode'] = "AUTO"
  IN  CASE Requests(dt) /\ auto -> length
        [] Requests(dt) /\ ~auto /\ (shotsToFire < length \/ shotsToFire = 1) ->
             shotsToFire + length
        [] ~Requests(dt) /\ Released /\ auto /\ shotsToFire > 1 -> 1
        [] OTHER -> shotsToFire

TriggerLogic(dt) ==
  triggerAge' = IF Requests(dt) THEN 0 ELSE TriggerAge(dt)

-----------------------------------------------------------------------------
(* The driver of the pusher: drive in either direction, coast or brake.    *)

Forward == 1
Reverse == -1
Off     == 0
Hold    == pusherCommand    \* no call in this update

Command(c) == pusherCommand' = c

-----------------------------------------------------------------------------
(* Section 5, STATE_IDLE. *)

LowBattery == battery' < LowVoltageCutoff /\ throttleValue[0] = 0

\* The low-battery return: motors and pusher off, and nothing else is done.
\* It also needs loopStartTimer_us > 2000000, which is FALSE for two seconds
\* after boot and after each wrap of the 32-bit counter: then Idle is taken.
LowBatteryCutoff(dt) ==
  /\ flywheelState = "IDLE"
  /\ LowBattery
  /\ Command(Off)
  /\ shotsToFire' = ShotsAfterTrigger(dt)
  /\ revAge' = RevAge(dt)
  /\ pusherAge' = PusherAge(dt)
  /\ UNCHANGED <<flywheelState, fromIdle, revved, targetRPM,
                 currentSpindownSpeed, firing, reverseBraking,
                 pusherDwelling, throttleValue, loopTime>>

\* Mutant: the spin-down is not clamped at its floor.
Mutant_SpindownUnclamped(floor) ==
  /\ currentSpindownSpeed' = Min2(currentSpindownSpeed + 1, SpindownSpeed)
  /\ targetRPM' = [i \in Channels |->
       targetRPM[i] - (currentSpindownSpeed' * loopTime) \div 1000]

\* Mutant: the spin-down speed is never built up.
Mutant_SpindownNeverStarts(floor) ==
  targetRPM' = targetRPM /\ currentSpindownSpeed' = 0

SpindownTo(floor) ==
  /\ currentSpindownSpeed' = Min2(currentSpindownSpeed + 1, SpindownSpeed)
  /\ targetRPM' = [i \in Channels |->
       IF i \in Motors
       THEN Max2(targetRPM[i] - (currentSpindownSpeed' * loopTime) \div 1000,
                 floor[i])
       ELSE targetRPM[i]]

\* Mutant: the spin-up forgets to raise the target speed.
Mutant_SpinUpKeepsTarget(dt) ==
  /\ ShotsAfterTrigger(dt) > 0 \/ rev'
  /\ revAge' = 0
  /\ revved' = TRUE
  /\ flywheelState' = "ACCELERATING"
  /\ currentSpindownSpeed' = 0
  /\ UNCHANGED <<fromIdle, targetRPM>>

StartSpinUp(dt) ==
  /\ ShotsAfterTrigger(dt) > 0 \/ rev'
  /\ targetRPM' = revRPM
  /\ revAge' = 0
  /\ revved' = TRUE
  /\ flywheelState' = "ACCELERATING"
  /\ currentSpindownSpeed' = 0
  /\ UNCHANGED fromIdle

KeepIdling(dt) ==
  /\ ~(ShotsAfterTrigger(dt) > 0 \/ rev')
  /\ RevAge(dt) < IdleTime[fpsMode] /\ revved
  /\ SpindownTo(IdleRPM)
  /\ revAge' = RevAge(dt)
  /\ UNCHANGED <<flywheelState, fromIdle, revved>>

\* Mutant: stopping the wheels does not disarm the short firing delay.
Mutant_ShutDownKeepsFromIdle(dt) ==
  /\ ~(ShotsAfterTrigger(dt) > 0 \/ rev')
  /\ ~(RevAge(dt) < IdleTime[fpsMode] /\ revved)
  /\ SpindownTo([i \in Channels |-> 0])
  /\ revAge' = RevAge(dt)
  /\ UNCHANGED <<flywheelState, revved, fromIdle>>

ShutDownWheels(dt) ==
  /\ ~(ShotsAfterTrigger(dt) > 0 \/ rev')
  /\ ~(RevAge(dt) < IdleTime[fpsMode] /\ revved)
  /\ SpindownTo([i \in Channels |-> 0])
  /\ fromIdle' = FALSE
  /\ revAge' = RevAge(dt)
  /\ UNCHANGED <<flywheelState, revved>>

\* Taken when the battery is fine or when it is too early to judge it.
Idle(dt) ==
  /\ flywheelState = "IDLE"
  /\ StartSpinUp(dt) \/ KeepIdling(dt) \/ ShutDownWheels(dt)
  /\ shotsToFire' = ShotsAfterTrigger(dt)

-----------------------------------------------------------------------------
(* Section 5, STATE_ACCELERATING.  revStartTime_us and lastRevTime_ms are  *)
(* set together on entry, so one age stands for both.                      *)

\* motorRPM is declared as telemetry but no code assigns it.
MotorRPM(i) == 0

FiringRPM(i) == Max2(revRPM[i] - FiringRPMTolerance, MinFiringRPM)

ClosedLoopDue(dt) ==
  /\ FlywheelControl # "OPEN_LOOP"
  /\ RevAge(dt) > IF fromIdle THEN MinFiringDelayIdle[fpsMode]
                              ELSE MinFiringDelay[fpsMode]

AtFiringRPM == \A i \in Motors : MotorRPM(i) > FiringRPM(i)

TimeDelayOver(dt) ==
  /\ \/ FlywheelControl = "OPEN_LOOP"
     \/ /\ TimeOverrideWhenIdling /\ fromIdle
        /\ \A i \in Motors : MotorRPM(i) > MinTelemetryRPM
  /\ RevAge(dt) > IF fromIdle THEN FiringDelayIdle[fpsMode]
                              ELSE FiringDelay[fpsMode]

SpinUpTimedOut(dt) ==
  ClosedLoopDue(dt) /\ ~AtFiringRPM /\ RevAge(dt) > SpinUpTimeout

\* The time delay is tested after the RPM check, so it wins over a timeout.
ReachFullSpeed(dt) ==
  /\ (ClosedLoopDue(dt) /\ AtFiringRPM) \/ TimeDelayOver(dt)
  /\ flywheelState' = "FULLSPEED"
  /\ fromIdle' = TRUE
  /\ shotsToFire' = IF SpinUpTimedOut(dt) THEN 0 ELSE ShotsAfterTrigger(dt)

\* Mutant: a spin-up that times out keeps the shots owed.
Mutant_GiveUpKeepsShots(dt) ==
  /\ SpinUpTimedOut(dt) /\ ~TimeDelayOver(dt)
  /\ flywheelState' = "IDLE"
  /\ shotsToFire' = ShotsAfterTrigger(dt)
  /\ UNCHANGED fromIdle

GiveUpSpinUp(dt) ==
  /\ SpinUpTimedOut(dt) /\ ~TimeDelayOver(dt)
  /\ flywheelState' = "IDLE"
  /\ shotsToFire' = 0
  /\ UNCHANGED fromIdle

KeepAccelerating(dt) ==
  /\ ~(ClosedLoopDue(dt) /\ AtFiringRPM)
  /\ ~TimeDelayOver(dt) /\ ~SpinUpTimedOut(dt)
  /\ shotsToFire' = ShotsAfterTrigger(dt)
  /\ UNCHANGED <<flywheelState, fromIdle>>

\* Mutant: lastRevTime_ms is refreshed while the wheels accelerate.
Mutant_AccelerateRefreshes(dt) ==
  /\ flywheelState = "ACCELERATING"
  /\ ReachFullSpeed(dt) \/ GiveUpSpinUp(dt) \/ KeepAccelerating(dt)
  /\ revAge' = 0
  /\ UNCHANGED <<revved, targetRPM, currentSpindownSpeed>>

Accelerate(dt) ==
  /\ flywheelState = "ACCELERATING"
  /\ ReachFullSpeed(dt) \/ GiveUpSpinUp(dt) \/ KeepAccelerating(dt)
  /\ revAge' = RevAge(dt)
  /\ UNCHANGED <<revved, targetRPM, currentSpindownSpeed>>

-----------------------------------------------------------------------------
(* Sections 6 and 7: throttle and motor outputs.  A throttle is 0 or 1,    *)
(* because the division is one of integers; under PID_CONTROL 1 stands for *)
(* any throttle above zero.                                                *)

Voltage == IF battery' = 0 THEN DefaultVoltage ELSE battery'

ThrottleFor(rpm) ==
  Max2(Min2(1, ((rpm \div Voltage) * 1000) \div MotorKv), 0)

TwoLevelThrottle(i) ==
  IF targetRPM'[i] = revRPM[i] /\ MotorRPM(i) < revRPM[i] - FullThrottleTolerance
  THEN 1 ELSE ThrottleFor(targetRPM'[i])

NewThrottles ==
  CASE FlywheelControl = "OPEN_LOOP" ->
         {[i \in Motors |-> ThrottleFor(targetRPM'[i])]}
    [] FlywheelControl = "TWO_LEVEL" -> {[i \in Motors |-> TwoLevelThrottle(i)]}
    [] FlywheelControl = "PID" -> [Motors -> 0..1]

MotorControl ==
  /\ \E value \in NewThrottles :
       throttleValue' = [i \in Channels |-> IF i \in Motors THEN value[i]
                                            ELSE throttleValue[i]]
  /\ loopTime' \in LoopTimes

-----------------------------------------------------------------------------
(* Section 5, STATE_FULLSPEED with PUSHER_SOLENOID_OPENLOOP. *)

\* Mutant: an extension does not pay for a shot.
Mutant_ExtendForFree(dt) ==
  /\ ShotsAfterTrigger(dt) > 0 /\ ~firing
  /\ PusherAge(dt) > SolenoidRetractTime
  /\ firing' = TRUE
  /\ shotsToFire' = ShotsAfterTrigger(dt)
  /\ pusherAge' = 0
  /\ Command(Forward)

ExtendSolenoid(dt) ==
  /\ ShotsAfterTrigger(dt) > 0 /\ ~firing
  /\ PusherAge(dt) > SolenoidRetractTime
  /\ firing' = TRUE
  /\ shotsToFire' = ShotsAfterTrigger(dt) - 1
  /\ pusherAge' = 0
  /\ Command(Forward)

\* Mutant: the state retracts but the output is left on.
Mutant_RetractWithoutCoast(dt) ==
  /\ firing /\ PusherAge(dt) > SolenoidExtendTime
  /\ firing' = FALSE
  /\ pusherAge' = 0
  /\ shotsToFire' = ShotsAfterTrigger(dt)
  /\ Command(Hold)

RetractSolenoid(dt) ==
  /\ firing /\ PusherAge(dt) > SolenoidExtendTime
  /\ firing' = FALSE
  /\ pusherAge' = 0
  /\ shotsToFire' = ShotsAfterTrigger(dt)
  /\ Command(Off)

HoldSolenoid(dt) ==
  /\ firing /\ ~(PusherAge(dt) > SolenoidExtendTime)
  /\ UNCHANGED firing
  /\ pusherAge' = PusherAge(dt)
  /\ shotsToFire' = ShotsAfterTrigger(dt)
  /\ Command(Hold)

Solenoid(dt) ==
  /\ PusherType = "SOLENOID_OPENLOOP"
  /\ ExtendSolenoid(dt) \/ RetractSolenoid(dt) \/ HoldSolenoid(dt)
  /\ UNCHANGED <<flywheelState, reverseBraking, pusherDwelling>>

-----------------------------------------------------------------------------
(* Section 5, STATE_FULLSPEED with PUSHER_MOTOR_CLOSEDLOOP.  The branches  *)
(* are tried in the order start, home, dwell, brake, stall.                *)

StartStroke(dt) ==
  /\ ShotsAfterTrigger(dt) > 0 /\ ~firing
  /\ firing' = TRUE
  /\ pusherAge' = 0
  /\ shotsToFire' = ShotsAfterTrigger(dt)
  /\ Command(Forward)
  /\ UNCHANGED <<flywheelState, reverseBraking, pusherDwelling>>

\* The home switch closed: a stroke is complete.
AtHome == firing /\ CyclePressed

ShotsAfterStroke(dt) == Max2(0, ShotsAfterTrigger(dt) - 1)

\* Mutant: the last stroke enters reverse braking but leaves the drive on.
Mutant_LastStrokeKeepsDriving(dt) ==
  /\ AtHome /\ ShotsAfterStroke(dt) = 0
  /\ reverseBraking' = TRUE
  /\ shotsToFire' = 0
  /\ pusherAge' = 0
  /\ Command(Hold)
  /\ UNCHANGED <<flywheelState, firing, pusherDwelling>>

LastStroke(dt) ==
  /\ AtHome /\ ShotsAfterStroke(dt) = 0
  /\ IF ReversePolarityDuration > 0
     THEN /\ reverseBraking' = TRUE
          /\ Command(Reverse)
          /\ UNCHANGED <<flywheelState, firing>>
     ELSE /\ flywheelState' = "IDLE"
          /\ firing' = FALSE
          /\ Command(Off)
          /\ UNCHANGED reverseBraking
  /\ shotsToFire' = 0
  /\ pusherAge' = 0
  /\ UNCHANGED pusherDwelling

NextStroke(dt) ==
  /\ AtHome /\ ShotsAfterStroke(dt) > 0
  /\ shotsToFire' = ShotsAfterStroke(dt)
  /\ pusherAge' = 0
  /\ pusherDwelling' = (pusherDwelling \/ DwellTime > 0)
  /\ Command(IF DwellTime > 0 THEN Off ELSE Hold)
  /\ UNCHANGED <<flywheelState, firing, reverseBraking>>

MidStroke == firing /\ ~CyclePressed

Dwell(dt) ==
  /\ MidStroke /\ pusherDwelling
  /\ pusherDwelling' = ~(PusherAge(dt) > DwellTime)
  /\ Command(IF pusherDwelling' THEN Hold ELSE Forward)
  /\ pusherAge' = PusherAge(dt)
  /\ shotsToFire' = ShotsAfterTrigger(dt)
  /\ UNCHANGED <<flywheelState, firing, reverseBraking>>

ResumeFromBraking(dt) ==
  /\ ShotsAfterTrigger(dt) >= 1
  /\ reverseBraking' = FALSE
  /\ pusherAge' = 0
  /\ Command(Forward)
  /\ UNCHANGED <<flywheelState, firing>>

\* Mutant: the braking phase ends without stopping the motor.
Mutant_EndBrakingInReverse(dt) ==
  /\ ShotsAfterTrigger(dt) = 0
  /\ PusherAge(dt) > ReversePolarityDuration
  /\ reverseBraking' = FALSE
  /\ firing' = FALSE
  /\ flywheelState' = "IDLE"
  /\ pusherAge' = PusherAge(dt)
  /\ Command(Hold)

EndBraking(dt) ==
  /\ ShotsAfterTrigger(dt) = 0
  /\ PusherAge(dt) > ReversePolarityDuration
  /\ reverseBraking' = FALSE
  /\ firing' = FALSE
  /\ flywheelState' = "IDLE"
  /\ pusherAge' = PusherAge(dt)
  /\ Command(Off)

KeepBraking(dt) ==
  /\ ShotsAfterTrigger(dt) = 0
  /\ ~(PusherAge(dt) > ReversePolarityDuration)
  /\ pusherAge' = PusherAge(dt)
  /\ Command(Hold)
  /\ UNCHANGED <<flywheelState, firing, reverseBraking>>

Brake(dt) ==
  /\ MidStroke /\ ~pusherDwelling /\ reverseBraking
  /\ ResumeFromBraking(dt) \/ EndBraking(dt) \/ KeepBraking(dt)
  /\ shotsToFire' = ShotsAfterTrigger(dt)
  /\ UNCHANGED pusherDwelling

Pushing == MidStroke /\ ~pusherDwelling /\ ~reverseBraking

\* Mutant: the stall protection leaves the motor driven.
Mutant_StallKeepsDriving(dt) ==
  /\ Pushing /\ PusherAge(dt) > StallTime
  /\ firing' = FALSE
  /\ shotsToFire' = 0
  /\ flywheelState' = "IDLE"
  /\ pusherAge' = PusherAge(dt)
  /\ Command(Hold)
  /\ UNCHANGED <<reverseBraking, pusherDwelling>>

\* Mutant: the stall protection does not end the stroke.
Mutant_StallKeepsFiring(dt) ==
  /\ Pushing /\ PusherAge(dt) > StallTime
  /\ shotsToFire' = 0
  /\ flywheelState' = "IDLE"
  /\ pusherAge' = PusherAge(dt)
  /\ Command(Off)
  /\ UNCHANGED <<firing, reverseBraking, pusherDwelling>>

Stall(dt) ==
  /\ Pushing /\ PusherAge(dt) > StallTime
  /\ firing' = FALSE
  /\ shotsToFire' = 0
  /\ flywheelState' = "IDLE"
  /\ pusherAge' = PusherAge(dt)
  /\ Command(Off)
  /\ UNCHANGED <<reverseBraking, pusherDwelling>>

KeepPushing(dt) ==
  /\ Pushing /\ ~(PusherAge(dt) > StallTime)
  /\ shotsToFire' = ShotsAfterTrigger(dt)
  /\ pusherAge' = PusherAge(dt)
  /\ Command(Hold)
  /\ UNCHANGED <<flywheelState, firing, reverseBraking, pusherDwelling>>

ClosedLoopPusher(dt) ==
  /\ PusherType = "MOTOR_CLOSEDLOOP"
  /\ \/ StartStroke(dt) \/ LastStroke(dt) \/ NextStroke(dt)
     \/ Dwell(dt) \/ Brake(dt) \/ Stall(dt) \/ KeepPushing(dt)

-----------------------------------------------------------------------------
(* Section 5, STATE_FULLSPEED, and the whole update. *)

PusherAtRest(dt) ==
  /\ pusherAge' = PusherAge(dt)
  /\ Command(Hold)
  /\ UNCHANGED <<firing, reverseBraking, pusherDwelling>>

\* Mutant: the wheels are let go while the pusher is out.
Mutant_ReturnWhileFiring(dt) ==
  /\ ~rev' /\ ShotsAfterTrigger(dt) = 0
  /\ flywheelState' = "IDLE"
  /\ revAge' = RevAge(dt)
  /\ shotsToFire' = 0
  /\ PusherAtRest(dt)

ReturnToIdle(dt) ==
  /\ ~rev' /\ ShotsAfterTrigger(dt) = 0 /\ ~firing
  /\ flywheelState' = "IDLE"
  /\ revAge' = RevAge(dt)
  /\ shotsToFire' = 0
  /\ PusherAtRest(dt)

StayRevved(dt) ==
  /\ rev' /\ ShotsAfterTrigger(dt) = 0 /\ ~firing
  /\ revAge' = RevAge(dt)
  /\ shotsToFire' = 0
  /\ PusherAtRest(dt)
  /\ UNCHANGED flywheelState

\* Shots are owed, but the solenoid is still retracting or there is no pusher.
WaitForPusher(dt) ==
  /\ ShotsAfterTrigger(dt) > 0 /\ ~firing
  /\ \/ PusherType = "NO_PUSHER"
     \/ /\ PusherType = "SOLENOID_OPENLOOP"
        /\ ~(PusherAge(dt) > SolenoidRetractTime)
  /\ shotsToFire' = ShotsAfterTrigger(dt)
  /\ PusherAtRest(dt)
  /\ UNCHANGED flywheelState

Fire(dt) ==
  /\ ShotsAfterTrigger(dt) > 0 \/ firing
  /\ revAge' = 0
  /\ Solenoid(dt) \/ ClosedLoopPusher(dt) \/ WaitForPusher(dt)

FullSpeed(dt) ==
  /\ flywheelState = "FULLSPEED"
  /\ UNCHANGED <<fromIdle, revved, targetRPM, currentSpindownSpeed>>
  /\ MotorControl
  /\ ReturnToIdle(dt) \/ StayRevved(dt) \/ Fire(dt)

SpinWheels(dt) ==
  /\ Idle(dt) \/ Accelerate(dt)
  /\ MotorControl
  /\ PusherAtRest(dt)

dettlaffUpdate(dt) ==
  /\ ReadInputs(dt)
  /\ TriggerLogic(dt)
  /\ LowBatteryCutoff(dt) \/ SpinWheels(dt) \/ FullSpeed(dt)

\* dettlaffInit, with the switches in any position at power-on.
Init ==
  /\ trigger \in BOOLEAN /\ rev \in BOOLEAN
  /\ cycle \in {c \in BOOLEAN : c => HasCycleSwitch}
  /\ selected \in SUBSET SelectPins
  /\ battery \in Batteries
  /\ firingMode = IF VariableFPS THEN SelectedMode(selected, 0) ELSE 0
  /\ fpsMode = firingMode
  /\ shotsToFire = 0 /\ triggerAge = 0
  /\ flywheelState = "IDLE" /\ fromIdle = FALSE
  /\ revved = FALSE /\ revAge = 0
  /\ targetRPM = [i \in Channels |-> 0]
  /\ currentSpindownSpeed = 0
  /\ loopTime = 1000
  /\ throttleValue = [i \in Channels |-> 0]
  /\ firing = FALSE /\ reverseBraking = FALSE /\ pusherDwelling = FALSE
  /\ pusherAge = 0
  /\ pusherCommand = Off /\ sinceHome = ReversePolarityDuration + 1

Next == \E dt \in StepTimes : dettlaffUpdate(dt)

Spec == Init /\ [][Next]_vars

\* TASK_DETTLAFF is a high-priority periodic task, so updates keep coming.
\* Fairness is asked only of updates that find the inputs as they were: it
\* never forces the user's hand.
QuietUpdate == Next /\ UNCHANGED inputs
FairSpec == Spec /\ WF_vars(QuietUpdate)

-----------------------------------------------------------------------------
(* Properties. *)

\* The values every variable can take.
TypeOK ==
  /\ trigger \in BOOLEAN /\ rev \in BOOLEAN /\ cycle \in BOOLEAN
  /\ selected \in SUBSET SelectPins
  /\ battery \in Batteries
  /\ firingMode \in Modes /\ fpsMode \in Modes
  /\ shotsToFire \in Nat
  /\ triggerAge \in 0..TriggerHorizon
  /\ flywheelState \in FlywheelStates
  /\ fromIdle \in BOOLEAN /\ revved \in BOOLEAN
  /\ revAge \in 0..RevHorizon
  /\ targetRPM \in [Channels -> Nat]
  /\ currentSpindownSpeed \in 0..SpindownSpeed
  /\ loopTime \in LoopTimes \cup {1000}
  /\ throttleValue \in [Channels -> 0..1]
  /\ firing \in BOOLEAN /\ reverseBraking \in BOOLEAN
  /\ pusherDwelling \in BOOLEAN
  /\ pusherAge \in 0..PusherHorizon
  /\ pusherCommand \in -1..1
  /\ sinceHome \in 0..ReversePolarityDuration + 1

\* The pusher is only active at full speed, and reverse braking is a phase of
\* an active pusher: no path out of STATE_FULLSPEED leaves the pusher on,
\* which the low-battery return and the idle state would never turn off.
FiringOnlyAtFullSpeed ==
  (firing => flywheelState = "FULLSPEED") /\ (reverseBraking => firing)

\* While the wheels accelerate or run, every wired motor is commanded its
\* full speed, however the spin-up was entered or re-entered.
FullCommandWhileActive == flywheelState # "IDLE" => targetRPM = revRPM

\* The short firing delay (fromIdle) is only ever armed while no wheel has
\* been commanded below its idling speed.
IdleShortcutSound ==
  fromIdle => \A i \in Motors : targetRPM[i] >= IdleRPM[i]

\* Wheels that have begun to spin down keep the short delay for no longer
\* than the idle time.
IdleShortcutExpires ==
  flywheelState = "IDLE" /\ fromIdle /\ targetRPM # revRPM
    => revAge < IdleTime[fpsMode]

\* However pulls, releases and mode changes interleave, the shots owed stay
\* below twice the longest burst (int16_t shotsToFire cannot overflow).
ShotsBounded ==
  \E m \in Modes : shotsToFire <= 2 * BurstLength[m]

\* AUTO stops firing when the trigger is released: with the trigger up, no
\* more than the shot in progress is owed, unless a mode other than AUTO can
\* account for it.
AutoStopsOnRelease ==
  ~trigger => \/ shotsToFire <= 1
              \/ \E m \in Modes : /\ BurstMode[m] # "AUTO"
                                  /\ shotsToFire <= 2 * BurstLength[m]

\* The solenoid is never energised past its extend time: the update that
\* finds the time over always gets to retract it.
SolenoidNeverHeld ==
  PusherType = "SOLENOID_OPENLOOP" /\ firing =>
    pusherAge <= SolenoidExtendTime

\* The solenoid's driver was last told to drive exactly while the state
\* machine believes it out: no way out of a push, a low battery included,
\* forgets to let it coast, and none lets it coast while it is still out.
SolenoidFollowsFiring ==
  PusherType = "SOLENOID_OPENLOOP" =>
    pusherCommand = IF firing THEN Forward ELSE Off

\* The pusher motor is never driven forward for longer than the stall time
\* without its home switch answering, dwell phases included.
StrokeBounded ==
  PusherType = "MOTOR_CLOSEDLOOP" /\ pusherCommand = Forward =>
    pusherAge <= StallTime

\* The pusher motor is driven forward only for a shot that is still owed:
\* after the last stroke it brakes, whatever the home switch does meanwhile.
DrivenOnlyForShots ==
  PusherType = "MOTOR_CLOSEDLOOP" /\ pusherCommand = Forward =>
    firing /\ shotsToFire > 0

\* The polarity is reversed only while braking, and outlasts the last closing
\* of the home switch by no more than the configured time.  A switch that
\* closes again while braking starts the reversal anew, as often as it does.
ReversePolarityBounded ==
  pusherCommand = Reverse =>
    reverseBraking /\ sinceHome <= ReversePolarityDuration

\* A dart is only pushed while every flywheel is powered.
FiresOnlyThroughPoweredWheels ==
  firing => \A i \in Motors : throttleValue[i] > 0

UserAtRest == ~trigger /\ ~rev /\ battery >= LowVoltageCutoff

\* Once the user lets go of both triggers for good and the battery is
\* healthy, whatever is owed is fired or cancelled and the blaster comes to
\* rest: pusher home, wheels no longer at full speed.
SettlesWhenReleased ==
  <>[]UserAtRest =>
    <>[](shotsToFire = 0 /\ ~firing /\ flywheelState = "IDLE")

\* Wheels nobody asks for are brought down to a stop.
WheelsEventuallyStop ==
  <>[]UserAtRest => <>[](\A i \in Motors : targetRPM[i] = 0)

\* Holding the rev trigger brings the wheels to full speed.
RevReachesFullSpeed ==
  <>[](rev /\ battery >= LowVoltageCutoff) => <>(flywheelState = "FULLSPEED")

\* The solenoid blaster keeps the promises of module Blaster.
Promise == INSTANCE Blaster WITH
  wheels  <- CASE flywheelState = "IDLE" -> "idle"
               [] flywheelState = "ACCELERATING" -> "spinning"
               [] flywheelState = "FULLSPEED" -> "ready",
  owed    <- shotsToFire,
  pushing <- firing

\* Every update of a solenoid blaster is a step the promises allow.
KeepsSafePromise == Promise!SafeSpec

\* And a solenoid that is out comes back.
KeepsPromise == Promise!Spec

=============================================================================
