---------------------------- MODULE Dettlaff_proofs ----------------------------
(***************************************************************************)
(* Machine-checked proofs about Dettlaff, for every configuration allowed  *)
(* by its assumptions.  The inductive invariant is TypeOK together with    *)
(* the few facts that tie the flywheel state, the pusher flags and the     *)
(* commanded speeds to one another.                                        *)
(***************************************************************************)
EXTENDS Dettlaff, TLAPS

-----------------------------------------------------------------------------
(* Lemmas about the operators. *)

LEMMA MinMax ==
  ASSUME NEW a \in Int, NEW b \in Int
  PROVE  /\ Min2(a, b) \in Int /\ Max2(a, b) \in Int
         /\ Min2(a, b) <= a /\ Min2(a, b) <= b
         /\ Max2(a, b) >= a /\ Max2(a, b) >= b
         /\ Min2(a, b) \in {a, b} /\ Max2(a, b) \in {a, b}
  BY DEF Min2, Max2

\* An age that is advanced stays within its horizon.
LEMMA AgeBounded ==
  ASSUME NEW age \in Nat, NEW dt \in Nat, NEW horizon \in Nat
  PROVE  Min2(age + dt, horizon) \in 0..horizon
  BY DEF Min2

LEMMA AgesType ==
  ASSUME TypeOK, NEW dt \in StepTimes
  PROVE  /\ RevAge(dt) \in 0..RevHorizon
         /\ PusherAge(dt) \in 0..PusherHorizon
         /\ TriggerAge(dt) \in 0..TriggerHorizon
  <1>1. dt \in Nat /\ RevHorizon \in Nat /\ PusherHorizon \in Nat
        /\ TriggerHorizon \in Nat
    BY TimeAssumption
  <1>2. revAge \in Nat /\ pusherAge \in Nat /\ triggerAge \in Nat
    BY <1>1 DEF TypeOK
  <1> QED BY <1>1, <1>2, AgeBounded DEF RevAge, PusherAge, TriggerAge

\* The select switches always name a firing mode.
LEMMA SelectedModeType ==
  ASSUME NEW sel \in SUBSET SelectPins, NEW mode \in Modes
  PROVE  SelectedMode(sel, mode) \in Modes
  <1>1. CASE sel = {}
    BY <1>1, ConfigAssumption DEF SelectedMode
  <1>2. CASE sel # {}
    <2>1. sel \subseteq {0, 1, 2}
      BY ConfigAssumption DEF Modes
    <2>2. \E m \in sel : \A n \in sel : m <= n
      <3>1. CASE 0 \in sel
        BY <3>1, <2>1
      <3>2. CASE 0 \notin sel /\ 1 \in sel
        BY <3>2, <2>1
      <3>3. CASE 0 \notin sel /\ 1 \notin sel
        <4>1. sel = {2}
          BY <3>3, <2>1, <1>2
        <4> QED BY <4>1
      <3> QED BY <3>1, <3>2, <3>3
    <2>3. (CHOOSE m \in sel : \A n \in sel : m <= n) \in sel
      BY <2>2
    <2> QED BY <1>2, <2>1, <2>3, ConfigAssumption DEF SelectedMode, Modes
  <1> QED BY <1>1, <1>2

LEMMA InputsType ==
  ASSUME TypeOK, NEW dt \in StepTimes, ReadInputs(dt)
  PROVE  /\ trigger' \in BOOLEAN /\ rev' \in BOOLEAN /\ cycle' \in BOOLEAN
         /\ selected' \in SUBSET SelectPins
         /\ battery' \in Batteries
         /\ firingMode' \in Modes /\ fpsMode' = fpsMode
         /\ sinceHome' \in 0..ReversePolarityDuration + 1
  <1>1. /\ sinceHome \in Nat /\ dt \in Nat /\ ReversePolarityDuration \in Nat
    BY TimeAssumption DEF TypeOK
  <1>2. \/ sinceHome' = 0
        \/ sinceHome' = Min2(sinceHome + dt, ReversePolarityDuration + 1)
    BY DEF ReadInputs
  <1>3. sinceHome' \in 0..ReversePolarityDuration + 1
    BY <1>1, <1>2 DEF Min2
  <1> QED BY <1>3, SelectedModeType DEF TypeOK, ReadInputs

LEMMA ShotsType ==
  ASSUME TypeOK, NEW dt \in StepTimes, ReadInputs(dt)
  PROVE  ShotsAfterTrigger(dt) \in Nat
  <1>1. BurstLength[firingMode'] \in Nat \ {0}
    BY InputsType, ConfigAssumption
  <1>2. shotsToFire \in Nat
    BY DEF TypeOK
  <1> QED BY <1>1, <1>2 DEF ShotsAfterTrigger

LEMMA DivisionType ==
  ASSUME NEW a \in Int, NEW b \in Nat \ {0}
  PROVE  a \div b \in Int
  OBVIOUS

\* A throttle is 0 or 1, whatever the speed and the voltage.
LEMMA ThrottleType ==
  ASSUME NEW rpm \in Int, battery' \in Batteries
  PROVE  ThrottleFor(rpm) \in 0..1
  <1>1. Voltage \in Nat \ {0}
    BY RpmAssumption DEF Voltage
  <1>2. rpm \div Voltage \in Int
    BY <1>1, DivisionType
  <1>3. (rpm \div Voltage) * 1000 \in Int
    BY <1>2
  <1>4. ((rpm \div Voltage) * 1000) \div MotorKv \in Int
    BY <1>3, DivisionType, RpmAssumption
  <1>5. \A x \in Int : Max2(Min2(1, x), 0) \in 0..1
    BY DEF Max2, Min2
  <1> QED BY <1>4, <1>5 DEF ThrottleFor

LEMMA MotorControlType ==
  ASSUME TypeOK, NEW dt \in StepTimes, ReadInputs(dt), MotorControl,
         targetRPM' \in [Channels -> Nat]
  PROVE  throttleValue' \in [Channels -> 0..1] /\ loopTime' \in LoopTimes
  <1>1. battery' \in Batteries
    BY InputsType
  <1>2. Motors \subseteq Channels
    BY ConfigAssumption
  <1>3. \A i \in Motors : ThrottleFor(targetRPM'[i]) \in 0..1
    BY <1>1, <1>2, ThrottleType
  <1>4. \A i \in Motors : TwoLevelThrottle(i) \in 0..1
    BY <1>3 DEF TwoLevelThrottle
  <1>5. NewThrottles \subseteq [Motors -> 0..1]
    BY <1>3, <1>4, ConfigAssumption DEF NewThrottles
  <1> QED BY <1>2, <1>5 DEF MotorControl, TypeOK

LEMMA HoldType == TypeOK => Hold \in -1..1
  BY DEF TypeOK, Hold

LEMMA revRPMType == TypeOK => revRPM \in [Channels -> Nat]
  BY RpmAssumption, ConfigAssumption DEF TypeOK, revRPM

\* Spinning down stays at or above the floor it is given.
LEMMA SpindownType ==
  ASSUME TypeOK, NEW floor \in [Channels -> Nat], SpindownTo(floor)
  PROVE  /\ currentSpindownSpeed' \in 0..SpindownSpeed
         /\ targetRPM' \in [Channels -> Nat]
         /\ \A i \in Motors : targetRPM'[i] >= floor[i]
  <1> DEFINE step == (currentSpindownSpeed' * loopTime) \div 1000
  <1>1. currentSpindownSpeed' \in 0..SpindownSpeed
    BY RpmAssumption DEF TypeOK, SpindownTo, Min2
  <1>2. step \in Int
    <2>1. loopTime \in Nat
      BY RpmAssumption DEF TypeOK
    <2>2. currentSpindownSpeed' * loopTime \in Int
      BY <1>1, <2>1, RpmAssumption
    <2> QED BY <2>2, DivisionType
  <1>3. targetRPM \in [Channels -> Nat]
    BY DEF TypeOK
  <1>4. targetRPM' = [i \in Channels |->
          IF i \in Motors THEN Max2(targetRPM[i] - step, floor[i])
          ELSE targetRPM[i]]
    BY DEF SpindownTo
  <1> HIDE DEF step
  <1>5. \A i \in Channels : /\ Max2(targetRPM[i] - step, floor[i]) \in Nat
                            /\ Max2(targetRPM[i] - step, floor[i]) >= floor[i]
    BY <1>2, <1>3 DEF Max2
  <1> QED BY <1>1, <1>3, <1>4, <1>5, ConfigAssumption

\* The wheels' state and the shots owed, after a step outside full speed.
LEMMA SpinWheelsType ==
  ASSUME TypeOK, NEW dt \in StepTimes, ReadInputs(dt),
         Idle(dt) \/ Accelerate(dt)
  PROVE  /\ flywheelState' \in FlywheelStates
         /\ fromIdle' \in BOOLEAN /\ revved' \in BOOLEAN
         /\ revAge' \in 0..RevHorizon
         /\ targetRPM' \in [Channels -> Nat]
         /\ currentSpindownSpeed' \in 0..SpindownSpeed
         /\ shotsToFire' \in Nat
  <1>1. ShotsAfterTrigger(dt) \in Nat
    BY ShotsType
  <1>2. RevAge(dt) \in 0..RevHorizon /\ 0 \in 0..RevHorizon
    BY AgesType, TimeAssumption
  <1>3. CASE Idle(dt)
    <2>1. CASE StartSpinUp(dt)
      BY <1>1, <1>2, <1>3, <2>1, revRPMType, RpmAssumption
      DEF Idle, StartSpinUp, TypeOK, FlywheelStates
    <2>2. CASE KeepIdling(dt)
      <3>1. SpindownTo(IdleRPM) /\ IdleRPM \in [Channels -> Nat]
        BY <2>2, RpmAssumption DEF KeepIdling
      <3>2. /\ currentSpindownSpeed' \in 0..SpindownSpeed
            /\ targetRPM' \in [Channels -> Nat]
        BY <3>1, SpindownType
      <3>3. /\ flywheelState \in FlywheelStates /\ revved \in BOOLEAN
            /\ fromIdle \in BOOLEAN
        BY DEF TypeOK
      <3>4. /\ flywheelState' = flywheelState /\ revved' = revved
            /\ fromIdle' = fromIdle /\ revAge' = RevAge(dt)
            /\ shotsToFire' = ShotsAfterTrigger(dt)
        BY <1>3, <2>2 DEF Idle, KeepIdling
      <3>5. flywheelState' \in FlywheelStates /\ revved' \in BOOLEAN
        BY <3>3, <3>4
      <3>6. /\ fromIdle' \in BOOLEAN /\ revAge' \in 0..RevHorizon
            /\ shotsToFire' \in Nat
        BY <1>1, <1>2, <3>3, <3>4
      <3> QED BY <3>2, <3>5, <3>6
    <2>3. CASE ShutDownWheels(dt)
      <3>1. /\ SpindownTo([i \in Channels |-> 0])
            /\ [i \in Channels |-> 0] \in [Channels -> Nat]
        BY <2>3 DEF ShutDownWheels
      <3>2. /\ currentSpindownSpeed' \in 0..SpindownSpeed
            /\ targetRPM' \in [Channels -> Nat]
        BY <3>1, SpindownType
      <3>3. /\ flywheelState' = flywheelState /\ revved' = revved
            /\ fromIdle' = FALSE /\ revAge' = RevAge(dt)
            /\ shotsToFire' = ShotsAfterTrigger(dt)
        BY <1>3, <2>3 DEF Idle, ShutDownWheels
      <3>4. flywheelState \in FlywheelStates /\ revved \in BOOLEAN
        BY DEF TypeOK
      <3>5. flywheelState' \in FlywheelStates /\ revved' \in BOOLEAN
        BY <3>3, <3>4
      <3>6. /\ fromIdle' \in BOOLEAN /\ revAge' \in 0..RevHorizon
            /\ shotsToFire' \in Nat
        BY <1>1, <1>2, <3>3
      <3> QED BY <3>2, <3>5, <3>6
    <2> QED BY <1>3, <2>1, <2>2, <2>3 DEF Idle
  <1>4. CASE Accelerate(dt)
    <2>1. /\ revAge' \in 0..RevHorizon /\ revved' \in BOOLEAN
          /\ targetRPM' \in [Channels -> Nat]
          /\ currentSpindownSpeed' \in 0..SpindownSpeed
      BY <1>2, <1>4 DEF Accelerate, TypeOK
    <2>2. CASE ReachFullSpeed(dt)
      BY <1>1, <2>1, <2>2 DEF ReachFullSpeed, FlywheelStates
    <2>3. CASE GiveUpSpinUp(dt)
      BY <2>1, <2>3 DEF GiveUpSpinUp, FlywheelStates, TypeOK
    <2>4. CASE KeepAccelerating(dt)
      BY <1>1, <2>1, <2>4 DEF KeepAccelerating, TypeOK
    <2> QED BY <1>4, <2>2, <2>3, <2>4 DEF Accelerate
  <1> QED BY <1>3, <1>4

\* The whole state, after a step at full speed.
LEMMA FireType ==
  ASSUME TypeOK, NEW dt \in StepTimes, ReadInputs(dt), FullSpeed(dt)
  PROVE  /\ flywheelState' \in FlywheelStates
         /\ revAge' \in 0..RevHorizon
         /\ shotsToFire' \in Nat
         /\ firing' \in BOOLEAN /\ reverseBraking' \in BOOLEAN
         /\ pusherDwelling' \in BOOLEAN
         /\ pusherAge' \in 0..PusherHorizon
         /\ pusherCommand' \in -1..1
  <1>1. ShotsAfterTrigger(dt) \in Nat
    BY ShotsType
  <1>2. /\ RevAge(dt) \in 0..RevHorizon /\ 0 \in 0..RevHorizon
        /\ PusherAge(dt) \in 0..PusherHorizon /\ 0 \in 0..PusherHorizon
    BY AgesType, TimeAssumption
  <1>3. /\ Forward \in -1..1 /\ Reverse \in -1..1 /\ Off \in -1..1
        /\ Hold \in -1..1 /\ \A c : Command(c) => pusherCommand' = c
    BY HoldType DEF Forward, Reverse, Off, Command
  <1>4. ShotsAfterStroke(dt) \in Nat
    BY <1>1 DEF ShotsAfterStroke, Max2
  <1>5. /\ flywheelState \in FlywheelStates /\ "IDLE" \in FlywheelStates
        /\ firing \in BOOLEAN /\ reverseBraking \in BOOLEAN
        /\ pusherDwelling \in BOOLEAN
    BY DEF TypeOK, FlywheelStates
  <1>6. CASE ReturnToIdle(dt) \/ StayRevved(dt)
    BY <1>2, <1>3, <1>5, <1>6 DEF ReturnToIdle, StayRevved, PusherAtRest
  <1>7. CASE revAge' = 0 /\ Solenoid(dt)
    <2>1. flywheelState' = flywheelState /\ reverseBraking' = reverseBraking
          /\ pusherDwelling' = pusherDwelling
      BY <1>7 DEF Solenoid
    <2>2. CASE ExtendSolenoid(dt)
      BY <1>1, <1>2, <1>3, <1>5, <1>7, <2>1, <2>2 DEF ExtendSolenoid
    <2>3. CASE RetractSolenoid(dt)
      BY <1>1, <1>2, <1>3, <1>5, <1>7, <2>1, <2>3 DEF RetractSolenoid
    <2>4. CASE HoldSolenoid(dt)
      BY <1>1, <1>2, <1>3, <1>5, <1>7, <2>1, <2>4 DEF HoldSolenoid
    <2> QED BY <1>7, <2>2, <2>3, <2>4 DEF Solenoid
  <1>8. CASE revAge' = 0 /\ ClosedLoopPusher(dt)
    <2>1. CASE StartStroke(dt)
      BY <1>1, <1>2, <1>3, <1>5, <1>8, <2>1 DEF StartStroke
    <2>2. CASE LastStroke(dt)
      BY <1>2, <1>3, <1>5, <1>8, <2>2 DEF LastStroke
    <2>3. CASE NextStroke(dt)
      BY <1>2, <1>3, <1>4, <1>5, <1>8, <2>3 DEF NextStroke
    <2>4. CASE Dwell(dt)
      BY <1>1, <1>2, <1>3, <1>5, <1>8, <2>4 DEF Dwell
    <2>5. CASE Brake(dt)
      BY <1>1, <1>2, <1>3, <1>5, <1>8, <2>5
      DEF Brake, ResumeFromBraking, EndBraking, KeepBraking
    <2>6. CASE KeepPushing(dt)
      BY <1>1, <1>2, <1>3, <1>5, <1>8, <2>6 DEF KeepPushing
    <2>7. CASE Stall(dt)
      BY <1>2, <1>3, <1>5, <1>8, <2>7 DEF Stall
    <2> QED BY <1>8, <2>1, <2>2, <2>3, <2>4, <2>5, <2>6, <2>7
        DEF ClosedLoopPusher
  <1>9. CASE revAge' = 0 /\ WaitForPusher(dt)
    BY <1>1, <1>2, <1>3, <1>5, <1>9 DEF WaitForPusher, PusherAtRest
  <1> QED BY <1>6, <1>7, <1>8, <1>9 DEF FullSpeed, Fire

LEMMA CutoffType ==
  ASSUME TypeOK, NEW dt \in StepTimes, ReadInputs(dt), LowBatteryCutoff(dt)
  PROVE  /\ shotsToFire' \in Nat
         /\ revAge' \in 0..RevHorizon /\ pusherAge' \in 0..PusherHorizon
         /\ pusherCommand' \in -1..1
  BY ShotsType, AgesType DEF LowBatteryCutoff, Command, Off

-----------------------------------------------------------------------------
(* Type correctness. *)

LEMMA TypeInit == Init => TypeOK
  <1> SUFFICES ASSUME Init PROVE TypeOK
    OBVIOUS
  <1>1. SelectedMode(selected, 0) \in Modes
    BY SelectedModeType DEF Init, Modes
  <1>2. firingMode \in Modes /\ fpsMode \in Modes
    BY <1>1 DEF Init, Modes
  <1>3. /\ 0 \in 0..TriggerHorizon /\ 0 \in 0..RevHorizon
        /\ 0 \in 0..PusherHorizon /\ 0 \in 0..SpindownSpeed
    BY TimeAssumption, RpmAssumption
  <1>4. /\ targetRPM \in [Channels -> Nat]
        /\ throttleValue \in [Channels -> 0..1]
        /\ pusherCommand \in -1..1
        /\ sinceHome \in 0..ReversePolarityDuration + 1
    BY TimeAssumption DEF Init, Off
  <1>5. cycle \in BOOLEAN
    BY DEF Init
  <1> QED BY <1>2, <1>3, <1>4, <1>5 DEF Init, TypeOK, FlywheelStates

LEMMA TypeStep == TypeOK /\ [Next]_vars => TypeOK'
  <1> SUFFICES ASSUME TypeOK, [Next]_vars PROVE TypeOK'
    OBVIOUS
  <1>1. CASE UNCHANGED vars
    BY <1>1 DEF vars, inputs, wheels, pusher, TypeOK
  <1>2. CASE Next
    <2>1. PICK dt \in StepTimes : dettlaffUpdate(dt)
      BY <1>2 DEF Next
    <2>2. ReadInputs(dt) /\ TriggerLogic(dt)
      BY <2>1 DEF dettlaffUpdate
    <2>3. /\ trigger' \in BOOLEAN /\ rev' \in BOOLEAN /\ cycle' \in BOOLEAN
          /\ selected' \in SUBSET SelectPins /\ battery' \in Batteries
          /\ firingMode' \in Modes /\ fpsMode' \in Modes
          /\ sinceHome' \in 0..ReversePolarityDuration + 1
      BY <2>2, InputsType DEF TypeOK
    <2>4. triggerAge' \in 0..TriggerHorizon
      BY <2>2, AgesType, TimeAssumption DEF TriggerLogic
    <2>5. CASE LowBatteryCutoff(dt)
      BY <2>2, <2>3, <2>4, <2>5, CutoffType DEF LowBatteryCutoff, TypeOK
    <2>6. CASE SpinWheels(dt)
      <3>1. /\ flywheelState' \in FlywheelStates
            /\ fromIdle' \in BOOLEAN /\ revved' \in BOOLEAN
            /\ revAge' \in 0..RevHorizon
            /\ targetRPM' \in [Channels -> Nat]
            /\ currentSpindownSpeed' \in 0..SpindownSpeed
            /\ shotsToFire' \in Nat
        BY <2>2, <2>6, SpinWheelsType DEF SpinWheels
      <3>2. throttleValue' \in [Channels -> 0..1] /\ loopTime' \in LoopTimes
        BY <2>2, <2>6, <3>1, MotorControlType DEF SpinWheels
      <3>3. pusherCommand' \in -1..1
        BY <2>6, HoldType DEF SpinWheels, PusherAtRest, Command
      <3>4. /\ firing' \in BOOLEAN /\ reverseBraking' \in BOOLEAN
            /\ pusherDwelling' \in BOOLEAN /\ pusherAge' \in 0..PusherHorizon
        BY <2>6, AgesType DEF SpinWheels, PusherAtRest, TypeOK
      <3> QED BY <2>3, <2>4, <3>1, <3>2, <3>3, <3>4 DEF TypeOK
    <2>7. CASE FullSpeed(dt)
      <3>1. /\ flywheelState' \in FlywheelStates
            /\ revAge' \in 0..RevHorizon
            /\ shotsToFire' \in Nat
            /\ firing' \in BOOLEAN /\ reverseBraking' \in BOOLEAN
            /\ pusherDwelling' \in BOOLEAN
            /\ pusherAge' \in 0..PusherHorizon
            /\ pusherCommand' \in -1..1
        BY <2>2, <2>7, FireType
      <3>2. /\ fromIdle' \in BOOLEAN /\ revved' \in BOOLEAN
            /\ targetRPM' \in [Channels -> Nat]
            /\ currentSpindownSpeed' \in 0..SpindownSpeed
        BY <2>7 DEF FullSpeed, TypeOK
      <3>3. throttleValue' \in [Channels -> 0..1] /\ loopTime' \in LoopTimes
        BY <2>2, <2>7, <3>2, MotorControlType DEF FullSpeed
      <3> QED BY <2>3, <2>4, <3>1, <3>2, <3>3 DEF TypeOK
    <2> QED BY <2>1, <2>5, <2>6, <2>7 DEF dettlaffUpdate
  <1> QED BY <1>1, <1>2

\* Every variable keeps its type, whatever the configuration.
THEOREM TypeCorrect == Spec => []TypeOK
  BY TypeInit, TypeStep, PTL DEF Spec

-----------------------------------------------------------------------------
(* The wheels: full commands while active, and the short firing delay.     *)

\* Both conditions on the wheels survive every update.  The idle state may
\* only lower the speeds to the idling floor, or disarm the short delay.
LEMMA WheelsStep ==
  TypeOK /\ FullCommandWhileActive /\ IdleShortcutSound /\ [Next]_vars
    => FullCommandWhileActive' /\ IdleShortcutSound'
  <1> SUFFICES ASSUME TypeOK, FullCommandWhileActive, IdleShortcutSound,
                      [Next]_vars
               PROVE  FullCommandWhileActive' /\ IdleShortcutSound'
    OBVIOUS
  <1> USE DEF FullCommandWhileActive, IdleShortcutSound
  <1>1. CASE UNCHANGED vars
    BY <1>1 DEF vars, wheels, revRPM
  <1>2. CASE Next
    <2>1. PICK dt \in StepTimes : dettlaffUpdate(dt)
      BY <1>2 DEF Next
    <2>2. ReadInputs(dt) /\ fpsMode' = fpsMode
      BY <2>1 DEF dettlaffUpdate, ReadInputs
    <2>3. revRPM' = revRPM
      BY <2>2 DEF revRPM
    <2>4. \A i \in Motors : revRPM[i] >= IdleRPM[i]
      BY ConfigAssumption, RpmAssumption DEF TypeOK, revRPM
    <2>5. CASE LowBatteryCutoff(dt) \/ FullSpeed(dt)
      <3>1. UNCHANGED <<fromIdle, targetRPM>>
        BY <2>5 DEF LowBatteryCutoff, FullSpeed
      <3>2. flywheelState' # "IDLE" => flywheelState # "IDLE"
        BY <2>5 DEF LowBatteryCutoff, FullSpeed
      <3> QED BY <2>3, <3>1, <3>2
    <2>6. CASE Accelerate(dt)
      <3>1. targetRPM' = targetRPM /\ targetRPM = revRPM
        BY <2>6 DEF Accelerate
      <3> QED BY <2>3, <2>4, <3>1
    <2>7. CASE Idle(dt)
      <3>1. CASE StartSpinUp(dt)
        BY <2>3, <2>4, <3>1 DEF StartSpinUp
      <3>2. CASE KeepIdling(dt)
        <4>1. \A i \in Motors : targetRPM'[i] >= IdleRPM[i]
          BY <3>2, SpindownType, RpmAssumption DEF KeepIdling
        <4> QED BY <2>7, <3>2, <4>1 DEF Idle, KeepIdling
      <3>3. CASE ShutDownWheels(dt)
        BY <2>7, <3>3 DEF Idle, ShutDownWheels
      <3> QED BY <2>7, <3>1, <3>2, <3>3 DEF Idle
    <2> QED BY <2>1, <2>5, <2>6, <2>7 DEF dettlaffUpdate, SpinWheels
  <1> QED BY <1>1, <1>2

LEMMA WheelsInit == Init => FullCommandWhileActive /\ IdleShortcutSound
  BY DEF Init, FullCommandWhileActive, IdleShortcutSound

\* Every wired flywheel is commanded its full speed from the update that
\* starts it until the update that lets it go.
THEOREM FullCommand == Spec => []FullCommandWhileActive
  BY TypeInit, TypeStep, WheelsInit, WheelsStep, PTL DEF Spec

\* The short firing delay is never armed for a wheel below its idling speed.
THEOREM IdleShortcut == Spec => []IdleShortcutSound
  BY TypeInit, TypeStep, WheelsInit, WheelsStep, PTL DEF Spec

LEMMA ExpiresInit == Init => IdleShortcutExpires
  BY DEF Init, IdleShortcutExpires

LEMMA ExpiresStep ==
  ASSUME \A b \in Batteries : b >= LowVoltageCutoff
  PROVE  TypeOK /\ FullCommandWhileActive /\ IdleShortcutExpires /\ [Next]_vars
           => IdleShortcutExpires'
  <1> SUFFICES ASSUME TypeOK, FullCommandWhileActive, IdleShortcutExpires, [Next]_vars,
                      flywheelState' = "IDLE", fromIdle', targetRPM' # revRPM'
               PROVE  revAge' < IdleTime[fpsMode']
    BY DEF IdleShortcutExpires
  <1>1. CASE UNCHANGED vars
    BY <1>1 DEF vars, wheels, revRPM, IdleShortcutExpires
  <1>2. CASE Next
    <2>1. PICK dt \in StepTimes : dettlaffUpdate(dt)
      BY <1>2 DEF Next
    <2>2. fpsMode' = fpsMode /\ revRPM' = revRPM /\ battery' \in Batteries
      BY <2>1 DEF dettlaffUpdate, ReadInputs, revRPM
    <2>3. ~LowBatteryCutoff(dt)
      <3>1. battery' \in Nat /\ LowVoltageCutoff \in Nat /\ battery' >= LowVoltageCutoff
        BY <2>2, RpmAssumption
      <3>2. ~(battery' < LowVoltageCutoff)
        BY <3>1
      <3> QED BY <3>2 DEF LowBatteryCutoff, LowBattery
    <2>4. ~(FullSpeed(dt) \/ Accelerate(dt))
      <3>1. FullSpeed(dt) \/ Accelerate(dt) => targetRPM' = targetRPM /\ targetRPM = revRPM
        BY DEF FullSpeed, Accelerate, FullCommandWhileActive
      <3> QED BY <2>2, <3>1
    <2>5. CASE Idle(dt)
      <3>1. ~StartSpinUp(dt) /\ ~ShutDownWheels(dt)
        BY <2>2 DEF StartSpinUp, ShutDownWheels
      <3>2. KeepIdling(dt)
        BY <2>5, <3>1 DEF Idle
      <3> QED BY <2>2, <3>2 DEF KeepIdling
    <2> QED BY <2>1, <2>3, <2>4, <2>5 DEF dettlaffUpdate, SpinWheels
  <1> QED BY <1>1, <1>2

\* Wheels that have begun to spin down lose the short delay with the idle
\* time, as long as the battery stays above its cutoff: the low-battery
\* return skips the idle state that disarms it.
THEOREM IdleShortcutRunsOut ==
  ASSUME \A b \in Batteries : b >= LowVoltageCutoff
  PROVE  Spec => []IdleShortcutExpires
  BY TypeInit, TypeStep, WheelsInit, WheelsStep, ExpiresInit, ExpiresStep, PTL
  DEF Spec

-----------------------------------------------------------------------------
(* The shots owed. *)

\* One pull, whatever the mode, keeps the shots owed below two bursts.
LEMMA TriggerBounded ==
  ASSUME TypeOK, NEW dt \in StepTimes, ReadInputs(dt), ShotsBounded
  PROVE  \E m \in Modes : ShotsAfterTrigger(dt) <= 2 * BurstLength[m]
  <1>1. PICK m \in Modes : shotsToFire <= 2 * BurstLength[m]
    BY DEF ShotsBounded
  <1>2. firingMode' \in Modes
    BY InputsType
  <1> DEFINE length == BurstLength[firingMode']
             before == BurstLength[m]
             after  == ShotsAfterTrigger(dt)
  <1>3. length \in Nat \ {0} /\ before \in Nat \ {0} /\ shotsToFire \in Nat
    BY <1>2, ConfigAssumption DEF TypeOK
  <1>4. \/ after = length
        \/ (shotsToFire < length \/ shotsToFire = 1) /\ after = shotsToFire + length
        \/ after = 1
        \/ after = shotsToFire
    BY DEF ShotsAfterTrigger
  <1> HIDE DEF length, before, after
  <1>5. after <= 2 * length \/ after <= 2 * before
    BY <1>1, <1>3, <1>4 DEF before
  <1> QED BY <1>2, <1>5 DEF length, before, after

\* After the trigger logic, an update can only take shots off.
LEMMA ShotsOnlySpent ==
  ASSUME TypeOK, NEW dt \in StepTimes, ReadInputs(dt),
         LowBatteryCutoff(dt) \/ SpinWheels(dt) \/ FullSpeed(dt)
  PROVE  shotsToFire' <= ShotsAfterTrigger(dt)
  <1> DEFINE owed == ShotsAfterTrigger(dt)
  <1>1. owed \in Nat
    BY ShotsType
  <1>2. ShotsAfterStroke(dt) <= owed
    BY <1>1 DEF ShotsAfterStroke, Max2
  <1>3. CASE LowBatteryCutoff(dt)
    BY <1>1, <1>3 DEF LowBatteryCutoff
  <1>4. CASE SpinWheels(dt)
    <2>1. shotsToFire' \in {0, owed}
      BY <1>4 DEF SpinWheels, Idle, Accelerate, ReachFullSpeed, GiveUpSpinUp,
                  KeepAccelerating
    <2> QED BY <1>1, <2>1
  <1>5. CASE FullSpeed(dt)
    <2>1. CASE ReturnToIdle(dt) \/ StayRevved(dt)
      BY <1>1, <2>1 DEF ReturnToIdle, StayRevved
    <2>2. CASE Solenoid(dt) \/ WaitForPusher(dt)
      <3>1. shotsToFire' \in {owed, owed - 1}
        BY <2>2 DEF Solenoid, ExtendSolenoid, RetractSolenoid, HoldSolenoid,
                    WaitForPusher
      <3> QED BY <1>1, <3>1
    <2>3. CASE ClosedLoopPusher(dt)
      <3>1. shotsToFire' \in {0, owed, ShotsAfterStroke(dt)}
        BY <2>3 DEF ClosedLoopPusher, StartStroke, LastStroke, NextStroke,
                    Dwell, Brake, Stall, KeepPushing
      <3> QED BY <1>1, <1>2, <3>1
    <2> QED BY <1>5, <2>1, <2>2, <2>3 DEF FullSpeed, Fire
  <1> QED BY <1>3, <1>4, <1>5

LEMMA ShotsStep == TypeOK /\ ShotsBounded /\ [Next]_vars => ShotsBounded'
  <1> SUFFICES ASSUME TypeOK, ShotsBounded, [Next]_vars PROVE ShotsBounded'
    OBVIOUS
  <1>1. CASE UNCHANGED vars
    BY <1>1 DEF vars, ShotsBounded
  <1>2. CASE Next
    <2>1. PICK dt \in StepTimes : dettlaffUpdate(dt)
      BY <1>2 DEF Next
    <2>2. ReadInputs(dt) /\ shotsToFire' <= ShotsAfterTrigger(dt)
      BY <2>1, ShotsOnlySpent DEF dettlaffUpdate
    <2>3. PICK m \in Modes : ShotsAfterTrigger(dt) <= 2 * BurstLength[m]
      BY <2>2, TriggerBounded
    <2>4. /\ shotsToFire' \in Nat /\ ShotsAfterTrigger(dt) \in Nat
          /\ 2 * BurstLength[m] \in Nat
      BY <2>2, ShotsType, TypeStep, ConfigAssumption DEF TypeOK
    <2>5. shotsToFire' <= 2 * BurstLength[m]
      BY <2>2, <2>3, <2>4
    <2> QED BY <2>5 DEF ShotsBounded
  <1> QED BY <1>1, <1>2

LEMMA ShotsInit == Init => ShotsBounded
  BY ConfigAssumption DEF Init, ShotsBounded, Modes

\* The counter of shots owed stays below twice the longest burst, whatever
\* the trigger and the mode selector do.
THEOREM ShotsStayBounded == Spec => []ShotsBounded
  BY TypeInit, TypeStep, ShotsInit, ShotsStep, PTL DEF Spec

\* The mode cannot turn into AUTO, or is AUTO already.
AutoKeptApart ==
  SelectFireType = "NO_SELECT_FIRE" \/ \A m \in Modes : BurstMode[m] = "AUTO"

\* AutoStopsOnRelease says too little of the modes to be inductive: what is
\* owed is bounded by the present mode, whether the trigger is held or not.
OwedByMode ==
  /\ BurstMode[firingMode] = "AUTO" /\ ~trigger => shotsToFire <= 1
  /\ BurstMode[firingMode] # "AUTO" => shotsToFire <= 2 * BurstLength[firingMode]

LEMMA OwedInit == Init => OwedByMode
  <1> SUFFICES ASSUME Init PROVE OwedByMode
    OBVIOUS
  <1>1. shotsToFire = 0 /\ BurstLength[firingMode] \in Nat
    BY TypeInit, ConfigAssumption DEF Init, TypeOK
  <1> QED BY <1>1 DEF OwedByMode

LEMMA OwedStep ==
  ASSUME AutoKeptApart
  PROVE  TypeOK /\ OwedByMode /\ [Next]_vars => OwedByMode'
  <1> SUFFICES ASSUME TypeOK, OwedByMode, [Next]_vars PROVE OwedByMode'
    OBVIOUS
  <1>1. CASE UNCHANGED vars
    BY <1>1 DEF vars, inputs, OwedByMode
  <1>2. CASE Next
    <2>1. PICK dt \in StepTimes : dettlaffUpdate(dt)
      BY <1>2 DEF Next
    <2>2. ReadInputs(dt) /\ shotsToFire' <= ShotsAfterTrigger(dt)
      BY <2>1, ShotsOnlySpent DEF dettlaffUpdate
    <2> DEFINE length == BurstLength[firingMode']
               owed   == ShotsAfterTrigger(dt)
    <2>3. /\ length \in Nat \ {0} /\ shotsToFire \in Nat
          /\ owed \in Nat /\ shotsToFire' \in Nat
      BY <1>2, <2>2, InputsType, ShotsType, TypeStep, ConfigAssumption DEF TypeOK
    <2>4. BurstMode[firingMode'] = BurstMode[firingMode]
      <3>1. CASE SelectFireType = "NO_SELECT_FIRE"
        BY <2>2, <3>1 DEF ReadInputs, SelectedMode
      <3>2. CASE \A m \in Modes : BurstMode[m] = "AUTO"
        BY <2>2, <3>2, InputsType DEF TypeOK
      <3> QED BY <3>1, <3>2 DEF AutoKeptApart
    <2>5. CASE BurstMode[firingMode'] = "AUTO"
      <3>1. SUFFICES ASSUME ~trigger' PROVE owed <= 1
        BY <2>2, <2>3, <2>5 DEF OwedByMode
      <3>2. ~Requests(dt)
        BY <2>5, <3>1 DEF Requests, Pressed
      <3>3. CASE trigger
        <4>1. Released
          BY <3>1, <3>3 DEF Released
        <4> QED BY <2>3, <2>5, <3>2, <4>1 DEF ShotsAfterTrigger
      <3>4. CASE ~trigger
        <4>1. ~Released /\ shotsToFire <= 1
          BY <2>4, <2>5, <3>4 DEF Released, OwedByMode
        <4> QED BY <3>2, <4>1 DEF ShotsAfterTrigger
      <3> QED BY <3>3, <3>4
    <2>6. CASE BurstMode[firingMode'] # "AUTO"
      <3>1. firingMode' = firingMode
        BY <2>2, <2>6, InputsType DEF AutoKeptApart, ReadInputs, SelectedMode
      <3>2. shotsToFire <= 2 * length
        BY <2>6, <3>1 DEF OwedByMode
      <3>3. \/ owed = shotsToFire
            \/ (shotsToFire < length \/ shotsToFire = 1) /\ owed = shotsToFire + length
        BY <2>6 DEF ShotsAfterTrigger
      <3> HIDE DEF length, owed
      <3>4. shotsToFire' <= 2 * length
        BY <2>2, <2>3, <3>2, <3>3 DEF owed
      <3> QED BY <2>6, <3>4 DEF OwedByMode, length
    <2> QED BY <2>5, <2>6
  <1> QED BY <1>1, <1>2

\* With the trigger up, AUTO owes no more than the shot in progress, unless a
\* selector can turn a burst mode's debt into AUTO's.
THEOREM AutoStops ==
  ASSUME AutoKeptApart
  PROVE  Spec => []AutoStopsOnRelease
  <1>1. TypeOK /\ OwedByMode => AutoStopsOnRelease
    BY DEF TypeOK, OwedByMode, AutoStopsOnRelease
  <1> QED BY <1>1, TypeInit, TypeStep, OwedInit, OwedStep, PTL DEF Spec

-----------------------------------------------------------------------------
(* The pusher. *)

\* FiringOnlyAtFullSpeed is not inductive by itself: a retracting solenoid, or
\* a last stroke without reverse braking configured, ends the pusher's
\* activity without looking at the reverse braking flag.
PusherInv ==
  /\ FiringOnlyAtFullSpeed
  /\ reverseBraking => /\ PusherType = "MOTOR_CLOSEDLOOP"
                       /\ ReversePolarityDuration > 0

LEMMA PusherInit == Init => PusherInv
  BY DEF Init, PusherInv, FiringOnlyAtFullSpeed

LEMMA PusherStep == TypeOK /\ PusherInv /\ [Next]_vars => PusherInv'
  <1> SUFFICES ASSUME TypeOK, PusherInv, [Next]_vars PROVE PusherInv'
    OBVIOUS
  <1> USE DEF PusherInv, FiringOnlyAtFullSpeed
  <1>1. CASE UNCHANGED vars
    BY <1>1 DEF vars, wheels, pusher
  <1>2. CASE Next
    <2>1. PICK dt \in StepTimes : dettlaffUpdate(dt)
      BY <1>2 DEF Next
    <2>2. CASE LowBatteryCutoff(dt)
      BY <2>2 DEF LowBatteryCutoff
    <2>3. CASE SpinWheels(dt)
      <3>1. flywheelState # "FULLSPEED"
        BY <2>3 DEF SpinWheels, Idle, Accelerate
      <3> QED BY <2>3, <3>1 DEF SpinWheels, PusherAtRest
    <2>4. CASE FullSpeed(dt)
      <3>1. flywheelState = "FULLSPEED"
        BY <2>4 DEF FullSpeed
      <3>2. CASE ReturnToIdle(dt) \/ StayRevved(dt) \/ WaitForPusher(dt)
        BY <3>1, <3>2 DEF ReturnToIdle, StayRevved, WaitForPusher, PusherAtRest
      <3>3. CASE Solenoid(dt)
        <4>1. ~reverseBraking /\ ~reverseBraking'
          BY <3>3 DEF Solenoid
        <4> QED BY <3>1, <3>3, <4>1 DEF Solenoid
      <3>4. CASE ClosedLoopPusher(dt)
        <4>1. ReversePolarityDuration \in Nat /\ PusherType = "MOTOR_CLOSEDLOOP"
          BY <3>4, TimeAssumption DEF ClosedLoopPusher
        <4>2. CASE LastStroke(dt)
          <5>1. CASE ReversePolarityDuration > 0
            BY <3>1, <4>1, <4>2, <5>1 DEF LastStroke, AtHome
          <5>2. CASE ~(ReversePolarityDuration > 0)
            <6>1. ~reverseBraking
              BY <5>2
            <6> QED BY <4>2, <5>2, <6>1 DEF LastStroke
          <5> QED BY <5>1, <5>2
        <4>3. CASE StartStroke(dt) \/ NextStroke(dt) \/ Dwell(dt)
          <5>1. firing' /\ UNCHANGED <<flywheelState, reverseBraking>>
            BY <4>3 DEF StartStroke, NextStroke, AtHome, Dwell, MidStroke
          <5> QED BY <3>1, <4>1, <5>1
        <4>4. CASE Brake(dt)
          BY <3>1, <4>1, <4>4 DEF Brake, MidStroke, ResumeFromBraking, EndBraking,
                            KeepBraking
        <4>5. CASE Stall(dt) \/ KeepPushing(dt)
          BY <3>1, <4>1, <4>5 DEF Stall, KeepPushing, Pushing, MidStroke
        <4> QED BY <3>4, <4>2, <4>3, <4>4, <4>5 DEF ClosedLoopPusher
      <3> QED BY <2>4, <3>2, <3>3, <3>4 DEF FullSpeed, Fire
    <2> QED BY <2>1, <2>2, <2>3, <2>4 DEF dettlaffUpdate
  <1> QED BY <1>1, <1>2

\* The pusher is active only while the wheels are at full speed, for every
\* pusher: no path out of STATE_FULLSPEED leaves it on.
THEOREM PusherOnlyAtFullSpeed == Spec => []FiringOnlyAtFullSpeed
  <1>1. PusherInv => FiringOnlyAtFullSpeed
    BY DEF PusherInv
  <1> QED BY <1>1, TypeInit, TypeStep, PusherInit, PusherStep, PTL DEF Spec

\* What an update does to a solenoid: nothing at all outside full speed.
LEMMA SolenoidCases ==
  ASSUME TypeOK, PusherInv, NEW dt \in StepTimes, dettlaffUpdate(dt),
         PusherType = "SOLENOID_OPENLOOP"
  PROVE  \/ LowBatteryCutoff(dt) /\ ~firing /\ ~firing'
         \/ PusherAtRest(dt) /\ ~firing /\ ~firing'
         \/ ExtendSolenoid(dt) \/ RetractSolenoid(dt) \/ HoldSolenoid(dt)
  <1>1. CASE LowBatteryCutoff(dt)
    BY <1>1 DEF LowBatteryCutoff, PusherInv, FiringOnlyAtFullSpeed
  <1>2. CASE SpinWheels(dt)
    <2>1. ~firing
      BY <1>2 DEF SpinWheels, Idle, Accelerate, PusherInv, FiringOnlyAtFullSpeed
    <2> QED BY <1>2, <2>1 DEF SpinWheels, PusherAtRest
  <1>3. CASE FullSpeed(dt)
    <2>1. ~ClosedLoopPusher(dt)
      BY DEF ClosedLoopPusher
    <2>2. CASE ReturnToIdle(dt) \/ StayRevved(dt) \/ WaitForPusher(dt)
      BY <2>2 DEF ReturnToIdle, StayRevved, WaitForPusher, PusherAtRest
    <2>3. CASE Solenoid(dt)
      BY <2>3 DEF Solenoid
    <2> QED BY <1>3, <2>1, <2>2, <2>3 DEF FullSpeed, Fire
  <1> QED BY <1>1, <1>2, <1>3 DEF dettlaffUpdate

LEMMA HeldStep ==
  TypeOK /\ PusherInv /\ SolenoidNeverHeld /\ [Next]_vars => SolenoidNeverHeld'
  <1> SUFFICES ASSUME TypeOK, PusherInv, SolenoidNeverHeld, [Next]_vars,
                      PusherType = "SOLENOID_OPENLOOP", firing'
               PROVE  pusherAge' <= SolenoidExtendTime
    BY DEF SolenoidNeverHeld
  <1>1. CASE UNCHANGED vars
    BY <1>1 DEF vars, pusher, SolenoidNeverHeld
  <1>2. CASE Next
    <2>1. PICK dt \in StepTimes : dettlaffUpdate(dt)
      BY <1>2 DEF Next
    <2>2. SolenoidExtendTime \in Nat /\ PusherAge(dt) \in Nat
      BY AgesType, TimeAssumption
    <2>3. CASE ExtendSolenoid(dt)
      BY <2>2, <2>3 DEF ExtendSolenoid
    <2>4. CASE HoldSolenoid(dt)
      BY <2>2, <2>4 DEF HoldSolenoid
    <2>5. ~RetractSolenoid(dt)
      BY DEF RetractSolenoid
    <2> QED BY <2>1, <2>3, <2>4, <2>5, SolenoidCases
  <1> QED BY <1>1, <1>2

LEMMA HeldInit == Init => SolenoidNeverHeld
  BY DEF Init, SolenoidNeverHeld

\* The solenoid is energised for at most its extend time, whatever the
\* inputs and the battery do, at the grain of the updates.
THEOREM SolenoidReleased == Spec => []SolenoidNeverHeld
  BY TypeInit, TypeStep, PusherInit, PusherStep, HeldInit, HeldStep, PTL
  DEF Spec

LEMMA FollowsStep ==
  TypeOK /\ PusherInv /\ SolenoidFollowsFiring /\ [Next]_vars
    => SolenoidFollowsFiring'
  <1> SUFFICES ASSUME TypeOK, PusherInv, SolenoidFollowsFiring, [Next]_vars,
                      PusherType = "SOLENOID_OPENLOOP"
               PROVE  pusherCommand' = IF firing' THEN Forward ELSE Off
    BY DEF SolenoidFollowsFiring, Forward, Off
  <1>1. pusherCommand = IF firing THEN Forward ELSE Off
    BY DEF SolenoidFollowsFiring
  <1>2. CASE UNCHANGED vars
    BY <1>1, <1>2 DEF vars, pusher
  <1>3. CASE Next
    <2>1. PICK dt \in StepTimes : dettlaffUpdate(dt)
      BY <1>3 DEF Next
    <2>2. \A c : Command(c) => pusherCommand' = c
      BY DEF Command
    <2>3. CASE LowBatteryCutoff(dt) /\ ~firing /\ ~firing'
      BY <2>2, <2>3 DEF LowBatteryCutoff
    <2>4. CASE PusherAtRest(dt) /\ ~firing /\ ~firing'
      BY <1>1, <2>2, <2>4 DEF PusherAtRest, Hold
    <2>5. CASE ExtendSolenoid(dt) \/ RetractSolenoid(dt)
      BY <2>2, <2>5 DEF ExtendSolenoid, RetractSolenoid
    <2>6. CASE HoldSolenoid(dt)
      BY <1>1, <2>2, <2>6 DEF HoldSolenoid, Hold
    <2> QED BY <2>1, <2>3, <2>4, <2>5, <2>6, SolenoidCases
  <1> QED BY <1>2, <1>3

LEMMA FollowsInit == Init => SolenoidFollowsFiring
  BY DEF Init, SolenoidFollowsFiring

\* The solenoid's driver was last told to drive exactly while the state
\* machine believes the solenoid is out, in every configuration.
THEOREM SolenoidOutputFollows == Spec => []SolenoidFollowsFiring
  BY TypeInit, TypeStep, PusherInit, PusherStep, FollowsInit, FollowsStep, PTL
  DEF Spec

-----------------------------------------------------------------------------
(* A solenoid blaster implements the safety part of module Blaster. *)

\* With the trigger still, the trigger logic changes nothing that is owed.
LEMMA OnlyTriggerAdds ==
  ASSUME TypeOK, NEW dt \in StepTimes, ReadInputs(dt), trigger' = trigger
  PROVE  ShotsAfterTrigger(dt) = shotsToFire
  <1>1. ~Pressed /\ ~Released
    BY DEF Pressed, Released
  <1> QED BY <1>1 DEF ShotsAfterTrigger, Requests

\* The time delay cannot override a spin-up that has timed out: it needs
\* telemetry from every wheel, and then the timeout is not reached.
LEMMA DelayOrTimeout ==
  ASSUME NEW dt \in StepTimes
  PROVE  ~(SpinUpTimedOut(dt) /\ TimeDelayOver(dt))
  <1>1. \A i \in Motors : ~(MotorRPM(i) > MinTelemetryRPM)
    BY RpmAssumption DEF MotorRPM
  <1> QED BY <1>1 DEF SpinUpTimedOut, TimeDelayOver, ClosedLoopDue, AtFiringRPM

LEMMA PromiseInit == Init => Promise!Init
  BY DEF Init, Promise!Init

LEMMA PromiseStep ==
  ASSUME PusherType = "SOLENOID_OPENLOOP"
  PROVE  TypeOK /\ PusherInv /\ [Next]_vars => [Promise!Next]_(Promise!vars)
  <1> SUFFICES ASSUME TypeOK, PusherInv, [Next]_vars
               PROVE  [Promise!Next]_(Promise!vars)
    OBVIOUS
  <1>1. CASE UNCHANGED vars
    BY <1>1 DEF vars, inputs, wheels, pusher, Promise!vars
  <1>2. CASE Next
    <2>1. PICK dt \in StepTimes : dettlaffUpdate(dt)
      BY <1>2 DEF Next
    <2> DEFINE owed == ShotsAfterTrigger(dt)
    <2>2. ReadInputs(dt) /\ trigger' \in BOOLEAN
      BY <2>1 DEF dettlaffUpdate, ReadInputs
    <2>3. owed \in Nat /\ shotsToFire \in Nat
      BY <2>2, ShotsType DEF TypeOK
    <2>4. trigger' = trigger => owed = shotsToFire
      BY <2>2, OnlyTriggerAdds
    <2>5. shotsToFire' = owed => Promise!OwedByTrigger(0)
      BY <2>3, <2>4 DEF Promise!OwedByTrigger
    <2>6. CASE LowBatteryCutoff(dt)
      <3>1. Promise!Hold
        BY <2>5, <2>6 DEF LowBatteryCutoff, Promise!Hold
      <3> QED BY <2>2, <3>1 DEF Promise!Next
    <2>7. CASE SpinWheels(dt)
      <3>1. UNCHANGED firing
        BY <2>7 DEF SpinWheels, PusherAtRest
      <3>2. CASE Idle(dt) /\ StartSpinUp(dt)
        <4>1. Promise!SpinUp
          BY <2>5, <3>1, <3>2
          DEF Idle, StartSpinUp, Promise!SpinUp, Promise!MayTurn
        <4> QED BY <2>2, <4>1 DEF Promise!Next
      <3>3. CASE Idle(dt) /\ (KeepIdling(dt) \/ ShutDownWheels(dt))
        <4>1. Promise!Hold
          BY <2>5, <3>1, <3>3 DEF Idle, KeepIdling, ShutDownWheels, Promise!Hold
        <4> QED BY <2>2, <4>1 DEF Promise!Next
      <3>4. CASE Accelerate(dt) /\ ReachFullSpeed(dt)
        <4>1. shotsToFire' = owed
          <5>1. CASE TimeDelayOver(dt)
            BY <3>4, <5>1, DelayOrTimeout DEF ReachFullSpeed
          <5>2. CASE ~TimeDelayOver(dt)
            BY <3>4, <5>2 DEF ReachFullSpeed, SpinUpTimedOut
          <5> QED BY <5>1, <5>2
        <4>2. Promise!GetReady
          BY <2>5, <3>1, <3>4, <4>1
          DEF Accelerate, ReachFullSpeed, Promise!GetReady, Promise!MayTurn
        <4> QED BY <2>2, <4>2 DEF Promise!Next
      <3>5. CASE Accelerate(dt) /\ GiveUpSpinUp(dt)
        <4>1. Promise!GiveUp
          BY <3>1, <3>5
          DEF Accelerate, GiveUpSpinUp, Promise!GiveUp, Promise!MayTurn
        <4> QED BY <2>2, <4>1 DEF Promise!Next
      <3>6. CASE Accelerate(dt) /\ KeepAccelerating(dt)
        <4>1. Promise!Hold
          BY <2>5, <3>1, <3>6 DEF Accelerate, KeepAccelerating, Promise!Hold
        <4> QED BY <2>2, <4>1 DEF Promise!Next
      <3> QED BY <2>7, <3>2, <3>3, <3>4, <3>5, <3>6
          DEF SpinWheels, Idle, Accelerate
    <2>8. CASE FullSpeed(dt)
      <3>1. flywheelState = "FULLSPEED"
        BY <2>8 DEF FullSpeed
      <3>2. CASE ReturnToIdle(dt)
        <4>1. shotsToFire' = owed /\ shotsToFire' = 0
          BY <3>2 DEF ReturnToIdle
        <4>2. Promise!LetGo
          BY <2>5, <3>1, <3>2, <4>1
          DEF ReturnToIdle, PusherAtRest, Promise!LetGo, Promise!MayTurn
        <4> QED BY <2>2, <4>2 DEF Promise!Next
      <3>3. CASE StayRevved(dt) \/ WaitForPusher(dt)
        <4>1. shotsToFire' = owed
          BY <3>3 DEF StayRevved, WaitForPusher
        <4>2. Promise!Hold
          BY <2>5, <3>3, <4>1
          DEF StayRevved, WaitForPusher, PusherAtRest, Promise!Hold
        <4> QED BY <2>2, <4>2 DEF Promise!Next
      <3>4. CASE Solenoid(dt) /\ ExtendSolenoid(dt)
        <4>1. owed > 0 /\ shotsToFire' = owed - 1
          BY <3>4 DEF ExtendSolenoid
        <4>2. Promise!OwedByTrigger(1)
          BY <2>3, <2>4, <4>1 DEF Promise!OwedByTrigger
        <4>3. Promise!Push
          BY <3>1, <3>4, <4>2 DEF Solenoid, ExtendSolenoid, Promise!Push
        <4> QED BY <2>2, <4>3 DEF Promise!Next
      <3>5. CASE Solenoid(dt) /\ RetractSolenoid(dt)
        <4>1. Promise!Retract
          BY <2>5, <3>5 DEF Solenoid, RetractSolenoid, Promise!Retract
        <4> QED BY <2>2, <4>1 DEF Promise!Next
      <3>6. CASE Solenoid(dt) /\ HoldSolenoid(dt)
        <4>1. Promise!Hold
          BY <2>5, <3>6 DEF Solenoid, HoldSolenoid, Promise!Hold
        <4> QED BY <2>2, <4>1 DEF Promise!Next
      <3>7. ~ClosedLoopPusher(dt)
        BY DEF ClosedLoopPusher
      <3> QED BY <2>8, <3>2, <3>3, <3>4, <3>5, <3>6, <3>7
          DEF FullSpeed, Fire, Solenoid
    <2> QED BY <2>1, <2>6, <2>7, <2>8 DEF dettlaffUpdate
  <1> QED BY <1>1, <1>2

\* Every behaviour of a solenoid blaster, in every configuration, is one the
\* safety part of module Blaster allows: darts are owed only because the
\* trigger moved, each push pays for exactly one, and only ready wheels are
\* pushed into.
THEOREM SolenoidKeepsPromise ==
  ASSUME PusherType = "SOLENOID_OPENLOOP"
  PROVE  Spec => KeepsSafePromise
  BY TypeInit, TypeStep, PusherInit, PusherStep, PromiseInit, PromiseStep, PTL
  DEF Spec, KeepsSafePromise, Promise!SafeSpec
=============================================================================
