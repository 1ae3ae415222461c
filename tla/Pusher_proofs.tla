----------------------------- MODULE Pusher_proofs -----------------------------
(***************************************************************************)
(* Proofs about the pusher of Dettlaff and about what it pushes through:   *)
(* bounds on the pusher motor's drive and braking, powered wheels, the     *)
(* release of the trigger, and the short firing delay.  Where a theorem    *)
(* holds only in some configurations it says in which: the hypotheses are  *)
(* the weakest found under which the code keeps the property.              *)
(***************************************************************************)
EXTENDS Dettlaff_proofs

-----------------------------------------------------------------------------
(* Lemmas about an update. *)

\* One command is given to the pusher, or none.
LEMMA OneCommand == \A c : Command(c) => pusherCommand' = c
  BY DEF Command

\* The trigger logic never takes the last shot off: it only adds bursts or
\* cuts what is owed to one.
LEMMA TriggerKeepsOwing ==
  ASSUME TypeOK, NEW dt \in StepTimes, ReadInputs(dt), shotsToFire > 0
  PROVE  ShotsAfterTrigger(dt) > 0
  <1>1. BurstLength[firingMode'] \in Nat \ {0}
    BY InputsType, ConfigAssumption
  <1>2. shotsToFire \in Nat
    BY DEF TypeOK
  <1> QED BY <1>1, <1>2 DEF ShotsAfterTrigger

\* What an update does to a pusher motor: nothing at all outside full speed,
\* where each branch of the code is one of these.
LEMMA PusherMotorCases ==
  ASSUME TypeOK, PusherInv, NEW dt \in StepTimes, dettlaffUpdate(dt),
         PusherType = "MOTOR_CLOSEDLOOP"
  PROVE  \/ LowBatteryCutoff(dt) /\ ~firing /\ ~firing'
         \/ PusherAtRest(dt) /\ ~firing /\ ~firing'
         \/ StartStroke(dt) \/ LastStroke(dt) \/ NextStroke(dt)
         \/ Dwell(dt) \/ Brake(dt) \/ Stall(dt) \/ KeepPushing(dt)
  <1>1. CASE LowBatteryCutoff(dt)
    BY <1>1 DEF LowBatteryCutoff, PusherInv, FiringOnlyAtFullSpeed
  <1>2. CASE SpinWheels(dt)
    <2>1. ~firing
      BY <1>2 DEF SpinWheels, Idle, Accelerate, PusherInv, FiringOnlyAtFullSpeed
    <2> QED BY <1>2, <2>1 DEF SpinWheels, PusherAtRest
  <1>3. CASE FullSpeed(dt)
    <2>1. ~Solenoid(dt)
      BY DEF Solenoid
    <2>2. CASE ReturnToIdle(dt) \/ StayRevved(dt) \/ WaitForPusher(dt)
      BY <2>2 DEF ReturnToIdle, StayRevved, WaitForPusher, PusherAtRest
    <2>3. CASE ClosedLoopPusher(dt)
      BY <2>3 DEF ClosedLoopPusher
    <2> QED BY <1>3, <2>1, <2>2, <2>3 DEF FullSpeed, Fire
  <1> QED BY <1>1, <1>2, <1>3 DEF dettlaffUpdate

\* Every update reads the inputs and is one of three kinds.
LEMMA UpdateReads ==
  ASSUME NEW dt \in StepTimes, dettlaffUpdate(dt) PROVE ReadInputs(dt)
  BY DEF dettlaffUpdate

-----------------------------------------------------------------------------
(* The pusher motor: how its output, its flags and its timer hang together *)

\* A pusher that is not active is not driven; a dwell takes no longer than
\* configured; and without a dwell, braking means that the motor is reversed.
PusherMotorInv ==
  PusherType = "MOTOR_CLOSEDLOOP" =>
    /\ ~firing => pusherCommand = Off
    /\ pusherDwelling => DwellTime > 0
    /\ firing /\ pusherDwelling => pusherAge <= DwellTime
    /\ DwellTime = 0 /\ reverseBraking => pusherCommand = Reverse

LEMMA PusherMotorInit == Init => PusherMotorInv
  BY DEF Init, PusherMotorInv, Off

LEMMA PusherMotorStep ==
  TypeOK /\ PusherInv /\ PusherMotorInv /\ [Next]_vars => PusherMotorInv'
  <1> SUFFICES ASSUME TypeOK, PusherInv, PusherMotorInv, [Next]_vars,
                      PusherType = "MOTOR_CLOSEDLOOP"
               PROVE  /\ ~firing' => pusherCommand' = Off
                      /\ pusherDwelling' => DwellTime > 0
                      /\ firing' /\ pusherDwelling' => pusherAge' <= DwellTime
                      /\ DwellTime = 0 /\ reverseBraking' =>
                           pusherCommand' = Reverse
    BY DEF PusherMotorInv, Off, Reverse
  <1>1. CASE UNCHANGED vars
    BY <1>1 DEF vars, pusher, PusherMotorInv
  <1>2. CASE Next
    <2>1. PICK dt \in StepTimes : dettlaffUpdate(dt)
      BY <1>2 DEF Next
    <2>2. /\ ~firing => pusherCommand = Off
          /\ pusherDwelling => DwellTime > 0
          /\ firing /\ pusherDwelling => pusherAge <= DwellTime
          /\ DwellTime = 0 /\ reverseBraking => pusherCommand = Reverse
          /\ reverseBraking => firing
      BY DEF PusherMotorInv, PusherInv, FiringOnlyAtFullSpeed
    <2>3. PusherAge(dt) \in Nat /\ DwellTime \in Nat /\ ReversePolarityDuration \in Nat
      BY AgesType, TimeAssumption
    <2>4. \A c : Command(c) => pusherCommand' = c
      BY OneCommand
    <2>5. CASE LowBatteryCutoff(dt) /\ ~firing /\ ~firing'
      <3>1. pusherCommand' = Off
        BY <2>4, <2>5 DEF LowBatteryCutoff
      <3>2. UNCHANGED <<reverseBraking, pusherDwelling>>
        BY <2>5 DEF LowBatteryCutoff
      <3> QED BY <2>2, <2>5, <3>1, <3>2
    <2>6. CASE PusherAtRest(dt) /\ ~firing /\ ~firing'
      BY <2>2, <2>4, <2>6 DEF PusherAtRest, Hold
    <2>7. CASE StartStroke(dt)
      <3>1. firing' /\ pusherAge' = 0 /\ ~firing /\ UNCHANGED <<reverseBraking, pusherDwelling>>
        BY <2>7 DEF StartStroke
      <3> QED BY <2>2, <2>3, <3>1
    <2>8. CASE LastStroke(dt)
      <3>1. firing /\ pusherAge' = 0 /\ UNCHANGED pusherDwelling
        BY <2>8 DEF LastStroke, AtHome
      <3>2. CASE ReversePolarityDuration > 0
        BY <2>2, <2>3, <2>4, <2>8, <3>1, <3>2 DEF LastStroke
      <3>3. CASE ~(ReversePolarityDuration > 0)
        <4>1. ~reverseBraking /\ ~reverseBraking' /\ ~firing' /\ pusherCommand' = Off
          BY <2>4, <2>8, <3>3 DEF LastStroke, PusherInv
        <4> QED BY <2>2, <3>1, <4>1
      <3> QED BY <3>2, <3>3
    <2>9. CASE NextStroke(dt)
      <3>1. /\ firing /\ firing' /\ pusherAge' = 0 /\ UNCHANGED reverseBraking
            /\ pusherDwelling' => pusherDwelling \/ DwellTime > 0
        BY <2>9 DEF NextStroke, AtHome
      <3>2. DwellTime = 0 => pusherCommand' = pusherCommand
        BY <2>4, <2>9 DEF NextStroke, Hold
      <3> QED BY <2>2, <2>3, <3>1, <3>2
    <2>10. CASE Dwell(dt)
      <3>1. /\ firing' /\ pusherDwelling /\ pusherAge' = PusherAge(dt)
            /\ pusherDwelling' => ~(PusherAge(dt) > DwellTime)
        BY <2>10 DEF Dwell, MidStroke
      <3>2. DwellTime # 0
        BY <2>2, <3>1
      <3>3. pusherDwelling' => pusherAge' <= DwellTime
        BY <2>3, <3>1
      <3> QED BY <2>2, <3>1, <3>2, <3>3
    <2>11. CASE Brake(dt)
      <3>1. firing /\ ~pusherDwelling /\ ~pusherDwelling' /\ reverseBraking
        BY <2>11 DEF Brake, MidStroke
      <3>2. CASE ResumeFromBraking(dt)
        BY <3>1, <3>2 DEF ResumeFromBraking
      <3>3. CASE EndBraking(dt)
        BY <2>4, <3>1, <3>3 DEF EndBraking
      <3>4. CASE KeepBraking(dt)
        BY <2>2, <2>4, <3>1, <3>4 DEF KeepBraking, Hold
      <3> QED BY <2>11, <3>2, <3>3, <3>4 DEF Brake
    <2>12. CASE Stall(dt)
      BY <2>2, <2>4, <2>12 DEF Stall, Pushing
    <2>13. CASE KeepPushing(dt)
      BY <2>2, <2>13 DEF KeepPushing, Pushing, MidStroke
    <2> QED BY <2>1, <2>5, <2>6, <2>7, <2>8, <2>9, <2>10, <2>11, <2>12, <2>13,
               PusherMotorCases
  <1> QED BY <1>1, <1>2

-----------------------------------------------------------------------------
(* The drive is bounded by the stall time. *)

\* A stall is recognised in time after a dwell, and braking that a dwell has
\* turned into driving does not last longer than a stalled stroke would.
DwellFitsStall ==
  \/ DwellTime = 0
  \/ /\ ReversePolarityDuration <= StallTime
     /\ \A dt \in StepTimes : DwellTime + dt <= StallTime

LEMMA StrokeInit == Init => StrokeBounded
  BY DEF Init, StrokeBounded, Forward, Off

LEMMA StrokeStep ==
  ASSUME DwellFitsStall
  PROVE  TypeOK /\ PusherInv /\ PusherMotorInv /\ StrokeBounded /\ [Next]_vars
           => StrokeBounded'
  <1> SUFFICES ASSUME TypeOK, PusherInv, PusherMotorInv, StrokeBounded, [Next]_vars,
                      PusherType = "MOTOR_CLOSEDLOOP",
                      pusherCommand' = Forward
               PROVE  pusherAge' <= StallTime
    BY DEF StrokeBounded, Forward
  <1>1. CASE UNCHANGED vars
    BY <1>1 DEF vars, pusher, StrokeBounded
  <1>2. CASE Next
    <2>1. PICK dt \in StepTimes : dettlaffUpdate(dt)
      BY <1>2 DEF Next
    <2>2. /\ ~firing => pusherCommand = Off
          /\ pusherDwelling => DwellTime > 0
          /\ firing /\ pusherDwelling => pusherAge <= DwellTime
          /\ DwellTime = 0 /\ reverseBraking => pusherCommand = Reverse
      BY DEF PusherMotorInv
    <2>3. /\ PusherAge(dt) \in Nat /\ DwellTime \in Nat /\ StallTime \in Nat
          /\ ReversePolarityDuration \in Nat /\ pusherAge \in Nat /\ dt \in Nat
      BY AgesType, TimeAssumption DEF TypeOK
    <2>4. \A c : Command(c) => pusherCommand' = c
      BY OneCommand
    <2>5. Off # Forward /\ Reverse # Forward
      BY DEF Off, Forward, Reverse
    <2>6. ~(LowBatteryCutoff(dt) /\ ~firing /\ ~firing')
      <3>1. LowBatteryCutoff(dt) => pusherCommand' = Off
        BY <2>4 DEF LowBatteryCutoff
      <3> QED BY <2>5, <3>1
    <2>7. ~(PusherAtRest(dt) /\ ~firing /\ ~firing')
      BY <2>2, <2>4, <2>5 DEF PusherAtRest, Hold
    <2>8. CASE StartStroke(dt) \/ LastStroke(dt) \/ NextStroke(dt)
      BY <2>3, <2>8 DEF StartStroke, LastStroke, NextStroke
    <2>9. CASE Dwell(dt)
      <3>1. pusherDwelling /\ firing /\ pusherAge' = PusherAge(dt)
        BY <2>9 DEF Dwell, MidStroke
      <3>2. DwellTime + dt <= StallTime /\ pusherAge <= DwellTime
        BY <2>2, <2>3, <3>1 DEF DwellFitsStall
      <3>3. PusherAge(dt) <= pusherAge + dt
        <4>1. pusherAge + dt \in Int /\ PusherHorizon \in Int
          BY <2>3, TimeAssumption
        <4> QED BY <4>1, MinMax DEF PusherAge
      <3> QED BY <2>3, <3>1, <3>2, <3>3
    <2>10. CASE Brake(dt)
      <3>1. reverseBraking
        BY <2>10 DEF Brake
      <3>2. CASE ResumeFromBraking(dt)
        BY <2>3, <3>2 DEF ResumeFromBraking
      <3>3. ~EndBraking(dt)
        BY <2>4, <2>5 DEF EndBraking
      <3>4. CASE KeepBraking(dt)
        <4>1. pusherCommand = Forward
          BY <2>4, <3>4 DEF KeepBraking, Hold
        <4>2. DwellTime # 0
          BY <2>2, <2>5, <3>1, <4>1
        <4>3. ReversePolarityDuration <= StallTime
          BY <4>2 DEF DwellFitsStall
        <4> QED BY <2>3, <3>4, <4>3 DEF KeepBraking
      <3> QED BY <2>10, <3>2, <3>3, <3>4 DEF Brake
    <2>11. ~Stall(dt)
      BY <2>4, <2>5 DEF Stall
    <2>12. CASE KeepPushing(dt)
      BY <2>3, <2>12 DEF KeepPushing
    <2> QED BY <2>1, <2>6, <2>7, <2>8, <2>9, <2>10, <2>11, <2>12, PusherMotorCases
  <1> QED BY <1>1, <1>2

\* The pusher motor is never driven forward for longer than the stall time
\* without its home switch answering, at the grain of the updates.
THEOREM StrokesAreBounded ==
  ASSUME DwellFitsStall
  PROVE  Spec => []StrokeBounded
  BY TypeInit, TypeStep, PusherInit, PusherStep, PusherMotorInit,
     PusherMotorStep, StrokeInit, StrokeStep, PTL DEF Spec

-----------------------------------------------------------------------------
(* The drive is for a shot. *)

LEMMA DrivenInit == Init => DrivenOnlyForShots
  BY DEF Init, DrivenOnlyForShots, Forward, Off

LEMMA DrivenStep ==
  ASSUME DwellTime = 0
  PROVE  TypeOK /\ PusherInv /\ PusherMotorInv /\ DrivenOnlyForShots /\ [Next]_vars
           => DrivenOnlyForShots'
  <1> SUFFICES ASSUME TypeOK, PusherInv, PusherMotorInv, DrivenOnlyForShots, [Next]_vars,
                      PusherType = "MOTOR_CLOSEDLOOP",
                      pusherCommand' = Forward
               PROVE  firing' /\ shotsToFire' > 0
    BY DEF DrivenOnlyForShots, Forward
  <1>1. CASE UNCHANGED vars
    BY <1>1 DEF vars, pusher, DrivenOnlyForShots
  <1>2. CASE Next
    <2>1. PICK dt \in StepTimes : dettlaffUpdate(dt)
      BY <1>2 DEF Next
    <2>2. /\ ~firing => pusherCommand = Off
          /\ ~pusherDwelling
          /\ reverseBraking => pusherCommand = Reverse
      BY DEF PusherMotorInv
    <2>3. pusherCommand = Forward => ShotsAfterTrigger(dt) > 0
      BY <2>1, UpdateReads, TriggerKeepsOwing DEF DrivenOnlyForShots
    <2>4. \A c : Command(c) => pusherCommand' = c
      BY OneCommand
    <2>5. Off # Forward /\ Reverse # Forward
      BY DEF Off, Forward, Reverse
    <2>6. ~(LowBatteryCutoff(dt) /\ ~firing /\ ~firing')
      <3>1. LowBatteryCutoff(dt) => pusherCommand' = Off
        BY <2>4 DEF LowBatteryCutoff
      <3> QED BY <2>5, <3>1
    <2>7. ~(PusherAtRest(dt) /\ ~firing /\ ~firing')
      BY <2>2, <2>4, <2>5 DEF PusherAtRest, Hold
    <2>8. CASE StartStroke(dt)
      BY <2>8 DEF StartStroke
    <2>9. ~LastStroke(dt)
      BY <2>4, <2>5 DEF LastStroke
    <2>10. CASE NextStroke(dt)
      BY <2>10 DEF NextStroke, AtHome
    <2>11. ~Dwell(dt)
      BY <2>2 DEF Dwell
    <2>12. CASE Brake(dt)
      <3>1. ~EndBraking(dt)
        BY <2>4, <2>5 DEF EndBraking
      <3>2. ~KeepBraking(dt)
        BY <2>2, <2>4, <2>5, <2>12 DEF Brake, KeepBraking, Hold
      <3>3. shotsToFire' >= 1 /\ firing'
        BY <2>12, <3>1, <3>2 DEF Brake, ResumeFromBraking, MidStroke
      <3>4. shotsToFire' \in Nat
        BY <1>2, TypeStep DEF TypeOK
      <3> QED BY <3>3, <3>4
    <2>13. ~Stall(dt)
      BY <2>4, <2>5 DEF Stall
    <2>14. CASE KeepPushing(dt)
      BY <2>3, <2>4, <2>14 DEF KeepPushing, Pushing, MidStroke, Hold
    <2> QED BY <2>1, <2>6, <2>7, <2>8, <2>9, <2>10, <2>11, <2>12, <2>13, <2>14,
               PusherMotorCases
  <1> QED BY <1>1, <1>2

\* Without a dwell the pusher motor is driven forward only for a shot that is
\* still owed, whatever the trigger and the home switch do.
THEOREM DrivenForShots ==
  ASSUME DwellTime = 0
  PROVE  Spec => []DrivenOnlyForShots
  BY TypeInit, TypeStep, PusherInit, PusherStep, PusherMotorInit,
     PusherMotorStep, DrivenInit, DrivenStep, PTL DEF Spec

-----------------------------------------------------------------------------
(* The reversal is bounded. *)

\* What a dwell left over from an earlier stroke adds to a reversal is no
\* longer than the reversal itself may be.
DwellFitsBraking ==
  ReversePolarityDuration = 0 \/ DwellTime <= ReversePolarityDuration

\* The pusher's timer, which ends the reversal, has run for at least as long as
\* the home switch has been open.
ReversalInv ==
  pusherCommand = Reverse =>
    reverseBraking /\ pusherAge <= ReversePolarityDuration /\ sinceHome <= pusherAge

LEMMA ReverseInit == Init => ReversalInv
  BY DEF Init, ReversalInv, Reverse, Off

\* A reversal that is held ages at least as fast as the home switch.
LEMMA ReversalAges ==
  ASSUME TypeOK, NEW dt \in StepTimes, ReadInputs(dt), sinceHome <= pusherAge
  PROVE  sinceHome' <= PusherAge(dt)
  <1>1. /\ sinceHome \in Nat /\ pusherAge \in Nat /\ dt \in Nat
        /\ PusherHorizon \in Nat /\ ReversePolarityDuration \in Nat
        /\ ReversePolarityDuration < PusherHorizon
    BY TimeAssumption DEF TypeOK
  <1>2. \/ sinceHome' = 0
        \/ sinceHome' = Min2(sinceHome + dt, ReversePolarityDuration + 1)
    BY DEF ReadInputs
  <1> QED BY <1>1, <1>2 DEF PusherAge, Min2

LEMMA ReverseStep ==
  ASSUME DwellFitsBraking
  PROVE  TypeOK /\ PusherInv /\ ReversalInv /\ [Next]_vars => ReversalInv'
  <1> SUFFICES ASSUME TypeOK, PusherInv, ReversalInv, [Next]_vars,
                      pusherCommand' = Reverse
               PROVE  /\ reverseBraking' /\ pusherAge' <= ReversePolarityDuration
                      /\ sinceHome' <= pusherAge'
    BY DEF ReversalInv, Reverse
  <1>1. CASE UNCHANGED vars
    BY <1>1 DEF vars, pusher, ReversalInv
  <1>2. CASE Next
    <2>1. PICK dt \in StepTimes : dettlaffUpdate(dt)
      BY <1>2 DEF Next
    <2>2. \A c : Command(c) => c = Reverse
      BY DEF Command
    <2>3. Off # Reverse /\ Forward # Reverse
      BY DEF Off, Forward, Reverse
    <2>4. Command(Hold) => /\ reverseBraking /\ firing
                           /\ sinceHome' <= PusherAge(dt)
                           /\ PusherType = "MOTOR_CLOSEDLOOP"
                           /\ ReversePolarityDuration > 0
      BY <2>1, <2>2, UpdateReads, ReversalAges
      DEF Hold, ReversalInv, PusherInv, FiringOnlyAtFullSpeed
    <2>5. /\ PusherAge(dt) \in Nat /\ DwellTime \in Nat /\ ReversePolarityDuration \in Nat
      BY AgesType, TimeAssumption
    <2>6. ~LowBatteryCutoff(dt)
      BY <2>2, <2>3 DEF LowBatteryCutoff
    <2>7. ~(PusherAtRest(dt) /\ ~firing)
      BY <2>4 DEF PusherAtRest
    <2>8. AtHome => sinceHome' = 0
      BY <2>1, UpdateReads DEF AtHome, ReadInputs
    <2>9. CASE SpinWheels(dt)
      BY <2>7, <2>9 DEF SpinWheels, Idle, Accelerate, PusherInv, FiringOnlyAtFullSpeed
    <2>10. CASE FullSpeed(dt)
      <3>1. ~(ReturnToIdle(dt) \/ StayRevved(dt) \/ WaitForPusher(dt))
        BY <2>7 DEF ReturnToIdle, StayRevved, WaitForPusher
      <3>2. ~Solenoid(dt)
        BY <2>2, <2>3, <2>4
        DEF Solenoid, ExtendSolenoid, RetractSolenoid, HoldSolenoid
      <3>3. CASE LastStroke(dt)
        BY <2>2, <2>3, <2>5, <2>8, <3>3 DEF LastStroke
      <3>4. CASE NextStroke(dt)
        BY <2>2, <2>3, <2>4, <2>5, <2>8, <3>4 DEF NextStroke
      <3>5. CASE Dwell(dt)
        <4>1. pusherDwelling' /\ Command(Hold) /\ UNCHANGED reverseBraking
              /\ pusherAge' = PusherAge(dt) /\ ~(PusherAge(dt) > DwellTime)
          BY <2>2, <2>3, <3>5 DEF Dwell
        <4> QED BY <2>4, <2>5, <4>1 DEF DwellFitsBraking
      <3>6. CASE Brake(dt)
        <4>1. KeepBraking(dt)
          BY <2>2, <2>3, <3>6 DEF Brake, ResumeFromBraking, EndBraking
        <4> QED BY <2>4, <2>5, <4>1 DEF KeepBraking
      <3>7. ~StartStroke(dt) /\ ~Stall(dt)
        BY <2>2, <2>3 DEF StartStroke, Stall
      <3>8. ~KeepPushing(dt)
        BY <2>4 DEF KeepPushing, Pushing
      <3> QED BY <2>10, <3>1, <3>2, <3>3, <3>4, <3>5, <3>6, <3>7, <3>8
          DEF FullSpeed, Fire, ClosedLoopPusher
    <2> QED BY <2>1, <2>6, <2>9, <2>10 DEF dettlaffUpdate
  <1> QED BY <1>1, <1>2

\* The polarity is reversed only while braking, and the update that finds the
\* home switch open for longer than configured has ended the reversal.  How
\* long the reversal lasts in all depends on how often the switch closes.
THEOREM ReversalsAreBounded ==
  ASSUME DwellFitsBraking
  PROVE  Spec => []ReversePolarityBounded
  <1>1. TypeOK /\ ReversalInv => ReversePolarityBounded
    BY TimeAssumption DEF TypeOK, ReversalInv, ReversePolarityBounded
  <1> QED BY <1>1, TypeInit, TypeStep, PusherInit, PusherStep, ReverseInit, ReverseStep,
             PTL DEF Spec

-----------------------------------------------------------------------------
(* The wheels a dart is pushed through. *)

\* At full speed the throttle of a wheel is not 0: its quotients do not come
\* out at 0, or the two-level control holds it open.  A PID loop may always
\* ask for 0.
PoweredAtFullSpeed ==
  /\ FlywheelControl # "PID"
  /\ \A m \in Modes, i \in Motors, b \in Batteries :
       \/ ((RevRPM[m][i] \div (IF b = 0 THEN DefaultVoltage ELSE b)) * 1000)
            \div MotorKv >= 1
       \/ FlywheelControl = "TWO_LEVEL" /\ RevRPM[m][i] > FullThrottleTolerance

\* An update at full speed leaves every wheel powered.
LEMMA FullSpeedPowers ==
  ASSUME PoweredAtFullSpeed, TypeOK, FullCommandWhileActive,
         NEW dt \in StepTimes, ReadInputs(dt), FullSpeed(dt), NEW i \in Motors
  PROVE  throttleValue'[i] > 0
  <1> DEFINE rpm  == RevRPM[fpsMode][i]
             volt == IF battery' = 0 THEN DefaultVoltage ELSE battery'
             full == ((rpm \div volt) * 1000) \div MotorKv
  <1>1. battery' \in Batteries /\ fpsMode \in Modes /\ i \in Channels
    BY InputsType, ConfigAssumption DEF TypeOK
  <1>2. rpm \in Nat /\ volt \in Nat \ {0}
    BY <1>1, RpmAssumption
  <1>3. full \in Int
    <2>1. rpm \div volt \in Int
      BY <1>2, DivisionType
    <2>2. (rpm \div volt) * 1000 \in Int
      BY <2>1
    <2> QED BY <2>2, DivisionType, RpmAssumption
  <1>4. targetRPM'[i] = revRPM[i] /\ revRPM[i] = rpm
    BY <1>1 DEF FullSpeed, FullCommandWhileActive, revRPM
  <1>5. ThrottleFor(rpm) = Max2(Min2(1, full), 0)
    BY DEF ThrottleFor, Voltage
  <1>6. full >= 1 \/ (FlywheelControl = "TWO_LEVEL" /\ rpm > FullThrottleTolerance)
    BY <1>1 DEF PoweredAtFullSpeed
  <1> HIDE DEF full, volt, rpm
  <1>7. full >= 1 => ThrottleFor(rpm) = 1
    BY <1>3, <1>5 DEF Max2, Min2
  <1>8. MotorRPM(i) < rpm - FullThrottleTolerance <=> rpm > FullThrottleTolerance
    BY <1>2, RpmAssumption DEF MotorRPM
  <1>9. CASE FlywheelControl = "OPEN_LOOP"
    <2>1. ThrottleFor(rpm) = 1
      BY <1>6, <1>7, <1>9
    <2>2. throttleValue'[i] = ThrottleFor(targetRPM'[i])
      BY <1>1, <1>9 DEF FullSpeed, MotorControl, NewThrottles
    <2> QED BY <1>4, <2>1, <2>2
  <1>10. CASE FlywheelControl = "TWO_LEVEL"
    <2>1. TwoLevelThrottle(i) = 1
      BY <1>4, <1>6, <1>7, <1>8 DEF TwoLevelThrottle
    <2>2. throttleValue'[i] = TwoLevelThrottle(i)
      BY <1>1, <1>10 DEF FullSpeed, MotorControl, NewThrottles
    <2> QED BY <2>1, <2>2
  <1> QED BY <1>9, <1>10, ConfigAssumption DEF PoweredAtFullSpeed

LEMMA PoweredInit == Init => FiresOnlyThroughPoweredWheels
  BY DEF Init, FiresOnlyThroughPoweredWheels

LEMMA PoweredStep ==
  ASSUME PoweredAtFullSpeed
  PROVE  TypeOK /\ PusherInv /\ FullCommandWhileActive
           /\ FiresOnlyThroughPoweredWheels /\ [Next]_vars
           => FiresOnlyThroughPoweredWheels'
  <1> SUFFICES ASSUME TypeOK, PusherInv, FullCommandWhileActive,
                      FiresOnlyThroughPoweredWheels, [Next]_vars,
                      firing', NEW i \in Motors
               PROVE  throttleValue'[i] > 0
    BY DEF FiresOnlyThroughPoweredWheels
  <1>1. CASE UNCHANGED vars
    BY <1>1 DEF vars, pusher, FiresOnlyThroughPoweredWheels
  <1>2. CASE Next
    <2>1. PICK dt \in StepTimes : dettlaffUpdate(dt)
      BY <1>2 DEF Next
    <2>2. ~LowBatteryCutoff(dt) /\ ~SpinWheels(dt)
      BY DEF LowBatteryCutoff, SpinWheels, Idle, Accelerate, PusherAtRest,
             PusherInv, FiringOnlyAtFullSpeed
    <2> QED BY <2>1, <2>2, UpdateReads, FullSpeedPowers DEF dettlaffUpdate
  <1> QED BY <1>1, <1>2

\* A dart is only pushed while every flywheel is powered, in every
\* configuration whose full speed opens the throttle at all.
THEOREM PushesThroughPoweredWheels ==
  ASSUME PoweredAtFullSpeed
  PROVE  Spec => []FiresOnlyThroughPoweredWheels
  BY TypeInit, TypeStep, PusherInit, PusherStep, WheelsInit, WheelsStep,
     PoweredInit, PoweredStep, PTL DEF Spec
=============================================================================
