------------------------------- MODULE Failsafe -------------------------------
(***************************************************************************)
(* Loss of the radio link and arming: flight/failsafe.c, with the parts of *)
(* rx/rx.c, fc/rc_controls.c and fc/core.c it works with.  Two actors share *)
(* the state: the gyro pass of the scheduler, which looks for frames and   *)
(* runs the failsafe every PERIOD_RXDATA_FAILURE, and the RX task, whose   *)
(* three parts run one at a time with gyro passes in between.              *)
(*                                                                         *)
(* A tick is PERIOD_RXDATA_FAILURE or more.  Moments are kept relative to  *)
(* now: those in the past as ages, those in the future as what is left, -1 *)
(* once over.  Arming is by switch; the switch for it and the failsafe     *)
(* switch are the aux channels modelled.                                   *)
(***************************************************************************)
EXTENDS Integers

CONSTANTS
  FailurePeriod, RecoveryPeriod,    \* rxDataFailurePeriod, rxDataRecoveryPeriod
  ThrottleLowDelay, LandingTime,
  SignalTimeout, SignalRecheck,     \* RXLOSS_TRIGGER_INTERVAL and the recheck
  DisarmTicks,                      \* 3 in the code
  Configs,                          \* failsafe_procedure, failsafe_switch_mode
  ArmFailValue                      \* {} holds the arm channel, {v} sets it to v

Procedures  == {"AUTO_LANDING", "DROP_IT", "GPS_RESCUE"}
SwitchModes == {"STAGE1", "KILL", "STAGE2"}
Phases == {"IDLE", "RX_LOSS_DETECTED", "LANDING", "LANDED", "RX_LOSS_MONITORING",
           "RX_LOSS_RECOVERED", "GPS_RESCUE"}

ASSUME FailsafeAssumption ==
  /\ {FailurePeriod, RecoveryPeriod} \subseteq Nat \ {0}
  /\ {ThrottleLowDelay, LandingTime, SignalTimeout, SignalRecheck,
      DisarmTicks} \subseteq Nat
  /\ SignalRecheck <= SignalTimeout
  /\ Configs \subseteq [procedure : Procedures, switchMode : SwitchModes]
  /\ ArmFailValue \in {{}, {TRUE}, {FALSE}}

VARIABLES
  config,                \* one of Configs
  failsafeState, armed,
  disabled,              \* armingDisableFlags
  needSignalIn,          \* needRxSignalBefore
  rxSignalReceived, rxDataProcessingRequired, rxFlightChannelsValid,
  rxState,               \* the part of the RX task that is next
  stall,                 \* history: ticks since the last part of an RX update under way
  rcRaw, rcData, modes,  \* the two switches: as received, accepted, acted on
  throttleLow,           \* calculateThrottleStatus
  hadRx, rcDisarmTicks,
  mayRearm,              \* history: since the failsafe last disarmed the arm switch was
                         \* off, or the RX task held up beyond the recovery period; or
                         \* that failsafe was to recover at once
  savedActive            \* history: settings were saved while the failsafe was active

radio  == <<needSignalIn, rxSignalReceived, rxDataProcessingRequired, rcRaw>>
rxTask == <<rxFlightChannelsValid, rxState, rcData, modes, throttleLow, hadRx,
            rcDisarmTicks>>
vars == <<config, failsafeState, armed, disabled, radio, rxTask, stall, mayRearm,
          savedActive>>

Switches == [arm : BOOLEAN, failsafe : BOOLEAN]

Oldest == FailurePeriod + LandingTime + 2

Younger(a, b) == IF a <= b THEN a ELSE b

-----------------------------------------------------------------------------
(* The failsafe state machine.  failed is -1 as long as no data failed.    *)

failsafeReset(s) ==
  [phase |-> "IDLE", linkUp |-> FALSE, received |-> Oldest, failed |-> -1,
   throttleLowIn |-> -1, landingIn |-> -1, receivingIn |-> -1,
   preset |-> RecoveryPeriod, boxWasOn |-> FALSE, active |-> s.active]

Aged(s) ==
  [s EXCEPT !.received = Younger(@ + 1, Oldest),
            !.failed = IF @ = -1 THEN -1 ELSE Younger(@ + 1, RecoveryPeriod + 1),
            !.throttleLowIn = IF @ = -1 THEN -1 ELSE @ - 1,
            !.landingIn = IF @ = -1 THEN -1 ELSE @ - 1,
            !.receivingIn = IF @ = -1 THEN -1 ELSE @ - 1]

Over(left) == left < 0

Kill(in) == in.box /\ config.switchMode = "KILL"

Again(s, phase) == [s EXCEPT !.phase = phase, !.again = TRUE]

Idle(s, in) ==
  LET seen == [s EXCEPT !.boxWasOn = in.box,
                        !.throttleLowIn = IF ~in.armed THEN -1
                                          ELSE IF in.throttleLow THEN @
                                          ELSE ThrottleLowDelay]
      justDisarm == Kill(in) \/ (Over(seen.throttleLowIn) /\ config.procedure # "GPS_RESCUE")
  IN IF ~in.armed \/ (in.receiving /\ ~Kill(in)) THEN seen
     ELSE IF justDisarm
     THEN [Again(seen, "LANDED") EXCEPT !.active = TRUE, !.preset = RecoveryPeriod]
     ELSE Again(seen, "RX_LOSS_DETECTED")

LossDetected(s, in) ==
  IF in.receiving THEN Again(s, "RX_LOSS_RECOVERED")
  ELSE [Again(s, CASE config.procedure = "AUTO_LANDING" -> "LANDING"
                   [] config.procedure = "DROP_IT"      -> "LANDED"
                   [] config.procedure = "GPS_RESCUE"   -> "GPS_RESCUE")
        EXCEPT !.active = TRUE,
               !.landingIn = IF config.procedure = "AUTO_LANDING" THEN LandingTime ELSE @,
               !.preset = IF s.boxWasOn THEN 0 ELSE RecoveryPeriod]

Landing(s, in) ==
  IF in.receiving THEN Again(s, "RX_LOSS_RECOVERED")
  ELSE IF Over(s.landingIn) \/ in.crashed \/ ~in.armed THEN Again(s, "LANDED")
  ELSE s

GpsRescue(s, in) ==
  IF in.receiving
  THEN IF in.sticksActive \/ s.boxWasOn THEN Again(s, "RX_LOSS_RECOVERED") ELSE s
  ELSE IF in.armed THEN s ELSE Again(s, "LANDED")

\* Mutant: it disarms, and the pilot may arm again at once.
Mutant_Landed(s) ==
  [Again(s, "RX_LOSS_MONITORING") EXCEPT !.armed = FALSE, !.receivingIn = s.preset]

\* disarm, and no arming until the failsafe is over.
Landed(s) ==
  [Again(s, "RX_LOSS_MONITORING") EXCEPT !.armed = FALSE,
                                         !.disabled = @ \cup {"FAILSAFE"},
                                         !.receivingIn = s.preset]

\* Mutant: the link has to be good for the stage 1 period.
Mutant_Monitoring(s, in) ==
  IF ~in.receiving THEN [s EXCEPT !.receivingIn = FailurePeriod]
  ELSE IF Over(s.receivingIn) THEN Again(s, "RX_LOSS_RECOVERED") ELSE s

Monitoring(s, in) ==
  IF ~in.receiving THEN [s EXCEPT !.receivingIn = s.preset]
  ELSE IF Over(s.receivingIn) THEN Again(s, "RX_LOSS_RECOVERED") ELSE s

\* Mutant: arming stays disabled.
Mutant_Recovered(s) ==
  [Again(s, "IDLE") EXCEPT !.throttleLowIn = ThrottleLowDelay, !.active = FALSE]

Recovered(s) ==
  [Again(s, "IDLE") EXCEPT !.throttleLowIn = ThrottleLowDelay,
                           !.active = FALSE,
                           !.disabled = @ \ {"FAILSAFE"}]

Step(s, in) ==
  LET t == [s EXCEPT !.again = FALSE]
  IN CASE s.phase = "IDLE"               -> Idle(t, in)
       [] s.phase = "RX_LOSS_DETECTED"   -> LossDetected(t, in)
       [] s.phase = "LANDING"            -> Landing(t, in)
       [] s.phase = "GPS_RESCUE"         -> GpsRescue(t, in)
       [] s.phase = "LANDED"             -> Landed(t)
       [] s.phase = "RX_LOSS_MONITORING" -> Monitoring(t, in)
       [] s.phase = "RX_LOSS_RECOVERED"  -> Recovered(t)

\* The do-while of failsafeUpdateState, with more rounds than it ever takes.
Round(S, in)     == {IF s.again THEN Step(s, in) ELSE s : s \in S}
TwoRounds(S, in) == Round(Round(S, in), in)
Rounds(S, in)    == TwoRounds(TwoRounds(TwoRounds(TwoRounds(S, in), in), in), in)

Reprocess(s, in) == Rounds({[s EXCEPT !.again = TRUE]}, in)

\* What one call reads once, at its start; the crash detection and the sticks
\* may answer either way.
Inputs(s) ==
  [box : {modes.failsafe},
   receiving : {s.linkUp /\ ~(modes.failsafe /\ config.switchMode = "STAGE2")},
   armed : {s.armed}, throttleLow : {throttleLow},
   crashed : IF config.procedure = "AUTO_LANDING" THEN BOOLEAN ELSE {FALSE},
   sticksActive : IF config.procedure = "GPS_RESCUE" THEN BOOLEAN ELSE {FALSE}]

failsafeUpdateState(s) ==
  UNION {Reprocess(s, in) : in \in Inputs(s)}

\* Mutant: only a frame that is reported lost takes the link down.
Mutant_failsafeCheckDataFailurePeriod(s) == s

failsafeCheckDataFailurePeriod(s) ==
  IF s.received > FailurePeriod
  THEN [s EXCEPT !.linkUp = FALSE, !.disabled = @ \cup {"RX_FAILSAFE"}]
  ELSE s

\* What failsafe.c works on: its own state, and the arming it can take away.
Loaded ==
  LET f == failsafeState IN
  [phase |-> f.phase, linkUp |-> f.linkUp, received |-> f.received, failed |-> f.failed,
   throttleLowIn |-> f.throttleLowIn, landingIn |-> f.landingIn,
   receivingIn |-> f.receivingIn, preset |-> f.preset, boxWasOn |-> f.boxWasOn,
   active |-> f.active, armed |-> armed, disabled |-> disabled, again |-> FALSE]

Store(s) ==
  /\ failsafeState' =
       [phase |-> s.phase, linkUp |-> s.linkUp, received |-> s.received,
        failed |-> s.failed, throttleLowIn |-> s.throttleLowIn,
        landingIn |-> s.landingIn, receivingIn |-> s.receivingIn,
        preset |-> s.preset, boxWasOn |-> s.boxWasOn, active |-> s.active]
  /\ disabled' = s.disabled

-----------------------------------------------------------------------------
(* The gyro pass.                                                          *)

FrameArrives(w) ==
  /\ rxState = "CHECK"
  /\ rcRaw' = w
  /\ needSignalIn' = SignalTimeout
  /\ rxSignalReceived' = TRUE /\ rxDataProcessingRequired' = TRUE

\* left is what is left until the next frame is missed.
NoFrame(left) ==
  LET missed == rxState = "CHECK" /\ Over(left)
  IN /\ needSignalIn' = IF missed THEN left + SignalRecheck ELSE left
     /\ rxSignalReceived' = (rxSignalReceived /\ ~missed)
     /\ rxDataProcessingRequired' = (rxDataProcessingRequired \/ missed)
     /\ UNCHANGED rcRaw

\* While a frame is being processed no other one is looked for.
rxFrameCheck(left) == NoFrame(left) \/ \E w \in Switches : FrameArrives(w)

\* A pass in which the failsafe is not due, and a frame has arrived.
FramePass ==
  /\ \E w \in Switches : FrameArrives(w)
  /\ mayRearm' = (mayRearm \/ ~rcRaw'.arm)
  /\ UNCHANGED <<config, failsafeState, armed, disabled, rxTask, stall, savedActive>>

\* A pass in which it is, a tick after the last one.  What the frame check and
\* the failsafe change, the other does not read.
FailsafePass ==
  /\ UNCHANGED <<config, rxTask, savedActive>>
  /\ stall' = IF rxState = "CHECK" THEN 0 ELSE Younger(stall + 1, RecoveryPeriod + 1)
  /\ \E s \in failsafeUpdateState(failsafeCheckDataFailurePeriod(Aged(Loaded))) :
       Store(s) /\ armed' = s.armed
  /\ rxFrameCheck(IF needSignalIn < -SignalRecheck THEN needSignalIn
                  ELSE needSignalIn - 1)
  /\ mayRearm' = \/ ~rcRaw'.arm \/ stall' > RecoveryPeriod
                  \/ IF armed /\ ~armed'
                     THEN ~(rcRaw.arm /\ rcData.arm /\ modes.arm) \/ failsafeState'.preset = 0
                     ELSE mayRearm

-----------------------------------------------------------------------------
(* The RX task.                                                            *)

failsafeOnValidDataReceived(s) ==
  LET t == IF s.failed = -1 THEN [s EXCEPT !.failed = 0, !.disabled = @ \cup {"RX_FAILSAFE"}]
           ELSE s
      up == t.failed > t.preset
  IN [t EXCEPT !.received = 0,
               !.linkUp = @ \/ up,
               !.disabled = IF up THEN @ \ {"RX_FAILSAFE"} ELSE @]

failsafeOnValidDataFailed(s) ==
  [s EXCEPT !.failed = 0,
            !.linkUp = @ /\ s.received <= FailurePeriod,
            !.disabled = @ \cup {"RX_FAILSAFE"}]

\* getRxfailValue: the failsafe switch's channel holds.
failsafeValues ==
  LET held == IF modes.failsafe THEN rcRaw ELSE rcData
  IN IF ArmFailValue = {} THEN {held}
     ELSE {[held EXCEPT !.arm = v] : v \in ArmFailValue}

\* A channel that is not valid holds for 300 ms before it fails.
detectAndApplySignalLossBehaviour(valid) ==
  rcData' \in IF failsafeState.active \/ modes.failsafe THEN failsafeValues
              ELSE IF valid THEN {rcRaw}
              ELSE {rcData} \cup failsafeValues

\* A flight channel that stays bad counts as a lost signal, in normal flight.
processRx ==
  /\ rxState = "CHECK" /\ rxDataProcessingRequired
  /\ rxDataProcessingRequired' = FALSE
  /\ \E channelsGood \in BOOLEAN :
       LET valid == /\ rxSignalReceived /\ ~modes.failsafe
                    /\ channelsGood \/ failsafeState.active
       IN /\ rxFlightChannelsValid' = valid
          /\ detectAndApplySignalLossBehaviour(valid)
          /\ Store(IF valid THEN failsafeOnValidDataReceived(Loaded)
                   ELSE failsafeOnValidDataFailed(Loaded))
  /\ throttleLow' \in BOOLEAN
  /\ rxState' = "MODES" /\ stall' = 0
  /\ UNCHANGED <<config, armed, needSignalIn, rxSignalReceived, rcRaw, modes, hadRx,
                 rcDisarmTicks, mayRearm, savedActive>>

SetIf(flag, condition, flags) ==
  IF condition THEN flags \cup {flag} ELSE flags \ {flag}

\* Mutant: the arm switch need not be off once the link is back.
Mutant_ArmSwitchOff(flags) == flags \ {"ARM_SWITCH"}

\* Arming refused with the switch on is refused until it is off.
ArmSwitchOff(flags) ==
  IF modes.arm /\ flags # {} THEN flags \cup {"ARM_SWITCH"}
  ELSE IF ~modes.arm THEN flags \ {"ARM_SWITCH"} ELSE flags

NotDisarmed(flags) ==
  IF ~hadRx /\ rxSignalReceived /\ modes.arm THEN flags \cup {"NOT_DISARMED"}
  ELSE IF rxSignalReceived /\ ~modes.arm THEN flags \ {"NOT_DISARMED"} ELSE flags

updateArmingStatus ==
  IF armed THEN UNCHANGED <<disabled, hadRx>>
  ELSE /\ hadRx' = rxSignalReceived
       /\ disabled' = ArmSwitchOff(SetIf("THROTTLE", ~throttleLow,
                         SetIf("BOXFAILSAFE", modes.failsafe, NotDisarmed(disabled))))

\* Other reasons may keep it from arming, or a beacon just sent.
tryArm ==
  /\ updateArmingStatus
  /\ armed' \in {armed, armed \/ disabled' = {}}
  /\ rcDisarmTicks' = 0

\* With the arm switch off; in a true loss only once data are valid again.
Disarm ==
  LET counts == armed /\ (failsafeState.linkUp \/ modes.failsafe)
      ticks  == IF counts THEN rcDisarmTicks + 1 ELSE rcDisarmTicks
  IN /\ armed' = (armed /\ ~(counts /\ ticks > DisarmTicks))
     /\ rcDisarmTicks' = Younger(ticks, DisarmTicks + 1)
     /\ UNCHANGED <<disabled, hadRx>>

processRxModes ==
  /\ rxState = "MODES"
  /\ IF modes.arm THEN tryArm ELSE Disarm
  /\ modes' = rcData
  /\ rxState' = "UPDATE" /\ stall' = 0
  /\ UNCHANGED <<config, failsafeState, radio, rxFlightChannelsValid, rcData,
                 throttleLow, mayRearm, savedActive>>

RxUpdate ==
  /\ rxState = "UPDATE"
  /\ updateArmingStatus
  /\ rxState' = "CHECK" /\ stall' = 0
  /\ UNCHANGED <<config, failsafeState, armed, radio, rxFlightChannelsValid, rcData,
                 modes, throttleLow, rcDisarmTicks, mayRearm, savedActive>>

taskUpdateRxMain == processRx \/ processRxModes \/ RxUpdate

-----------------------------------------------------------------------------
\* The settings are saved and read back, by another task.
saveConfig ==
  /\ ~armed
  /\ failsafeState' = [failsafeReset(failsafeState) EXCEPT !.linkUp = TRUE,
                                                         !.received = 0]
  /\ savedActive' = (savedActive \/ failsafeState.active)
  /\ UNCHANGED <<config, armed, disabled, radio, rxTask, stall, mayRearm>>

NoSwitch == [arm |-> FALSE, failsafe |-> FALSE]

\* Powered on for the second after which the failsafe is monitoring, with no radio.
Init ==
  /\ config \in Configs
  /\ failsafeState = [failsafeReset([active |-> FALSE]) EXCEPT !.failed = 0]
  /\ armed = FALSE /\ disabled = {"RX_FAILSAFE"}
  /\ needSignalIn = SignalRecheck /\ rxSignalReceived = FALSE
  /\ rxDataProcessingRequired = FALSE /\ rxFlightChannelsValid = FALSE
  /\ rxState = "CHECK" /\ stall = 0
  /\ rcRaw = NoSwitch /\ rcData = NoSwitch /\ modes = NoSwitch
  /\ throttleLow = TRUE /\ hadRx = FALSE /\ rcDisarmTicks = 0
  /\ mayRearm = TRUE /\ savedActive = FALSE

Next == FramePass \/ FailsafePass \/ taskUpdateRxMain \/ saveConfig

Spec == Init /\ [][Next]_vars

\* Time goes on, whatever the RX task does, and the RX task gets its turns.
FairSpec == Spec /\ []<><<FailsafePass>>_vars /\ WF_vars(taskUpdateRxMain)

-----------------------------------------------------------------------------
(* Properties.                                                             *)

Flags == {"FAILSAFE", "RX_FAILSAFE", "NOT_DISARMED", "BOXFAILSAFE", "THROTTLE",
          "ARM_SWITCH"}

TypeOK ==
  /\ config \in Configs
  /\ failsafeState \in
       [phase : Phases, linkUp : BOOLEAN, received : 0..Oldest,
        failed : -1..(RecoveryPeriod + 1), throttleLowIn : -1..ThrottleLowDelay,
        landingIn : -1..LandingTime, receivingIn : -1..RecoveryPeriod,
        preset : {0, RecoveryPeriod}, boxWasOn : BOOLEAN, active : BOOLEAN]
  /\ armed \in BOOLEAN /\ disabled \subseteq Flags
  /\ needSignalIn \in -(SignalRecheck + 1)..SignalTimeout
  /\ {rxSignalReceived, rxDataProcessingRequired, rxFlightChannelsValid,
      throttleLow, hadRx, mayRearm, savedActive} \subseteq BOOLEAN
  /\ rxState \in {"CHECK", "MODES", "UPDATE"} /\ stall \in 0..(RecoveryPeriod + 1)
  /\ {rcRaw, rcData, modes} \subseteq Switches
  /\ rcDisarmTicks \in 0..(DisarmTicks + 1)

\* No motor runs without a link: with no valid data for the stage 1 period the
\* failsafe has disarmed, or lands for at most the landing time.  The RX task
\* may not even run meanwhile.
LossDisarms ==
  [][FailsafePass /\ armed' /\ config.procedure # "GPS_RESCUE" =>
     failsafeState'.received <= FailurePeriod
       + IF config.procedure = "AUTO_LANDING" THEN LandingTime + 1 ELSE 0]_vars

\* Between its calls the state machine rests in a phase that waits, and waits
\* for the link disarmed and kept from arming.
RestsInPhase ==
  LET phase == failsafeState.phase IN
  /\ phase \in {"IDLE", "LANDING", "GPS_RESCUE", "RX_LOSS_MONITORING"}
  /\ phase = "RX_LOSS_MONITORING" => ~armed /\ "FAILSAFE" \in disabled

\* It arms only with the link up and the failsafe over.
ArmsOnlyWithLink ==
  [][~armed /\ armed' => failsafeState.linkUp /\ ~failsafeState.active]_vars

\* After the failsafe disarmed it never arms with the switch simply left on,
\* whatever passes come between the parts of an RX update.  Two cases are out:
\* a failsafe begun with its switch on, which recovers at once, and an update
\* held up between two parts for longer than the recovery period.
RearmNeedsSwitchOff == [][~armed /\ armed' => mayRearm]_vars

\* The failsafe is over some time after valid data keep coming, and arming is
\* not kept disabled, unless the settings were saved before it was over.  The
\* save makes the state machine idle, and active it stays.
FailsafeEnds ==
  <>[](rxFlightChannelsValid /\ failsafeState.received <= FailurePeriod) =>
    []<>(savedActive \/ (~failsafeState.active /\ "FAILSAFE" \notin disabled))
=============================================================================
