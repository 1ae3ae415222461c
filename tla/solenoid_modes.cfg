\* A solenoid blaster whose selector moves between AUTO, BURST and BINARY, and
\* whose battery sags below the cutoff and recovers, at any moment.
SPECIFICATION Spec
CONSTANTS
  Motors = {0, 1}
  PusherType = "SOLENOID_OPENLOOP"
  FlywheelControl = "OPEN_LOOP"
  SelectFireType = "SWITCH"
  SelectPins = {0, 2}
  HasCycleSwitch = FALSE
  DefaultFiringMode = 1
  VariableFPS = TRUE
  BurstLength <- MixedBursts
  BurstMode <- MixedModes
  BinaryTimeout = 2
  RevRPM <- FastRPM
  IdleRPM <- SlowIdle
  IdleTime <- ShortIdle
  FiringRPMTolerance = 10
  MinFiringRPM = 10
  FullThrottleTolerance = 5
  MinTelemetryRPM = 0
  SpindownSpeed = 3
  MotorKv = 2500
  FiringDelay <- ShortDelay
  FiringDelayIdle <- NoDelay
  MinFiringDelay <- NoDelay
  MinFiringDelayIdle <- NoDelay
  TimeOverrideWhenIdling = TRUE
  SpinUpTimeout = 2
  SolenoidExtendTime = 1
  SolenoidRetractTime = 2
  ReversePolarityDuration = 1
  DwellTime = 0
  StallTime = 2
  LowVoltageCutoff = 10
  DefaultVoltage = 12
  Batteries = {9, 12}
  StepTimes = {0, 1}
  LoopTimes = {4000}
  RevHorizon = 5
  PusherHorizon = 3
  TriggerHorizon = 2
INVARIANTS
  TypeOK
  FullCommandWhileActive
  IdleShortcutSound
  ShotsBounded
  SolenoidNeverHeld
  SolenoidFollowsFiring
PROPERTIES
  KeepsSafePromise
