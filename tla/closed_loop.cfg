\* Flywheels under PID control without telemetry: the speed locked at boot is
\* slow, and always reached, or fast, and every spin-up runs into its timeout.
\* The pusher motor dwells between shots and stops without reversing.
SPECIFICATION FairSpec
CONSTANTS
  Motors = {0}
  PusherType = "MOTOR_CLOSEDLOOP"
  FlywheelControl = "PID"
  SelectFireType = "SWITCH"
  SelectPins = {0}
  HasCycleSwitch = TRUE
  DefaultFiringMode = 1
  VariableFPS = TRUE
  BurstLength <- TwoShots
  BurstMode <- BurstAlways
  BinaryTimeout = 0
  RevRPM <- SlowOrFast
  IdleRPM <- SlowIdle
  IdleTime <- ShortIdle
  FiringRPMTolerance = 10
  MinFiringRPM <- NoFloor
  FullThrottleTolerance = 5
  MinTelemetryRPM = 0
  SpindownSpeed = 30
  MotorKv = 3200
  FiringDelay <- ShortDelay
  FiringDelayIdle <- NoDelay
  MinFiringDelay <- NoDelay
  MinFiringDelayIdle <- NoDelay
  TimeOverrideWhenIdling = TRUE
  SpinUpTimeout = 3
  SolenoidExtendTime = 2
  SolenoidRetractTime = 3
  ReversePolarityDuration = 0
  DwellTime = 1
  StallTime = 4
  LowVoltageCutoff = 10
  DefaultVoltage = 12
  Batteries = {12}
  StepTimes = {1, 2}
  LoopTimes = {400}
  RevHorizon = 5
  PusherHorizon = 6
  TriggerHorizon = 0
INVARIANTS
  FiringOnlyAtFullSpeed
  StrokeBounded
PROPERTIES
  SettlesWhenReleased
