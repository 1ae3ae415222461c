\* A pusher motor with a home switch that may close at any moment, and slow
\* wheels under two-level control, at speed without telemetry.
SPECIFICATION FairSpec
CONSTANTS
  Motors = {0, 1}
  PusherType = "MOTOR_CLOSEDLOOP"
  FlywheelControl = "TWO_LEVEL"
  SelectFireType = "NO_SELECT_FIRE"
  SelectPins = {}
  HasCycleSwitch = TRUE
  DefaultFiringMode = 1
  VariableFPS = TRUE
  BurstLength <- TwoShots
  BurstMode <- BurstAlways
  BinaryTimeout = 0
  RevRPM <- SlowRPM
  IdleRPM <- SlowIdle
  IdleTime <- ShortIdle
  FiringRPMTolerance = 10
  MinFiringRPM <- NoFloor
  FullThrottleTolerance = 2
  MinTelemetryRPM = 0
  SpindownSpeed = 30
  MotorKv = 3200
  FiringDelay <- ShortDelay
  FiringDelayIdle <- NoDelay
  MinFiringDelay <- ShortDelay
  MinFiringDelayIdle <- NoDelay
  TimeOverrideWhenIdling = TRUE
  SpinUpTimeout = 6
  SolenoidExtendTime = 2
  SolenoidRetractTime = 3
  ReversePolarityDuration = 1
  DwellTime = 0
  StallTime = 4
  LowVoltageCutoff = 10
  DefaultVoltage = 12
  Batteries = {12}
  StepTimes = {1, 2}
  LoopTimes = {20, 400}
  RevHorizon = 7
  PusherHorizon = 6
  TriggerHorizon = 0
INVARIANTS
  DrivenOnlyForShots
  ReversePolarityBounded
