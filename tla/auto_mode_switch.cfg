\* The configured modes, the selector moving between a pull and its release.
SPECIFICATION Spec
CONSTANTS
  Motors = {0, 1}
  PusherType = "SOLENOID_OPENLOOP"
  FlywheelControl = "OPEN_LOOP"
  SelectFireType = "SWITCH"
  SelectPins = {0, 2}
  HasCycleSwitch = FALSE
  DefaultFiringMode = 1
  VariableFPS = TRUE
  BurstLength <- ShippedBursts
  BurstMode <- ShippedModes
  BinaryTimeout = 0
  RevRPM <- FastRPM
  IdleRPM <- SlowIdle
  IdleTime <- ShortIdle
  FiringRPMTolerance = 10
  MinFiringRPM = 10
  FullThrottleTolerance = 5
  MinTelemetryRPM = 0
  SpindownSpeed = 30
  MotorKv = 3200
  FiringDelay <- ShortDelay
  FiringDelayIdle <- NoDelay
  MinFiringDelay <- NoDelay
  MinFiringDelayIdle <- NoDelay
  TimeOverrideWhenIdling = TRUE
  SpinUpTimeout = 2
  SolenoidExtendTime = 1
  SolenoidRetractTime = 2
  ReversePolarityDuration = 1
  DwellTime = 0
  StallTime = 2
  LowVoltageCutoff = 10
  DefaultVoltage = 12
  Batteries = {12}
  StepTimes = {1, 2}
  LoopTimes = {400}
  RevHorizon = 5
  PusherHorizon = 3
  TriggerHorizon = 0
INVARIANTS
  AutoStopsOnRelease
