\* Updates that run for 20 microseconds.
SPECIFICATION FairSpec
CONSTANTS
  Motors = {0, 1}
  PusherType = "SOLENOID_OPENLOOP"
  FlywheelControl = "OPEN_LOOP"
  SelectFireType = "NO_SELECT_FIRE"
  SelectPins = {}
  HasCycleSwitch = FALSE
  DefaultFiringMode = 1
  VariableFPS = TRUE
  BurstLength <- ThreeShots
  BurstMode <- AutoAlways
  BinaryTimeout = 0
  RevRPM <- FastRPM
  IdleRPM <- SlowIdle
  IdleTime <- RealIdle
  FiringRPMTolerance = 10
  MinFiringRPM = 10
  FullThrottleTolerance = 5
  MinTelemetryRPM = 0
  SpindownSpeed = 30
  MotorKv = 2500
  FiringDelay <- RealDelay
  FiringDelayIdle <- RealIdleDelay
  MinFiringDelay <- NoDelay
  MinFiringDelayIdle <- NoDelay
  TimeOverrideWhenIdling = TRUE
  SpinUpTimeout = 40
  SolenoidExtendTime = 4
  SolenoidRetractTime = 7
  ReversePolarityDuration = 1
  DwellTime = 0
  StallTime = 4
  LowVoltageCutoff = 10
  DefaultVoltage = 12
  Batteries = {12}
  StepTimes = {1, 2}
  LoopTimes = {20}
  RevHorizon = 61
  PusherHorizon = 8
  TriggerHorizon = 0
PROPERTIES
  WheelsEventuallyStop
