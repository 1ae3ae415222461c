\* The configured 3200 kV motors at 40000 rpm on a 12 V battery.
SPECIFICATION Spec
CONSTANTS
  Motors = {0, 1}
  PusherType = "SOLENOID_OPENLOOP"
  FlywheelControl = "OPEN_LOOP"
  SelectFireType = "NO_SELECT_FIRE"
  SelectPins = {}
  HasCycleSwitch = FALSE
  DefaultFiringMode = 1
  VariableFPS = TRUE
  BurstLength <- ThreeShots
  BurstMode <- AutoAlways
  BinaryTimeout = 0
  RevRPM <- FastRPM
  IdleRPM <- SlowIdle
  IdleTime <- IdleFor
  FiringRPMTolerance = 10
  MinFiringRPM = 10
  FullThrottleTolerance = 5
  MinTelemetryRPM = 0
  SpindownSpeed = 30
  MotorKv = 3200
  FiringDelay <- LongDelay
  FiringDelayIdle <- MidDelay
  MinFiringDelay <- NoDelay
  MinFiringDelayIdle <- NoDelay
  TimeOverrideWhenIdling = TRUE
  SpinUpTimeout = 6
  SolenoidExtendTime = 2
  SolenoidRetractTime = 3
  ReversePolarityDuration = 1
  DwellTime = 0
  StallTime = 4
  LowVoltageCutoff = 10
  DefaultVoltage = 12
  Batteries = {12}
  StepTimes = {1, 2}
  LoopTimes = {20, 400}
  RevHorizon = 9
  PusherHorizon = 6
  TriggerHorizon = 0
INVARIANTS
  FiresOnlyThroughPoweredWheels
