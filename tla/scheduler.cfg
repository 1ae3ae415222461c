\* A gyro that leaves five ticks of seven, and a task that does not fit the rest.
SPECIFICATION FairSpec
CONSTANTS
  Tasks = {"GYRO", "RX", "DETTLAFF", "GIMBAL"}
  NULL = NULL
  StaticPriority <- Priorities
  Period <- Periods
  EventDriven = {"RX"}
  Serial = "SERIAL"
  Relaxed <- RelaxedRx
  Toggled = {"GIMBAL"}
  ExecTimes <- Runs
  Announces <- NoAnnouncement
  Ignoring = {}
  GyroPeriod = 7
  GyroTimes = {2}
  Skews = {0}
  CheckTimes = {2}
  IdleTime = 1
  LoopStartMin = 2
  LoopStartMax = 3
  LoopStartUp = 1
  LoopStartDown = 1
  GuardMin = 1
  GuardMax = 2
  GuardUp = 1
  GuardDown = 1
  CheckGuard = 2
  DeferPasses = 2
  Scale = 1
  Horizon = 56
INVARIANTS
  TypeOK
  QueueSound
  GyroDelayBounded
PROPERTIES
  NoStarvation
