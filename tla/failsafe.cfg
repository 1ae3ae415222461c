\* Link loss, recovery and the failsafe switch, with the arm channel held.
SPECIFICATION FairSpec
CONSTANTS
  FailurePeriod = 2
  RecoveryPeriod = 1
  ThrottleLowDelay = 0
  LandingTime = 1
  SignalTimeout = 1
  SignalRecheck = 0
  DisarmTicks = 0
  Configs <- LandOrDrop
  ArmFailValue = {}
INVARIANTS
  TypeOK
  RestsInPhase
PROPERTIES
  LossDisarms
  ArmsOnlyWithLink
  RearmNeedsSwitchOff
  FailsafeEnds
