\* Two motors, the ring at its size, every writer and every command source.
SPECIFICATION FairSpec
CONSTANTS
  Motors = {0, 1}
  Commands = {beacon, normal, reversed, edt}
  Settings = {normal, reversed, edt}
  SettingRepeats = 2
  Stop = stop
  Spin = spin
  Full = full
  Slots = 3
  PidLoopTime = 2
  InitialDelay = 2
  CommandDelay = 3
  Beacon = beacon
  Normal = normal
  Reversed = reversed
  EdtEnable = edt
  HostCommands = {normal}
  HostIndexes <- AllMotors
  Throttles <- FirstOnly
  BlasterOutputs <- FullOnly
  UseEdt = TRUE
INVARIANTS
  TypeOK
  OnlyToStoppedMotors
PROPERTIES
  CommandsSpaced
  StopNeverDelayed
  KeepsFifo
  QueueDrains
