\* The blaster keeps asking for its motors; nothing else needs to happen.
SPECIFICATION FairSpec
CONSTANTS
  Motors = {0}
  Commands = {beacon, normal, reversed, edt}
  Settings = {normal, reversed, edt}
  SettingRepeats = 1
  Stop = stop
  Spin = spin
  Full = full
  Slots = 2
  PidLoopTime = 2
  InitialDelay = 2
  CommandDelay = 2
  Beacon = beacon
  Normal = normal
  Reversed = reversed
  EdtEnable = edt
  HostCommands = {}
  HostIndexes = {}
  Throttles <- FirstOnly
  BlasterOutputs <- BothAlike
  UseEdt = FALSE
PROPERTIES
  BlasterDrivesMotors
