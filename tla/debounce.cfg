\* A bouncing switch over a counter that wraps every 16 ticks.
SPECIFICATION Spec
CONSTANTS
  Wrap = 16
  DebounceTime = 4
  Gaps = {1, 3, 11}
INVARIANTS
  TypeOK
  TakenOverInTime
PROPERTIES
  OnlyStableLevels
  EdgesSpaced
  SeesCleanSwitch
