SPECIFICATION FairSpec
CONSTANTS
  Resolution = 8
  DutyMin = 2
  DutyMax = 6
  Derating = 2
  Word = 16
  RestartInterval = 2
  LowPowerTime = 1
  Measured <- MCMeasured
INVARIANTS SignalIsKnown LowPowerStops
PROPERTIES RestsBeforeRestart Derates Restarts
