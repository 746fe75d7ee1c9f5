SPECIFICATION Spec
CONSTANTS
  Arr = 7
  CcrMin = 2
  CcrMax = 6
  CcrFuse = 7
  RestartInterval = 2
  InhibitTime = 1
  LowPowerTime = 1
  ShortDelay = 0
  FuseDelay = 0
  StepSize = 1
  MaxPower = 2
  Confs <- MCConfs
  Measured <- MCMeasured
PROPERTIES StartsWhenValid
