SPECIFICATION FairSpec
CONSTANTS
  RechargeTime = 1
  ToppingTimeout = 1
  ToppingDuration = 1
  FloatRechargeTime = 0
  EqualizationDuration = 1
  AgeCap = 5
  BatConfs <- MCBatConfs
  Samples <- MCSamples
INVARIANTS LimitFitsState PhasesBounded TemperatureStops RestHolds DischargeBlocked
PROPERTIES Recharges
