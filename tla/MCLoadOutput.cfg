SPECIFICATION FairSpec
CONSTANTS
  OcRecoveryDelay = 1
  LvdRecoveryDelay = 2
  ControlFrequency = 2
  Samples <- MCSamples
INVARIANTS SwitchIsKnown ExposureBounded
PROPERTIES RecoveryDelays Recovers
