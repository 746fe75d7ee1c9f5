SPECIFICATION Spec
CONSTANTS
  OcRecoveryDelay = 1
  LvdRecoveryDelay = 2
  ControlFrequency = 2
  Samples <- MCSamples
PROPERTY ShortCircuitLatched
