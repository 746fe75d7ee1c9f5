SPECIFICATION Spec
CONSTANTS
  Controllers = {1, 2, 3}
  Addresses <- MCAddresses
  ControlObject = 32769
  QueueSize = 2
  Periods = 2
  Currents = {0, 1}
  MaxEvents = 1
  Settled = 7
INVARIANTS Follows Released SameCurrent
