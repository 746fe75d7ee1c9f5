SPECIFICATION FairSpec
CONSTANTS
  MaxReading = 3
  Weight = 4
  Readings <- MCReadings
  Limits <- MCLimits
  Period = 5
  PulseInhibit = 2
  StartInhibit = 5
  HalfRange = 16
  Longest = 12
INVARIANTS DetectionBounded PulseTolerated
PROPERTIES Settles
