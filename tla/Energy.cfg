SPECIFICATION EnergySpec
CONSTANTS
  Counters = {"solar", "dis"}
  Wh = 2
  MaxPower = 2
  Night = 1
  MaxEnergy = 5
  MaxStarts = 2
INVARIANTS Accounted PeakOfAllTime
