SPECIFICATION FairSpec
CONSTANTS
  DISCHARGE_CURRENT_MAX = 10
  Type = "GEL"
  NumCells = 6
  CapacityAh = 50
  Threads = {"serial"}
  Outranks <- Outrank
  Requests <- MCRequests
  PageOf <- Page
INVARIANTS TypeOK ConfInForceValid OldOrNew AtRestAgreed
PROPERTIES StoresSnapshots Answered
