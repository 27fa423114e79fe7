SPECIFICATION Spec
CONSTANTS
  Chain <- MCChain
  Accounting <- MCAccounting
  Sorted <- MCSorted
  Primary <- MCPrimary
  RawOf <- MCRawOf
  MaxParse = 1
  Limit = 2
  MaxLines = 2
  MaxRotations = 1
  MaxFaults = 2
CHECK_DEADLOCK FALSE
INVARIANTS TypeOK SteadyLineReported EventsTraceable 
