SPECIFICATION Spec
CONSTANTS
  Pid <- MCTwoPids
  Nature <- MCNatures
  MaxBorn = 2
  MaxFaults = 1
CHECK_DEADLOCK FALSE
INVARIANTS TypeOK StableProcessReported  
