SPECIFICATION Spec
CONSTANTS
  Pid <- MCTwoPids
  Sock <- MCSock
  Table <- MCTables
  TableOf <- MCSplit
  MaxBorn = 2
  MaxFaults = 1
CHECK_DEADLOCK FALSE
INVARIANTS TypeOK  FlowsMatchSockets
