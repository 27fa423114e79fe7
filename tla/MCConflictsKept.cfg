SPECIFICATION Spec
CONSTANTS
  Pid <- MCOnePid
  Sock <- MCSock
  Table <- MCTcp
  TableOf <- MCAllTcp
  MaxBorn = 1
  MaxFaults = 0
CHECK_DEADLOCK FALSE
INVARIANT ConflictsKept
