SPECIFICATION Spec
CONSTANTS
  Sorted <- MCSorted
  Up <- MCUp
  Agenda <- MCAgenda
  Own = {"tmp/a"}
  May <- MCMay
  ScanLimit = 1
  MaxHeld = 1
  MaxChanges = 3
  MaxFaults = 1
CHECK_DEADLOCK FALSE
INVARIANTS TypeOK   
