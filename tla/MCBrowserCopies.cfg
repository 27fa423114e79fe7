SPECIFICATION Spec
CONSTANTS
  Profile <- MCProfile
  Known <- MCKnown
  Busy <- MCBusy
  MaxChanges = 4
  MaxFaults = 1
CHECK_DEADLOCK FALSE
INVARIANTS TypeOK   
