SPECIFICATION FairSpec
CONSTANTS
  Mode <- MCYara
  Clean <- MCCleans
  Runs32 = TRUE
  MayFork = TRUE
  MaxVersions = 1
  MaxLines = 2
  MaxFaults = 0
CHECK_DEADLOCK FALSE
PROPERTY ScannerCannotHoldTheRun
