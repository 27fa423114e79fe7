SPECIFICATION FairSpec
CONSTANTS
  Mode <- MCModes
  Clean <- MCCleans
  Runs32 = TRUE
  MayFork = TRUE
  MaxVersions = 3
  MaxLines = 2
  MaxFaults = 1
CHECK_DEADLOCK FALSE
INVARIANTS TypeOK ScanAccounted CleaningOnRecord CompletedIsHonest
PROPERTY PhaseEnds
