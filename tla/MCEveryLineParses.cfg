SPECIFICATION Spec
CONSTANTS
  Mode = "dual"
  Collector <- MCHostOnly
  Registered <- MCHostOnly
  Undying <- MCNone
  StatusPath <- MCStatusPath
  MissingPath <- MCMissing
  SummaryPath <- MCSummary
  LegacyPath <- MCLegacy
  RawPath <- MCRaw
  Prov <- MCOneProv
  Configs <- MCRerun
  MaxFaults = 1
  MaxOps = 1
  MaxRuns = 2
CHECK_DEADLOCK FALSE
INVARIANT EveryLineParses
