SPECIFICATION FairSpec
CONSTANTS
  Mode = "dual"
  Collector <- MCCollector
  Registered <- MCTwo
  Undying <- MCUndying
  StatusPath <- MCStatusPath
  MissingPath <- MCMissing
  SummaryPath <- MCSummary
  LegacyPath <- MCLegacy
  RawPath <- MCRaw
  Prov <- MCProv
  Configs <- MCOneRun
  MaxFaults = 2
  MaxOps = 2
  MaxRuns = 1
CHECK_DEADLOCK FALSE
INVARIANTS ProvenanceHonest SealedManifestComplete SealedRunIsComplete
 
