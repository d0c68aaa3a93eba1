SPECIFICATION Spec
CONSTANTS
  insthier <- MCplain
  Paths <- MCPaths
  Top = "/"
  Parent <- MCParent
  Prefixes <- MCPrefixes
  Tmp <- MCTmp
  Bits <- MCBits
  Seen <- MCSeen
  Created <- MCCreated
  Umask = {"gw", "r"}
  Writable = "uw"
  Privileged = FALSE
  MaxRuns = 2
  MaxFaults = 0
  MaxKills = 1
INVARIANTS FailureIsReported
CHECK_DEADLOCK FALSE
