SPECIFICATION Spec
CONSTANTS
  insthier <- MCplain
  Paths <- MCPaths
  Top = "/"
  Parent <- MCParent
  Prefixes <- MCPrefixes
  Tmp <- MCTmp
  Bits <- MCBits
  Seen <- MCSeen
  Created <- MCCreated
  Umask = {"gw", "r"}
  Writable = "uw"
  Privileged = TRUE
  MaxRuns = 2
  MaxFaults = 0
  MaxKills = 0
INVARIANTS DirectoriesAreMade
CHECK_DEADLOCK FALSE
