SPECIFICATION Spec
CONSTANTS
  insthier <- MCinsthier
  Paths <- MCPaths
  Top = "/"
  Parent <- MCParent
  Prefixes <- MCPrefixes
  Tmp <- MCTmp
  Bits <- MCBits
  Seen <- MCSeen
  Created <- MCCreated
  Umask = {"gw", "r"}
  Writable = "uw"
  Privileged = TRUE
  MaxRuns = 2
  MaxFaults = 1
  MaxKills = 1
INVARIANTS TypeOK OKMeansDone Recovers CheckAgrees UndoesInstall StartsAtTop
PROPERTIES ReplacesAtomically
CHECK_DEADLOCK FALSE
