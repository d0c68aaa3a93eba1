SPECIFICATION FairSpec
CONSTANTS
  m1 = m1
  m2 = m2
  p1 = p1
  p2 = p2
  Modules = {m1, m2}
  Custom = {m1}
  Probes = {p1}
  Tasks <- MCFewTasks
  Nobody = Nobody
  Faulty = {"compile", "link", "move", "lock", "execute", "read", "copy", "mark"}
  Opened = {"partial-file"}
  MaxStarts = 2
  MaxFaults = 1
  MaxKills = 1

INVARIANTS CompleteWhenUsed WaitsForWork
PROPERTY EveryRunEnds
CHECK_DEADLOCK FALSE
