SPECIFICATION Spec
CONSTANTS
  m1 = m1
  m2 = m2
  p1 = p1
  p2 = p2
  Modules = {m1, m2}
  Custom = {m1}
  Probes = {p1, p2}
  Tasks <- MCTasks
  Nobody = Nobody
  Faulty = {"compile", "link", "move", "lock", "execute", "read"}
  Opened = {"partial-file", "partial-program"}
  MaxStarts = 2
  MaxFaults = 1
  MaxKills = 0

INVARIANTS
  TypeOK
  CompleteWhenUsed
  LockerExistsWhenUsed
  StatusOfRun
PROPERTIES NeverRebuilt FatalHasCause
CHECK_DEADLOCK FALSE
