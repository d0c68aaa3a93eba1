SPECIFICATION Spec
CONSTANTS
  m1 = m1
  m2 = m2
  p1 = p1
  p2 = p2
  Modules = {m1, m2}
  Custom = {m1}
  Probes = {p1}
  Tasks <- MCFewTasks
  Nobody = Nobody
  Faulty = {}
  Opened = {"partial-file", "partial-program"}
  MaxStarts = 1
  MaxFaults = 0
  MaxKills = 0

INVARIANT AdaTypeKnown
CHECK_DEADLOCK FALSE
