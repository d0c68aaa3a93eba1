SPECIFICATION Spec
CONSTANTS
  p1 = p1
  p2 = p2
  p3 = p3
  f1 = f1
  f2 = f2
  Lockers = {p1, p2, p3}
  Files = {f1, f2}
  LockFile <- MCLockFile
  Codes = {"exit 0", "exit 1", "exit 2"}
  Nobody = Nobody
  Kills = FALSE
INVARIANT SuccessIsTheCommands
CHECK_DEADLOCK FALSE
