SPECIFICATION SubagentSpec
CONSTANTS
  s1 = s1
  s2 = s2
  b1 = b1
  o1 = o1
  o2 = o2
  Subagent = {s1, s2}
  Bash = {}
  Owner = {o1, o2}
  LauncherOf <- MCLauncherOf
  NoOwner = NoOwner
  MaxRunning = 2
  MaxRuns = 2
INVARIANTS
  OwnerCanCancel
CHECK_DEADLOCK FALSE
