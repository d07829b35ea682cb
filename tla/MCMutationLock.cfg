SPECIFICATION FairLockSpec
CONSTANTS
  c1 = c1
  c2 = c2
  c3 = c3
  p0 = p0
  p1 = p1
  p2 = p2
  Caller = {c1, c2, c3}
  Pid = {p0, p1, p2}
  PidOf <- MCPidOf
  LegacyPid = p0
  Reusable = {p1}
  Retries = 2
INVARIANTS
  MutualExclusion
  LockInv
PROPERTIES
  TokenRemovedByOwnerOrAfterDeath
  CallsEnd
  StaleLockRecovered
