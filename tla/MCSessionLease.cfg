SPECIFICATION FairSpec
CONSTANTS
  a = a
  b = b
  g = g
  pa = pa
  pb = pb
  pg = pg
  p0 = p0
  A = A
  B = B
  G = G
  Caller = {a, b, g}
  Pid = {pa, pb, pg, p0}
  Owner = {A, B, G}
  PidOf <- MCPidOf
  OwnerOf <- MCOwnerOf
  OpsOf <- MCOpsOf
  LegacyPid = p0
  Reusable = {pa}
  NoLease = NoLease
  Retries = 1
  TTL = 1
  MaxNow = 1
  MaxEpoch = 2
INVARIANTS
  LeaseInv
PROPERTIES
  DeadLeaseGoes
  RunningOwnerKeepsLease
  ImplementsSingleOwnerLease
