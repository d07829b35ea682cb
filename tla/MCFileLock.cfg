SPECIFICATION Spec
CONSTANTS
  a = a
  b = b
  g = g
  Caller = {a, b}
  Collector = {g}
  Mortal = {a, g}
  Nobody = Nobody
  Retries = 2
  MaxGen = 4
INVARIANTS
  OwnershipInv
  HolderKeepsLock
CHECK_DEADLOCK FALSE
PROPERTIES
  DeadLockGoes
