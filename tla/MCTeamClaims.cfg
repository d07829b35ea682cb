SPECIFICATION Spec
CONSTANTS
  a = a
  b = b
  l = l
  Worker = {a, b}
  Leader = {l}
  Editor = {b}
  Task = {1, 2}
  Owner0 <- Free
  Needs0 <- Chain
  Edits <- Edited
  Targets = {"completed"}
  Mortal = {a}
  Slow = {}
  None = None
  MaxClaims <- Once
INVARIANTS
  ClaimsInv
PROPERTIES
  DeadClaimGoes
CHECK_DEADLOCK FALSE
