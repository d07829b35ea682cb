SPECIFICATION Spec
CONSTANTS
  o1 = o1
  o2 = o2
  k1 = k1
  q1 = q1
  Owner = {o1, o2}
  Emitter = {k1}
  Request = {q1}
  NoLease = NoLease
  NoSocket = NoSocket
  MaxCursor = 1
  MaxEpoch = 2
SYMMETRY OwnerSymmetry
INVARIANTS
  OwnerInv
  RequestsHoldLease
CHECK_DEADLOCK FALSE
