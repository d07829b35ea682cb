SPECIFICATION Spec
CONSTANTS
  e1 = e1
  e2 = e2
  e3 = e3
  i1 = i1
  i2 = i2
  s1 = s1
  s2 = s2
  Event = {e1, e2, e3}
  Issue = {i1, i2}
  IssueOf <- MCIssueOf
  Slot = {s1, s2}
  Slots <- MCSlots
  Backlog <- MCBacklog
  Replayed = {e1}
  NoSlot = NoSlot
  NoEvent = NoEvent
  MaxDowns = 1
  MaxRequeues = 1
INVARIANTS
  PoolInv
  OneRunPerIssue
  SlotsAreExclusive
PROPERTIES
  EventsInOrder
  OutcomesAreEarned
  EventsAreHandled
