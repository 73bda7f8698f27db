SPECIFICATION FairSpec
CONSTANTS
  Messages = {m1, m2}
  Everyone = {b1, b2}
  Queue = {q1, q2}
  AtStart = {b1, q1, q2}
  Limit = 2
  Batch = 1
  MaxFaults = 2
  MaxChanges = 1
INVARIANTS AtLeastOnce NoNeedlessCopy
PROPERTIES Retried
CHECK_DEADLOCK FALSE
