SPECIFICATION Spec
CONSTANTS
  m1 = m1
  m2 = m2
  Message = {m1, m2}
  Order = {m1, m2}
  Blank = {}
  Recorded = {}
  NoText = NoText
  Dot = Dot
  Sent <- Epoch
  Limit = 10
  Requests <- LookupAnew
  NoEvent = NoEvent
  NoIndex = NoIndex
INVARIANTS
  RegressionDetected
CHECK_DEADLOCK FALSE
