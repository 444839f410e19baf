SPECIFICATION Spec
CONSTANTS
  m1 = m1
  m2 = m2
  Message = {m1, m2}
  Order = {m1, m2}
  Blank = {}
  Recorded = {}
  NoText = NoText
  Dot = Dot
  Sent <- Epoch
  Limit = 10
  Requests <- AllRequests
  NoEvent = NoEvent
  NoIndex = NoIndex
INVARIANTS
  ServedFromCache
CHECK_DEADLOCK FALSE
