SPECIFICATION FairSpec
CONSTANTS
  m1 = m1
  m2 = m2
  Message = {m1, m2}
  Order = {m1}
  Blank = {m2}
  Recorded = {m1, m2}
  NoText = NoText
  Dot = Dot
  Sent <- Epoch
  Limit = 5
  Requests <- AllRequests
  NoEvent = NoEvent
  NoIndex = NoIndex
INVARIANTS
  TypeOK
  DoneMeansReplayed
  SameOrder
  AnswersInOrder
  HonestRegression
  
  RegressionExact
PROPERTIES
  Ends
CHECK_DEADLOCK FALSE
