SPECIFICATION FairSpec
CONSTANTS
  s1 = s1
  s2 = s2
  c1 = c1
  Socket = {s1, s2}
  Conv = {c1}
  ConvOf <- OneConv
  HasHandler = TRUE
  MaxMessages = 2
  MaxReplies = 2
INVARIANTS
  TypeOK
  SubscribedWhileServed
  NothingMissed
PROPERTIES
  ImplementsReplyFeed
  Reaches
  Unsubscribes
CHECK_DEADLOCK FALSE
