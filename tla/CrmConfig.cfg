SPECIFICATION Spec
CONSTANTS
  Wizard = {w1}
  Op = {"getOrder", "refund"}
  NoId = NoId
  NoPaths = NoPaths
  Schemas <- Documents
  Empty = Empty
  NoResult = NoResult
  NoConfig = NoConfig
  Call = {c1, c2}
INVARIANTS
  TypeOK
  StraightIsDetected
SYMMETRY Calls
CHECK_DEADLOCK FALSE
