SPECIFICATION Spec
CONSTANTS
  p1 = p1
  p2 = p2
  p3 = p3
  Proposal <- Proposals
  Reviewer = {"alice"}
  Nobody = Nobody
  NoRow = NoRow
  Entry <- Entries
  DimensionOf <- Dimensions
  Queries <- Listings
  Any = Any
  PageSize = 1
  TotalCap = 2
  MaxRows = 4
  MaxChanges = 2
INVARIANTS
  TypeOK
  AuditComplete
  ProposalsMissed
CHECK_DEADLOCK FALSE
