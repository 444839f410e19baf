SPECIFICATION FairSpec
CONSTANTS
  r1 = r1
  r2 = r2
  r3 = r3
  p1 = p1
  p2 = p2
  p3 = p3
  Run <- Runs
  Proposal = {p1, p2}
  ProposalOf <- Driven
  Reviewer = {"ann", "bob"}
  Nobody = Nobody
  NoRow = NoRow
  Kinds <- SomeKinds
  AuditId <- OneAuditId
  MaxRestarts = 1
INVARIANTS
  TypeOK
  AppliedCleared
  StatusExplained
  VerdictStands
  LimboMeansFailure
PROPERTIES
  ImplementsReviewQueue
  Settles
CHECK_DEADLOCK FALSE
