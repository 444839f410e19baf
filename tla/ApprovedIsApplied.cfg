SPECIFICATION FairSpec
CONSTANTS
  r1 = r1
  r2 = r2
  r3 = r3
  p1 = p1
  p2 = p2
  p3 = p3
  Run <- Runs
  Proposal = {p1, p2, p3}
  ProposalOf <- DrivenOnce
  Reviewer = {"ann", "bob"}
  Nobody = Nobody
  NoRow = NoRow
  Kinds <- FewKinds
  AuditId <- OneAuditId
  MaxRestarts = 0
PROPERTIES
  ApprovedIsApplied
CHECK_DEADLOCK FALSE
