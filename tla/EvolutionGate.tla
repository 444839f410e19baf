--------------------------- MODULE EvolutionGate ---------------------------
(***************************************************************************)
(* The policy of EvolutionGate: which proposals are promoted without a     *)
(* reviewer.  Of a proposal only what the policy looks at is kept.         *)
(***************************************************************************)
EXTENDS Naturals

Risk     == {"low", "medium", "high", "critical"}
HighRisk == {"high", "critical"}

(* badcase: the evidence names the conversation a fix is for.              *)
SkillProposal ==
  [dimension: {"skill"}, risk: Risk, badcase: BOOLEAN, orangeRed: BOOLEAN]
MemoryProposal ==
  [dimension: {"memory"}, risk: Risk, badcase: BOOLEAN,
   piiDetected: BOOLEAN, piiKey: BOOLEAN]
ToolProposal ==
  [dimension: {"crm_tool"}, risk: Risk, badcase: BOOLEAN,
   first: BOOLEAN, writes: BOOLEAN, dryRuns: Nat]
Attributes == SkillProposal \cup MemoryProposal \cup ToolProposal

SkillNeedsReview(a)  == a.orangeRed \/ a.risk \in HighRisk
MemoryNeedsReview(a) == a.piiDetected \/ a.piiKey \/ a.risk \in HighRisk

(* Mutation: two successful dry runs are enough.                           *)
ToolNeedsReviewBelowTwo(a) == a.first \/ a.writes \/ a.dryRuns < 2

ToolNeedsReview(a)   == a.first \/ a.writes \/ a.dryRuns < 3

Policy(a) ==
  IF \/ a.dimension = "skill" /\ SkillNeedsReview(a)
     \/ a.dimension = "memory" /\ MemoryNeedsReview(a)
     \/ a.dimension = "crm_tool" /\ ToolNeedsReview(a)
  THEN "hitl_pending" ELSE "auto_promote"
=============================================================================
