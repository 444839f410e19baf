---------------------------- MODULE MCEvolution ----------------------------
(***************************************************************************)
(* Small instances of Evolution: one proposal driven twice and one once,   *)
(* or three proposals driven once each.                                    *)
(***************************************************************************)
EXTENDS Evolution

CONSTANTS r1, r2, r3, p1, p2, p3

Runs   == {r1, r2, r3}
Driven == [r \in Runs |-> IF r = r3 THEN p2 ELSE p1]
(* Every proposal is driven once.                                          *)
DrivenOnce == [r \in Runs |-> CASE r = r1 -> p1 [] r = r2 -> p2 [] r = r3 -> p3]
(* Ids that agree in their first twelve characters share an audit id.      *)
OneAuditId == [p \in {p1, p2, p3} |-> "evo-prop-approve"]

Skill(risk, badcase) ==
  [dimension |-> "skill", risk |-> risk, badcase |-> badcase, orangeRed |-> FALSE]
Memory(key) ==
  [dimension |-> "memory", risk |-> "medium", badcase |-> FALSE,
   piiDetected |-> FALSE, piiKey |-> key]
CrmTool(dryRuns) ==
  [dimension |-> "crm_tool", risk |-> "low", badcase |-> FALSE,
   first |-> FALSE, writes |-> FALSE, dryRuns |-> dryRuns]

SomeKinds == {Skill("low", TRUE), Skill("high", TRUE), Memory(FALSE), Memory(TRUE),
              CrmTool(2), CrmTool(3)}
FewKinds == {Skill("low", TRUE), Memory(TRUE)}
=============================================================================
