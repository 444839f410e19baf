--------------------------- MODULE MCAdminListings ---------------------------
(***************************************************************************)
(* Small instances of AdminListings.                                       *)
(***************************************************************************)
EXTENDS AdminListings

CONSTANTS p1, p2, p3

Proposals  == {p1, p2, p3}
Dimensions == [p \in Proposals |-> IF p = p3 THEN "memory" ELSE "skill"]

(* What the guard and the gate write, early and late.                      *)
Entries == {[actor |-> "action_guard", decision |-> "auto_approved", ts |-> 1],
            [actor |-> "action_guard", decision |-> "hitl_queued", ts |-> 2],
            [actor |-> "evolution_gate", decision |-> "hitl_pending", ts |-> 1]}

AuditAll == [table |-> "audit", actor |-> Any, decision |-> Any, since |-> Any, until |-> Any]
ProposalsAll == [table |-> "proposals", status |-> Any, dimension |-> Any]

Listings == {AuditAll, [AuditAll EXCEPT !.actor = "action_guard"],
             [AuditAll EXCEPT !.decision = "hitl_queued", !.since = 2],
             [AuditAll EXCEPT !.until = 1],
             ProposalsAll, [ProposalsAll EXCEPT !.status = "hitl_pending"],
             [ProposalsAll EXCEPT !.status = "hitl_pending", !.dimension = "skill"]}
=============================================================================
