------------------------------ MODULE Harness ------------------------------
(***************************************************************************)
(* The vocabulary of the harness layer: risk tiers and the guard's policy. *)
(***************************************************************************)
EXTENDS Naturals

GREEN    == 0
YELLOW   == 1
ORANGE_A == 2
ORANGE_B == 3
ORANGE_C == 4
RED      == 5

RiskTier == {GREEN, YELLOW, ORANGE_A, ORANGE_B, ORANGE_C, RED}

(* Mutation: the free-text tier falls among those approved automatically. *)
AutoTiersWithFreeText == {GREEN, YELLOW, ORANGE_A, ORANGE_B, ORANGE_C}

AutoTiers == {GREEN, YELLOW, ORANGE_A, ORANGE_B}

GuardDecision == {"auto_approved", "hitl_queued"}

(* ActionGuard trusts the worker's hint: the tier alone decides.           *)
Decision(tier) == IF tier \in AutoTiers THEN "auto_approved" ELSE "hitl_queued"
=============================================================================
