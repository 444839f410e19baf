-------------------------- MODULE GuardedExecution --------------------------
(***************************************************************************)
(* What the harness promises, whatever the orchestrator's interleavings:   *)
(* a side effect is carried out only for a request that was approved       *)
(* automatically and written to the audit log under the same action, tool  *)
(* and tier, and at most once; an action decided one way is never decided  *)
(* again.                                                                  *)
(***************************************************************************)
EXTENDS Harness, Sequences

CONSTANTS Action,   \* action ids
          ToolId    \* tool ids, "channel.send" among them

VARIABLES approved, \* requests the audit log says were approved
          held,     \* requests the audit log says wait for a reviewer
          executed  \* requests whose side effect was carried out, in order

vars == <<approved, held, executed>>

Request == [action: Action, tool: ToolId, tier: RiskTier]

Undecided(r) == \A s \in approved \cup held : s.action # r.action

Init == approved = {} /\ held = {} /\ executed = << >>

Approve(r) ==
  /\ Undecided(r) /\ r.tier \in {GREEN, YELLOW, ORANGE_A, ORANGE_B}
  /\ approved' = approved \cup {r}
  /\ UNCHANGED <<held, executed>>

Hold(r) ==
  /\ Undecided(r) /\ r.tier \in {ORANGE_C, RED}
  /\ held' = held \cup {r}
  /\ UNCHANGED <<approved, executed>>

Execute(r) ==
  /\ r \in approved
  /\ \A i \in DOMAIN executed : executed[i].action # r.action
  /\ executed' = Append(executed, r)
  /\ UNCHANGED <<approved, held>>

(* Only the requests a step adds can be the ones it decides or executes.   *)
Next ==
  \/ \E r \in approved' \ approved : Approve(r)
  \/ \E r \in held' \ held : Hold(r)
  \/ \E r \in approved : Execute(r)

Spec == Init /\ [][Next]_vars
=============================================================================
