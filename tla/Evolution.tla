----------------------------- MODULE Evolution -----------------------------
(***************************************************************************)
(* The evolution layer: drivers that take a proposal from its submission   *)
(* through the shadow replay and the gate to its handler or to the review  *)
(* queue, and reviewers who decide the queued ones over the admin API.     *)
(*                                                                         *)
(* No code of the repository drives the pipeline: the driver is whoever    *)
(* follows the contract the layer was handed over with, in the order the   *)
(* end-to-end tests call the components.  It is a coroutine that suspends  *)
(* only while it awaits the shadow replay (pc "shadow").  A proposal may   *)
(* be driven several times: a submission that failed or was cut off by a   *)
(* restart is submitted again.  Table, audit log, skills and L2 memory are *)
(* on disk.                                                                *)
(***************************************************************************)
EXTENDS ProposalStore, EvolutionGate, Sequences

CONSTANTS
  Run,         \* the drivers' runs
  ProposalOf,  \* the proposal each run drives
  Kinds,       \* what the proposals may be like
  AuditId,     \* the action id the gate's audit row has: "evo-" and 12 characters
  MaxRestarts  \* bound on the restarts of the process

ASSUME RunsAssumption     == ProposalOf \in [Run -> Proposal]
ASSUME KindsAssumption    == Kinds \subseteq Attributes
ASSUME RestartsAssumption == MaxRestarts \in Nat

VARIABLES
  kind,      \* the attributes of each proposal
  pc,        \* where each run stands
  shadow,    \* the verdict of its shadow replay
  gateRows,  \* the gate's rows in the audit log
  applied,   \* the runs whose handler changed skills, memory or tools
  verdicts,  \* the verdicts the admin API accepted, in order
  restarts   \* how often the process was restarted

table == <<rows, older>>
vars  == <<table, kind, pc, shadow, gateRows, applied, verdicts, restarts>>
-----------------------------------------------------------------------------
Running    == {"submitted", "blocked", "gate", "enqueue", "apply", "record"}
Suspended  == {"shadow"}
Terminated == {"done", "raised", "lost"}
LoopFree   == \A r \in Run : pc[r] \notin Running

(* Without a badcase conversation there is nothing to replay.  The differ  *)
(* is used without a badcase index and never finds that it remains.        *)
NotReplayed   == "none"
ReplayVerdict == {"badcase_fixed", "new_regression", "inconclusive"}

GateRow == [action: {AuditId[p] : p \in Proposal}, decision: GateDecision]

Goto(r, label) == pc' = [pc EXCEPT ![r] = label]

Init ==
  /\ rows = [p \in Proposal |-> NoRow] /\ older = {}
  /\ kind \in [Proposal -> Kinds]
  /\ pc = [r \in Run |-> "idle"]
  /\ shadow = [r \in Run |-> NotReplayed]
  /\ gateRows = {} /\ applied = {} /\ verdicts = << >> /\ restarts = 0

Submit(r) ==
  /\ pc[r] = "idle" /\ LoopFree
  /\ Save(ProposalOf[r], Fresh)
  /\ Goto(r, "submitted")
  /\ UNCHANGED <<kind, shadow, gateRows, applied, verdicts, restarts>>

(* The table refuses the proposal.                                         *)
SubmitRaises(r) ==
  /\ pc[r] = "idle" /\ LoopFree
  /\ Goto(r, "raised")
  /\ UNCHANGED <<table, kind, shadow, gateRows, applied, verdicts, restarts>>

StartShadow(r) ==
  /\ pc[r] = "submitted"
  /\ UpdateStatus(ProposalOf[r], "shadow_running")
  /\ Goto(r, IF kind[ProposalOf[r]].badcase THEN "shadow" ELSE "gate")
  /\ UNCHANGED <<kind, shadow, gateRows, applied, verdicts, restarts>>

(* Mutation: the replay is started over until it is conclusive.            *)
ShadowUntilConclusive(r) ==
  /\ pc[r] = "shadow" /\ LoopFree
  /\ \E v \in ReplayVerdict :
       /\ shadow' = [shadow EXCEPT ![r] = v]
       /\ Goto(r, IF v = "inconclusive" THEN "submitted" ELSE "gate")
  /\ UNCHANGED <<table, kind, gateRows, applied, verdicts, restarts>>

(* Only an inconclusive replay blocks the gate.                            *)
ShadowReturns(r) ==
  /\ pc[r] = "shadow" /\ LoopFree
  /\ \E v \in ReplayVerdict :
       /\ shadow' = [shadow EXCEPT ![r] = v]
       /\ Goto(r, IF v = "inconclusive" THEN "blocked" ELSE "gate")
  /\ UNCHANGED <<table, kind, gateRows, applied, verdicts, restarts>>

Block(r) ==
  /\ pc[r] = "blocked"
  /\ UpdateStatus(ProposalOf[r], "rejected")
  /\ Goto(r, "done")
  /\ UNCHANGED <<kind, shadow, gateRows, applied, verdicts, restarts>>

(* Mutation: the promotion is recorded without calling the handler.        *)
EvaluateAndRecord(r) ==
  /\ pc[r] = "gate"
  /\ LET p == ProposalOf[r] IN
       /\ gateRows' = gateRows \cup
            {[action |-> AuditId[p], decision |-> Policy(kind[p])]}
       /\ Goto(r, IF Policy(kind[p]) = "auto_promote" THEN "record" ELSE "enqueue")
  /\ UNCHANGED <<table, kind, shadow, applied, verdicts, restarts>>

(* EvolutionGate.evaluate: the decision is in the audit log before the     *)
(* driver learns of it.                                                    *)
Evaluate(r) ==
  /\ pc[r] = "gate"
  /\ LET p == ProposalOf[r] IN
       /\ gateRows' = gateRows \cup
            {[action |-> AuditId[p], decision |-> Policy(kind[p])]}
       /\ Goto(r, IF Policy(kind[p]) = "auto_promote" THEN "apply" ELSE "enqueue")
  /\ UNCHANGED <<table, kind, shadow, applied, verdicts, restarts>>

(* The driver enqueues the proposal as it was created.                     *)
EnqueueForReview(r) ==
  /\ pc[r] = "enqueue"
  /\ Enqueue(ProposalOf[r], Fresh)
  /\ Goto(r, "done")
  /\ UNCHANGED <<kind, shadow, gateRows, applied, verdicts, restarts>>

(* The handler of the proposal's dimension writes its skill file, memory   *)
(* entry or tool registration.                                             *)
Apply(r) ==
  /\ pc[r] = "apply"
  /\ applied' = applied \cup {r}
  /\ Goto(r, "record")
  /\ UNCHANGED <<table, kind, shadow, gateRows, verdicts, restarts>>

Record(r) ==
  /\ pc[r] = "record"
  /\ UpdateGateDecision(ProposalOf[r], "auto_promote", "auto_promoted")
  /\ Goto(r, "done")
  /\ UNCHANGED <<kind, shadow, gateRows, applied, verdicts, restarts>>

(* The replay, the audit log, the handler (an incomplete payload, no tool  *)
(* instance) or the table raises: the driver goes no further.              *)
Raises(r) ==
  /\ pc[r] \in Running \/ (pc[r] \in Suspended /\ LoopFree)
  /\ Goto(r, "raised")
  /\ UNCHANGED <<table, kind, shadow, gateRows, applied, verdicts, restarts>>
-----------------------------------------------------------------------------
Verdict(p, reviewer, approved) ==
  [proposal |-> p, reviewer |-> reviewer, approved |-> approved]

(* The admin API: approve and reject change the row, and nothing else.     *)
Approve(p, reviewer) ==
  /\ LoopFree
  /\ Decide(p, reviewer, "hitl_approved")
  /\ verdicts' = Append(verdicts, Verdict(p, reviewer, TRUE))
  /\ UNCHANGED <<kind, pc, shadow, gateRows, applied, restarts>>

Reject(p, reviewer) ==
  /\ LoopFree
  /\ Decide(p, reviewer, "rejected")
  /\ verdicts' = Append(verdicts, Verdict(p, reviewer, FALSE))
  /\ UNCHANGED <<kind, pc, shadow, gateRows, applied, restarts>>

Restart ==
  /\ restarts < MaxRestarts
  /\ restarts' = restarts + 1
  /\ pc' = [r \in Run |->
              IF pc[r] \in Running \cup Suspended THEN "lost" ELSE pc[r]]
  /\ UNCHANGED <<table, kind, shadow, gateRows, applied, verdicts>>

Step(r) ==
  \/ StartShadow(r) \/ ShadowReturns(r) \/ Block(r) \/ Evaluate(r)
  \/ EnqueueForReview(r) \/ Apply(r) \/ Record(r) \/ Raises(r)

Next ==
  \/ \E r \in Run : Submit(r) \/ SubmitRaises(r) \/ Step(r)
  \/ \E p \in Proposal, reviewer \in Reviewer :
       Approve(p, reviewer) \/ Reject(p, reviewer)
  \/ Restart

(* The event loop runs every runnable driver, and a replay ends: each of   *)
(* its messages is handled to an end (Conversation).                       *)
Fairness == \A r \in Run : WF_vars(Step(r))

Spec     == Init /\ [][Next]_vars
FairSpec == Spec /\ Fairness
-----------------------------------------------------------------------------
(* Every variable has its type.                                            *)
TypeOK ==
  /\ rows \in [Proposal -> Row \cup {NoRow}]
  /\ older \subseteq Proposal \X Proposal
  /\ kind \in [Proposal -> Kinds]
  /\ pc \in [Run -> {"idle"} \cup Running \cup Suspended \cup Terminated]
  /\ shadow \in [Run -> ReplayVerdict \cup {NotReplayed}]
  /\ gateRows \subseteq GateRow
  /\ applied \subseteq Run
  /\ verdicts \in Seq([proposal: Proposal, reviewer: Reviewer, approved: BOOLEAN])
  /\ restarts \in Nat

(* Personal data, order-changing skills, tools that write, are new or have *)
(* fewer than three successful dry runs, and high-risk skills and memory.  *)
Sensitive(a) ==
  \/ a.dimension = "skill" /\ (a.orangeRed \/ a.risk \in {"high", "critical"})
  \/ a.dimension = "memory" /\ (a.piiDetected \/ a.piiKey \/ a.risk \in {"high", "critical"})
  \/ a.dimension = "crm_tool" /\ (a.first \/ a.writes \/ a.dryRuns \in 0 .. 2)

Audited(p, decision) == [action |-> AuditId[p], decision |-> decision] \in gateRows

(* Nothing sensitive changes the system without a reviewer, nothing at all *)
(* without the gate's row in the audit log, and no fix whose replay was    *)
(* still running or inconclusive.                                          *)
AppliedCleared ==
  \A r \in applied :
    /\ ~Sensitive(kind[ProposalOf[r]])
    /\ Audited(ProposalOf[r], "auto_promote")
    /\ shadow[r] # "inconclusive"
    /\ kind[ProposalOf[r]].badcase => shadow[r] # NotReplayed

(* The last verdict on the proposal, if it has one, is v.                  *)
LastVerdict(p, v) ==
  \E i \in DOMAIN verdicts :
    /\ verdicts[i] = v
    /\ \A j \in DOMAIN verdicts : verdicts[j].proposal = p => j <= i

Explained(p) ==
  LET row == rows[p] IN
    /\ row.status = "auto_promoted" =>
         /\ \E r \in applied : ProposalOf[r] = p
         /\ row.gate = "auto_promote" /\ Audited(p, "auto_promote")
    /\ row.status = "hitl_pending"  => Audited(p, "hitl_pending")
    /\ row.status = "hitl_approved" => LastVerdict(p, Verdict(p, row.reviewer, TRUE))
    /\ row.status = "rejected" =>
         \/ LastVerdict(p, Verdict(p, row.reviewer, FALSE))
         \/ \E r \in Run : ProposalOf[r] = p /\ shadow[r] = "inconclusive"

(* The status column can be believed, however often a proposal is driven   *)
(* and whatever failed: promoted means applied under a gate row, waiting   *)
(* means that the gate asked for a reviewer, approved means that the last  *)
(* word is an approval of the reviewer in the row, and rejected that it is *)
(* a rejection of his or that a replay of the proposal was inconclusive.   *)
StatusExplained == \A p \in Stored : Explained(p)

Once == {p \in Proposal : \A r, s \in Run : ProposalOf[r] = p /\ ProposalOf[s] = p => r = s}

(* The verdict on a proposal that is driven once is final: it is the only  *)
(* one, and the row shows it and who gave it from then on.                 *)
VerdictStands ==
  \A i \in DOMAIN verdicts : LET v == verdicts[i] IN v.proposal \in Once =>
    /\ \A j \in DOMAIN verdicts : verdicts[j].proposal = v.proposal => j = i
    /\ v.proposal \in Stored
    /\ rows[v.proposal].reviewer = v.reviewer
    /\ rows[v.proposal].status = IF v.approved THEN "hitl_approved" ELSE "rejected"

(* A proposal is left half way only by a driver that failed or was lost.   *)
LimboMeansFailure ==
  \A p \in Stored :
    /\ rows[p].status \in {"pending", "shadow_running"}
    /\ \A r \in Run : ProposalOf[r] = p => pc[r] \in {"idle"} \cup Terminated
    => \E r \in Run : ProposalOf[r] = p /\ pc[r] \in {"raised", "lost"}

(* Every run of a driver ends.                                             *)
Settles ==
  \A r \in Run : pc[r] \in Running \cup Suspended ~> pc[r] \in Terminated

(* The table is a fair queue for reviewers, although it is one table for   *)
(* proposals of every status and is ordered by rowid alone.                *)
Queue == INSTANCE ReviewQueue WITH
           waiting <- Pending,
           ahead   <- Ahead

ImplementsReviewQueue == Queue!Spec
-----------------------------------------------------------------------------
(* What a document says and the code does not do.                          *)

(* "HITL approval (Admin UI calls this) ... handler.apply": what a         *)
(* reviewer approved is applied.                                           *)
ApprovedIsApplied ==
  \A p \in Proposal :
    (\E i \in DOMAIN verdicts : verdicts[i].proposal = p /\ verdicts[i].approved)
      ~> (\E r \in applied : ProposalOf[r] = p)
=============================================================================
