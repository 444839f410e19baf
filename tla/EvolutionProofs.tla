-------------------------- MODULE EvolutionProofs --------------------------
(***************************************************************************)
(* Proofs about Evolution, for any proposals, runs, kinds, audit ids and   *)
(* number of restarts.                                                     *)
(***************************************************************************)
EXTENDS Evolution, TLAPS

Active == Running \cup Suspended

(* The gate's policy promotes nothing sensitive (EvolutionGate._policy).   *)
LEMMA PolicySound ==
  ASSUME NEW a \in Attributes, Policy(a) = "auto_promote"
  PROVE  ~Sensitive(a)
<1>1. CASE a \in SkillProposal
  BY <1>1 DEF SkillProposal, Policy, SkillNeedsReview, Sensitive, HighRisk
<1>2. CASE a \in MemoryProposal
  BY <1>2 DEF MemoryProposal, Policy, MemoryNeedsReview, Sensitive, HighRisk
<1>3. CASE a \in ToolProposal
  BY <1>3 DEF ToolProposal, Policy, ToolNeedsReview, Sensitive
<1> QED BY <1>1, <1>2, <1>3 DEF Attributes

LEMMA PolicyType == \A a : Policy(a) \in GateDecision
BY DEF Policy, GateDecision

(* A run that a step is about drives one of the proposals.                 *)
LEMMA DrivesProposal == \A r \in Run : ProposalOf[r] \in Proposal
BY RunsAssumption
-----------------------------------------------------------------------------
(* Type correctness.                                                       *)
LEMMA SaveType ==
  ASSUME TypeOK, NEW p \in Proposal, NEW row \in Row, Save(p, row)
  PROVE  /\ rows' \in [Proposal -> Row \cup {NoRow}]
         /\ older' \subseteq Proposal \X Proposal
BY DEF TypeOK, Save, Stored

LEMMA UpdateStatusType ==
  ASSUME TypeOK, NEW p \in Proposal, NEW s \in Status, UpdateStatus(p, s)
  PROVE  /\ rows' \in [Proposal -> Row \cup {NoRow}]
         /\ older' \subseteq Proposal \X Proposal
<1>1. older' \subseteq Proposal \X Proposal
  BY DEF TypeOK, UpdateStatus
<1>2. CASE p \in Stored
  <2>1. rows[p] \in Row
    BY <1>2 DEF TypeOK, Stored
  <2>2. [rows[p] EXCEPT !.status = s] \in Row
    BY <2>1 DEF Row
  <2> QED BY <1>1, <1>2, <2>2 DEF TypeOK, UpdateStatus
<1>3. CASE p \notin Stored
  BY <1>1, <1>3 DEF TypeOK, UpdateStatus
<1> QED BY <1>2, <1>3

LEMMA UpdateGateType ==
  ASSUME TypeOK, NEW p \in Proposal, NEW g \in GateDecision, NEW s \in Status,
         UpdateGateDecision(p, g, s)
  PROVE  /\ rows' \in [Proposal -> Row \cup {NoRow}]
         /\ older' \subseteq Proposal \X Proposal
<1>1. [status |-> s, gate |-> g, reviewer |-> Nobody] \in Row
  BY DEF Row
<1> QED BY <1>1 DEF TypeOK, UpdateGateDecision

LEMMA FreshType == Fresh \in Row /\ [Fresh EXCEPT !.status = "hitl_pending"] \in Row
BY DEF Fresh, Row, Status

LEMMA InitType == Init => TypeOK
<1> SUFFICES ASSUME Init PROVE TypeOK
  OBVIOUS
<1>1. verdicts \in Seq([proposal: Proposal, reviewer: Reviewer, approved: BOOLEAN])
  BY DEF Init
<1> QED BY <1>1 DEF Init, TypeOK

LEMMA DriverType ==
  ASSUME TypeOK, NEW r \in Run, Submit(r) \/ SubmitRaises(r) \/ Step(r)
  PROVE  TypeOK'
<1> DEFINE p == ProposalOf[r]
<1>0. p \in Proposal
  BY DrivesProposal
<1>k. kind' = kind /\ verdicts' = verdicts /\ restarts' = restarts
  BY DEF Submit, SubmitRaises, Step, StartShadow, ShadowReturns, Block,
         Evaluate, EnqueueForReview, Apply, Record, Raises, table
<1>1. /\ rows' \in [Proposal -> Row \cup {NoRow}]
      /\ older' \subseteq Proposal \X Proposal
  <2>1. CASE Submit(r)
    BY <2>1, <1>0, SaveType, FreshType DEF Submit
  <2>2. CASE StartShadow(r)
    BY <2>2, <1>0, UpdateStatusType DEF StartShadow, Status
  <2>3. CASE Block(r)
    BY <2>3, <1>0, UpdateStatusType DEF Block, Status
  <2>4. CASE EnqueueForReview(r)
    BY <2>4, <1>0, SaveType, FreshType DEF EnqueueForReview, Enqueue
  <2>5. CASE Record(r)
    BY <2>5, <1>0, UpdateGateType DEF Record, Status, GateDecision
  <2>6. CASE SubmitRaises(r) \/ ShadowReturns(r) \/ Evaluate(r) \/ Apply(r) \/ Raises(r)
    BY <2>6 DEF TypeOK, SubmitRaises, ShadowReturns, Evaluate, Apply, Raises, table
  <2> QED BY <2>1, <2>2, <2>3, <2>4, <2>5, <2>6 DEF Step
<1>2. pc' \in [Run -> {"idle"} \cup Running \cup Suspended \cup Terminated]
  BY DEF TypeOK, Submit, SubmitRaises, Step, StartShadow, ShadowReturns, Block,
         Evaluate, EnqueueForReview, Apply, Record, Raises, Goto,
         Running, Suspended, Terminated
<1>3. shadow' \in [Run -> ReplayVerdict \cup {NotReplayed}]
  BY DEF TypeOK, Submit, SubmitRaises, Step, StartShadow, ShadowReturns, Block,
         Evaluate, EnqueueForReview, Apply, Record, Raises
<1>4. gateRows' \subseteq GateRow
  <2>1. [action |-> AuditId[p], decision |-> Policy(kind[p])] \in GateRow
    BY <1>0, PolicyType DEF GateRow
  <2> QED BY <2>1 DEF TypeOK, Submit, SubmitRaises, Step, StartShadow, ShadowReturns,
         Block, Evaluate, EnqueueForReview, Apply, Record, Raises
<1>5. applied' \subseteq Run
  BY DEF TypeOK, Submit, SubmitRaises, Step, StartShadow, ShadowReturns, Block,
         Evaluate, EnqueueForReview, Apply, Record, Raises
<1> QED BY <1>k, <1>1, <1>2, <1>3, <1>4, <1>5 DEF TypeOK

LEMMA VerdictType ==
  ASSUME TypeOK, NEW p \in Proposal, NEW reviewer \in Reviewer,
         Approve(p, reviewer) \/ Reject(p, reviewer)
  PROVE  TypeOK'
<1>1. p \in Pending /\ rows[p] \in Row
  BY DEF Approve, Reject, Decide, Pending, Stored, TypeOK
<1>2. PICK s \in {"hitl_approved", "rejected"} : Decide(p, reviewer, s)
  BY DEF Approve, Reject
<1>3. [rows[p] EXCEPT !.status = s, !.reviewer = reviewer] \in Row
  BY <1>1, <1>2 DEF Row, Status
<1>4. /\ rows' \in [Proposal -> Row \cup {NoRow}]
      /\ older' \subseteq Proposal \X Proposal
  BY <1>2, <1>3, SaveType DEF Decide
<1>5. verdicts' \in Seq([proposal: Proposal, reviewer: Reviewer, approved: BOOLEAN])
  <2>1. PICK b \in BOOLEAN : verdicts' = Append(verdicts, Verdict(p, reviewer, b))
    BY DEF Approve, Reject
  <2>2. Verdict(p, reviewer, b) \in [proposal: Proposal, reviewer: Reviewer, approved: BOOLEAN]
    BY DEF Verdict
  <2> QED BY <2>1, <2>2 DEF TypeOK
<1> QED BY <1>4, <1>5 DEF TypeOK, Approve, Reject

LEMMA RestartType == TypeOK /\ Restart => TypeOK'
<1> SUFFICES ASSUME TypeOK, Restart PROVE TypeOK'
  OBVIOUS
<1>1. pc' \in [Run -> {"idle"} \cup Running \cup Suspended \cup Terminated]
  BY DEF TypeOK, Restart, Running, Suspended, Terminated
<1> QED BY <1>1 DEF TypeOK, Restart, table

LEMMA NextType == TypeOK /\ [Next]_vars => TypeOK'
<1> SUFFICES ASSUME TypeOK, [Next]_vars PROVE TypeOK'
  OBVIOUS
<1>1. CASE UNCHANGED vars
  BY <1>1 DEF TypeOK, vars, table
<1> QED BY <1>1, DriverType, VerdictType, RestartType DEF Next

(* Every variable keeps its type: rows stay rows of the table, and the     *)
(* audit log holds gate rows only (ProposalStore, EvolutionGate).          *)
THEOREM TypeCorrect == Spec => []TypeOK
BY InitType, NextType, PTL DEF Spec
-----------------------------------------------------------------------------
(* Where a run stands says what its replay and the gate found.             *)
Replayed ==
  \A r \in Run :
    /\ pc[r] \in {"idle", "submitted", "shadow"} => shadow[r] = NotReplayed
    /\ pc[r] = "blocked" => shadow[r] = "inconclusive"
    /\ pc[r] \in {"gate", "enqueue", "apply", "record"} =>
         /\ shadow[r] # "inconclusive"
         /\ kind[ProposalOf[r]].badcase => shadow[r] # NotReplayed

Gated ==
  \A r \in Run :
    /\ pc[r] = "enqueue" => Audited(ProposalOf[r], "hitl_pending")
    /\ pc[r] = "apply"   => /\ Audited(ProposalOf[r], "auto_promote")
                            /\ ~Sensitive(kind[ProposalOf[r]])
    /\ pc[r] = "record"  => r \in applied

(* A run past its handler has no replay before it.                         *)
AppliedPast == \A r \in applied : pc[r] \in {"record"} \cup Terminated

(* A proposal that is half way is the business of some run.                *)
LimboDriven ==
  \A p \in Stored : rows[p].status \in {"pending", "shadow_running"} =>
    \E r \in Run : ProposalOf[r] = p /\ pc[r] \in Active \cup {"raised", "lost"}

RunInv == TypeOK /\ Replayed /\ Gated /\ AppliedPast /\ AppliedCleared
IInv   == RunInv /\ StatusExplained /\ LimboDriven

(* Reviewers and restarts leave what the runs have found alone.            *)
LEMMA OtherFacts ==
  ASSUME NEW p \in Proposal, NEW reviewer \in Reviewer,
         Approve(p, reviewer) \/ Reject(p, reviewer) \/ Restart
  PROVE  kind' = kind /\ shadow' = shadow /\ gateRows' = gateRows /\ applied' = applied
BY DEF Approve, Reject, Restart

LEMMA GateGrows ==
  ASSUME NEW r \in Run, Submit(r) \/ SubmitRaises(r) \/ Step(r)
  PROVE  kind' = kind /\ gateRows \subseteq gateRows' /\ applied \subseteq applied'
BY DEF Submit, SubmitRaises, Step, StartShadow, ShadowReturns, Block, Evaluate,
       EnqueueForReview, Apply, Record, Raises, table

LEMMA OtherRuns ==
  ASSUME TypeOK, NEW r \in Run, Submit(r) \/ SubmitRaises(r) \/ Step(r),
         NEW s \in Run, s # r
  PROVE  pc'[s] = pc[s] /\ shadow'[s] = shadow[s] /\ (s \in applied' <=> s \in applied)
BY DEF TypeOK, Submit, SubmitRaises, Step, StartShadow, ShadowReturns, Block, Evaluate,
       EnqueueForReview, Apply, Record, Raises, Goto

(* A step of a run, seen from its label.                                   *)
LEMMA OwnReplay ==
  ASSUME TypeOK, Replayed, NEW r \in Run, Submit(r) \/ SubmitRaises(r) \/ Step(r)
  PROVE  /\ pc'[r] \in {"idle", "submitted", "shadow"} => shadow'[r] = NotReplayed
         /\ pc'[r] = "blocked" => shadow'[r] = "inconclusive"
         /\ pc'[r] \in {"gate", "enqueue", "apply", "record"} =>
              /\ shadow'[r] # "inconclusive"
              /\ kind[ProposalOf[r]].badcase => shadow'[r] # NotReplayed
<1>1. CASE ShadowReturns(r)
  BY <1>1 DEF TypeOK, ShadowReturns, Goto, ReplayVerdict, NotReplayed
<1>2. CASE StartShadow(r)
  BY <1>2 DEF TypeOK, Replayed, StartShadow, Goto, NotReplayed
<1>3. CASE Submit(r) \/ SubmitRaises(r) \/ Block(r) \/ Raises(r)
  BY <1>3 DEF TypeOK, Replayed, Submit, SubmitRaises, Block, Raises, Goto
<1>4. CASE Evaluate(r) \/ EnqueueForReview(r) \/ Apply(r) \/ Record(r)
  BY <1>4 DEF TypeOK, Replayed, Evaluate, EnqueueForReview, Apply, Record, Goto
<1> QED BY <1>1, <1>2, <1>3, <1>4 DEF Step

LEMMA OwnGate ==
  ASSUME TypeOK, Gated, NEW r \in Run, Submit(r) \/ SubmitRaises(r) \/ Step(r)
  PROVE  /\ pc'[r] = "enqueue" => Audited(ProposalOf[r], "hitl_pending")'
         /\ pc'[r] = "apply"   => /\ Audited(ProposalOf[r], "auto_promote")'
                                  /\ ~Sensitive(kind[ProposalOf[r]])
         /\ pc'[r] = "record"  => r \in applied'
<1>1. CASE Evaluate(r)
  <2> DEFINE a == kind[ProposalOf[r]]
  <2>1. a \in Attributes
    BY DrivesProposal, KindsAssumption DEF TypeOK
  <2>2. Policy(a) = "auto_promote" => ~Sensitive(a)
    BY <2>1, PolicySound
  <2>3. pc'[r] = IF Policy(a) = "auto_promote" THEN "apply" ELSE "enqueue"
    BY <1>1 DEF TypeOK, Evaluate, Goto
  <2>4. [action |-> AuditId[ProposalOf[r]], decision |-> Policy(a)] \in gateRows'
    BY <1>1 DEF Evaluate
  <2> QED BY <2>2, <2>3, <2>4, PolicyType DEF Audited, GateDecision
<1>2. CASE Apply(r)
  BY <1>2 DEF TypeOK, Apply, Goto
<1>3. CASE Submit(r) \/ SubmitRaises(r) \/ Block(r) \/ Raises(r)
  BY <1>3 DEF TypeOK, Submit, SubmitRaises, Block, Raises, Goto
<1>4. CASE StartShadow(r) \/ ShadowReturns(r) \/ EnqueueForReview(r) \/ Record(r)
  BY <1>4 DEF TypeOK, StartShadow, ShadowReturns, EnqueueForReview, Record, Goto
<1> QED BY <1>1, <1>2, <1>3, <1>4 DEF Step

(* The handler runs only behind the gate, and its run never replays again. *)
LEMMA OwnApplied ==
  ASSUME RunInv, NEW r \in Run, Submit(r) \/ SubmitRaises(r) \/ Step(r), r \in applied'
  PROVE  /\ pc'[r] \in {"record"} \cup Terminated
         /\ ~Sensitive(kind[ProposalOf[r]])
         /\ Audited(ProposalOf[r], "auto_promote")
         /\ shadow'[r] # "inconclusive"
         /\ kind[ProposalOf[r]].badcase => shadow'[r] # NotReplayed
<1>1. CASE Apply(r)
  <2>1. pc[r] = "apply" /\ pc'[r] = "record" /\ shadow' = shadow
    BY <1>1 DEF RunInv, TypeOK, Apply, Goto
  <2> QED BY <2>1 DEF RunInv, Gated, Replayed
<1>2. CASE ~Apply(r)
  <2>1. r \in applied
    BY <1>2 DEF Submit, SubmitRaises, Step, StartShadow, ShadowReturns, Block, Evaluate,
                EnqueueForReview, Record, Raises
  <2>2. pc[r] \in {"record"} \cup Terminated
    BY <2>1 DEF RunInv, AppliedPast
  <2>3. Record(r) \/ Raises(r)
    BY <1>2, <2>2 DEF Submit, SubmitRaises, Step, StartShadow, ShadowReturns, Block, Evaluate,
                EnqueueForReview, Record, Raises, Terminated
  <2>4. shadow' = shadow /\ pc'[r] \in Terminated
    BY <2>3 DEF RunInv, TypeOK, Record, Raises, Goto, Terminated
  <2> QED BY <2>1, <2>4 DEF RunInv, AppliedCleared
<1> QED BY <1>1, <1>2

LEMMA DriverRunInv ==
  ASSUME RunInv, NEW r \in Run, Submit(r) \/ SubmitRaises(r) \/ Step(r)
  PROVE  RunInv'
<1>t. TypeOK
  BY DEF RunInv
<1>1. TypeOK'
  BY <1>t, DriverType
<1>2. kind' = kind /\ gateRows \subseteq gateRows' /\ applied \subseteq applied'
  BY GateGrows
<1>3. Replayed'
  <2> SUFFICES ASSUME NEW s \in Run
               PROVE  /\ pc'[s] \in {"idle", "submitted", "shadow"} => shadow'[s] = NotReplayed
                      /\ pc'[s] = "blocked" => shadow'[s] = "inconclusive"
                      /\ pc'[s] \in {"gate", "enqueue", "apply", "record"} =>
                           /\ shadow'[s] # "inconclusive"
                           /\ kind[ProposalOf[s]].badcase => shadow'[s] # NotReplayed
    BY <1>2 DEF Replayed, NotReplayed
  <2>1. CASE s = r
    BY <2>1, <1>t, OwnReplay DEF RunInv
  <2>2. CASE s # r
    BY <2>2, <1>t, OtherRuns DEF RunInv, Replayed
  <2> QED BY <2>1, <2>2
<1>4. Gated'
  <2> SUFFICES ASSUME NEW s \in Run
               PROVE  /\ pc'[s] = "enqueue" => Audited(ProposalOf[s], "hitl_pending")'
                      /\ pc'[s] = "apply"   => /\ Audited(ProposalOf[s], "auto_promote")'
                                               /\ ~Sensitive(kind[ProposalOf[s]])
                      /\ pc'[s] = "record"  => s \in applied'
    BY <1>2 DEF Gated, Sensitive
  <2>1. CASE s = r
    BY <2>1, <1>t, OwnGate DEF RunInv
  <2>2. CASE s # r
    BY <2>2, <1>t, <1>2, OtherRuns DEF RunInv, Gated, Audited
  <2> QED BY <2>1, <2>2
<1>5. AppliedPast' /\ AppliedCleared'
  <2> SUFFICES ASSUME NEW s \in applied'
               PROVE  /\ pc'[s] \in {"record"} \cup Terminated
                      /\ ~Sensitive(kind[ProposalOf[s]])
                      /\ Audited(ProposalOf[s], "auto_promote")'
                      /\ shadow'[s] # "inconclusive"
                      /\ kind[ProposalOf[s]].badcase => shadow'[s] # NotReplayed
    BY <1>2 DEF AppliedPast, AppliedCleared, Terminated, NotReplayed, Sensitive
  <2>0. s \in Run
    BY <1>1 DEF TypeOK
  <2>1. CASE s = r
    BY <2>1, <1>2, OwnApplied DEF Audited
  <2>2. CASE s # r
    BY <2>0, <2>2, <1>t, <1>2, OtherRuns DEF RunInv, AppliedPast, AppliedCleared, Audited
  <2> QED BY <2>1, <2>2
<1> QED BY <1>1, <1>3, <1>4, <1>5 DEF RunInv

LEMMA VerdictRunInv ==
  ASSUME RunInv, NEW p \in Proposal, NEW reviewer \in Reviewer,
         Approve(p, reviewer) \/ Reject(p, reviewer)
  PROVE  RunInv'
<1>1. TypeOK'
  BY VerdictType DEF RunInv
<1>2. UNCHANGED <<kind, shadow, gateRows, applied, pc>>
  BY DEF Approve, Reject
<1> QED BY <1>1, <1>2 DEF RunInv, Replayed, Gated, AppliedPast, AppliedCleared, Audited, Sensitive

LEMMA RestartRunInv == RunInv /\ Restart => RunInv'
<1> SUFFICES ASSUME RunInv, Restart PROVE RunInv'
  OBVIOUS
<1>1. TypeOK'
  BY RestartType DEF RunInv
<1>2. UNCHANGED <<kind, shadow, gateRows, applied>>
  BY DEF Restart
<1>3. \A r \in Run : pc'[r] = pc[r] \/ pc'[r] = "lost"
  BY DEF Restart
<1>4. Replayed' /\ AppliedPast'
  BY <1>1, <1>2, <1>3 DEF RunInv, TypeOK, Replayed, AppliedPast, Terminated
<1>5. Gated'
  BY <1>2, <1>3 DEF RunInv, Gated, Audited, Sensitive
<1>6. AppliedCleared'
  BY <1>2 DEF RunInv, AppliedCleared, Audited, Sensitive
<1> QED BY <1>1, <1>4, <1>5, <1>6 DEF RunInv

LEMMA RunInvariance == Spec => []RunInv
<1>1. Init => RunInv
  BY InitType DEF Init, RunInv, Replayed, Gated, AppliedPast, AppliedCleared
<1>2. RunInv /\ [Next]_vars => RunInv'
  <2> SUFFICES ASSUME RunInv, [Next]_vars PROVE RunInv'
    OBVIOUS
  <2>1. CASE UNCHANGED vars
    BY <2>1, NextType DEF vars, RunInv, Replayed, Gated, AppliedPast, AppliedCleared,
                Audited, Sensitive
  <2> QED BY <2>1, DriverRunInv, VerdictRunInv, RestartRunInv DEF Next
<1> QED BY <1>1, <1>2, PTL DEF Spec

(* Skills, memory and tools are changed only under the gate's audited      *)
(* decision, never for a sensitive proposal and never around an            *)
(* inconclusive or missing replay (EvolutionGate.evaluate, handlers).      *)
THEOREM AppliedAreCleared == Spec => []AppliedCleared
BY RunInvariance, PTL DEF RunInv
-----------------------------------------------------------------------------
(* The status column.                                                      *)

(* A step of a run changes no row but that of its proposal.                *)
LEMMA OneRow ==
  ASSUME TypeOK, NEW r \in Run, Submit(r) \/ SubmitRaises(r) \/ Step(r),
         NEW q \in Proposal, q # ProposalOf[r]
  PROVE  rows'[q] = rows[q]
<1>1. CASE Submit(r) \/ EnqueueForReview(r)
  BY <1>1 DEF TypeOK, Submit, EnqueueForReview, Enqueue, Save
<1>2. CASE StartShadow(r) \/ Block(r)
  BY <1>2 DEF TypeOK, StartShadow, Block, UpdateStatus
<1>3. CASE Record(r)
  BY <1>3 DEF TypeOK, Record, UpdateGateDecision
<1>4. CASE SubmitRaises(r) \/ ShadowReturns(r) \/ Evaluate(r) \/ Apply(r) \/ Raises(r)
  BY <1>4 DEF SubmitRaises, ShadowReturns, Evaluate, Apply, Raises, table
<1> QED BY <1>1, <1>2, <1>3, <1>4 DEF Step

LEMMA SavedRow ==
  ASSUME TypeOK, NEW p \in Proposal, NEW row \in Row, Save(p, row)
  PROVE  rows'[p] = row
BY DEF TypeOK, Save

LEMMA UpdatedRow ==
  ASSUME TypeOK, NEW p \in Proposal, NEW s \in Status, UpdateStatus(p, s), p \in Stored'
  PROVE  p \in Stored /\ rows'[p].status = s
<1>1. p \in Stored
  BY DEF UpdateStatus, Stored
<1>2. rows[p] \in Row
  BY <1>1 DEF TypeOK, Stored
<1>3. rows'[p] = [rows[p] EXCEPT !.status = s]
  BY <1>1 DEF TypeOK, UpdateStatus
<1> QED BY <1>1, <1>2, <1>3 DEF Row

(* An inconclusive replay is never forgotten.                              *)
LEMMA InconclusiveKept ==
  ASSUME RunInv, NEW r \in Run, Submit(r) \/ SubmitRaises(r) \/ Step(r),
         NEW s \in Run, shadow[s] = "inconclusive"
  PROVE  shadow'[s] = "inconclusive"
<1>1. CASE ShadowReturns(r)
  BY <1>1 DEF RunInv, TypeOK, Replayed, ShadowReturns, NotReplayed
<1>2. CASE ~ShadowReturns(r)
  BY <1>2 DEF Submit, SubmitRaises, Step, StartShadow, Block, Evaluate,
              EnqueueForReview, Apply, Record, Raises
<1> QED BY <1>1, <1>2

LEMMA SameRowExplained ==
  ASSUME RunInv, NEW r \in Run, Submit(r) \/ SubmitRaises(r) \/ Step(r),
         NEW q \in Proposal, rows'[q] = rows[q], Explained(q)
  PROVE  Explained(q)'
<1>1. gateRows \subseteq gateRows' /\ applied \subseteq applied'
  BY GateGrows
<1>2. verdicts' = verdicts
  BY DEF Submit, SubmitRaises, Step, StartShadow, ShadowReturns, Block, Evaluate,
         EnqueueForReview, Apply, Record, Raises
<1>3. \A s \in Run : shadow[s] = "inconclusive" => shadow'[s] = "inconclusive"
  BY InconclusiveKept
<1> QED BY <1>1, <1>2, <1>3 DEF Explained, Audited, LastVerdict, Verdict

LEMMA OwnExplained ==
  ASSUME RunInv, NEW r \in Run, Submit(r) \/ SubmitRaises(r) \/ Step(r),
         ProposalOf[r] \in Stored', StatusExplained
  PROVE  Explained(ProposalOf[r])'
<1> DEFINE p == ProposalOf[r]
<1>t. p \in Proposal /\ TypeOK /\ r \in Run
  BY DrivesProposal DEF RunInv
<1>1. CASE Submit(r)
  <2>1. rows'[p] = Fresh
    BY <1>1, <1>t, SavedRow, FreshType DEF Submit
  <2> QED BY <2>1 DEF Explained, Fresh
<1>2. CASE StartShadow(r)
  <2>1. rows'[p].status = "shadow_running"
    BY <1>2, <1>t, UpdatedRow DEF StartShadow, Status
  <2> QED BY <2>1 DEF Explained
<1>3. CASE Block(r)
  <2>1. rows'[p].status = "rejected"
    BY <1>3, <1>t, UpdatedRow DEF Block, Status
  <2>2. shadow'[r] = "inconclusive"
    BY <1>3 DEF Block, RunInv, Replayed
  <2> QED BY <2>1, <2>2 DEF Explained
<1>4. CASE EnqueueForReview(r)
  <2>1. rows'[p].status = "hitl_pending"
    BY <1>4, <1>t, SavedRow, FreshType DEF EnqueueForReview, Enqueue, Fresh
  <2>2. Audited(p, "hitl_pending")'
    BY <1>4 DEF EnqueueForReview, RunInv, Gated, Audited
  <2> QED BY <2>1, <2>2 DEF Explained
<1>5. CASE Record(r)
  <2>1. r \in applied /\ Audited(p, "auto_promote")
    BY <1>5 DEF Record, RunInv, Gated, AppliedCleared
  <2>2. applied' = applied /\ Audited(p, "auto_promote")'
    BY <1>5, <2>1 DEF Record, Audited
  <2>3. p \in Stored
    BY <1>5 DEF Record, UpdateGateDecision, Stored
  <2>4. rows'[p] = [status |-> "auto_promoted", gate |-> "auto_promote", reviewer |-> Nobody]
    BY <1>5, <1>t, <2>3 DEF TypeOK, Record, UpdateGateDecision
  <2> QED BY <2>1, <2>2, <2>4 DEF Explained
<1>6. CASE SubmitRaises(r) \/ ShadowReturns(r) \/ Evaluate(r) \/ Apply(r) \/ Raises(r)
  <2>1. rows' = rows
    BY <1>6 DEF SubmitRaises, ShadowReturns, Evaluate, Apply, Raises, table
  <2>2. Explained(p)
    BY <2>1 DEF Stored, StatusExplained
  <2> QED BY <1>t, <2>1, <2>2, SameRowExplained
<1> QED BY <1>1, <1>2, <1>3, <1>4, <1>5, <1>6 DEF Step

LEMMA DriverExplained ==
  ASSUME RunInv, StatusExplained, NEW r \in Run, Submit(r) \/ SubmitRaises(r) \/ Step(r)
  PROVE  StatusExplained'
<1> SUFFICES ASSUME NEW q \in Stored' PROVE Explained(q)'
  BY DEF StatusExplained
<1>1. CASE q = ProposalOf[r]
  BY <1>1, OwnExplained
<1>2. CASE q # ProposalOf[r]
  <2>1. q \in Proposal /\ rows'[q] = rows[q]
    BY <1>2, OneRow DEF RunInv, Stored
  <2>2. Explained(q)
    BY <2>1 DEF Stored, StatusExplained
  <2> QED BY <2>1, <2>2, SameRowExplained
<1> QED BY <1>1, <1>2

(* The verdict just given is the last one on its proposal, and the last    *)
(* ones on the others stay so.                                             *)
LEMMA AppendedLast ==
  ASSUME TypeOK, NEW p \in Proposal, NEW reviewer \in Reviewer, NEW b \in BOOLEAN,
         verdicts' = Append(verdicts, Verdict(p, reviewer, b))
  PROVE  /\ LastVerdict(p, Verdict(p, reviewer, b))'
         /\ \A q \in Proposal \ {p} : \A v : LastVerdict(q, v) => LastVerdict(q, v)'
<1> DEFINE w == Verdict(p, reviewer, b)
           Verdicts == [proposal: Proposal, reviewer: Reviewer, approved: BOOLEAN]
<1>1. verdicts \in Seq(Verdicts) /\ w \in Verdicts
  BY DEF TypeOK, Verdict
<1>2. /\ DOMAIN verdicts = 1 .. Len(verdicts) /\ Len(verdicts) \in Nat
      /\ DOMAIN verdicts' = 1 .. Len(verdicts) + 1
      /\ verdicts'[Len(verdicts) + 1] = w
      /\ \A i \in 1 .. Len(verdicts) : verdicts'[i] = verdicts[i]
  BY <1>1
<1>3. LastVerdict(p, w)'
  BY <1>2 DEF LastVerdict
<1>4. ASSUME NEW q \in Proposal \ {p}, NEW v, LastVerdict(q, v)
      PROVE  LastVerdict(q, v)'
  <2>1. PICK i \in DOMAIN verdicts :
          verdicts[i] = v /\ \A j \in DOMAIN verdicts : verdicts[j].proposal = q => j <= i
    BY <1>4 DEF LastVerdict
  <2>2. w.proposal # q
    BY <1>4 DEF Verdict
  <2>3. i \in DOMAIN verdicts' /\ verdicts'[i] = v
    BY <1>2, <2>1
  <2>4. ASSUME NEW j \in DOMAIN verdicts', verdicts'[j].proposal = q
        PROVE  j <= i
    <3>1. j # Len(verdicts) + 1
      BY <1>2, <2>2, <2>4
    <3>2. j \in DOMAIN verdicts /\ verdicts[j].proposal = q
      BY <1>2, <2>4, <3>1
    <3> QED BY <2>1, <3>2
  <2> QED BY <2>3, <2>4 DEF LastVerdict
<1> QED BY <1>3, <1>4

LEMMA VerdictExplained ==
  ASSUME RunInv, StatusExplained, NEW p \in Proposal, NEW reviewer \in Reviewer,
         Approve(p, reviewer) \/ Reject(p, reviewer)
  PROVE  StatusExplained'
<1>1. PICK b \in BOOLEAN :
        /\ verdicts' = Append(verdicts, Verdict(p, reviewer, b))
        /\ Decide(p, reviewer, IF b THEN "hitl_approved" ELSE "rejected")
  BY DEF Approve, Reject
<1>2. UNCHANGED <<gateRows, applied, shadow>>
  BY DEF Approve, Reject
<1>3. /\ LastVerdict(p, Verdict(p, reviewer, b))'
      /\ \A q \in Proposal \ {p} : \A v : LastVerdict(q, v) => LastVerdict(q, v)'
  BY <1>1, AppendedLast DEF RunInv
<1> SUFFICES ASSUME NEW q \in Stored' PROVE Explained(q)'
  BY DEF StatusExplained
<1>4. CASE q = p
  <2>1. rows[p] \in Row
    BY <1>1 DEF RunInv, TypeOK, Decide, Pending, Stored
  <2>2. rows'[p] = [rows[p] EXCEPT !.status = IF b THEN "hitl_approved" ELSE "rejected",
                                   !.reviewer = reviewer]
    BY <1>1 DEF RunInv, TypeOK, Decide, Save
  <2>3. /\ rows'[p].status = IF b THEN "hitl_approved" ELSE "rejected"
        /\ rows'[p].reviewer = reviewer
    BY <2>1, <2>2 DEF Row
  <2>4. CASE b = TRUE
    BY <1>3, <1>4, <2>3, <2>4 DEF Explained, LastVerdict, Verdict
  <2>5. CASE b = FALSE
    BY <1>3, <1>4, <2>3, <2>5 DEF Explained, LastVerdict, Verdict
  <2> QED BY <2>4, <2>5
<1>5. CASE q # p
  <2>1. q \in Proposal /\ rows'[q] = rows[q]
    BY <1>1, <1>5 DEF RunInv, TypeOK, Stored, Decide, Save
  <2>2. Explained(q)
    BY <2>1 DEF Stored, StatusExplained
  <2>3. \A v : LastVerdict(q, v) => LastVerdict(q, v)'
    BY <1>3, <1>5, <2>1
  <2>4. /\ rows[q].status = "hitl_approved" =>
             LastVerdict(q, Verdict(q, rows[q].reviewer, TRUE))'
        /\ rows[q].status = "rejected" =>
             \/ LastVerdict(q, Verdict(q, rows[q].reviewer, FALSE))'
             \/ \E r \in Run : ProposalOf[r] = q /\ shadow[r] = "inconclusive"
    BY <2>1, <2>2, <2>3 DEF Explained, Verdict
  <2> QED BY <1>2, <2>1, <2>2, <2>4 DEF Explained, Audited, LastVerdict, Verdict
<1> QED BY <1>4, <1>5

(* A run leaves its proposal half way only while it goes on or by failing. *)
LEMMA DriverLimbo ==
  ASSUME TypeOK, LimboDriven, NEW r \in Run, Submit(r) \/ SubmitRaises(r) \/ Step(r)
  PROVE  LimboDriven'
<1> DEFINE p == ProposalOf[r]
<1>t. p \in Proposal
  BY DrivesProposal
<1> SUFFICES ASSUME NEW q \in Stored', rows'[q].status \in {"pending", "shadow_running"}
             PROVE  \E s \in Run : ProposalOf[s] = q /\ pc'[s] \in Active \cup {"raised", "lost"}
  BY DEF LimboDriven, Active, Running, Suspended
<1>q. q \in Proposal
  BY DEF Stored
<1>1. CASE q # p
  <2>1. rows'[q] = rows[q]
    BY <1>1, <1>q, OneRow
  <2>2. q \in Stored
    BY <2>1, <1>q DEF Stored
  <2>3. PICK s \in Run : ProposalOf[s] = q /\ pc[s] \in Active \cup {"raised", "lost"}
    BY <2>1, <2>2 DEF LimboDriven
  <2>4. pc'[s] = pc[s]
    BY <1>1, <2>3, OtherRuns
  <2> QED BY <2>3, <2>4
<1>2. CASE q = p
  <2>1. CASE Block(r)
    <3>1. rows'[p].status = "rejected"
      BY <1>2, <1>t, <2>1, UpdatedRow DEF Block, Status
    <3> QED BY <1>2, <3>1
  <2>2. CASE EnqueueForReview(r)
    <3>1. rows'[p].status = "hitl_pending"
      BY <2>2, <1>t, SavedRow, FreshType DEF EnqueueForReview, Enqueue, Fresh
    <3> QED BY <1>2, <3>1
  <2>3. CASE Record(r)
    <3>1. p \in Stored
      BY <1>2, <2>3 DEF Record, UpdateGateDecision, Stored
    <3>2. rows'[p].status = "auto_promoted"
      BY <2>3, <3>1, <1>t DEF TypeOK, Record, UpdateGateDecision
    <3> QED BY <1>2, <3>2
  <2>4. CASE ~(Block(r) \/ EnqueueForReview(r) \/ Record(r))
    <3>1. pc'[r] \in Active \cup {"raised", "lost"}
      BY <2>4 DEF TypeOK, Submit, SubmitRaises, Step, StartShadow, ShadowReturns, Evaluate,
                  Apply, Raises, Goto, Active, Running, Suspended
    <3> QED BY <1>2, <3>1
  <2> QED BY <2>1, <2>2, <2>3, <2>4
<1> QED BY <1>1, <1>2

LEMMA OtherLimbo ==
  ASSUME TypeOK, LimboDriven,
         \/ Restart
         \/ \E p \in Proposal, reviewer \in Reviewer : Approve(p, reviewer) \/ Reject(p, reviewer)
  PROVE  LimboDriven'
<1>1. CASE Restart
  <2>1. rows' = rows
    BY <1>1 DEF Restart, table
  <2>2. \A r \in Run : pc[r] \in Active \cup {"raised", "lost"} =>
                         pc'[r] \in Active \cup {"raised", "lost"}
    BY <1>1 DEF TypeOK, Restart, Active
  <2> QED BY <2>1, <2>2 DEF LimboDriven, Stored, Active, Running, Suspended
<1>2. ASSUME NEW p \in Proposal, NEW reviewer \in Reviewer,
             Approve(p, reviewer) \/ Reject(p, reviewer)
      PROVE  LimboDriven'
  <2>1. PICK s \in {"hitl_approved", "rejected"} : Decide(p, reviewer, s)
    BY <1>2 DEF Approve, Reject
  <2>2. pc' = pc
    BY <1>2 DEF Approve, Reject
  <2>3. rows'[p].status = s
    <3>1. rows[p] \in Row
      BY <2>1 DEF TypeOK, Decide, Pending, Stored
    <3>2. rows'[p] = [rows[p] EXCEPT !.status = s, !.reviewer = reviewer]
      BY <2>1 DEF TypeOK, Decide, Save
    <3> QED BY <3>1, <3>2 DEF Row
  <2>4. \A q \in Proposal \ {p} : rows'[q] = rows[q]
    BY <2>1 DEF TypeOK, Decide, Save
  <2> QED BY <2>1, <2>2, <2>3, <2>4 DEF LimboDriven, Stored, Active, Running, Suspended
<1> QED BY <1>1, <1>2

LEMMA Invariance == Spec => []IInv
<1>1. Init => StatusExplained /\ LimboDriven
  BY DEF Init, StatusExplained, LimboDriven, Stored
<1>2. ASSUME RunInv, StatusExplained, LimboDriven, [Next]_vars
      PROVE  StatusExplained' /\ LimboDriven'
  <2>1. CASE UNCHANGED vars
    <3>1. StatusExplained'
      BY <1>2, <2>1 DEF vars, table, StatusExplained, Explained, Stored, Audited, LastVerdict,
                        Verdict
    <3>2. LimboDriven'
      BY <1>2, <2>1 DEF vars, table, LimboDriven, Stored, Active, Running, Suspended
    <3> QED BY <3>1, <3>2
  <2>2. CASE \E r \in Run : Submit(r) \/ SubmitRaises(r) \/ Step(r)
    BY <1>2, <2>2, DriverExplained, DriverLimbo DEF RunInv
  <2>3. CASE \E p \in Proposal, reviewer \in Reviewer : Approve(p, reviewer) \/ Reject(p, reviewer)
    BY <1>2, <2>3, VerdictExplained, OtherLimbo DEF RunInv
  <2>4. CASE Restart
    <3>1. LimboDriven'
      BY <1>2, <2>4, OtherLimbo DEF RunInv
    <3>2. StatusExplained'
      BY <1>2, <2>4 DEF Restart, table, StatusExplained, Explained, Stored, Audited, LastVerdict,
                        Verdict
    <3> QED BY <3>1, <3>2
  <2> QED BY <1>2, <2>1, <2>2, <2>3, <2>4 DEF Next
<1> QED BY <1>1, <1>2, RunInvariance, PTL DEF Spec, IInv

(* The status a reviewer reads is backed by what happened: the audit log,  *)
(* the handler, the last verdict or an inconclusive replay (ProposalStore, *)
(* PersistentHITLQueue), however often the proposal is driven.             *)
THEOREM StatusIsExplained == Spec => []StatusExplained
BY Invariance, PTL DEF IInv

(* A proposal that stays pending or shadow_running with no run at work was *)
(* left there by one that raised or was lost.                              *)
THEOREM LimboIsFailure == Spec => []LimboMeansFailure
<1>1. IInv => LimboMeansFailure
  BY DEF IInv, RunInv, LimboDriven, LimboMeansFailure, Active, Running, Suspended, Terminated
<1> QED BY <1>1, Invariance, PTL
-----------------------------------------------------------------------------
(* The review queue.                                                       *)
Others(p) == {pair \in Ahead : p \notin {pair[1], pair[2]}}

LEMMA SaveWaiting ==
  ASSUME TypeOK, NEW p \in Proposal, NEW row \in Row, row.status = "hitl_pending", Save(p, row)
  PROVE  /\ Pending' = Pending \cup {p}
         /\ Ahead' = Others(p) \cup ((Pending \ {p}) \X {p})
<1>1. Pending' = Pending \cup {p}
  BY RowsAssumption DEF TypeOK, Save, Pending, Stored
<1>2. Pending \subseteq Stored
  BY DEF Pending
<1> QED BY <1>1, <1>2 DEF TypeOK, Save, Ahead, Others

LEMMA SaveElsewhere ==
  ASSUME TypeOK, NEW p \in Proposal, NEW row \in Row, row.status # "hitl_pending", Save(p, row)
  PROVE  Pending' = Pending \ {p} /\ Ahead' = Others(p)
<1>1. Pending' = Pending \ {p}
  BY RowsAssumption DEF TypeOK, Save, Pending, Stored
<1> QED BY <1>1 DEF TypeOK, Save, Ahead, Others

LEMMA UpdateElsewhere ==
  ASSUME TypeOK, NEW p \in Proposal,
         \/ \E s \in Status \ {"hitl_pending"} : UpdateStatus(p, s)
         \/ \E g \in GateDecision, s \in Status \ {"hitl_pending"} : UpdateGateDecision(p, g, s)
  PROVE  Pending' = Pending \ {p} /\ Ahead' = Others(p)
<1>0. older' = older /\ \A q \in Proposal \ {p} : rows'[q] = rows[q]
  BY DEF TypeOK, UpdateStatus, UpdateGateDecision
<1>1. p \notin Pending'
  <2>1. CASE \E s \in Status \ {"hitl_pending"} : UpdateStatus(p, s)
    BY <2>1, UpdatedRow DEF Pending
  <2>2. CASE \E g \in GateDecision, s \in Status \ {"hitl_pending"} : UpdateGateDecision(p, g, s)
    BY <2>2 DEF TypeOK, UpdateGateDecision, Pending, Stored
  <2> QED BY <2>1, <2>2
<1>2. Pending' = Pending \ {p}
  BY <1>0, <1>1 DEF Pending, Stored
<1> QED BY <1>0, <1>2 DEF TypeOK, Ahead, Others

(* A proposal whose row gets another status leaves the queue, if it is in  *)
(* it: the submitter's withdrawal.                                         *)
LEMMA ElsewhereRefines ==
  ASSUME TypeOK, NEW p \in Proposal, Pending' = Pending \ {p}, Ahead' = Others(p),
         verdicts' = verdicts
  PROVE  [Queue!Next]_(Queue!vars)
<1>1. CASE p \in Pending
  BY <1>1 DEF Queue!Next, Queue!Withdraw, Queue!Leave, Queue!Without, Others
<1>2. CASE p \notin Pending
  <2>1. Pending' = Pending
    BY <1>2
  <2>2. Others(p) = Ahead
    BY <1>2 DEF Others, Ahead
  <2> QED BY <2>1, <2>2 DEF Queue!vars
<1> QED BY <1>1, <1>2

LEMMA StutterRefines ==
  ASSUME rows' = rows, older' = older, verdicts' = verdicts
  PROVE  [Queue!Next]_(Queue!vars)
BY DEF Queue!vars, Pending, Stored, Ahead

LEMMA DriverRefines ==
  ASSUME TypeOK, NEW r \in Run, Submit(r) \/ SubmitRaises(r) \/ Step(r)
  PROVE  [Queue!Next]_(Queue!vars)
<1> DEFINE p == ProposalOf[r]
<1>t. p \in Proposal
  BY DrivesProposal
<1>v. verdicts' = verdicts
  BY DEF Submit, SubmitRaises, Step, StartShadow, ShadowReturns, Block, Evaluate,
         EnqueueForReview, Apply, Record, Raises
<1>1. CASE Submit(r)
  <2>1. Pending' = Pending \ {p} /\ Ahead' = Others(p)
    BY <1>1, <1>t, FreshType, SaveElsewhere DEF Submit, Fresh
  <2> QED BY <1>t, <1>v, <2>1, ElsewhereRefines
<1>2. CASE StartShadow(r) \/ Block(r) \/ Record(r)
  <2>1. Pending' = Pending \ {p} /\ Ahead' = Others(p)
    BY <1>2, <1>t, UpdateElsewhere DEF StartShadow, Block, Record, Status, GateDecision
  <2> QED BY <1>t, <1>v, <2>1, ElsewhereRefines
<1>3. CASE EnqueueForReview(r)
  <2>1. /\ Pending' = Pending \cup {p}
        /\ Ahead' = Others(p) \cup ((Pending \ {p}) \X {p})
    BY <1>3, <1>t, FreshType, SaveWaiting DEF EnqueueForReview, Enqueue, Fresh
  <2>2. Queue!Enqueue(p)
    BY <1>v, <2>1 DEF Queue!Enqueue, Queue!Without, Others
  <2> QED BY <1>t, <2>2 DEF Queue!Next
<1>4. CASE SubmitRaises(r) \/ ShadowReturns(r) \/ Evaluate(r) \/ Apply(r) \/ Raises(r)
  BY <1>4, <1>v, StutterRefines DEF SubmitRaises, ShadowReturns, Evaluate, Apply, Raises, table
<1> QED BY <1>1, <1>2, <1>3, <1>4 DEF Step

LEMMA VerdictRefines ==
  ASSUME TypeOK, NEW p \in Proposal, NEW reviewer \in Reviewer,
         Approve(p, reviewer) \/ Reject(p, reviewer)
  PROVE  [Queue!Next]_(Queue!vars)
<1>1. PICK s \in {"hitl_approved", "rejected"}, b \in BOOLEAN :
        Decide(p, reviewer, s) /\ verdicts' = Append(verdicts, Verdict(p, reviewer, b))
  BY DEF Approve, Reject
<1>2. p \in Pending /\ rows[p] \in Row
  BY <1>1 DEF TypeOK, Decide, Pending, Stored
<1>3. [rows[p] EXCEPT !.status = s, !.reviewer = reviewer] \in Row
  BY <1>2 DEF Row, Status
<1>4. [rows[p] EXCEPT !.status = s, !.reviewer = reviewer].status # "hitl_pending"
  BY <1>2 DEF Row
<1>5. Pending' = Pending \ {p} /\ Ahead' = Others(p)
  BY <1>1, <1>3, <1>4, SaveElsewhere DEF Decide
<1>6. Verdict(p, reviewer, b) \in Queue!Verdict /\ Verdict(p, reviewer, b).proposal = p
  BY DEF Verdict, Queue!Verdict
<1>7. Queue!Decide(Verdict(p, reviewer, b))
  BY <1>1, <1>2, <1>5, <1>6 DEF Queue!Decide, Queue!Leave, Queue!Without, Others
<1> QED BY <1>6, <1>7 DEF Queue!Next

(* One table of proposals, written by drivers and reviewers alike and      *)
(* listed by rowid, is a first-in first-out queue in which a verdict is    *)
(* accepted once (ProposalStore, PersistentHITLQueue).                     *)
THEOREM QueueRefinement == Spec => ImplementsReviewQueue
<1>1. Init => Queue!Init
  BY DEF Init, Queue!Init, Pending, Stored, Ahead
<1>2. TypeOK /\ [Next]_vars => [Queue!Next]_(Queue!vars)
  <2> SUFFICES ASSUME TypeOK, [Next]_vars PROVE [Queue!Next]_(Queue!vars)
    OBVIOUS
  <2>1. CASE UNCHANGED vars
    BY <2>1, StutterRefines DEF vars, table
  <2>2. CASE Restart
    BY <2>2, StutterRefines DEF Restart, table
  <2> QED BY <2>1, <2>2, DriverRefines, VerdictRefines DEF Next
<1> QED BY <1>1, <1>2, TypeCorrect, PTL DEF Spec, ImplementsReviewQueue, Queue!Spec
-----------------------------------------------------------------------------
(* Before and while its one run is at work nobody can judge a proposal.    *)
NotYetJudged ==
  \A r \in Run : ProposalOf[r] \in Once /\ pc[r] \in {"idle"} \cup Active =>
    /\ ProposalOf[r] \notin Pending
    /\ \A i \in DOMAIN verdicts : verdicts[i].proposal # ProposalOf[r]

LEMMA DriverStands ==
  ASSUME TypeOK, NotYetJudged, VerdictStands,
         NEW r \in Run, Submit(r) \/ SubmitRaises(r) \/ Step(r)
  PROVE  NotYetJudged' /\ VerdictStands'
<1> DEFINE p == ProposalOf[r]
<1>v. verdicts' = verdicts
  BY DEF Submit, SubmitRaises, Step, StartShadow, ShadowReturns, Block, Evaluate,
         EnqueueForReview, Apply, Record, Raises
<1>t. p \in Proposal
  BY DrivesProposal
<1>1. p \in Once => p \notin Pending /\ \A i \in DOMAIN verdicts : verdicts[i].proposal # p
  <2>1. pc[r] \in {"idle"} \cup Active
    BY DEF Submit, SubmitRaises, Step, StartShadow, ShadowReturns, Block, Evaluate,
           EnqueueForReview, Apply, Record, Raises, Active, Running, Suspended
  <2> QED BY <2>1 DEF NotYetJudged
<1>2. VerdictStands'
  <2> SUFFICES ASSUME NEW i \in DOMAIN verdicts, verdicts[i].proposal \in Once
               PROVE  /\ \A j \in DOMAIN verdicts :
                           verdicts[j].proposal = verdicts[i].proposal => j = i
                      /\ verdicts[i].proposal \in Stored'
                      /\ rows'[verdicts[i].proposal].reviewer = verdicts[i].reviewer
                      /\ rows'[verdicts[i].proposal].status =
                           IF verdicts[i].approved THEN "hitl_approved" ELSE "rejected"
    BY <1>v DEF VerdictStands
  <2> DEFINE q == verdicts[i].proposal
  <2>1. q \in Stored /\ q \in Proposal
    BY DEF VerdictStands, Stored
  <2>2. rows'[q] = rows[q]
    <3>1. q # p
      BY <1>1
    <3> QED BY <2>1, <3>1, OneRow
  <2>3. q \in Stored'
    BY <2>1, <2>2 DEF Stored
  <2> QED BY <2>2, <2>3 DEF VerdictStands
<1>3. NotYetJudged'
  <2> SUFFICES ASSUME NEW s \in Run, ProposalOf[s] \in Once, pc'[s] \in {"idle"} \cup Active
               PROVE  /\ ProposalOf[s] \notin Pending'
                      /\ \A i \in DOMAIN verdicts : verdicts[i].proposal # ProposalOf[s]
    BY <1>v DEF NotYetJudged, Active, Running, Suspended
  <2>1. CASE s = r
    <3>1. ~EnqueueForReview(r)
      BY <2>1 DEF TypeOK, EnqueueForReview, Goto, Active, Running, Suspended
    <3>2. CASE Submit(r)
      BY <1>t, <2>1, <3>2, <1>1, SavedRow, FreshType DEF Submit, Fresh, Pending
    <3>3. CASE StartShadow(r)
      BY <1>t, <2>1, <3>3, <1>1, UpdatedRow DEF StartShadow, Status, Pending
    <3>4. CASE ~(Submit(r) \/ StartShadow(r))
      <4>1. ~Block(r) /\ ~Record(r)
        BY <2>1 DEF TypeOK, Block, Record, Goto, Active, Running, Suspended
      <4>2. rows' = rows
        BY <3>1, <3>4, <4>1 DEF SubmitRaises, Step, ShadowReturns, Evaluate, Apply, Raises, table
      <4> QED BY <1>1, <2>1, <4>2 DEF Pending, Stored
    <3> QED BY <1>1, <2>1, <3>2, <3>3, <3>4
  <2>2. CASE s # r
    <3>1. ProposalOf[s] # p /\ ProposalOf[s] \in Proposal
      BY <2>2, DrivesProposal DEF Once
    <3>2. pc'[s] = pc[s] /\ rows'[ProposalOf[s]] = rows[ProposalOf[s]]
      BY <2>2, <3>1, OtherRuns, OneRow
    <3> QED BY <3>2 DEF NotYetJudged, Pending, Stored
  <2> QED BY <2>1, <2>2
<1> QED BY <1>2, <1>3

LEMMA VerdictKept ==
  ASSUME TypeOK, NotYetJudged, VerdictStands, NEW p \in Proposal, NEW reviewer \in Reviewer,
         Approve(p, reviewer) \/ Reject(p, reviewer)
  PROVE  NotYetJudged' /\ VerdictStands'
<1>1. PICK b \in BOOLEAN :
        /\ verdicts' = Append(verdicts, Verdict(p, reviewer, b))
        /\ Decide(p, reviewer, IF b THEN "hitl_approved" ELSE "rejected")
  BY DEF Approve, Reject
<1> DEFINE w == Verdict(p, reviewer, b)
           n == Len(verdicts)
<1>2. /\ DOMAIN verdicts = 1 .. n /\ n \in Nat
      /\ DOMAIN verdicts' = 1 .. n + 1
      /\ verdicts'[n + 1] = w
      /\ \A i \in 1 .. n : verdicts'[i] = verdicts[i]
  <2>1. verdicts \in Seq([proposal: Proposal, reviewer: Reviewer, approved: BOOLEAN])
    BY DEF TypeOK
  <2>2. w \in [proposal: Proposal, reviewer: Reviewer, approved: BOOLEAN]
    BY DEF Verdict
  <2> QED BY <1>1, <2>1, <2>2
<1>w. w.proposal = p /\ w.reviewer = reviewer /\ w.approved = b
  BY DEF Verdict
<1>3. p \in Pending /\ rows[p] \in Row
  BY <1>1 DEF TypeOK, Decide, Pending, Stored
<1>4. p \in Once => \A i \in DOMAIN verdicts : verdicts[i].proposal # p
  BY <1>3 DEF VerdictStands, Pending
<1>5. /\ rows'[p].status = IF b THEN "hitl_approved" ELSE "rejected"
      /\ rows'[p].reviewer = reviewer
  <2>1. rows'[p] = [rows[p] EXCEPT !.status = IF b THEN "hitl_approved" ELSE "rejected",
                                   !.reviewer = reviewer]
    BY <1>1 DEF TypeOK, Decide, Save
  <2> QED BY <1>3, <2>1 DEF Row
<1>6. \A q \in Proposal \ {p} : rows'[q] = rows[q]
  BY <1>1 DEF TypeOK, Decide, Save
<1>7. p \in Stored'
  <2>1. [rows[p] EXCEPT !.status = IF b THEN "hitl_approved" ELSE "rejected",
                        !.reviewer = reviewer] \in Row
    BY <1>3 DEF Row, Status
  <2> QED BY <1>1, <2>1, SavedRow, RowsAssumption DEF Decide, Stored
<1>8. VerdictStands'
  <2> SUFFICES ASSUME NEW i \in 1 .. n + 1, verdicts'[i].proposal \in Once
               PROVE  /\ \A j \in 1 .. n + 1 :
                           verdicts'[j].proposal = verdicts'[i].proposal => j = i
                      /\ verdicts'[i].proposal \in Stored'
                      /\ rows'[verdicts'[i].proposal].reviewer = verdicts'[i].reviewer
                      /\ rows'[verdicts'[i].proposal].status =
                           IF verdicts'[i].approved THEN "hitl_approved" ELSE "rejected"
    BY <1>2 DEF VerdictStands
  <2>1. CASE i = n + 1
    <3>1. \A j \in 1 .. n + 1 : verdicts'[j].proposal = p => j = i
      BY <1>2, <1>w, <1>4, <2>1
    <3> QED BY <1>2, <1>w, <1>5, <1>7, <2>1, <3>1
  <2>2. CASE i \in 1 .. n
    <3> DEFINE q == verdicts[i].proposal
    <3>1. q # p /\ q \in Stored /\ q \in Proposal
      BY <1>2, <1>4, <2>2 DEF VerdictStands, Stored
    <3>2. rows'[q] = rows[q] /\ q \in Stored'
      BY <1>6, <3>1 DEF Stored
    <3>3. \A j \in 1 .. n + 1 : verdicts'[j].proposal = q => j = i
      BY <1>2, <1>w, <2>2, <3>1 DEF VerdictStands
    <3>4. verdicts'[i] = verdicts[i] /\ i \in DOMAIN verdicts
      BY <1>2, <2>2
    <3> QED BY <3>2, <3>3, <3>4 DEF VerdictStands
  <2> QED BY <1>2, <2>1, <2>2
<1>9. NotYetJudged'
  <2>1. pc' = pc
    BY DEF Approve, Reject
  <2> SUFFICES ASSUME NEW s \in Run, ProposalOf[s] \in Once, pc[s] \in {"idle"} \cup Active
               PROVE  /\ ProposalOf[s] \notin Pending'
                      /\ \A i \in 1 .. n + 1 : verdicts'[i].proposal # ProposalOf[s]
    BY <1>2, <2>1 DEF NotYetJudged, Active, Running, Suspended
  <2>2. ProposalOf[s] # p /\ ProposalOf[s] \in Proposal \ Pending
    BY <1>3, DrivesProposal DEF NotYetJudged
  <2>3. ProposalOf[s] \notin Pending'
    BY <1>6, <2>2 DEF Pending, Stored
  <2> QED BY <1>2, <1>w, <2>2, <2>3 DEF NotYetJudged
<1> QED BY <1>8, <1>9

(* A proposal driven once has at most one verdict, and its row shows it    *)
(* for ever (PersistentHITLQueue.approve and reject).                      *)
THEOREM VerdictsStand == Spec => []VerdictStands
<1>1. Init => NotYetJudged /\ VerdictStands
  BY DEF Init, NotYetJudged, VerdictStands, Pending, Stored
<1>2. TypeOK /\ NotYetJudged /\ VerdictStands /\ [Next]_vars => NotYetJudged' /\ VerdictStands'
  <2> SUFFICES ASSUME TypeOK, NotYetJudged, VerdictStands, [Next]_vars
               PROVE  NotYetJudged' /\ VerdictStands'
    OBVIOUS
  <2>1. CASE UNCHANGED vars
    BY <2>1 DEF vars, table, NotYetJudged, VerdictStands, Pending, Stored, Active, Running,
                Suspended
  <2>2. CASE Restart
    <3>1. \A r \in Run : pc'[r] = pc[r] \/ pc'[r] = "lost"
      BY <2>2 DEF Restart
    <3>2. rows' = rows /\ verdicts' = verdicts
      BY <2>2 DEF Restart, table
    <3> QED BY <3>1, <3>2 DEF NotYetJudged, VerdictStands, Pending, Stored, Active, Running,
                Suspended
  <2> QED BY <2>1, <2>2, DriverStands, VerdictKept DEF Next
<1> QED BY <1>1, <1>2, TypeCorrect, PTL DEF Spec
=============================================================================
