------------------------- MODULE ConversationProofs -------------------------
(***************************************************************************)
(* Theorems about Conversation, for every number of messages, workers,     *)
(* plans, tools and restarts.                                              *)
(***************************************************************************)
EXTENDS Conversation, FiniteSetTheorems, TLAPS

(* What the statements below all need to know of the steps of one call.    *)
LEMMA PlanAtType ==
  ASSUME TypeOK, NEW t \in Task, at[t] \in DOMAIN plans[t]
  PROVE  /\ PlanAt(t) \in Plan
         /\ RequestAt(t) \in Request
         /\ Row(t) \in AuditEntry
         /\ Current(t) \in Action
<1>1. PlanAt(t) \in Plan
  BY DEF TypeOK, PlanAt
<1>2. Current(t) \in Action
  BY DEF TypeOK, Current, Action
<1>3. RequestAt(t) \in Request
  BY <1>1, <1>2 DEF RequestAt, Request, Plan
<1>4. Row(t) \in AuditEntry
  BY <1>3 DEF Row, AuditEntry, Decision, GuardDecision
<1> QED
  BY <1>1, <1>2, <1>3, <1>4

-----------------------------------------------------------------------------
(* The inductive invariant.  TypeOK alone is not inductive: a row of the   *)
(* audit log has its type because a call past the guard is at one of its   *)
(* plans.                                                                  *)
PlanReached ==
  \A t \in Task :
    pc[t] \in {"audit", "execute", "call", "tool"} => at[t] \in DOMAIN plans[t]

(* A call about to execute a plan holds an automatic tier and has its row. *)
Cleared ==
  \A t \in Task :
    /\ pc[t] = "audit" => (token[t] # NoToken <=> PlanAt(t).tier \in AutoTiers)
    /\ pc[t] \in {"execute", "call"} =>
         PlanAt(t).tier \in AutoTiers /\ Row(t) \in audit

(* The call of action a has left it behind, or stands at it in S.          *)
Behind(a, S) == a[2] < at[a[1]] \/ (a[2] = at[a[1]] /\ pc[a[1]] \in S)

(* Where a call may stand once its current plan is audited, or executed.   *)
PastGuard == {"execute", "call", "tool", "raised", "lost"}
PastCall  == {"tool", "raised", "lost"}

(* Audit rows lie behind the guard, effects behind the execution, and each *)
(* effect has the row that cleared it.                                     *)
AuditBehind ==
  \A row \in audit :
    /\ row.decision = Decision(row.request.tier)
    /\ Behind(row.request.action, PastGuard)

EffectsBehind ==
  \A i \in DOMAIN effects :
    /\ [request |-> effects[i], decision |-> "auto_approved"] \in audit
    /\ Behind(effects[i].action, PastCall)

IInv == TypeOK /\ PlanReached /\ Cleared /\ AuditBehind /\ EffectsBehind /\ AtMostOnce
-----------------------------------------------------------------------------
(* The type invariant holds of every reachable state.                      *)
LEMMA InitType == Init => TypeOK
<1> SUFFICES ASSUME Init PROVE TypeOK
  OBVIOUS
<1>1. 1 \in DOMAIN Workers
  BY WorkersAssumption
<1>2. plans \in [Task -> Seq(Plan)] /\ effects \in Seq(Request)
  BY DEF Init
<1> QED
  BY <1>1, <1>2, ToolsAssumption DEF Init, TypeOK

LEMMA RaiseType ==
  ASSUME TypeOK, NEW t \in Task, Raise(t)
  PROVE  TypeOK'
BY DEF TypeOK, Raise, Goto, local, Terminated

LEMMA StepType ==
  ASSUME TypeOK, PlanReached, NEW t \in Task, Step(t)
  PROVE  TypeOK'
<1> USE DEF TypeOK, Goto, local, Running, Suspended, Terminated
<1>1. CASE WorkerReturns(t)
  <2>1. PICK ps \in Workers[worker[t]] : plans' = [plans EXCEPT ![t] = @ \o ps]
    BY <1>1 DEF WorkerReturns
  <2>2. ps \in Seq(Plan)
    BY WorkersAssumption
  <2>3. plans' \in [Task -> Seq(Plan)]
    BY <2>1, <2>2
  <2>4. worker' \in [Task -> DOMAIN Workers]
    BY <1>1, WorkersAssumption DEF WorkerReturns
  <2> QED
    BY <1>1, <2>3, <2>4 DEF WorkerReturns
<1>2. CASE GuardDecides(t)
  <2>1. Current(t) \in Action /\ RequestAt(t) \in Request
    BY <1>2, PlanAtType DEF GuardDecides
  <2> QED
    BY <1>2, <2>1 DEF GuardDecides
<1>3. CASE GuardAudits(t)
  <2>1. Row(t) \in AuditEntry
    BY <1>3, PlanAtType DEF GuardAudits, PlanReached
  <2>2. audit' \subseteq AuditEntry
    BY <1>3, <2>1 DEF GuardAudits
  <2>3. CASE token[t] # NoToken
    BY <1>3, <2>2, <2>3 DEF GuardAudits
  <2>4. CASE token[t] = NoToken
    <3>1. NextPlan(t) /\ UNCHANGED <<worker, plans, token, turn, l0, l1, hitl,
                                     reviews, tools, effects, restarts, wiring>>
      BY <1>3, <2>4 DEF GuardAudits
    <3> QED
      BY <2>2, <3>1 DEF NextPlan
  <2> QED
    BY <2>3, <2>4
<1>4. CASE Finish(t)
  BY <1>4 DEF Finish
<1>5. CASE SendReply(t)
  <2>1. effects' \in Seq(Request)
    BY <1>5, PlanAtType DEF SendReply, PlanReached, Effect
  <2> QED
    BY <1>5, <2>1 DEF SendReply, NextPlan
<1>6. CASE SkipTool(t)
  BY <1>6 DEF SkipTool, NextPlan
<1>7. CASE LogToolCall(t)
  <2>1. ToolCall(Current(t)) \in L0Event
    BY <1>7, PlanAtType DEF LogToolCall, PlanReached, ToolCall, L0Event
  <2> QED
    BY <1>7, <2>1 DEF LogToolCall, Log
<1>8. CASE CallTool(t)
  <2>1. effects' \in Seq(Request)
    BY <1>8, PlanAtType DEF CallTool, PlanReached, Effect
  <2> QED
    BY <1>8, <2>1 DEF CallTool
<1>9. CASE ToolReturns(t)
  <2>1. \A ok \in BOOLEAN : ToolResult(Current(t), ok) \in L0Event
    BY <1>9, PlanAtType DEF ToolReturns, PlanReached, ToolResult, L0Event
  <2> QED
    BY <1>9, <2>1 DEF ToolReturns, NextPlan, Log
<1>10. CASE \/ WorkerRaises(t) \/ AuditRaises(t) \/ SendRaises(t)
            \/ LogToolCallRaises(t) \/ CallRaises(t) \/ ToolRaises(t)
  BY <1>10, RaiseType DEF WorkerRaises, AuditRaises, SendRaises,
     LogToolCallRaises, CallRaises, ToolRaises
<1> QED
  BY <1>1, <1>2, <1>3, <1>4, <1>5, <1>6, <1>7, <1>8, <1>9, <1>10 DEF Step

(* The steps that are not a coroutine's own.                               *)
LEMMA OtherType ==
  ASSUME TypeOK,
         \/ \E t \in Task : Receive(t) \/ ReceiveRaises(t)
         \/ \E r \in hitl : Approve(r) \/ Reject(r)
         \/ \E x \in Tool : RegisterTool(x) \/ DeregisterTool(x)
         \/ Restart
  PROVE  TypeOK'
<1> USE DEF TypeOK, local
<1>1. CASE \E t \in Task : Receive(t) \/ ReceiveRaises(t)
  <2>1. PICK t \in Task : Receive(t) \/ ReceiveRaises(t)
    BY <1>1
  <2>2. ConvOf[t] \in Conv /\ Inbound(t) \in L0Event
    BY TasksAssumption DEF Inbound, L0Event
  <2>3. CASE Receive(t)
    <3>1. pc' \in [Task -> {"idle"} \cup Running \cup Suspended \cup Terminated]
      BY <2>3 DEF Receive, Goto, Suspended, Terminated
    <3>2. l0' \subseteq L0Event /\ l1' \in [Conv -> Nat] /\ turn' \in [Task -> Nat]
      <4>1. l0' \subseteq L0Event
        BY <2>2, <2>3 DEF Receive, Log
      <4>2. CASE wiring.memory
        <5>1. /\ l1' = [l1 EXCEPT ![ConvOf[t]] = @ + 1]
              /\ turn' = [turn EXCEPT ![t] = l1[ConvOf[t]] + 1]
          BY <2>3, <4>2 DEF Receive
        <5>2. l1 \in [Conv -> Nat] /\ turn \in [Task -> Nat]
          OBVIOUS
        <5>3. l1' \in [Conv -> Nat] /\ turn' \in [Task -> Nat]
          BY <2>2, <5>1, <5>2
        <5> QED BY <4>1, <5>3
      <4>3. CASE ~wiring.memory
        BY <2>3, <4>1, <4>3 DEF Receive
      <4> QED BY <4>2, <4>3
    <3>3. UNCHANGED <<worker, plans, at, token, audit, hitl, reviews, tools,
                      effects, restarts, wiring>>
      BY <2>3 DEF Receive
    <3> QED
      BY <3>1, <3>2, <3>3
  <2>4. CASE ReceiveRaises(t)
    BY <2>4, RaiseType DEF ReceiveRaises
  <2> QED
    BY <2>1, <2>3, <2>4
<1>2. CASE \E r \in hitl : Approve(r) \/ Reject(r)
  BY <1>2 DEF Approve, Reject, Review
<1>3. CASE \E x \in Tool : RegisterTool(x) \/ DeregisterTool(x)
  BY <1>3 DEF RegisterTool, DeregisterTool
<1>4. CASE Restart
  BY <1>4, ToolsAssumption DEF Restart, Terminated
<1> QED
  BY <1>1, <1>2, <1>3, <1>4

LEMMA EffectType ==
  ASSUME TypeOK, NEW i \in DOMAIN effects
  PROVE  effects[i] \in Request /\ effects[i].action \in Action
<1>1. effects \in Seq(Request)
  BY DEF TypeOK
<1>2. effects[i] \in Request
  BY <1>1
<1> QED
  BY <1>2 DEF Request

(* A call only moves forward, and never back out of S at the same plan.    *)
Forward(S) ==
  \A u \in Task :
    at[u] < at'[u] \/ (at'[u] = at[u] /\ (pc[u] \in S => pc'[u] \in S))

LEMMA BehindKept ==
  ASSUME TypeOK, TypeOK', NEW S, Forward(S), NEW a \in Action, Behind(a, S)
  PROVE  Behind(a, S)'
<1>1. a[1] \in Task /\ a[2] \in Nat
  BY DEF Action
<1>2. at[a[1]] \in Nat /\ at'[a[1]] \in Nat
  BY <1>1 DEF TypeOK
<1> QED
  BY <1>1, <1>2 DEF Behind, Forward

(* What the log and the effects hold survives a step forward, so only what *)
(* the step adds is left to look at.                                       *)
LEMMA AuditKept ==
  ASSUME TypeOK, TypeOK', AuditBehind, Forward(PastGuard),
         \A row \in audit' \ audit :
           /\ row.decision = Decision(row.request.tier)
           /\ Behind(row.request.action, PastGuard)'
  PROVE  AuditBehind'
<1> SUFFICES ASSUME NEW row \in audit'
             PROVE  /\ row.decision = Decision(row.request.tier)
                    /\ Behind(row.request.action, PastGuard)'
  BY DEF AuditBehind
<1>1. CASE row \notin audit
  BY <1>1
<1>2. CASE row \in audit
  <2>1. row.request.action \in Action
    BY <1>2 DEF TypeOK, AuditEntry, Request
  <2>2. /\ row.decision = Decision(row.request.tier)
        /\ Behind(row.request.action, PastGuard)
    BY <1>2 DEF AuditBehind
  <2> QED
    BY <2>1, <2>2, BehindKept
<1> QED
  BY <1>1, <1>2

LEMMA EffectsKept ==
  ASSUME TypeOK, TypeOK', EffectsBehind, Forward(PastCall),
         audit \subseteq audit', UNCHANGED effects
  PROVE  EffectsBehind'
<1> SUFFICES ASSUME NEW i \in DOMAIN effects
             PROVE  /\ [request |-> effects[i], decision |-> "auto_approved"] \in audit'
                    /\ Behind(effects[i].action, PastCall)'
  BY DEF EffectsBehind
<1>1. effects[i].action \in Action
  BY EffectType
<1>2. /\ [request |-> effects[i], decision |-> "auto_approved"] \in audit
      /\ Behind(effects[i].action, PastCall)
  BY DEF EffectsBehind
<1>3. PICK a \in Action : a = effects[i].action
  BY <1>1
<1>4. Behind(a, PastCall)'
  BY <1>2, <1>3, BehindKept
<1> QED
  BY <1>2, <1>3, <1>4

(* A call takes effect at a plan it has not left behind yet, with the row  *)
(* that cleared the plan in the log.                                       *)
LEMMA EffectKept ==
  ASSUME TypeOK, TypeOK', EffectsBehind, AtMostOnce, Forward(PastCall),
         NEW t \in Task, Effect(t), UNCHANGED audit,
         [request |-> RequestAt(t), decision |-> "auto_approved"] \in audit,
         NEW a \in Action, a = Current(t),
         pc[t] \notin PastCall, Behind(a, PastCall)'
  PROVE  EffectsBehind' /\ AtMostOnce'
<1> DEFINE n == Len(effects) + 1
<1>1. effects \in Seq(Request)
  BY DEF TypeOK
<1>2. effects' = Append(effects, RequestAt(t))
  BY DEF Effect
<1>3. /\ DOMAIN effects' = DOMAIN effects \cup {n}
      /\ effects'[n] = RequestAt(t)
      /\ \A i \in DOMAIN effects : i # n /\ effects'[i] = effects[i]
  BY <1>1, <1>2
<1>4. RequestAt(t).action = a
  BY DEF RequestAt
<1>5. \A i \in DOMAIN effects : effects[i].action # a
  <2> SUFFICES ASSUME NEW i \in DOMAIN effects, effects[i].action = a
               PROVE  FALSE
    OBVIOUS
  <2>1. Behind(a, PastCall)
    BY DEF EffectsBehind
  <2>2. at[t] \in Nat
    BY DEF TypeOK
  <2> QED
    BY <2>1, <2>2 DEF Behind, Current
<1>6. ASSUME NEW i \in DOMAIN effects'
      PROVE  /\ [request |-> effects'[i], decision |-> "auto_approved"] \in audit
             /\ \E b \in Action : b = effects'[i].action /\ Behind(b, PastCall)'
  <2>1. CASE i = n
    BY <1>3, <1>4, <2>1
  <2>2. CASE i \in DOMAIN effects
    <3>1. PICK b \in Action : b = effects[i].action
      BY <2>2, EffectType
    <3>2. /\ [request |-> effects[i], decision |-> "auto_approved"] \in audit
          /\ Behind(b, PastCall)
      BY <2>2, <3>1 DEF EffectsBehind
    <3>3. Behind(b, PastCall)'
      BY <3>2, BehindKept
    <3> QED
      BY <1>3, <2>2, <3>1, <3>2, <3>3
  <2> QED
    BY <1>3, <2>1, <2>2
<1>7. EffectsBehind'
  BY <1>6 DEF EffectsBehind, Behind
<1>8. AtMostOnce'
  BY <1>3, <1>4, <1>5 DEF AtMostOnce
<1> QED
  BY <1>7, <1>8

(* A step that adds neither an audit row nor an effect.                    *)
LEMMA NothingAdded ==
  ASSUME TypeOK, TypeOK', AuditBehind, EffectsBehind, AtMostOnce,
         Forward(PastGuard), Forward(PastCall), UNCHANGED <<audit, effects>>
  PROVE  (AuditBehind /\ EffectsBehind /\ AtMostOnce)'
<1>1. AuditBehind'
  BY AuditKept
<1>2. EffectsBehind'
  BY EffectsKept
<1>3. AtMostOnce'
  BY DEF AtMostOnce
<1> QED
  BY <1>1, <1>2, <1>3

(* One step of a call preserves the rest of the inductive invariant.       *)
LEMMA StepInv ==
  ASSUME IInv, TypeOK', NEW t \in Task, Step(t)
  PROVE  (PlanReached /\ Cleared /\ AuditBehind /\ EffectsBehind /\ AtMostOnce)'
<1> USE DEF Goto, local, PastGuard, PastCall
<1>0. TypeOK /\ PlanReached /\ Cleared /\ AuditBehind /\ EffectsBehind /\ AtMostOnce
  BY DEF IInv
<1>1. CASE WorkerReturns(t)
  <2>a. UNCHANGED <<at, token, audit>>
    BY <1>1 DEF WorkerReturns
  <2>b. ASSUME NEW u \in Task, pc'[u] \in {"audit", "execute", "call", "tool"}
        PROVE  pc[u] = pc'[u] /\ plans'[u] = plans[u]
    BY <1>0, <1>1, <2>b DEF WorkerReturns, TypeOK
  <2>1. PlanReached' /\ Cleared'
    <3>1. PlanReached'
      BY <1>0, <2>a, <2>b DEF PlanReached
    <3>2. Cleared'
      BY <1>0, <2>a, <2>b DEF Cleared, PlanAt, Row, RequestAt, Current
    <3> QED BY <3>1, <3>2
  <2>2. Forward(PastGuard) /\ Forward(PastCall)
    BY <1>0, <1>1 DEF WorkerReturns, TypeOK, Forward
  <2> QED
    BY <1>0, <1>1, <2>1, <2>2, NothingAdded DEF WorkerReturns
<1>2. CASE GuardDecides(t)
  <2>1. PlanReached'
    BY <1>0, <1>2 DEF GuardDecides, TypeOK, PlanReached
  <2>2. token'[t] # NoToken <=> PlanAt(t).tier \in AutoTiers
    BY <1>0, <1>2, PlanAtType, TokenAssumption DEF GuardDecides, TypeOK
  <2>3. Cleared'
    BY <1>0, <1>2, <2>2 DEF GuardDecides, TypeOK, Cleared, PlanAt, Row, RequestAt,
       Current
  <2>4. Forward(PastGuard) /\ Forward(PastCall)
    BY <1>0, <1>2 DEF GuardDecides, TypeOK, Forward
  <2> QED
    BY <1>0, <1>2, <2>1, <2>3, <2>4, NothingAdded DEF GuardDecides
<1>3. CASE GuardAudits(t)
  <2>1. PlanReached'
    BY <1>0, <1>3 DEF GuardAudits, NextPlan, TypeOK, PlanReached
  <2>2. Cleared'
    <3>1. ASSUME NEW u \in Task, u # t
          PROVE  pc'[u] = pc[u] /\ at'[u] = at[u] /\ token'[u] = token[u] /\ plans'[u] = plans[u]
      BY <1>0, <1>3, <3>1 DEF GuardAudits, NextPlan, TypeOK
    <3>2. audit \subseteq audit'
      BY <1>3 DEF GuardAudits
    <3>3. ASSUME NEW u \in Task, u # t
          PROVE  /\ pc'[u] = "audit" => (token'[u] # NoToken <=> PlanAt(u)'.tier \in AutoTiers)
                 /\ pc'[u] \in {"execute", "call"} =>
                      PlanAt(u)'.tier \in AutoTiers /\ Row(u)' \in audit'
      BY <1>0, <3>1, <3>2, <3>3 DEF Cleared, PlanAt, Row, RequestAt, Current
    <3>4. pc'[t] # "audit" /\ pc'[t] # "call"
      BY <1>0, <1>3 DEF GuardAudits, NextPlan, TypeOK
    <3>5. pc'[t] = "execute" => token[t] # NoToken /\ at' = at /\ plans' = plans /\ Row(t) \in audit'
      BY <1>0, <1>3 DEF GuardAudits, NextPlan, TypeOK
    <3>6. pc'[t] = "execute" => PlanAt(t)'.tier \in AutoTiers /\ Row(t)' \in audit'
      BY <1>0, <1>3, <3>5 DEF GuardAudits, Cleared, PlanAt, Row, RequestAt, Current
    <3> QED BY <3>3, <3>4, <3>6 DEF Cleared
  <2>3. Forward(PastGuard) /\ Forward(PastCall)
    BY <1>0, <1>3 DEF GuardAudits, NextPlan, TypeOK, Forward
  <2>4. ASSUME NEW row \in audit' \ audit
        PROVE  /\ row.decision = Decision(row.request.tier)
               /\ Behind(row.request.action, PastGuard)'
    <3>1. row = Row(t)
      BY <1>3 DEF GuardAudits
    <3>2. /\ row.decision = Decision(row.request.tier)
          /\ row.request.action[1] = t /\ row.request.action[2] = at[t]
      BY <3>1 DEF Row, RequestAt, Current
    <3>3. at[t] < at'[t] \/ (at'[t] = at[t] /\ pc'[t] = "execute")
      BY <1>0, <1>3 DEF GuardAudits, NextPlan, TypeOK
    <3> QED
      BY <3>2, <3>3 DEF Behind
  <2>5. AuditBehind'
    BY <1>0, <2>3, <2>4, AuditKept
  <2>6. EffectsBehind' /\ AtMostOnce'
    BY <1>0, <1>3, <2>3, EffectsKept DEF GuardAudits, AtMostOnce
  <2> QED
    BY <2>1, <2>2, <2>5, <2>6
<1>4. CASE Finish(t)
  <2>1. PlanReached' /\ Cleared'
    BY <1>0, <1>4 DEF Finish, TypeOK, PlanReached, Cleared, PlanAt, Row, RequestAt,
       Current
  <2>2. Forward(PastGuard) /\ Forward(PastCall)
    BY <1>0, <1>4 DEF Finish, TypeOK, Forward
  <2> QED
    BY <1>0, <1>4, <2>1, <2>2, NothingAdded DEF Finish
<1>5. CASE SendReply(t)
  <2>1. PlanReached' /\ Cleared'
    BY <1>0, <1>5 DEF SendReply, NextPlan, TypeOK, PlanReached, Cleared, PlanAt,
       Row, RequestAt, Current
  <2>2. Forward(PastGuard) /\ Forward(PastCall)
    BY <1>0, <1>5 DEF SendReply, NextPlan, TypeOK, Forward
  <2>3. [request |-> RequestAt(t), decision |-> "auto_approved"] \in audit
    BY <1>0, <1>5 DEF SendReply, Cleared, Row, Decision
  <2>4. at'[t] = at[t] + 1 /\ at[t] \in Nat
    BY <1>0, <1>5 DEF SendReply, NextPlan, TypeOK
  <2>5. EffectsBehind' /\ AtMostOnce'
    <3>1. PICK a \in Action : a = Current(t)
      BY <1>0, <1>5, PlanAtType DEF SendReply, PlanReached
    <3>2. Behind(a, PastCall)'
      BY <2>4, <3>1 DEF Behind, Current
    <3>3. pc[t] \notin PastCall /\ Effect(t) /\ UNCHANGED audit
      BY <1>5 DEF SendReply
    <3> QED
      BY <1>0, <2>2, <2>3, <3>1, <3>2, <3>3, EffectKept
  <2>6. AuditBehind'
    BY <1>0, <1>5, <2>2, AuditKept DEF SendReply
  <2> QED
    BY <2>1, <2>5, <2>6
<1>6. CASE SkipTool(t)
  <2>1. PlanReached' /\ Cleared'
    BY <1>0, <1>6 DEF SkipTool, NextPlan, TypeOK, PlanReached, Cleared, PlanAt,
       Row, RequestAt, Current
  <2>2. Forward(PastGuard) /\ Forward(PastCall)
    BY <1>0, <1>6 DEF SkipTool, NextPlan, TypeOK, Forward
  <2> QED
    BY <1>0, <1>6, <2>1, <2>2, NothingAdded DEF SkipTool
<1>7. CASE LogToolCall(t)
  <2>1. PlanReached' /\ Cleared'
    BY <1>0, <1>7 DEF LogToolCall, TypeOK, PlanReached, Cleared, PlanAt, Row,
       RequestAt, Current
  <2>2. Forward(PastGuard) /\ Forward(PastCall)
    BY <1>0, <1>7 DEF LogToolCall, TypeOK, Forward
  <2> QED
    BY <1>0, <1>7, <2>1, <2>2, NothingAdded DEF LogToolCall
<1>8. CASE CallTool(t)
  <2>1. PlanReached' /\ Cleared'
    BY <1>0, <1>8 DEF CallTool, TypeOK, PlanReached, Cleared, PlanAt, Row,
       RequestAt, Current
  <2>2. Forward(PastGuard) /\ Forward(PastCall)
    BY <1>0, <1>8 DEF CallTool, TypeOK, Forward
  <2>3. [request |-> RequestAt(t), decision |-> "auto_approved"] \in audit
    BY <1>0, <1>8 DEF CallTool, Cleared, Row, Decision
  <2>4. EffectsBehind' /\ AtMostOnce'
    <3>1. PICK a \in Action : a = Current(t)
      BY <1>0, <1>8, PlanAtType DEF CallTool, PlanReached
    <3>2. Behind(a, PastCall)'
      BY <1>0, <1>8, <3>1 DEF CallTool, TypeOK, Behind, Current
    <3>3. pc[t] \notin PastCall /\ Effect(t) /\ UNCHANGED audit
      BY <1>8 DEF CallTool
    <3> QED
      BY <1>0, <2>2, <2>3, <3>1, <3>2, <3>3, EffectKept
  <2>5. AuditBehind'
    BY <1>0, <1>8, <2>2, AuditKept DEF CallTool
  <2> QED
    BY <2>1, <2>4, <2>5
<1>9. CASE ToolReturns(t)
  <2>1. PlanReached' /\ Cleared'
    BY <1>0, <1>9 DEF ToolReturns, NextPlan, TypeOK, PlanReached, Cleared, PlanAt,
       Row, RequestAt, Current
  <2>2. Forward(PastGuard) /\ Forward(PastCall)
    BY <1>0, <1>9 DEF ToolReturns, NextPlan, TypeOK, Forward
  <2> QED
    BY <1>0, <1>9, <2>1, <2>2, NothingAdded DEF ToolReturns
<1>10. CASE \/ WorkerRaises(t) \/ AuditRaises(t) \/ SendRaises(t)
            \/ LogToolCallRaises(t) \/ CallRaises(t) \/ ToolRaises(t)
  <2>1. Raise(t)
    BY <1>10 DEF WorkerRaises, AuditRaises, SendRaises, LogToolCallRaises,
       CallRaises, ToolRaises
  <2>2. PlanReached' /\ Cleared'
    BY <1>0, <2>1 DEF Raise, TypeOK, PlanReached, Cleared, PlanAt, Row, RequestAt,
       Current
  <2>3. Forward(PastGuard) /\ Forward(PastCall)
    BY <1>0, <2>1 DEF Raise, TypeOK, Forward
  <2> QED
    BY <1>0, <2>1, <2>2, <2>3, NothingAdded DEF Raise
<1> QED
  BY <1>1, <1>2, <1>3, <1>4, <1>5, <1>6, <1>7, <1>8, <1>9, <1>10 DEF Step

(* So does every other step.                                               *)
LEMMA OtherInv ==
  ASSUME IInv, TypeOK',
         \/ \E t \in Task : Receive(t) \/ ReceiveRaises(t)
         \/ \E r \in hitl : Approve(r) \/ Reject(r)
         \/ \E x \in Tool : RegisterTool(x) \/ DeregisterTool(x)
         \/ Restart
  PROVE  (PlanReached /\ Cleared /\ AuditBehind /\ EffectsBehind /\ AtMostOnce)'
<1> USE DEF local
<1>0. TypeOK /\ PlanReached /\ Cleared /\ AuditBehind /\ EffectsBehind /\ AtMostOnce
  BY DEF IInv
<1>1. CASE \E t \in Task : Receive(t) \/ ReceiveRaises(t)
  <2>1. PICK t \in Task : Receive(t) \/ ReceiveRaises(t)
    BY <1>1
  <2>2. /\ pc[t] = "idle" /\ UNCHANGED <<plans, at, token, audit, effects>>
        /\ pc' \in {[pc EXCEPT ![t] = "worker"], [pc EXCEPT ![t] = "raised"]}
    BY <2>1 DEF Receive, ReceiveRaises, Raise, Goto
  <2>a. ASSUME NEW u \in Task, pc'[u] \in {"audit", "execute", "call", "tool"}
        PROVE  pc[u] = pc'[u]
    BY <1>0, <2>2, <2>a DEF TypeOK
  <2>3. PlanReached' /\ Cleared'
    BY <1>0, <2>2, <2>a DEF PlanReached, Cleared, PlanAt, Row, RequestAt, Current
  <2>4. Forward(PastGuard) /\ Forward(PastCall)
    BY <1>0, <2>2 DEF TypeOK, Forward, PastGuard, PastCall
  <2> QED
    BY <1>0, <2>2, <2>3, <2>4, NothingAdded
<1>2. CASE \/ \E r \in hitl : Approve(r) \/ Reject(r)
           \/ \E x \in Tool : RegisterTool(x) \/ DeregisterTool(x)
  <2>1. UNCHANGED <<pc, plans, at, token, audit, effects>>
    BY <1>2 DEF Approve, Reject, Review, RegisterTool, DeregisterTool
  <2>2. PlanReached' /\ Cleared'
    BY <1>0, <2>1 DEF PlanReached, Cleared, PlanAt, Row, RequestAt, Current
  <2>3. Forward(PastGuard) /\ Forward(PastCall)
    BY <2>1 DEF Forward
  <2> QED
    BY <1>0, <2>1, <2>2, <2>3, NothingAdded
<1>3. CASE Restart
  <2>1. /\ UNCHANGED <<plans, at, token, audit, effects>>
        /\ \A u \in Task : pc'[u] \in {pc[u], "lost"}
        /\ \A u \in Task : pc[u] \in Running \cup Suspended => pc'[u] = "lost"
    BY <1>3 DEF Restart
  <2>2. PlanReached' /\ Cleared'
    BY <1>0, <2>1 DEF PlanReached, Cleared, PlanAt, Row, RequestAt, Current, Running,
       Suspended
  <2>3. Forward(PastGuard) /\ Forward(PastCall)
    BY <2>1 DEF Forward, PastGuard, PastCall
  <2> QED
    BY <1>0, <2>1, <2>2, <2>3, NothingAdded
<1> QED
  BY <1>1, <1>2, <1>3

LEMMA InitInv == Init => IInv
<1> SUFFICES ASSUME Init PROVE IInv
  OBVIOUS
<1>1. TypeOK
  BY InitType
<1>2. PlanReached /\ Cleared
  BY DEF Init, PlanReached, Cleared
<1>3. AuditBehind /\ EffectsBehind /\ AtMostOnce
  BY DEF Init, AuditBehind, EffectsBehind, AtMostOnce
<1> QED
  BY <1>1, <1>2, <1>3 DEF IInv

LEMMA NextInv == IInv /\ [Next]_vars => IInv'
<1> SUFFICES ASSUME IInv, [Next]_vars PROVE IInv'
  OBVIOUS
<1>1. CASE \E t \in Task : Step(t)
  BY <1>1, StepType, StepInv DEF IInv
<1>2. CASE \/ \E t \in Task : Receive(t) \/ ReceiveRaises(t)
           \/ \E r \in hitl : Approve(r) \/ Reject(r)
           \/ \E x \in Tool : RegisterTool(x) \/ DeregisterTool(x)
           \/ Restart
  BY <1>2, OtherType, OtherInv DEF IInv
<1>3. CASE UNCHANGED vars
  BY <1>3 DEF vars, local, IInv, TypeOK, PlanReached, Cleared, AuditBehind,
     EffectsBehind, AtMostOnce, Behind, PlanAt, Row, RequestAt, Current
<1> QED
  BY <1>1, <1>2, <1>3 DEF Next

LEMMA Invariance == Spec => []IInv
BY InitInv, NextInv, PTL DEF Spec
-----------------------------------------------------------------------------
(* Every variable keeps its type, whatever the workers return.             *)
THEOREM TypeCorrect == Spec => []TypeOK
BY Invariance, PTL DEF IInv

(* No side effect without its own row in the audit log that says           *)
(* "auto_approved", and none for a free-text or Red plan.                  *)
THEOREM EffectsAreAuthorised == Spec => []EffectsAuthorised
<1>1. IInv => EffectsAuthorised
  <2> SUFFICES ASSUME IInv, NEW i \in DOMAIN effects
               PROVE  /\ [request |-> effects[i], decision |-> "auto_approved"] \in audit
                      /\ effects[i].tier \notin {ORANGE_C, RED}
    BY DEF EffectsAuthorised
  <2>1. [request |-> effects[i], decision |-> "auto_approved"] \in audit
    BY DEF IInv, EffectsBehind
  <2>2. Decision(effects[i].tier) = "auto_approved"
    BY <2>1 DEF IInv, AuditBehind
  <2>3. effects[i].tier \in AutoTiers
    BY <2>2 DEF Decision
  <2> QED
    BY <2>1, <2>3 DEF AutoTiers, GREEN, YELLOW, ORANGE_A, ORANGE_B, ORANGE_C, RED
<1> QED
  BY <1>1, Invariance, PTL

(* No action takes effect twice, however calls and restarts interleave.    *)
THEOREM EffectsAtMostOnce == Spec => []AtMostOnce
BY Invariance, PTL DEF IInv
-----------------------------------------------------------------------------
(* The refinement of GuardedExecution.  The steps it sees are those that    *)
(* write the audit log or take effect.                                     *)
LEMMA AuditedGrows ==
  ASSUME NEW r, NEW d, audit' = audit \cup {[request |-> r, decision |-> d]}
  PROVE  /\ Audited(d)' = Audited(d) \cup {r}
         /\ \A e : e # d => Audited(e)' = Audited(e)
<1>1. \A e, q : q \in Audited(e) <=> [request |-> q, decision |-> e] \in audit
  BY DEF Audited
<1>2. \A e, q : q \in Audited(e)' <=> [request |-> q, decision |-> e] \in audit'
  BY DEF Audited
<1>3. \A e, q : [request |-> q, decision |-> e] \in audit' <=>
                  \/ [request |-> q, decision |-> e] \in audit
                  \/ q = r /\ e = d
  OBVIOUS
<1> QED
  BY <1>1, <1>2, <1>3

(* The guard looks at a plan no row of the log is about yet.               *)
LEMMA NotYetDecided ==
  ASSUME IInv, NEW t \in Task, pc[t] = "audit",
         NEW s \in Audited("auto_approved") \cup Audited("hitl_queued")
  PROVE  s.action # Current(t)
<1> SUFFICES ASSUME s.action = Current(t) PROVE FALSE
  OBVIOUS
<1>1. PICK row \in audit : row.request = s
  BY DEF Audited
<1>2. Behind(Current(t), PastGuard)
  BY <1>1 DEF IInv, AuditBehind
<1>3. at[t] \in Nat
  BY DEF IInv, TypeOK
<1> QED
  BY <1>2, <1>3 DEF Behind, Current, PastGuard

LEMMA GuardRefines ==
  ASSUME IInv, NEW t \in Task, GuardAudits(t)
  PROVE  Guarded!Next
<1> DEFINE r == RequestAt(t)
           d == Decision(r.tier)
<1>1. pc[t] = "audit" /\ UNCHANGED effects
  BY DEF GuardAudits
<1>2. audit' = audit \cup {[request |-> r, decision |-> d]}
  BY DEF GuardAudits, Row, RequestAt
<1>3. r.action = Current(t) /\ r.tier \in RiskTier
  <2>1. PlanAt(t) \in Plan
    BY <1>1, PlanAtType DEF IInv, PlanReached
  <2> QED
    BY <2>1 DEF RequestAt, Plan
<1>4. r \notin Audited("auto_approved") /\ r \notin Audited("hitl_queued")
  BY <1>1, <1>3, NotYetDecided
<1>5. Guarded!Undecided(r)
  BY <1>1, <1>3, NotYetDecided DEF Guarded!Undecided
<1>6. CASE r.tier \in AutoTiers
  <2>1. d = "auto_approved"
    BY <1>6 DEF Decision
  <2>2. /\ Audited("auto_approved")' = Audited("auto_approved") \cup {r}
        /\ Audited("hitl_queued")' = Audited("hitl_queued")
    BY <1>2, <2>1, AuditedGrows
  <2>3. r.tier \in {Guarded!GREEN, Guarded!YELLOW, Guarded!ORANGE_A, Guarded!ORANGE_B}
    BY <1>6 DEF AutoTiers, GREEN, YELLOW, ORANGE_A, ORANGE_B,
       Guarded!GREEN, Guarded!YELLOW, Guarded!ORANGE_A, Guarded!ORANGE_B
  <2>4. Guarded!Approve(r)
    BY <1>1, <1>5, <2>2, <2>3 DEF Guarded!Approve
  <2> QED
    BY <1>4, <2>2, <2>4 DEF Guarded!Next
<1>7. CASE r.tier \notin AutoTiers
  <2>1. d = "hitl_queued"
    BY <1>7 DEF Decision
  <2>2. /\ Audited("hitl_queued")' = Audited("hitl_queued") \cup {r}
        /\ Audited("auto_approved")' = Audited("auto_approved")
    BY <1>2, <2>1, AuditedGrows
  <2>3. r.tier \in {Guarded!ORANGE_C, Guarded!RED}
    BY <1>3, <1>7 DEF RiskTier, AutoTiers, GREEN, YELLOW, ORANGE_A, ORANGE_B,
       ORANGE_C, RED, Guarded!ORANGE_C, Guarded!RED
  <2>4. Guarded!Hold(r)
    BY <1>1, <1>5, <2>2, <2>3 DEF Guarded!Hold
  <2> QED
    BY <1>4, <2>2, <2>4 DEF Guarded!Next
<1> QED
  BY <1>6, <1>7

LEMMA EffectRefines ==
  ASSUME IInv, NEW t \in Task, SendReply(t) \/ CallTool(t)
  PROVE  Guarded!Next
<1> DEFINE r == RequestAt(t)
<1>1. /\ pc[t] \in {"execute", "call"} /\ pc[t] \notin PastCall
      /\ effects' = Append(effects, r) /\ UNCHANGED audit
  BY DEF SendReply, CallTool, Effect, PastCall
<1>2. [request |-> r, decision |-> "auto_approved"] \in audit
  <2>1. PlanAt(t).tier \in AutoTiers /\ Row(t) \in audit
    BY <1>1 DEF IInv, Cleared
  <2> QED
    BY <2>1 DEF Row, Decision
<1>3. r \in Audited("auto_approved")
  BY <1>2 DEF Audited
<1>4. \A i \in DOMAIN effects : effects[i].action # r.action
  <2> SUFFICES ASSUME NEW i \in DOMAIN effects, effects[i].action = Current(t)
               PROVE  FALSE
    BY DEF RequestAt
  <2>1. Behind(Current(t), PastCall)
    BY DEF IInv, EffectsBehind
  <2>2. at[t] \in Nat
    BY DEF IInv, TypeOK
  <2> QED
    BY <1>1, <2>1, <2>2 DEF Behind, Current
<1>5. UNCHANGED <<Audited("auto_approved"), Audited("hitl_queued")>>
  BY <1>1 DEF Audited
<1>6. Guarded!Execute(r)
  BY <1>1, <1>3, <1>4, <1>5 DEF Guarded!Execute
<1> QED
  BY <1>3, <1>6 DEF Guarded!Next

LEMMA OthersStutter ==
  ASSUME UNCHANGED <<audit, effects>>
  PROVE  UNCHANGED Guarded!vars
BY DEF Guarded!vars, Audited

(* Seen through its audit log and its side effects, the orchestrator is a  *)
(* guarded execution: one decision per action before its one effect.       *)
THEOREM Refinement == Spec => ImplementsGuarded
<1>1. Init => Guarded!Init
  BY DEF Init, Guarded!Init, Audited
<1>2. IInv /\ [Next]_vars => [Guarded!Next]_(Guarded!vars)
  <2> SUFFICES ASSUME IInv, [Next]_vars PROVE [Guarded!Next]_(Guarded!vars)
    OBVIOUS
  <2>1. CASE \E t \in Task : GuardAudits(t)
    BY <2>1, GuardRefines
  <2>2. CASE \E t \in Task : SendReply(t) \/ CallTool(t)
    BY <2>2, EffectRefines
  <2>3. CASE UNCHANGED <<audit, effects>>
    BY <2>3, OthersStutter
  <2>4. ASSUME NEW t \in Task, Step(t)
        PROVE  \/ GuardAudits(t) \/ SendReply(t) \/ CallTool(t)
               \/ UNCHANGED <<audit, effects>>
    BY <2>4 DEF Step, WorkerReturns, WorkerRaises, GuardDecides, AuditRaises, Finish,
       SendRaises, SkipTool, LogToolCall, LogToolCallRaises, CallRaises, ToolReturns,
       ToolRaises, Raise
  <2>5. ASSUME \/ \E t \in Task : Receive(t) \/ ReceiveRaises(t)
               \/ \E r \in hitl : Approve(r) \/ Reject(r)
               \/ \E x \in Tool : RegisterTool(x) \/ DeregisterTool(x)
               \/ Restart \/ UNCHANGED vars
        PROVE  UNCHANGED <<audit, effects>>
    BY <2>5 DEF Receive, ReceiveRaises, Raise, Approve, Reject, Review, RegisterTool,
       DeregisterTool, Restart, vars
  <2> QED
    BY <2>1, <2>2, <2>3, <2>4, <2>5 DEF Next
<1> QED
  BY <1>1, <1>2, Invariance, PTL DEF Spec, ImplementsGuarded, Guarded!Spec
-----------------------------------------------------------------------------
(* The order of things.  What one step of a call changes of the state the  *)
(* invariants below look at.                                               *)
LEMMA StepShape ==
  ASSUME IInv, NEW t \in Task, Step(t)
  PROVE  /\ \A u \in Task \ {t} : /\ pc'[u] = pc[u] /\ at'[u] = at[u]
                                  /\ token'[u] = token[u] /\ plans'[u] = plans[u]
         /\ at'[t] = at[t] \/ at'[t] = at[t] + 1
         /\ audit \subseteq audit' /\ l0 \subseteq l0' /\ wiring' = wiring
         /\ effects' = effects \/ Effect(t)
<1> USE DEF Goto, NextPlan, local
<1>0. TypeOK
  BY DEF IInv
<1>1. \A u \in Task \ {t} : /\ pc'[u] = pc[u] /\ at'[u] = at[u]
                            /\ token'[u] = token[u] /\ plans'[u] = plans[u]
  BY <1>0 DEF TypeOK, Step, WorkerReturns, WorkerRaises, GuardDecides, GuardAudits,
     AuditRaises, Finish, SendReply, SendRaises, SkipTool, LogToolCall,
     LogToolCallRaises, CallTool, CallRaises, ToolReturns, ToolRaises, Raise
<1>2. at'[t] = at[t] \/ at'[t] = at[t] + 1
  BY <1>0 DEF TypeOK, Step, WorkerReturns, WorkerRaises, GuardDecides, GuardAudits,
     AuditRaises, Finish, SendReply, SendRaises, SkipTool, LogToolCall,
     LogToolCallRaises, CallTool, CallRaises, ToolReturns, ToolRaises, Raise
<1>3. /\ audit \subseteq audit' /\ l0 \subseteq l0' /\ wiring' = wiring
      /\ effects' = effects \/ Effect(t)
  BY DEF Step, WorkerReturns, WorkerRaises, GuardDecides, GuardAudits,
     AuditRaises, Finish, SendReply, SendRaises, SkipTool, LogToolCall,
     LogToolCallRaises, CallTool, CallRaises, ToolReturns, ToolRaises, Raise, Log
<1> QED BY <1>1, <1>2, <1>3

LEMMA AtType ==
  /\ TypeOK => \A u \in Task : at[u] \in Nat \ {0}
  /\ TypeOK' => \A u \in Task : at'[u] \in Nat \ {0}
BY DEF TypeOK

(* Plans are only ever appended, by the worker a call awaits.              *)
LEMMA PlansKept ==
  ASSUME TypeOK, NEW t \in Task, Step(t)
  PROVE  \A u \in Task :
           /\ pc[u] # "worker" => plans'[u] = plans[u]
           /\ \A i \in DOMAIN plans[u] :
                i \in DOMAIN plans'[u] /\ plans'[u][i] = plans[u][i]
<1>1. CASE WorkerReturns(t)
  <2>1. PICK ps \in Workers[worker[t]] : plans' = [plans EXCEPT ![t] = @ \o ps]
    BY <1>1 DEF WorkerReturns
  <2>2. ps \in Seq(Plan) /\ plans \in [Task -> Seq(Plan)]
    BY WorkersAssumption DEF TypeOK
  <2>3. \A i \in DOMAIN plans[t] :
          i \in DOMAIN (plans[t] \o ps) /\ (plans[t] \o ps)[i] = plans[t][i]
    BY <2>2
  <2> QED BY <1>1, <2>1, <2>2, <2>3 DEF WorkerReturns
<1>2. CASE ~WorkerReturns(t)
  <2>1. plans' = plans
    BY <1>2 DEF Step, WorkerRaises, GuardDecides, GuardAudits,
       AuditRaises, Finish, SendReply, SendRaises, SkipTool, LogToolCall,
       LogToolCallRaises, CallTool, CallRaises, ToolReturns, ToolRaises, Raise, local
  <2> QED BY <2>1
<1> QED BY <1>1, <1>2

(* A step of a call writes L0 rows about its current plan only: the call   *)
(* before the request leaves, and the result once it was awaited.          *)
LEMMA EventsKept ==
  ASSUME NEW t \in Task, Step(t)
  PROVE  /\ \A a : ToolCall(a) \in l0' =>
              \/ ToolCall(a) \in l0
              \/ a = Current(t) /\ pc[t] = "execute" /\ LogToolCall(t)
         /\ \A a, ok : ToolResult(a, ok) \in l0' =>
              \/ ToolResult(a, ok) \in l0
              \/ a = Current(t) /\ pc[t] = "tool"
         /\ \A u : Inbound(u) \in l0' => Inbound(u) \in l0
         /\ ~wiring.memory => l0' = l0
<1> USE DEF ToolCall, ToolResult, Inbound
<1>1. CASE LogToolCall(t)
  BY <1>1 DEF LogToolCall, Log
<1>2. CASE ToolReturns(t)
  <2>1. PICK ok \in BOOLEAN : Log(ToolResult(Current(t), ok))
    BY <1>2 DEF ToolReturns
  <2> QED BY <1>2, <2>1 DEF ToolReturns, Log
<1>3. CASE ~LogToolCall(t) /\ ~ToolReturns(t)
  <2>1. l0' = l0
    BY <1>3 DEF Step, WorkerReturns, WorkerRaises, GuardDecides, GuardAudits,
       AuditRaises, Finish, SendReply, SendRaises, SkipTool,
       LogToolCallRaises, CallTool, CallRaises, ToolRaises, Raise, local
  <2> QED BY <2>1
<1> QED BY <1>1, <1>2, <1>3

Decided(a)  == \E row \in audit : row.request.action = a
Answered(a) == \E ok \in BOOLEAN : ToolResult(a, ok) \in l0
PastLog     == {"call", "tool", "raised", "lost"}

(* A call that executes a tool has logged that, where there is a log, and  *)
(* one that waits for the answer has sent the request.                     *)
CallInProgress ==
  \A t \in Task :
    /\ pc[t] \in {"call", "tool"} => /\ wiring.memory => ToolCall(Current(t)) \in l0
                                     /\ PlanAt(t).tool # "channel.send"
    /\ pc[t] = "tool" => \E i \in DOMAIN effects : effects[i].action = Current(t)

(* What a call has left behind was decided and, if called, answered; a     *)
(* logged tool call is behind, or at the execution; a call is done only    *)
(* past its last plan.                                                     *)
LeftDealtWith ==
  \A t \in Task : \A i \in 1 .. at[t] - 1 :
    Decided(<<t, i>>) /\ (ToolCall(<<t, i>>) \in l0 => Answered(<<t, i>>))
CallsBehind == \A a \in Action : ToolCall(a) \in l0 => Behind(a, PastLog)
DoneAtEnd   == \A t \in Task : pc[t] = "done" => at[t] \notin DOMAIN plans[t]

NothingKept == ~wiring.memory => l0 = {}

OrderInv == /\ CallInProgress /\ LeftDealtWith /\ CallsBehind /\ DoneAtEnd
            /\ NothingKept /\ ToolCallsLogged

(* A call at its plan past the guard has the row of that plan.             *)
LEMMA CurrentDecided ==
  ASSUME IInv, OrderInv, NEW t \in Task, pc[t] \in {"execute", "call", "tool"}
  PROVE  Decided(Current(t))
<1>1. CASE pc[t] \in {"execute", "call"}
  BY <1>1 DEF IInv, Cleared, Row, RequestAt, Decided
<1>2. CASE pc[t] = "tool"
  <2>1. PICK i \in DOMAIN effects : effects[i].action = Current(t)
    BY <1>2 DEF OrderInv, CallInProgress
  <2>2. [request |-> effects[i], decision |-> "auto_approved"] \in audit
    BY DEF IInv, EffectsBehind
  <2> QED BY <2>1, <2>2 DEF Decided
<1> QED BY <1>1, <1>2

(* The plan a call leaves behind in a step was decided and, if its tool    *)
(* was called, has its result.                                             *)
LEMMA Advance ==
  ASSUME IInv, OrderInv, NEW t \in Task, Step(t), at'[t] = at[t] + 1,
         NEW a \in Action, a = Current(t)
  PROVE  Decided(a)' /\ (ToolCall(a) \in l0' => Answered(a)')
<1>0. TypeOK /\ at[t] \in Nat
  BY AtType DEF IInv
<1>1. GuardAudits(t) \/ SendReply(t) \/ SkipTool(t) \/ ToolReturns(t)
  BY <1>0 DEF Step, WorkerReturns, WorkerRaises, GuardDecides, AuditRaises, Finish,
     SendRaises, LogToolCall, LogToolCallRaises, CallTool, CallRaises, ToolRaises,
     Raise, local
<1>2. Decided(a)'
  <2>1. CASE GuardAudits(t)
    <3>1. Row(t) \in audit'
      BY <2>1 DEF GuardAudits
    <3> QED BY <3>1 DEF Decided, Row, RequestAt
  <2>2. CASE ~GuardAudits(t)
    <3>1. pc[t] \in {"execute", "tool"} /\ audit' = audit
      BY <1>1, <2>2 DEF SendReply, SkipTool, ToolReturns
    <3>2. Decided(a)
      BY <3>1, CurrentDecided
    <3> QED BY <3>1, <3>2 DEF Decided
  <2> QED BY <2>1, <2>2
<1>3. CASE pc[t] \in {"audit", "execute"}
  <2>1. l0' = l0
    BY <1>1, <1>3 DEF GuardAudits, SendReply, SkipTool, ToolReturns
  <2>2. ~Behind(a, PastLog)
    BY <1>0, <1>3 DEF Behind, Current, PastLog
  <2>3. ToolCall(a) \notin l0
    BY <2>2 DEF OrderInv, CallsBehind
  <2> QED BY <1>2, <2>1, <2>3
<1>4. CASE ToolReturns(t)
  <2>1. PICK ok \in BOOLEAN : Log(ToolResult(Current(t), ok))
    BY <1>4 DEF ToolReturns
  <2>2. wiring.memory => Answered(a)'
    BY <2>1 DEF Answered, Log
  <2>3. ~wiring.memory => l0' = {}
    BY EventsKept DEF OrderInv, NothingKept
  <2> QED BY <1>2, <2>2, <2>3
<1> QED BY <1>1, <1>3, <1>4 DEF GuardAudits, SendReply, SkipTool

LEMMA LeftKept ==
  ASSUME IInv, TypeOK', OrderInv, NEW t \in Task, Step(t)
  PROVE  LeftDealtWith'
<1> SUFFICES ASSUME NEW u \in Task, NEW i \in 1 .. at'[u] - 1
             PROVE  /\ Decided(<<u, i>>)'
                    /\ ToolCall(<<u, i>>) \in l0' => Answered(<<u, i>>)'
  BY DEF LeftDealtWith
<1>0. TypeOK /\ at[u] \in Nat \ {0} /\ at'[u] \in Nat \ {0} /\ i \in Nat \ {0}
  BY AtType DEF IInv
<1>1. audit \subseteq audit' /\ l0 \subseteq l0'
  BY StepShape
<1>2. CASE i < at[u]
  <2>1. Decided(<<u, i>>) /\ (ToolCall(<<u, i>>) \in l0 => Answered(<<u, i>>))
    BY <1>0, <1>2 DEF OrderInv, LeftDealtWith
  <2>2. <<u, i>> # Current(t)
    BY <1>0, <1>2 DEF Current
  <2>3. ToolCall(<<u, i>>) \in l0' => ToolCall(<<u, i>>) \in l0
    BY <2>2, EventsKept
  <2> QED BY <1>1, <2>1, <2>3 DEF Decided, Answered
<1>3. CASE ~(i < at[u])
  <2>1. u = t /\ i = at[t] /\ at'[t] = at[t] + 1
    BY <1>0, <1>3, StepShape
  <2>2. PICK a \in Action : a = Current(t)
    BY <1>0, <2>1 DEF Action, Current
  <2>3. Decided(a)' /\ (ToolCall(a) \in l0' => Answered(a)')
    BY <2>1, <2>2, Advance
  <2>4. a = <<u, i>>
    BY <2>1, <2>2 DEF Current
  <2> QED BY <2>3, <2>4
<1> QED BY <1>2, <1>3

LEMMA CallsKept ==
  ASSUME IInv, TypeOK', OrderInv, NEW t \in Task, Step(t)
  PROVE  CallsBehind'
<1> SUFFICES ASSUME NEW a \in Action, ToolCall(a) \in l0' PROVE Behind(a, PastLog)'
  BY DEF CallsBehind
<1>0. TypeOK /\ at[t] \in Nat
  BY AtType DEF IInv
<1>1. CASE ToolCall(a) \in l0
  <2>1. Behind(a, PastLog)
    BY <1>1 DEF OrderInv, CallsBehind
  <2>2. \A u \in Task \ {t} : pc'[u] = pc[u] /\ at'[u] = at[u]
    BY StepShape
  <2>3. at[t] < at'[t] \/ (at'[t] = at[t] /\ (pc[t] \in PastLog => pc'[t] \in PastLog))
    BY <1>0 DEF TypeOK, Step, WorkerReturns, WorkerRaises, GuardDecides, GuardAudits,
       AuditRaises, Finish, SendReply, SendRaises, SkipTool, LogToolCall,
       LogToolCallRaises, CallTool, CallRaises, ToolReturns, ToolRaises, Raise, Goto,
       NextPlan, local, PastLog
  <2>4. Forward(PastLog)
    BY <2>2, <2>3 DEF Forward
  <2> QED BY <1>0, <2>1, <2>4, BehindKept
<1>2. CASE ToolCall(a) \notin l0
  <2>1. a = Current(t) /\ LogToolCall(t)
    BY <1>2, EventsKept
  <2>2. pc'[t] = "call" /\ at'[t] = at[t]
    BY <1>0, <2>1 DEF LogToolCall, Goto, local, TypeOK
  <2> QED BY <2>1, <2>2 DEF Behind, Current, PastLog
<1> QED BY <1>1, <1>2

LEMMA EffectAppended ==
  ASSUME TypeOK, NEW t \in Task, effects' = effects \/ Effect(t)
  PROVE  /\ \A i \in DOMAIN effects : i \in DOMAIN effects' /\ effects'[i] = effects[i]
         /\ \A i \in DOMAIN effects' :
              \/ i \in DOMAIN effects /\ effects'[i] = effects[i]
              \/ Effect(t) /\ effects'[i] = RequestAt(t)
         /\ Effect(t) => \E i \in DOMAIN effects' : effects'[i] = RequestAt(t)
<1>1. effects \in Seq(Request)
  BY DEF TypeOK
<1>2. CASE Effect(t)
  <2>1. effects' = Append(effects, RequestAt(t))
    BY <1>2 DEF Effect
  <2>2. /\ DOMAIN effects' = DOMAIN effects \cup {Len(effects) + 1}
        /\ effects'[Len(effects) + 1] = RequestAt(t)
        /\ \A i \in DOMAIN effects : effects'[i] = effects[i]
    BY <1>1, <2>1
  <2> QED BY <1>2, <2>2
<1>3. CASE effects' = effects /\ ~Effect(t)
  BY <1>3
<1> QED BY <1>2, <1>3

LEMMA InProgressKept ==
  ASSUME IInv, TypeOK', OrderInv, NEW t \in Task, Step(t)
  PROVE  CallInProgress'
<1>0. TypeOK /\ at[t] \in Nat
  BY AtType DEF IInv
<1>1. l0 \subseteq l0' /\ (effects' = effects \/ Effect(t))
  BY StepShape
<1>2. \A i \in DOMAIN effects : i \in DOMAIN effects' /\ effects'[i] = effects[i]
  BY <1>0, <1>1, EffectAppended
<1>3. ASSUME NEW u \in Task, pc'[u] = pc[u], at'[u] = at[u], plans'[u] = plans[u]
      PROVE  /\ pc'[u] \in {"call", "tool"} =>
                  /\ wiring.memory => ToolCall(Current(u)') \in l0'
                  /\ PlanAt(u)'.tool # "channel.send"
             /\ pc'[u] = "tool" =>
                  \E i \in DOMAIN effects' : effects'[i].action = Current(u)'
  <2>1. Current(u)' = Current(u) /\ PlanAt(u)' = PlanAt(u)
    BY <1>3 DEF Current, PlanAt
  <2> QED BY <1>1, <1>2, <1>3, <2>1 DEF OrderInv, CallInProgress
<1>7. ASSUME pc'[t] \in {"call", "tool"} =>
                /\ wiring.memory => ToolCall(Current(t)') \in l0'
                /\ PlanAt(t)'.tool # "channel.send",
             pc'[t] = "tool" => \E i \in DOMAIN effects' : effects'[i].action = Current(t)'
      PROVE  CallInProgress'
  <2>1. wiring' = wiring /\ \A u \in Task \ {t} :
                              pc'[u] = pc[u] /\ at'[u] = at[u] /\ plans'[u] = plans[u]
    BY StepShape
  <2>2. ASSUME NEW u \in Task
        PROVE  /\ pc'[u] \in {"call", "tool"} =>
                    /\ wiring'.memory => ToolCall(Current(u)') \in l0'
                    /\ PlanAt(u)'.tool # "channel.send"
               /\ pc'[u] = "tool" =>
                    \E i \in DOMAIN effects' : effects'[i].action = Current(u)'
    <3>1. CASE u = t
      BY <1>7, <2>1, <3>1
    <3>2. CASE u # t
      BY <1>3, <2>1, <3>2
    <3> QED BY <3>1, <3>2
  <2> QED BY <2>2 DEF CallInProgress, ToolCall
<1>4. CASE LogToolCall(t)
  <2>1. pc'[t] = "call" /\ Current(t)' = Current(t) /\ PlanAt(t)' = PlanAt(t)
    BY <1>0, <1>4 DEF LogToolCall, Goto, local, TypeOK, Current, PlanAt
  <2>2. /\ wiring.memory => ToolCall(Current(t)) \in l0'
        /\ PlanAt(t).tool # "channel.send"
    BY <1>4 DEF LogToolCall, IsSend, Log
  <2> QED BY <1>7, <2>1, <2>2
<1>5. CASE CallTool(t)
  <2>1. pc[t] = "call" /\ Current(t)' = Current(t) /\ PlanAt(t)' = PlanAt(t)
    BY <1>0, <1>5 DEF CallTool, local, Current, PlanAt
  <2>2. /\ wiring.memory => ToolCall(Current(t)) \in l0'
        /\ PlanAt(t).tool # "channel.send"
    BY <1>1, <2>1 DEF OrderInv, CallInProgress
  <2>3. \E i \in DOMAIN effects' : effects'[i].action = Current(t)
    <3>1. PICK i \in DOMAIN effects' : effects'[i] = RequestAt(t)
      BY <1>0, <1>1, <1>5, EffectAppended DEF CallTool
    <3> QED BY <3>1 DEF RequestAt
  <2> QED BY <1>7, <2>1, <2>2, <2>3
<1>6. CASE ~LogToolCall(t) /\ ~CallTool(t)
  <2>1. pc'[t] \notin {"call", "tool"}
    BY <1>0, <1>6 DEF TypeOK, Step, WorkerReturns, WorkerRaises, GuardDecides, GuardAudits,
       AuditRaises, Finish, SendReply, SendRaises, SkipTool,
       LogToolCallRaises, CallRaises, ToolReturns, ToolRaises, Raise, Goto,
       NextPlan
  <2> QED BY <1>7, <2>1
<1> QED BY <1>4, <1>5, <1>6

LEMMA LoggedKept ==
  ASSUME IInv, TypeOK', OrderInv, NEW t \in Task, Step(t)
  PROVE  ToolCallsLogged'
<1>0. TypeOK
  BY DEF IInv
<1>1. l0 \subseteq l0' /\ (effects' = effects \/ Effect(t))
  BY StepShape
<1>2. ASSUME wiring.memory, NEW i \in DOMAIN effects', effects'[i].tool # "channel.send"
      PROVE  ToolCall(effects'[i].action) \in l0'
  <2>1. CASE i \in DOMAIN effects /\ effects'[i] = effects[i]
    BY <1>1, <1>2, <2>1 DEF OrderInv, ToolCallsLogged
  <2>2. CASE Effect(t) /\ effects'[i] = RequestAt(t)
    <3>1. PlanAt(t).tool # "channel.send" /\ effects'[i].action = Current(t)
      BY <1>2, <2>2 DEF RequestAt
    <3>2. effects' # effects
      <4>1. effects \in Seq(Request) /\ effects' = Append(effects, RequestAt(t))
        BY <1>0, <2>2 DEF Effect, TypeOK
      <4> QED BY <4>1
    <3>3. SendReply(t) \/ CallTool(t)
      BY <3>2 DEF Step, WorkerReturns, WorkerRaises, GuardDecides, GuardAudits,
         AuditRaises, Finish, SendRaises, SkipTool, LogToolCall, LogToolCallRaises,
         CallRaises, ToolReturns, ToolRaises, Raise
    <3>4. CallTool(t)
      BY <3>1, <3>3 DEF SendReply, IsSend
    <3> QED BY <1>1, <1>2, <3>1, <3>4 DEF CallTool, OrderInv, CallInProgress
  <2> QED BY <1>0, <1>1, <2>1, <2>2, EffectAppended
<1>3. ASSUME NEW e \in l0', e.kind = "tool_result"
      PROVE  \E i \in DOMAIN effects' : effects'[i].action = e.action
  <2>1. \E i \in DOMAIN effects : effects[i].action = e.action
    <3>1. CASE e \in l0
      BY <1>3, <3>1 DEF OrderInv, ToolCallsLogged
    <3>2. CASE e \notin l0
      <4>1. PICK ok \in BOOLEAN : e = ToolResult(e.action, ok)
        BY <1>3 DEF TypeOK, L0Event, ToolResult
      <4>2. e.action = Current(t) /\ pc[t] = "tool"
        BY <1>3, <3>2, <4>1, EventsKept
      <4> QED BY <4>2 DEF OrderInv, CallInProgress
    <3> QED BY <3>1, <3>2
  <2> QED BY <1>0, <1>1, <2>1, EffectAppended
<1>4. wiring' = wiring
  BY StepShape
<1> QED BY <1>2, <1>3, <1>4 DEF ToolCallsLogged

LEMMA DoneKept ==
  ASSUME IInv, TypeOK', OrderInv, NEW t \in Task, Step(t)
  PROVE  DoneAtEnd'
<1> SUFFICES ASSUME NEW u \in Task, pc'[u] = "done" PROVE at'[u] \notin DOMAIN plans'[u]
  BY DEF DoneAtEnd
<1>0. TypeOK
  BY DEF IInv
<1>1. CASE u # t
  <2>1. pc[u] = "done" /\ at'[u] = at[u] /\ plans'[u] = plans[u]
    BY <1>1, StepShape
  <2> QED BY <2>1 DEF OrderInv, DoneAtEnd
<1>2. CASE u = t
  <2>1. Finish(t)
    BY <1>0, <1>2 DEF TypeOK, Step, WorkerReturns, WorkerRaises, GuardDecides, GuardAudits,
       AuditRaises, SendReply, SendRaises, SkipTool, LogToolCall,
       LogToolCallRaises, CallTool, CallRaises, ToolReturns, ToolRaises, Raise, Goto,
       NextPlan
  <2> QED BY <1>2, <2>1 DEF Finish, local
<1> QED BY <1>1, <1>2

(* The other steps leave the audit log, the effects and the plans alone,   *)
(* and the calls where they stand, or lost.                                *)
Other ==
  \/ \E t \in Task : Receive(t) \/ ReceiveRaises(t)
  \/ \E r \in hitl : Approve(r) \/ Reject(r)
  \/ \E x \in Tool : RegisterTool(x) \/ DeregisterTool(x)
  \/ Restart
  \/ UNCHANGED vars

LEMMA OtherShape ==
  ASSUME TypeOK, Other
  PROVE  /\ UNCHANGED <<plans, at, token, audit, effects>>
         /\ \A u \in Task :
              \/ pc'[u] = pc[u]
              \/ pc[u] = "idle" /\ pc'[u] \in {"worker", "raised"}
              \/ pc[u] \in Running \cup Suspended /\ pc'[u] = "lost"
         /\ l0 \subseteq l0' /\ wiring' = wiring
         /\ ~wiring.memory => l0' = l0
         /\ \A e \in l0' \ l0 : \E u \in Task : e = Inbound(u)
<1>1. CASE \E t \in Task : Receive(t) \/ ReceiveRaises(t)
  BY <1>1 DEF TypeOK, Receive, ReceiveRaises, Raise, Goto, Log, local
<1>2. CASE \E r \in hitl : Approve(r) \/ Reject(r)
  BY <1>2 DEF Approve, Reject, Review, local
<1>3. CASE \E x \in Tool : RegisterTool(x) \/ DeregisterTool(x)
  BY <1>3 DEF RegisterTool, DeregisterTool, local
<1>4. CASE Restart
  BY <1>4 DEF Restart, local
<1>5. CASE UNCHANGED vars
  BY <1>5 DEF vars, local
<1> QED BY <1>1, <1>2, <1>3, <1>4, <1>5 DEF Other

LEMMA OrderOther ==
  ASSUME TypeOK, TypeOK', OrderInv, Other
  PROVE  OrderInv'
<1>1. /\ UNCHANGED <<plans, at, token, audit, effects>>
      /\ \A u \in Task :
           \/ pc'[u] = pc[u]
           \/ pc[u] = "idle" /\ pc'[u] \in {"worker", "raised"}
           \/ pc[u] \in Running \cup Suspended /\ pc'[u] = "lost"
      /\ l0 \subseteq l0' /\ wiring' = wiring
      /\ ~wiring.memory => l0' = l0
      /\ \A e \in l0' \ l0 : \E u \in Task : e = Inbound(u)
  BY OtherShape
<1>2. /\ \A a : ToolCall(a) \in l0' <=> ToolCall(a) \in l0
      /\ \A a, ok : ToolResult(a, ok) \in l0' <=> ToolResult(a, ok) \in l0
      /\ \A e \in l0' : e.kind = "tool_result" => e \in l0
  BY <1>1 DEF Inbound, ToolCall, ToolResult
<1>3. CallInProgress'
  <2>1. \A u \in Task : pc'[u] \in {"call", "tool"} => pc[u] = pc'[u]
    BY <1>1
  <2> QED BY <1>1, <1>2, <2>1 DEF OrderInv, CallInProgress, Current, PlanAt
<1>4. LeftDealtWith'
  BY <1>1, <1>2 DEF OrderInv, LeftDealtWith, Decided, Answered
<1>5. CallsBehind'
  <2>1. Forward(PastLog)
    BY <1>1 DEF Forward, PastLog, Running, Suspended
  <2> QED BY <1>2, <2>1, BehindKept DEF OrderInv, CallsBehind
<1>6. DoneAtEnd'
  BY <1>1 DEF OrderInv, DoneAtEnd
<1>7. NothingKept' /\ ToolCallsLogged'
  BY <1>1, <1>2 DEF OrderInv, NothingKept, ToolCallsLogged
<1> QED BY <1>3, <1>4, <1>5, <1>6, <1>7 DEF OrderInv

LEMMA OrderInit == Init => OrderInv
<1> SUFFICES ASSUME Init PROVE OrderInv
  OBVIOUS
<1>1. CallInProgress /\ CallsBehind /\ DoneAtEnd /\ NothingKept /\ ToolCallsLogged
  BY DEF Init, CallInProgress, CallsBehind, DoneAtEnd, NothingKept, ToolCallsLogged
<1>2. LeftDealtWith
  BY DEF Init, LeftDealtWith
<1> QED BY <1>1, <1>2 DEF OrderInv

LEMMA OrderNext == IInv /\ IInv' /\ OrderInv /\ [Next]_vars => OrderInv'
<1> SUFFICES ASSUME IInv, IInv', OrderInv, [Next]_vars PROVE OrderInv'
  OBVIOUS
<1>0. TypeOK /\ TypeOK'
  BY DEF IInv
<1>1. CASE \E t \in Task : Step(t)
  <2>1. PICK t \in Task : Step(t)
    BY <1>1
  <2>2. NothingKept'
    BY <2>1, StepShape, EventsKept DEF OrderInv, NothingKept
  <2> QED BY <1>0, <2>1, <2>2, LeftKept, CallsKept, InProgressKept, LoggedKept, DoneKept
          DEF OrderInv
<1>2. CASE Other
  BY <1>0, <1>2, OrderOther
<1> QED BY <1>1, <1>2 DEF Next, Other

LEMMA OrderHolds == Spec => []OrderInv
BY OrderInit, OrderNext, Invariance, PTL DEF Spec

(* Where there is a memory store the L0 log brackets every tool call, in   *)
(* every interleaving and across restarts: no request without the logged   *)
(* call.  With or without one, no result without the request.              *)
THEOREM ToolCallsAreLogged == Spec => []ToolCallsLogged
BY OrderHolds, PTL DEF OrderInv

(* No plan is decided before every earlier plan of its message was decided *)
(* and, if its tool was called, answered.                                  *)
THEOREM PlansAreTakenInOrder == Spec => []PlansInOrder
<1>1. IInv /\ OrderInv => PlansInOrder
  <2> SUFFICES ASSUME IInv, OrderInv, NEW row \in audit,
                      NEW i \in 1 .. row.request.action[2] - 1,
                      NEW t, t = row.request.action[1]
               PROVE  Decided(<<t, i>>) /\ (ToolCall(<<t, i>>) \in l0 => Answered(<<t, i>>))
    BY DEF PlansInOrder, Decided, Answered
  <2>1. row.request.action \in Action
    BY DEF IInv, TypeOK, AuditEntry, Request
  <2>2. Behind(row.request.action, PastGuard)
    BY DEF IInv, AuditBehind
  <2>3. t \in Task /\ row.request.action[2] \in Nat /\ at[t] \in Nat
    BY <2>1 DEF Action, IInv, TypeOK
  <2>4. row.request.action[2] <= at[t]
    BY <2>2, <2>3 DEF Behind
  <2>5. i \in 1 .. at[t] - 1
    BY <2>3, <2>4
  <2> QED BY <2>3, <2>5 DEF OrderInv, LeftDealtWith
<1> QED BY <1>1, Invariance, OrderHolds, PTL

(* A call of handle that ends normally has had every plan decided.         *)
THEOREM DoneIsDecided == Spec => []DoneMeansDecided
<1>1. TypeOK /\ OrderInv => DoneMeansDecided
  <2> SUFFICES ASSUME TypeOK, OrderInv, NEW t \in Task, pc[t] = "done",
                      NEW i \in DOMAIN plans[t]
               PROVE  Decided(<<t, i>>)
    BY DEF DoneMeansDecided, Decided
  <2>1. plans[t] \in Seq(Plan) /\ at[t] \in Nat \ {0}
    BY DEF TypeOK
  <2>2. at[t] \notin DOMAIN plans[t]
    BY DEF OrderInv, DoneAtEnd
  <2>3. i \in 1 .. at[t] - 1
    BY <2>1, <2>2
  <2> QED BY <2>3 DEF OrderInv, LeftDealtWith
<1> QED BY <1>1, TypeCorrect, OrderHolds, PTL
-----------------------------------------------------------------------------
(* Held plans.  A request is determined by its action: it is what the plan *)
(* says that the action names.                                             *)
Planned(r) ==
  /\ r.action[2] \in DOMAIN plans[r.action[1]]
  /\ r.tool = plans[r.action[1]][r.action[2]].tool
  /\ r.tier = plans[r.action[1]][r.action[2]].tier

(* Where a call may stand once the guard has decided its current plan.     *)
PastDecision == {"audit"} \cup PastGuard

Waited(r) == r.tier \notin AutoTiers /\ Planned(r) /\ Behind(r.action, PastDecision)

(* Until the row of a held plan is written, nobody else runs, so that its  *)
(* request is still in the queue.                                          *)
StillQueued ==
  restarts = 0 =>
    \A t \in Task : pc[t] = "audit" /\ token[t] = NoToken => RequestAt(t) \in hitl

HeldInv ==
  /\ \A row \in audit : Planned(row.request)
  /\ \A r \in hitl : Waited(r)
  /\ \A v \in reviews : Waited(v.request)
  /\ StillQueued
  /\ HeldForOneVerdict

LEMMA RequestTypes ==
  ASSUME TypeOK
  PROVE  /\ \A row \in audit : row.request \in Request
         /\ \A r \in hitl : r \in Request
         /\ \A v \in reviews : v.request \in Request
         /\ \A r \in Request : r.action \in Action /\ r.action[1] \in Task
                               /\ r.action[2] \in Nat \ {0}
BY DEF TypeOK, AuditEntry, Request, Action

LEMMA OneRequestPerAction ==
  ASSUME NEW r \in Request, NEW s \in Request, Planned(r), Planned(s),
         r.action = s.action
  PROVE  r = s
BY DEF Planned, Request

LEMMA RequestAtPlanned ==
  ASSUME TypeOK, NEW t \in Task, at[t] \in DOMAIN plans[t]
  PROVE  Planned(RequestAt(t)) /\ RequestAt(t) \in Request
<1>1. RequestAt(t) \in Request
  BY PlanAtType
<1>2. Planned(RequestAt(t))
  BY DEF Planned, RequestAt, Current, PlanAt
<1> QED BY <1>1, <1>2

(* What a step that moves calls forward and only appends plans leaves true *)
(* of the requests there are.                                              *)
PlansGrow ==
  \A u \in Task : \A i \in DOMAIN plans[u] :
    i \in DOMAIN plans'[u] /\ plans'[u][i] = plans[u][i]

LEMMA PlannedKept ==
  ASSUME PlansGrow, NEW r \in Request, Planned(r)
  PROVE  Planned(r)'
<1>1. r.action[1] \in Task
  BY DEF Request, Action
<1> QED BY <1>1 DEF PlansGrow, Planned

LEMMA WaitedKept ==
  ASSUME TypeOK, TypeOK', PlansGrow, Forward(PastDecision), NEW r \in Request, Waited(r)
  PROVE  Waited(r)'
<1>1. r.action \in Action
  BY DEF Request
<1>2. PICK a \in Action : a = r.action
  BY <1>1
<1>3. Behind(a, PastDecision)'
  BY <1>2, BehindKept DEF Waited
<1>4. Planned(r)'
  BY PlannedKept DEF Waited
<1> QED BY <1>2, <1>3, <1>4 DEF Waited

(* The calls that are about to write the row of a held plan are those that *)
(* were about to before.                                                   *)
AuditsStand ==
  \A u \in Task : pc'[u] = "audit" =>
    pc[u] = "audit" /\ token'[u] = token[u] /\ at'[u] = at[u] /\ plans'[u] = plans[u]

LEMMA QueuedKept ==
  ASSUME StillQueued, AuditsStand, hitl \subseteq hitl', restarts' = restarts
  PROVE  StillQueued'
<1> SUFFICES ASSUME restarts' = 0, NEW u \in Task, pc'[u] = "audit", token'[u] = NoToken
             PROVE  RequestAt(u)' \in hitl'
  BY DEF StillQueued
<1>1. pc[u] = "audit" /\ token[u] = NoToken /\ RequestAt(u)' = RequestAt(u)
  BY DEF AuditsStand, RequestAt, Current, PlanAt
<1> QED BY <1>1 DEF StillQueued

LEMMA NothingHeld ==
  ASSUME TypeOK, TypeOK', HeldInv, PlansGrow, Forward(PastDecision), AuditsStand,
         UNCHANGED <<audit, hitl, reviews, effects, restarts>>
  PROVE  HeldInv'
<1>1. \A row \in audit' : Planned(row.request)'
  BY RequestTypes, PlannedKept DEF HeldInv
<1>2. (\A r \in hitl' : Waited(r)') /\ (\A v \in reviews' : Waited(v.request)')
  BY RequestTypes, WaitedKept DEF HeldInv
<1>3. StillQueued'
  BY QueuedKept DEF HeldInv
<1>4. HeldForOneVerdict'
  BY DEF HeldInv, HeldForOneVerdict
<1> QED BY <1>1, <1>2, <1>3, <1>4 DEF HeldInv

LEMMA StepForward ==
  ASSUME IInv, NEW t \in Task, Step(t)
  PROVE  PlansGrow /\ Forward(PastDecision)
<1>0. TypeOK /\ at[t] \in Nat
  BY AtType DEF IInv
<1>1. PlansGrow
  BY <1>0, PlansKept DEF PlansGrow
<1>2. \A u \in Task \ {t} : pc'[u] = pc[u] /\ at'[u] = at[u]
  BY StepShape
<1>3. \/ at[t] < at'[t]
      \/ at'[t] = at[t] /\ (pc[t] \in PastDecision => pc'[t] \in PastDecision)
  BY <1>0 DEF TypeOK, Step, WorkerReturns, WorkerRaises, GuardDecides, GuardAudits,
     AuditRaises, Finish, SendReply, SendRaises, SkipTool, LogToolCall,
     LogToolCallRaises, CallTool, CallRaises, ToolReturns, ToolRaises, Raise, Goto,
     NextPlan, local, PastDecision, PastGuard
<1> QED BY <1>1, <1>2, <1>3 DEF Forward

LEMMA StepAuditsStand ==
  ASSUME IInv, NEW t \in Task, Step(t), ~GuardDecides(t)
  PROVE  AuditsStand
<1>0. TypeOK
  BY DEF IInv
<1>1. \A u \in Task \ {t} : /\ pc'[u] = pc[u] /\ at'[u] = at[u]
                            /\ token'[u] = token[u] /\ plans'[u] = plans[u]
  BY StepShape
<1>2. pc'[t] # "audit"
  BY <1>0 DEF TypeOK, Step, WorkerReturns, WorkerRaises, GuardAudits,
     AuditRaises, Finish, SendReply, SendRaises, SkipTool, LogToolCall,
     LogToolCallRaises, CallTool, CallRaises, ToolReturns, ToolRaises, Raise, Goto,
     NextPlan
<1> QED BY <1>1, <1>2 DEF AuditsStand

(* The guard puts a plan into the queue that it has never looked at.       *)
LEMMA HeldDecides ==
  ASSUME IInv, IInv', HeldInv, NEW t \in Task, GuardDecides(t)
  PROVE  HeldInv'
<1> DEFINE r == RequestAt(t)
<1>0. TypeOK /\ TypeOK' /\ at[t] \in Nat
  BY AtType DEF IInv
<1>1. /\ pc[t] = "guard" /\ at[t] \in DOMAIN plans[t]
      /\ UNCHANGED <<plans, at, audit, reviews, effects, restarts>>
  BY DEF GuardDecides
<1>2. PlansGrow /\ Forward(PastDecision)
  BY StepForward DEF Step
<1>3. Planned(r) /\ r \in Request /\ r.action = Current(t) /\ r.tier = PlanAt(t).tier
  BY <1>0, <1>1, RequestAtPlanned DEF RequestAt
<1>4. \/ PlanAt(t).tier \in AutoTiers /\ hitl' = hitl
         /\ token' = [token EXCEPT ![t] = Current(t)]
      \/ PlanAt(t).tier \notin AutoTiers /\ hitl' = hitl \cup {r}
  BY DEF GuardDecides
<1>5. pc' = [pc EXCEPT ![t] = "audit"]
  BY DEF GuardDecides, Goto
<1>6. Current(t) \in Action /\ Current(t) # NoToken
  BY <1>0, <1>1, PlanAtType, TokenAssumption
<1>7. \A q \in Request : q = r /\ q.tier \notin AutoTiers => Waited(q)'
  <2> SUFFICES ASSUME NEW q \in Request, q = r, q.tier \notin AutoTiers
               PROVE  Waited(q)'
    OBVIOUS
  <2>1. Planned(q)'
    BY <1>2, <1>3, PlannedKept
  <2>2. q.action = Current(t)
    BY <1>3
  <2>3. Behind(q.action, PastDecision)'
    BY <1>0, <1>1, <1>5, <2>2 DEF TypeOK, Behind, Current, PastDecision
  <2> QED BY <2>1, <2>3 DEF Waited
<1> HIDE DEF r
<1>8. \A row \in audit' : Planned(row.request)'
  BY <1>0, <1>1, <1>2, RequestTypes, PlannedKept DEF HeldInv
<1>9. \A q \in hitl' : Waited(q)'
  <2>1. \A q \in hitl : Waited(q)'
    BY <1>0, <1>2, RequestTypes, WaitedKept DEF HeldInv
  <2> QED BY <1>3, <1>4, <1>7, <2>1
<1>10. \A v \in reviews' : Waited(v.request)'
  BY <1>0, <1>1, <1>2, RequestTypes, WaitedKept DEF HeldInv
<1>11. StillQueued'
  <2> SUFFICES ASSUME restarts = 0, NEW u \in Task, pc'[u] = "audit", token'[u] = NoToken
               PROVE  RequestAt(u) \in hitl'
    BY <1>1 DEF StillQueued, RequestAt, Current, PlanAt
  <2>1. CASE u = t
    BY <1>0, <1>4, <1>6, <2>1 DEF TypeOK, r
  <2>2. CASE u # t
    <3>1. pc[u] = "audit" /\ token[u] = NoToken
      BY <2>2, StepShape DEF Step
    <3> QED BY <1>4, <3>1 DEF HeldInv, StillQueued
  <2> QED BY <2>1, <2>2
<1>12. \A i \in DOMAIN effects : effects[i].action # r.action
  <2> SUFFICES ASSUME NEW i \in DOMAIN effects, effects[i].action = r.action
               PROVE  FALSE
    OBVIOUS
  <2>1. Behind(Current(t), PastCall)
    BY <1>3 DEF IInv, EffectsBehind
  <2> QED BY <1>0, <1>1, <2>1 DEF Behind, Current, PastCall
<1>13. \A v \in reviews : v.request # r
  <2> SUFFICES ASSUME NEW v \in reviews, v.request = r
               PROVE  FALSE
    OBVIOUS
  <2>1. Behind(Current(t), PastDecision)
    BY <1>3 DEF HeldInv, Waited
  <2> QED BY <1>0, <1>1, <2>1 DEF Behind, Current, PastDecision, PastGuard
<1>14. HeldForOneVerdict'
  <2>1. \A q \in hitl' : /\ \A i \in DOMAIN effects : effects[i].action # q.action
                         /\ \A v \in reviews : v.request # q
    BY <1>4, <1>12, <1>13 DEF HeldInv, HeldForOneVerdict
  <2>2. hitl \subseteq hitl'
    BY <1>4
  <2> QED BY <1>1, <2>1, <2>2 DEF HeldInv, HeldForOneVerdict
<1> QED BY <1>8, <1>9, <1>10, <1>11, <1>14 DEF HeldInv

(* The row that says "queued" is written while the request is in the queue.*)
LEMMA HeldAudits ==
  ASSUME IInv, IInv', HeldInv, NEW t \in Task, GuardAudits(t)
  PROVE  HeldInv'
<1>0. TypeOK /\ TypeOK'
  BY DEF IInv
<1>1. /\ pc[t] = "audit" /\ audit' = audit \cup {Row(t)}
      /\ UNCHANGED <<hitl, reviews, effects, restarts>>
  BY DEF GuardAudits
<1>2. PlansGrow /\ Forward(PastDecision) /\ AuditsStand
  <2>1. ~GuardDecides(t)
    BY <1>1 DEF GuardDecides
  <2> QED BY <2>1, StepForward, StepAuditsStand DEF Step
<1>3. at[t] \in DOMAIN plans[t]
  BY <1>1 DEF IInv, PlanReached
<1>4. Planned(RequestAt(t)) /\ RequestAt(t) \in Request
  BY <1>0, <1>3, RequestAtPlanned
<1>5. \A row \in audit' : Planned(row.request)'
  <2>1. \A row \in audit : Planned(row.request)'
    BY <1>0, <1>2, RequestTypes, PlannedKept DEF HeldInv
  <2>2. PICK q \in Request : q = RequestAt(t)
    BY <1>4
  <2>3. Planned(q)'
    BY <1>2, <1>4, <2>2, PlannedKept
  <2>4. Row(t).request = q
    BY <2>2 DEF Row
  <2> QED BY <1>1, <2>1, <2>3, <2>4
<1>6. (\A q \in hitl' : Waited(q)') /\ (\A v \in reviews' : Waited(v.request)')
  BY <1>0, <1>1, <1>2, RequestTypes, WaitedKept DEF HeldInv
<1>7. StillQueued'
  BY <1>1, <1>2, QueuedKept DEF HeldInv
<1>8. restarts = 0 /\ Row(t).decision = "hitl_queued" => Row(t).request \in hitl
  <2> SUFFICES ASSUME restarts = 0, Row(t).decision = "hitl_queued"
               PROVE  RequestAt(t) \in hitl
    BY DEF Row
  <2>1. PlanAt(t).tier \notin AutoTiers
    BY DEF Row, Decision
  <2>2. token[t] = NoToken
    BY <1>1, <2>1 DEF IInv, Cleared
  <2> QED BY <1>1, <2>2 DEF HeldInv, StillQueued
<1>9. HeldForOneVerdict'
  BY <1>1, <1>8 DEF HeldInv, HeldForOneVerdict
<1> QED BY <1>5, <1>6, <1>7, <1>9 DEF HeldInv

(* What takes effect is a plan of an automatic tier, so none that is held. *)
LEMMA HeldExecutes ==
  ASSUME IInv, IInv', HeldInv, NEW t \in Task, SendReply(t) \/ CallTool(t)
  PROVE  HeldInv'
<1>0. TypeOK /\ TypeOK'
  BY DEF IInv
<1>1. /\ pc[t] \in {"execute", "call"} /\ Effect(t)
      /\ UNCHANGED <<audit, hitl, reviews, restarts>>
  BY DEF SendReply, CallTool
<1>2. PlansGrow /\ Forward(PastDecision) /\ AuditsStand
  <2>1. ~GuardDecides(t)
    BY <1>1 DEF GuardDecides
  <2> QED BY <2>1, StepForward, StepAuditsStand DEF Step
<1>3. PlanAt(t).tier \in AutoTiers /\ at[t] \in DOMAIN plans[t]
  BY <1>1 DEF IInv, Cleared, PlanReached
<1>4. \A row \in audit' : Planned(row.request)'
  BY <1>0, <1>1, <1>2, RequestTypes, PlannedKept DEF HeldInv
<1>5. (\A q \in hitl' : Waited(q)') /\ (\A v \in reviews' : Waited(v.request)')
  BY <1>0, <1>1, <1>2, RequestTypes, WaitedKept DEF HeldInv
<1>6. StillQueued'
  BY <1>1, <1>2, QueuedKept DEF HeldInv
<1>7. \A q \in hitl : q.action # Current(t)
  <2> SUFFICES ASSUME NEW q \in hitl, q.action = Current(t)
               PROVE  FALSE
    OBVIOUS
  <2>1. Planned(q) /\ q.tier \notin AutoTiers
    BY DEF HeldInv, Waited
  <2>2. q.tier = PlanAt(t).tier
    BY <2>1 DEF Planned, Current, PlanAt
  <2> QED BY <1>3, <2>1, <2>2
<1>8. \A q \in hitl : \A i \in DOMAIN effects' : effects'[i].action # q.action
  BY <1>0, <1>1, <1>7, EffectAppended DEF HeldInv, HeldForOneVerdict, RequestAt
<1>9. HeldForOneVerdict'
  BY <1>1, <1>8 DEF HeldInv, HeldForOneVerdict
<1> QED BY <1>4, <1>5, <1>6, <1>9 DEF HeldInv

LEMMA HeldStep ==
  ASSUME IInv, IInv', HeldInv, NEW t \in Task, Step(t)
  PROVE  HeldInv'
<1>1. CASE GuardDecides(t)
  BY <1>1, HeldDecides
<1>2. CASE GuardAudits(t)
  BY <1>2, HeldAudits
<1>3. CASE SendReply(t) \/ CallTool(t)
  BY <1>3, HeldExecutes
<1>4. CASE ~GuardDecides(t) /\ ~GuardAudits(t) /\ ~SendReply(t) /\ ~CallTool(t)
  <2>1. UNCHANGED <<audit, hitl, reviews, effects, restarts>>
    BY <1>4 DEF Step, WorkerReturns, WorkerRaises, AuditRaises, Finish, SendRaises,
       SkipTool, LogToolCall, LogToolCallRaises, CallRaises, ToolReturns, ToolRaises,
       Raise
  <2>2. PlansGrow /\ Forward(PastDecision) /\ AuditsStand
    BY <1>4, StepForward, StepAuditsStand
  <2> QED BY <2>1, <2>2, NothingHeld DEF IInv
<1> QED BY <1>1, <1>2, <1>3, <1>4

(* A verdict takes the request out of the queue for good.                  *)
LEMMA HeldReviewed ==
  ASSUME IInv, IInv', HeldInv, NEW r \in hitl, NEW verdict, Review(r, verdict)
  PROVE  HeldInv'
<1>0. TypeOK /\ TypeOK' /\ r \in Request
  BY RequestTypes DEF IInv
<1>1. /\ \A u \in Task : pc[u] # "audit"
      /\ hitl' = hitl \ {r}
      /\ reviews' = reviews \cup {[request |-> r, verdict |-> verdict]}
      /\ UNCHANGED <<pc, plans, at, token, audit, effects, restarts>>
  BY DEF Review, LoopFree, Running, local
<1>2. PlansGrow /\ Forward(PastDecision)
  BY <1>1 DEF PlansGrow, Forward
<1>3. \A row \in audit' : Planned(row.request)'
  BY <1>0, <1>1, <1>2, RequestTypes, PlannedKept DEF HeldInv
<1>4. \A q \in hitl' : Waited(q)'
  BY <1>0, <1>1, <1>2, RequestTypes, WaitedKept DEF HeldInv
<1>5. \A v \in reviews' : Waited(v.request)'
  <2>1. Waited(r)'
    BY <1>0, <1>2, WaitedKept DEF HeldInv
  <2>2. \A v \in reviews : Waited(v.request)'
    BY <1>0, <1>2, RequestTypes, WaitedKept DEF HeldInv
  <2> QED BY <1>1, <2>1, <2>2
<1>6. StillQueued'
  BY <1>1 DEF StillQueued
<1>7. /\ \A v \in reviews : v.request # r
      /\ [request |-> r, verdict |-> verdict].request = r
  BY DEF HeldInv, HeldForOneVerdict
<1>8. HeldForOneVerdict'
  <2>1. \A q \in hitl' : /\ \A i \in DOMAIN effects : effects[i].action # q.action
                         /\ \A v \in reviews' : v.request # q
    BY <1>1, <1>7 DEF HeldInv, HeldForOneVerdict
  <2>2. \A v, w \in reviews' : v.request = w.request => v = w
    BY <1>1, <1>7 DEF HeldInv, HeldForOneVerdict
  <2>3. restarts = 0 =>
          \A row \in audit : row.decision = "hitl_queued" =>
            row.request \in hitl' \/ \E v \in reviews' : v.request = row.request
    BY <1>1, <1>7 DEF HeldInv, HeldForOneVerdict
  <2> QED BY <1>1, <2>1, <2>2, <2>3 DEF HeldForOneVerdict
<1> QED BY <1>3, <1>4, <1>5, <1>6, <1>8 DEF HeldInv

LEMMA HeldOther ==
  ASSUME IInv, IInv', HeldInv, Other
  PROVE  HeldInv'
<1>0. TypeOK /\ TypeOK'
  BY DEF IInv
<1>s. /\ UNCHANGED <<plans, at, token, audit, effects>>
      /\ \A u \in Task :
           \/ pc'[u] = pc[u]
           \/ pc[u] = "idle" /\ pc'[u] \in {"worker", "raised"}
           \/ pc[u] \in Running \cup Suspended /\ pc'[u] = "lost"
  BY <1>0, OtherShape
<1>f. PlansGrow /\ Forward(PastDecision) /\ AuditsStand
  BY <1>s DEF PlansGrow, Forward, AuditsStand, PastDecision, PastGuard
<1>1. CASE \E r \in hitl : Approve(r) \/ Reject(r)
  BY <1>1, HeldReviewed DEF Approve, Reject
<1>2. CASE Restart
  <2>1. hitl' = {} /\ restarts' = restarts + 1 /\ restarts \in Nat /\ UNCHANGED reviews
    BY <1>0, <1>2 DEF Restart, TypeOK
  <2>2. restarts' # 0
    BY <2>1
  <2>3. \A row \in audit' : Planned(row.request)'
    BY <1>0, <1>s, <1>f, RequestTypes, PlannedKept DEF HeldInv
  <2>4. (\A q \in hitl' : Waited(q)') /\ (\A v \in reviews' : Waited(v.request)')
    BY <1>0, <1>f, <2>1, RequestTypes, WaitedKept DEF HeldInv
  <2>5. StillQueued' /\ HeldForOneVerdict'
    BY <2>1, <2>2 DEF StillQueued, HeldInv, HeldForOneVerdict
  <2> QED BY <2>3, <2>4, <2>5 DEF HeldInv
<1>3. CASE \/ \E t \in Task : Receive(t) \/ ReceiveRaises(t)
           \/ \E x \in Tool : RegisterTool(x) \/ DeregisterTool(x)
           \/ UNCHANGED vars
  <2>1. UNCHANGED <<audit, hitl, reviews, effects, restarts>>
    BY <1>3 DEF Receive, ReceiveRaises, Raise, RegisterTool, DeregisterTool, vars
  <2> QED BY <1>0, <1>f, <2>1, NothingHeld
<1> QED BY <1>1, <1>2, <1>3 DEF Other

LEMMA HeldInit == Init => HeldInv
BY DEF Init, HeldInv, StillQueued, HeldForOneVerdict

LEMMA HeldNext == IInv /\ IInv' /\ HeldInv /\ [Next]_vars => HeldInv'
BY HeldStep, HeldOther DEF Next, Other

LEMMA HeldHolds == Spec => []HeldInv
BY HeldInit, HeldNext, Invariance, PTL DEF Spec

(* A held plan gets one verdict and no effect, and until the process is    *)
(* restarted no plan the log calls queued is lost.                         *)
THEOREM HeldPlansAwaitOneVerdict == Spec => []HeldForOneVerdict
BY HeldHolds, PTL DEF HeldInv
-----------------------------------------------------------------------------
(* No plan a reviewer has judged ever takes effect, before the verdict or  *)
(* after it, and whatever the verdict: approve only takes it off the queue *)
(* (why ApprovedIsExecuted is violated).                                   *)
ReviewedHasNoEffect ==
  \A v \in reviews : \A i \in DOMAIN effects : effects[i].action # v.request.action

THEOREM ReviewedNeverTakesEffect == Spec => []ReviewedHasNoEffect
<1>1. IInv /\ HeldInv => ReviewedHasNoEffect
  <2> SUFFICES ASSUME IInv, HeldInv, NEW v \in reviews, NEW i \in DOMAIN effects,
                      effects[i].action = v.request.action
               PROVE  FALSE
    BY DEF ReviewedHasNoEffect
  <2>1. [request |-> effects[i], decision |-> "auto_approved"] \in audit
    BY DEF IInv, EffectsBehind
  <2>2. effects[i].tier \in AutoTiers
    <3>1. Decision(effects[i].tier) = "auto_approved"
      BY <2>1 DEF IInv, AuditBehind
    <3> QED BY <3>1 DEF Decision
  <2>3. effects[i] \in Request /\ v.request \in Request
    BY <2>1, RequestTypes DEF IInv
  <2>4. Planned(effects[i])
    BY <2>1 DEF HeldInv
  <2>5. Planned(v.request) /\ v.request.tier \notin AutoTiers
    BY DEF HeldInv, Waited
  <2>6. effects[i] = v.request
    BY <2>3, <2>4, <2>5, OneRequestPerAction
  <2> QED BY <2>2, <2>5, <2>6
<1> QED BY <1>1, Invariance, HeldHolds, PTL
-----------------------------------------------------------------------------
(* Turn counts.  The inbound events of a conversation, the calls that may  *)
(* still write theirs, and the turns of the calls in progress.             *)
InboundOf(c) == {e \in l0 : e.kind = "inbound_message" /\ ConvOf[e.task] = c}
Active       == {t \in Task : pc[t] \in Running \cup Suspended}

IdleUnlogged == \A t \in Task : pc[t] = "idle" => Inbound(t) \notin l0

Counted ==
  \A c \in Conv : /\ IsFiniteSet(InboundOf(c))
                  /\ l1[c] <= Cardinality(InboundOf(c))
                  /\ restarts = 0 => l1[c] = Cardinality(InboundOf(c))
TurnsDiffer ==
  wiring.memory =>
    /\ \A t \in Active : turn[t] <= l1[ConvOf[t]]
    /\ \A t, u \in Active : t # u /\ ConvOf[t] = ConvOf[u] => turn[t] # turn[u]

TurnInv == IdleUnlogged /\ Counted /\ TurnsDiffer

LEMMA InboundEvents ==
  ASSUME TypeOK, NEW e \in l0, e.kind = "inbound_message"
  PROVE  e.task \in Task /\ e = Inbound(e.task)
BY DEF TypeOK, L0Event, Inbound

(* The event a message writes when it is received is a new one.            *)
LEMMA ReceiveCounts ==
  ASSUME TypeOK, TypeOK', TurnInv, wiring.memory, NEW t \in Task, Receive(t)
  PROVE  TurnInv'
<1>1. /\ pc[t] = "idle"
      /\ l0' = l0 \cup {Inbound(t)}
      /\ l1' = [l1 EXCEPT ![ConvOf[t]] = @ + 1]
      /\ turn' = [turn EXCEPT ![t] = l1[ConvOf[t]] + 1]
      /\ pc' = [pc EXCEPT ![t] = "worker"] \/ pc' = [pc EXCEPT ![t] = "raised"]
      /\ UNCHANGED <<restarts, wiring>>
  BY DEF Receive, Goto, Log
<1>2. ConvOf[t] \in Conv /\ l1 \in [Conv -> Nat] /\ turn \in [Task -> Nat]
      /\ pc \in [Task -> {"idle"} \cup Running \cup Suspended \cup Terminated]
      /\ \A u \in Task : ConvOf[u] \in Conv
  BY TasksAssumption DEF TypeOK
<1>3. Inbound(t) \notin l0
  BY <1>1 DEF TurnInv, IdleUnlogged
<1>4. IdleUnlogged'
  BY <1>1, <1>2 DEF TurnInv, IdleUnlogged, Inbound
<1>5. Counted'
  <2> SUFFICES ASSUME NEW c \in Conv
               PROVE  /\ IsFiniteSet(InboundOf(c)')
                      /\ l1'[c] <= Cardinality(InboundOf(c)')
                      /\ restarts = 0 => l1'[c] = Cardinality(InboundOf(c)')
    BY <1>1 DEF Counted
  <2>1. /\ IsFiniteSet(InboundOf(c)) /\ Cardinality(InboundOf(c)) \in Nat
        /\ l1[c] <= Cardinality(InboundOf(c)) /\ l1[c] \in Nat
        /\ restarts = 0 => l1[c] = Cardinality(InboundOf(c))
    BY <1>2, FS_CardinalityType DEF TurnInv, Counted
  <2>2. CASE c = ConvOf[t]
    <3>1. InboundOf(c)' = InboundOf(c) \cup {Inbound(t)}
      BY <1>1, <2>2 DEF InboundOf, Inbound
    <3>2. Inbound(t) \notin InboundOf(c)
      BY <1>3 DEF InboundOf
    <3>3. /\ IsFiniteSet(InboundOf(c)')
          /\ Cardinality(InboundOf(c)') = Cardinality(InboundOf(c)) + 1
      BY <2>1, <3>1, <3>2, FS_AddElement
    <3>4. l1'[c] = l1[c] + 1
      BY <1>1, <1>2, <2>2
    <3> QED BY <2>1, <3>3, <3>4
  <2>3. CASE c # ConvOf[t]
    <3>1. InboundOf(c)' = InboundOf(c) /\ l1'[c] = l1[c]
      BY <1>1, <1>2, <2>3 DEF InboundOf, Inbound
    <3> QED BY <2>1, <3>1
  <2> QED BY <2>2, <2>3
<1>6. TurnsDiffer'
  <2>1. \A u \in Active' : u # t => u \in Active /\ turn'[u] = turn[u]
    BY <1>1, <1>2 DEF Active
  <2>2. turn'[t] = l1[ConvOf[t]] + 1 /\ l1'[ConvOf[t]] = l1[ConvOf[t]] + 1
    BY <1>1, <1>2
  <2>3. \A c \in Conv : l1[c] \in Nat /\ l1'[c] \in Nat /\ l1[c] <= l1'[c]
    BY <1>1, <1>2
  <2>4. \A u \in Active : turn[u] \in Nat /\ turn[u] <= l1[ConvOf[u]] /\ ConvOf[u] \in Conv
    BY <1>2 DEF TurnInv, TurnsDiffer, Active
  <2>5. ASSUME NEW u \in Active' PROVE turn'[u] <= l1'[ConvOf[u]]
    BY <1>2, <2>1, <2>2, <2>3, <2>4
  <2>6. ASSUME NEW u \in Active', u # t, ConvOf[u] = ConvOf[t]
        PROVE  turn'[u] # turn'[t]
    BY <1>2, <2>1, <2>2, <2>3, <2>4, <2>6
  <2>7. ASSUME NEW u \in Active', NEW w \in Active', u # w, ConvOf[u] = ConvOf[w]
        PROVE  turn'[u] # turn'[w]
    BY <2>1, <2>6, <2>7 DEF TurnInv, TurnsDiffer
  <2> QED BY <2>5, <2>7 DEF TurnsDiffer
<1> QED BY <1>4, <1>5, <1>6 DEF TurnInv

(* A step that leaves the counters alone and writes no inbound event.      *)
LEMMA CountsKept ==
  ASSUME TurnInv, UNCHANGED <<l1, turn, restarts, wiring>>,
         l0 \subseteq l0', \A e \in l0' \ l0 : e.kind # "inbound_message",
         \A u \in Task : pc'[u] = "idle" => pc[u] = "idle",
         wiring.memory => Active' \subseteq Active
  PROVE  TurnInv'
<1>1. \A c : InboundOf(c)' = InboundOf(c)
  BY DEF InboundOf
<1>2. Counted'
  BY <1>1 DEF TurnInv, Counted
<1>3. IdleUnlogged'
  BY DEF TurnInv, IdleUnlogged, Inbound
<1>4. TurnsDiffer'
  BY DEF TurnInv, TurnsDiffer
<1> QED BY <1>2, <1>3, <1>4 DEF TurnInv

LEMMA TurnStep ==
  ASSUME TypeOK, TurnInv, NEW t \in Task, Step(t)
  PROVE  TurnInv'
<1>1. UNCHANGED <<l1, turn, restarts, wiring>>
  BY DEF Step, WorkerReturns, WorkerRaises, GuardDecides, GuardAudits,
     AuditRaises, Finish, SendReply, SendRaises, SkipTool, LogToolCall,
     LogToolCallRaises, CallTool, CallRaises, ToolReturns, ToolRaises, Raise, local
<1>2. l0 \subseteq l0' /\ \A e \in l0' \ l0 : e.kind # "inbound_message"
  BY DEF Step, WorkerReturns, WorkerRaises, GuardDecides, GuardAudits,
     AuditRaises, Finish, SendReply, SendRaises, SkipTool, LogToolCall,
     LogToolCallRaises, CallTool, CallRaises, ToolReturns, ToolRaises, Raise,
     ToolCall, ToolResult, Log
<1>3. pc[t] \in Running \cup Suspended /\ pc'[t] # "idle"
      /\ \A u \in Task : u # t => pc'[u] = pc[u]
  BY DEF TypeOK, Step, WorkerReturns, WorkerRaises, GuardDecides, GuardAudits,
     AuditRaises, Finish, SendReply, SendRaises, SkipTool, LogToolCall,
     LogToolCallRaises, CallTool, CallRaises, ToolReturns, ToolRaises, Raise, Goto,
     NextPlan, Running, Suspended
<1>4. Active' \subseteq Active /\ \A u \in Task : pc'[u] = "idle" => pc[u] = "idle"
  BY <1>3 DEF Active
<1> QED BY <1>1, <1>2, <1>4, CountsKept

(* A restart forgets the counters, and nobody is left to have read one.    *)
LEMMA TurnRestart ==
  ASSUME TypeOK, TurnInv, Restart
  PROVE  TurnInv'
<1>1. /\ l0' = l0 /\ turn' = turn /\ restarts' = restarts + 1 /\ restarts \in Nat
      /\ l1' = [c \in Conv |-> 0]
      /\ \A u \in Task :
           pc'[u] = IF pc[u] \in Running \cup Suspended THEN "lost" ELSE pc[u]
  BY DEF Restart, TypeOK, local
<1>2. Active' = {}
  BY <1>1 DEF Active, Running, Suspended
<1>3. \A c : InboundOf(c)' = InboundOf(c)
  BY <1>1 DEF InboundOf
<1>4. Counted'
  <2> SUFFICES ASSUME NEW c \in Conv
               PROVE  /\ IsFiniteSet(InboundOf(c)) /\ l1'[c] <= Cardinality(InboundOf(c))
                      /\ restarts' # 0
    BY <1>3 DEF Counted
  <2>1. IsFiniteSet(InboundOf(c)) /\ Cardinality(InboundOf(c)) \in Nat
    BY FS_CardinalityType DEF TurnInv, Counted
  <2> QED BY <1>1, <2>1
<1>5. IdleUnlogged' /\ TurnsDiffer'
  BY <1>1, <1>2 DEF TurnInv, IdleUnlogged, TurnsDiffer
<1> QED BY <1>4, <1>5 DEF TurnInv

LEMMA TurnInit == Init => TurnInv
<1> SUFFICES ASSUME Init PROVE TurnInv
  OBVIOUS
<1>1. l0 = {} /\ l1 = [c \in Conv |-> 0]
  BY DEF Init
<1>2. Counted
  <2>1. \A c \in Conv : InboundOf(c) = {}
    BY <1>1 DEF InboundOf
  <2> QED BY <1>1, <2>1, FS_EmptySet DEF Counted
<1>3. Active = {}
  BY DEF Init, Active, Running, Suspended
<1> QED BY <1>2, <1>3 DEF Init, TurnInv, IdleUnlogged, TurnsDiffer

LEMMA TurnNext == TypeOK /\ TypeOK' /\ TurnInv /\ [Next]_vars => TurnInv'
<1> SUFFICES ASSUME TypeOK, TypeOK', TurnInv, [Next]_vars PROVE TurnInv'
  OBVIOUS
<1>1. CASE \E t \in Task : Step(t)
  BY <1>1, TurnStep
<1>2. CASE \E t \in Task : Receive(t)
  <2>1. CASE wiring.memory
    BY <1>2, <2>1, ReceiveCounts
  <2>2. CASE ~wiring.memory
    <3>1. /\ UNCHANGED <<l0, l1, turn, restarts, wiring>>
          /\ \A u \in Task : pc'[u] = "idle" => pc[u] = "idle"
      BY <1>2, <2>2 DEF Receive, Log, Goto, TypeOK
    <3> QED BY <2>2, <3>1, CountsKept
  <2> QED BY <2>1, <2>2
<1>3. CASE Restart
  BY <1>3, TurnRestart
<1>4. CASE \/ \E t \in Task : ReceiveRaises(t)
           \/ \E r \in hitl : Approve(r) \/ Reject(r)
           \/ \E x \in Tool : RegisterTool(x) \/ DeregisterTool(x)
           \/ UNCHANGED vars
  <2>1. UNCHANGED <<l0, l1, turn, restarts, wiring>>
    BY <1>4 DEF ReceiveRaises, Raise, Approve, Reject, Review, RegisterTool,
       DeregisterTool, vars, local
  <2>2. \A u \in Task : pc'[u] = pc[u] \/ pc'[u] = "raised"
    BY <1>4 DEF ReceiveRaises, Raise, Approve, Reject, Review, RegisterTool,
       DeregisterTool, vars, local, Goto, TypeOK
  <2>3. Active' \subseteq Active
    BY <2>2 DEF Active, Running, Suspended
  <2> QED BY <2>1, <2>2, <2>3, CountsKept
<1> QED BY <1>1, <1>2, <1>3, <1>4 DEF Next

(* turn_count never runs ahead of the inbound events on disk, agrees with  *)
(* them until a restart, and two calls in progress on one conversation     *)
(* never see the same turn, however many there are.                        *)
THEOREM TurnsAreCounted == Spec => []TurnCounts
<1>1. Spec => []TurnInv
  BY TurnInit, TurnNext, TypeCorrect, PTL DEF Spec
<1>2. TurnInv => TurnCounts
  BY DEF TurnInv, Counted, TurnsDiffer, TurnCounts, InboundOf, Active
<1> QED BY <1>1, <1>2, PTL
=============================================================================
