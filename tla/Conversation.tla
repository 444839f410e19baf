---------------------------- MODULE Conversation ----------------------------
(***************************************************************************)
(* One OpenCS process handling customer messages: every call of            *)
(* Orchestrator.handle is a Task of the asyncio event loop, which runs     *)
(* the worker (LLM), then takes the worker's plans one at a time through   *)
(* ActionGuard, and carries out the approved ones through the channel      *)
(* adapter or the tool executor.                                           *)
(*                                                                         *)
(* A coroutine gives up the event loop only at an await that suspends:     *)
(* the LLM call (pc "worker") and the HTTP tool call (pc "tool").  Between *)
(* two of those it runs alone, but the process may die, or a statement may *)
(* raise, at every step.  SQLite tables (l0, audit) survive a restart; the *)
(* HITL queue, the session store and the tool registry do not.             *)
(* Plans, rows and queue items are sets: uuid action ids make them unique. *)
(***************************************************************************)
EXTENDS Harness, Integers, Sequences, FiniteSets

CONSTANTS
  Task,            \* the calls of Orchestrator.handle
  Conv,            \* conversation ids
  ConvOf,          \* the conversation each call's message belongs to
  Tool,            \* ids of the business tools
  Channel,         \* ids of the channels a plan may name
  Workers,         \* for each worker, in order, the plan lists it may return
  Wirings,         \* the deployments: a tool executor, a memory store or none,
                   \* and which adapters
  InitTools,       \* the tools registered when the process starts
  NoToken,         \* what a call holds when the guard issued no token
  MaxRestarts      \* bound on the restarts of the process

Action == Task \X (Nat \ {0})
ToolId == Tool \cup {"channel.send"}
Plan   == [tool: ToolId, tier: RiskTier, channel: Channel]

ASSUME TasksAssumption   == ConvOf \in [Task -> Conv]
ASSUME ToolsAssumption   == "channel.send" \notin Tool /\ InitTools \subseteq Tool
ASSUME WorkersAssumption == Workers \in Seq(SUBSET Seq(Plan)) /\ Workers # << >>
ASSUME WiringAssumption  ==
  Wirings \subseteq [executor: BOOLEAN, memory: BOOLEAN, adapters: SUBSET Channel]
ASSUME TokenAssumption   == NoToken \notin Action
ASSUME BoundsAssumption  == MaxRestarts \in Nat

VARIABLES
  pc,       \* where each call of handle stands
  worker,   \* the worker it awaits
  plans,    \* all_plans, as far as the workers have returned them
  at,       \* the plan the loop over all_plans has reached
  token,    \* the action id of the token it holds
  turn,     \* the turn_count its session context was given
  l0,       \* L0RawEventStore
  l1,       \* L1SessionStore: turn_count of each conversation
  audit,    \* AuditLog
  hitl,     \* HITLQueue
  reviews,  \* verdicts reviewers gave on items of the HITL queue
  tools,    \* ToolRegistry
  effects,  \* side effects of the process on the outside, in order
  restarts, \* how often the process was restarted
  wiring    \* what the orchestrator and the channel registry were built with

local   == <<worker, plans, at, token, turn>>
vars    == <<pc, local, l0, l1, audit, hitl, reviews, tools, effects, restarts, wiring>>
-----------------------------------------------------------------------------
Request == [action: Action, tool: ToolId, tier: RiskTier]

(* A coroutine inside one of these steps has the event loop for itself.    *)
Running    == {"guard", "audit", "execute", "call"}
Suspended  == {"worker", "tool"}
Terminated == {"done", "raised", "lost"}
LoopFree   == \A t \in Task : pc[t] \notin Running

Current(t) == <<t, at[t]>>
PlanAt(t)  == plans[t][at[t]]
RequestAt(t) ==
  [action |-> Current(t), tool |-> PlanAt(t).tool, tier |-> PlanAt(t).tier]

Goto(t, label) == pc' = [pc EXCEPT ![t] = label]
NextPlan(t)    == at' = [at EXCEPT ![t] = @ + 1] /\ Goto(t, "guard")

(* An exception leaves handle: the rest of its plans is never looked at.   *)
Raise(t) ==
  /\ Goto(t, "raised")
  /\ UNCHANGED <<local, l0, l1, audit, hitl, reviews, tools, effects, restarts, wiring>>

Inbound(t)        == [kind |-> "inbound_message", task |-> t]
ToolCall(a)       == [kind |-> "tool_call", action |-> a]
(* Mutation: the result row does not say whether the call succeeded.       *)
ToolResultWithoutSuccess(a, ok) == [kind |-> "tool_result", action |-> a]

ToolResult(a, ok) == [kind |-> "tool_result", action |-> a, success |-> ok]
L0Event ==
  [kind: {"inbound_message"}, task: Task]
    \cup [kind: {"tool_call"}, action: Action]
    \cup [kind: {"tool_result"}, action: Action, success: BOOLEAN]
AuditEntry == [request: Request, decision: GuardDecision]

(* With a memory store an event is appended to L0; without one, which is   *)
(* what the constructor defaults to, nothing is kept of it.                *)
Log(event) == l0' = IF wiring.memory THEN l0 \cup {event} ELSE l0

Row(t) == [request |-> RequestAt(t), decision |-> Decision(PlanAt(t).tier)]

(* The adapter a send goes to: the named channel, webchat if that one is   *)
(* not registered, and no adapter if webchat is not registered either.     *)
NoAdapter == "none"
Adapter(channel) ==
  CASE channel \in wiring.adapters   -> channel
    [] channel \notin wiring.adapters /\ "webchat" \in wiring.adapters -> "webchat"
    [] OTHER                    -> NoAdapter
-----------------------------------------------------------------------------
Init ==
  /\ pc      = [t \in Task |-> "idle"]
  /\ worker  = [t \in Task |-> 1]
  /\ plans   = [t \in Task |-> << >>]
  /\ at      = [t \in Task |-> 1]
  /\ token   = [t \in Task |-> NoToken]
  /\ turn    = [t \in Task |-> 0]
  /\ l0      = {}
  /\ l1      = [c \in Conv |-> 0]
  /\ audit   = {}
  /\ hitl    = {}
  /\ reviews = {}
  /\ tools   = InitTools
  /\ effects = << >>
  /\ restarts = 0
  /\ wiring  \in Wirings

(* Mutation: the turn counter is read but not written back.                *)
ReceiveWithoutCounting(t) ==
  /\ pc[t] = "idle" /\ LoopFree
  /\ Log(Inbound(t))
  /\ turn' = [turn EXCEPT ![t] = l1[ConvOf[t]] + 1]
  /\ Goto(t, "worker")
  /\ UNCHANGED <<worker, plans, at, token, l1, audit, hitl, reviews, tools,
                 effects, restarts, wiring>>

(* handle starts: with a memory store the inbound event is logged and      *)
(* counted, and the context is read back before anybody else can run;      *)
(* reading it may raise.  Without one the workers get no context.          *)
Receive(t) ==
  /\ pc[t] = "idle" /\ LoopFree
  /\ Log(Inbound(t))
  /\ \/ /\ wiring.memory
        /\ l1' = [l1 EXCEPT ![ConvOf[t]] = @ + 1]
        /\ turn' = [turn EXCEPT ![t] = l1[ConvOf[t]] + 1]
        /\ Goto(t, "worker") \/ Goto(t, "raised")
     \/ /\ ~wiring.memory
        /\ Goto(t, "worker")
        /\ UNCHANGED <<l1, turn>>
  /\ UNCHANGED <<worker, plans, at, token, audit, hitl, reviews, tools,
                 effects, restarts, wiring>>

(* The L0 database refuses the inbound event: nothing has happened yet.    *)
ReceiveRaises(t) ==
  pc[t] = "idle" /\ LoopFree /\ wiring.memory /\ Raise(t)

(* The awaited worker returns its plans; after the last one the loop over  *)
(* all plans starts without giving up the event loop.                      *)
WorkerReturns(t) ==
  /\ pc[t] = "worker" /\ LoopFree
  /\ \E ps \in Workers[worker[t]] : plans' = [plans EXCEPT ![t] = @ \o ps]
  /\ \/ /\ worker[t] < Len(Workers)
        /\ worker' = [worker EXCEPT ![t] = @ + 1]
        /\ UNCHANGED pc
     \/ /\ worker[t] = Len(Workers)
        /\ Goto(t, "guard")
        /\ UNCHANGED worker
  /\ UNCHANGED <<at, token, turn, l0, l1, audit, hitl, reviews, tools,
                 effects, restarts, wiring>>

WorkerRaises(t) == pc[t] = "worker" /\ LoopFree /\ Raise(t)
-----------------------------------------------------------------------------
(* ActionGuard.evaluate, up to the audit row: a plan of an automatic tier  *)
(* gets a token for its action id, any other one goes to the HITL queue.   *)
GuardDecides(t) ==
  /\ pc[t] = "guard" /\ at[t] \in DOMAIN plans[t]
  /\ \/ /\ PlanAt(t).tier \in AutoTiers
        /\ token' = [token EXCEPT ![t] = Current(t)]
        /\ UNCHANGED hitl
     \/ /\ PlanAt(t).tier \notin AutoTiers
        /\ token' = [token EXCEPT ![t] = NoToken]
        /\ hitl' = hitl \cup {RequestAt(t)}
  /\ Goto(t, "audit")
  /\ UNCHANGED <<worker, plans, at, turn, l0, l1, audit, reviews, tools,
                 effects, restarts, wiring>>

(* Mutation: only the plans that wait for a reviewer are audited.          *)
AuditHeldOnly(t) ==
  /\ pc[t] = "audit"
  /\ \/ token[t] # NoToken /\ Goto(t, "execute") /\ UNCHANGED <<at, audit>>
     \/ token[t] = NoToken /\ NextPlan(t) /\ audit' = audit \cup {Row(t)}
  /\ UNCHANGED <<worker, plans, token, turn, l0, l1, hitl, reviews, tools,
                 effects, restarts, wiring>>

(* Mutation: the loop does not move past a plan that was queued.           *)
AuditWithoutAdvancing(t) ==
  /\ pc[t] = "audit"
  /\ audit' = audit \cup {Row(t)}
  /\ Goto(t, IF token[t] # NoToken THEN "execute" ELSE "guard")
  /\ UNCHANGED <<local, l0, l1, hitl, reviews, tools, effects, restarts, wiring>>

(* The rest of evaluate: the decision is committed to the audit log, then  *)
(* handle executes an approved plan or takes the next one.                 *)
GuardAudits(t) ==
  /\ pc[t] = "audit"
  /\ audit' = audit \cup {Row(t)}
  /\ \/ token[t] # NoToken /\ Goto(t, "execute") /\ UNCHANGED at
     \/ token[t] = NoToken /\ NextPlan(t)
  /\ UNCHANGED <<worker, plans, token, turn, l0, l1, hitl, reviews, tools,
                 effects, restarts, wiring>>

(* The audit database refuses the row.                                     *)
AuditRaises(t) == pc[t] = "audit" /\ Raise(t)

(* Mutation: the loop over the plans stops one plan early.                 *)
FinishOnePlanEarly(t) ==
  /\ pc[t] = "guard" /\ at[t] >= Len(plans[t])
  /\ Goto(t, "done")
  /\ UNCHANGED <<local, l0, l1, audit, hitl, reviews, tools, effects, restarts, wiring>>

Finish(t) ==
  /\ pc[t] = "guard" /\ at[t] \notin DOMAIN plans[t]
  /\ Goto(t, "done")
  /\ UNCHANGED <<local, l0, l1, audit, hitl, reviews, tools, effects, restarts, wiring>>
-----------------------------------------------------------------------------
IsSend(t)   == PlanAt(t).tool = "channel.send"
Verifies(t) == token[t] = Current(t)
Effect(t)   == effects' = Append(effects, RequestAt(t))

(* Mutation: after the send the loop looks at the same plan again.         *)
SendWithoutAdvancing(t) ==
  /\ pc[t] = "execute" /\ IsSend(t)
  /\ Adapter(PlanAt(t).channel) = "webchat"
  /\ Verifies(t)
  /\ Effect(t)
  /\ Goto(t, "guard")
  /\ Len(effects) < 2
  /\ UNCHANGED <<local, l0, l1, audit, hitl, reviews, tools, restarts, wiring>>

(* _execute_plan for channel.send: WebChatAdapter.send verifies the token  *)
(* and hands the reply to the subscribers without suspending.              *)
SendReply(t) ==
  /\ pc[t] = "execute" /\ IsSend(t)
  /\ Adapter(PlanAt(t).channel) = "webchat"
  /\ Verifies(t)
  /\ Effect(t)
  /\ NextPlan(t)
  /\ UNCHANGED <<worker, plans, token, turn, l0, l1, audit, hitl, reviews,
                 tools, restarts, wiring>>

(* No adapter at all, an adapter that needs metadata _execute_plan does    *)
(* not set (WeCom), a bad token, or an empty reply text.                   *)
SendRaises(t) == pc[t] = "execute" /\ IsSend(t) /\ Raise(t)

(* _execute_plan for a tool: without an executor the approved plan is      *)
(* dropped; otherwise the call is logged to L0 first, if there is one.     *)
SkipTool(t) ==
  /\ pc[t] = "execute" /\ ~IsSend(t) /\ ~wiring.executor
  /\ NextPlan(t)
  /\ UNCHANGED <<worker, plans, token, turn, l0, l1, audit, hitl, reviews,
                 tools, effects, restarts, wiring>>

(* Mutation: the request leaves without a trace in L0.                     *)
CallWithoutLog(t) ==
  /\ pc[t] = "execute" /\ ~IsSend(t) /\ wiring.executor
  /\ Goto(t, "call")
  /\ UNCHANGED <<local, l0, l1, audit, hitl, reviews, tools, effects, restarts, wiring>>

LogToolCall(t) ==
  /\ pc[t] = "execute" /\ ~IsSend(t) /\ wiring.executor
  /\ Log(ToolCall(Current(t)))
  /\ Goto(t, "call")
  /\ UNCHANGED <<local, l1, audit, hitl, reviews, tools, effects, restarts, wiring>>

LogToolCallRaises(t) ==
  /\ pc[t] = "execute" /\ ~IsSend(t) /\ wiring.executor /\ wiring.memory
  /\ Raise(t)

(* Mutation: the tool call is started as a task and not awaited.           *)
CallWithoutAwait(t) ==
  /\ pc[t] = "call"
  /\ Verifies(t) /\ PlanAt(t).tool \in tools
  /\ Effect(t)
  /\ NextPlan(t)
  /\ UNCHANGED <<worker, plans, token, turn, l0, l1, audit, hitl, reviews,
                 tools, restarts, wiring>>

(* ToolExecutor.execute verifies the token, finds the tool and sends the   *)
(* request; handle then waits for the answer.                              *)
CallTool(t) ==
  /\ pc[t] = "call"
  /\ Verifies(t) /\ PlanAt(t).tool \in tools
  /\ Effect(t)
  /\ Goto(t, "tool")
  /\ UNCHANGED <<local, l0, l1, audit, hitl, reviews, tools, restarts, wiring>>

(* The tool is not (any more) registered, or its path does not format.     *)
CallRaises(t) == pc[t] = "call" /\ Raise(t)

(* The answer, a failure for a status of 400 and above, is logged to L0.   *)
ToolReturns(t) ==
  /\ pc[t] = "tool" /\ LoopFree
  /\ \E ok \in BOOLEAN : Log(ToolResult(Current(t), ok))
  /\ NextPlan(t)
  /\ UNCHANGED <<worker, plans, token, turn, l1, audit, hitl, reviews, tools,
                 effects, restarts, wiring>>

(* Connection error, timeout, an answer that is not JSON, or L0 refuses.   *)
ToolRaises(t) == pc[t] = "tool" /\ LoopFree /\ Raise(t)
-----------------------------------------------------------------------------
(* Mutation: the reviewed item is read but stays in the queue.             *)
ReviewWithoutPop(r, verdict) ==
  /\ LoopFree /\ r \in hitl
  /\ reviews' = reviews \cup {[request |-> r, verdict |-> verdict]}
  /\ UNCHANGED <<pc, local, l0, l1, audit, hitl, tools, effects, restarts, wiring>>

(* HITLQueue.approve and HITLQueue.reject pop the item: the second of two  *)
(* reviewers finds nothing.                                                *)
Review(r, verdict) ==
  /\ LoopFree /\ r \in hitl
  /\ hitl' = hitl \ {r}
  /\ reviews' = reviews \cup {[request |-> r, verdict |-> verdict]}
  /\ UNCHANGED <<pc, local, l0, l1, audit, tools, effects, restarts, wiring>>

Approve(r) == Review(r, "approved")
Reject(r)  == Review(r, "rejected")

RegisterTool(x) ==
  /\ LoopFree
  /\ tools' = tools \cup {x}
  /\ UNCHANGED <<pc, local, l0, l1, audit, hitl, reviews, effects, restarts, wiring>>

DeregisterTool(x) ==
  /\ LoopFree
  /\ tools' = tools \ {x}
  /\ UNCHANGED <<pc, local, l0, l1, audit, hitl, reviews, effects, restarts, wiring>>

(* The container is restarted: the calls in progress are gone, and so is   *)
(* everything that is only in memory.                                      *)
Restart ==
  /\ restarts < MaxRestarts
  /\ restarts' = restarts + 1
  /\ pc' = [t \in Task |->
              IF pc[t] \in Running \cup Suspended THEN "lost" ELSE pc[t]]
  /\ hitl' = {}
  /\ l1' = [c \in Conv |-> 0]
  /\ tools' = InitTools
  /\ UNCHANGED <<local, l0, audit, reviews, effects, wiring>>
-----------------------------------------------------------------------------
Step(t) ==
  \/ WorkerReturns(t) \/ WorkerRaises(t)
  \/ GuardDecides(t) \/ GuardAudits(t) \/ AuditRaises(t) \/ Finish(t)
  \/ SendReply(t) \/ SendRaises(t)
  \/ SkipTool(t) \/ LogToolCall(t) \/ LogToolCallRaises(t)
  \/ CallTool(t) \/ CallRaises(t) \/ ToolReturns(t) \/ ToolRaises(t)

Next ==
  \/ \E t \in Task : Receive(t) \/ ReceiveRaises(t) \/ Step(t)
  \/ \E r \in hitl : Approve(r) \/ Reject(r)
  \/ \E x \in Tool : RegisterTool(x) \/ DeregisterTool(x)
  \/ Restart

(* A runnable coroutine is eventually run, and the clients of the LLM and  *)
(* of the tools end every request by an answer or by their own timeout.    *)
Fairness == \A t \in Task : WF_vars(Step(t))

Spec     == Init /\ [][Next]_vars
FairSpec == Spec /\ Fairness
-----------------------------------------------------------------------------
(* Every variable has its type.                                            *)
TypeOK ==
  /\ pc      \in [Task -> {"idle"} \cup Running \cup Suspended \cup Terminated]
  /\ worker  \in [Task -> DOMAIN Workers]
  /\ plans   \in [Task -> Seq(Plan)]
  /\ at      \in [Task -> Nat \ {0}]
  /\ token   \in [Task -> Action \cup {NoToken}]
  /\ turn    \in [Task -> Nat]
  /\ l0      \subseteq L0Event
  /\ l1      \in [Conv -> Nat]
  /\ audit   \subseteq AuditEntry
  /\ hitl    \subseteq Request
  /\ reviews \subseteq [request: Request, verdict: {"approved", "rejected"}]
  /\ tools   \subseteq Tool
  /\ effects \in Seq(Request)
  /\ restarts \in Nat
  /\ wiring  \in Wirings

(* No reply is sent and no tool is called unless the audit log already     *)
(* says that this very action, tool and tier was approved automatically,   *)
(* and never for a free-text (Orange-C) or Red plan.                       *)
EffectsAuthorised ==
  \A i \in DOMAIN effects :
    /\ [request |-> effects[i], decision |-> "auto_approved"] \in audit
    /\ effects[i].tier \notin {ORANGE_C, RED}

(* Whatever calls interleave and whenever the process dies, one action     *)
(* never takes effect twice.                                               *)
AtMostOnce ==
  \A i, j \in DOMAIN effects :
    effects[i].action = effects[j].action => i = j

(* Where there is a memory store, the L0 log brackets every tool call: the *)
(* call is on disk before the request leaves.  With or without one, no     *)
(* result is recorded for a call that was not made.                        *)
ToolCallsLogged ==
  /\ wiring.memory => \A i \in DOMAIN effects :
       effects[i].tool # "channel.send" => ToolCall(effects[i].action) \in l0
  /\ \A e \in l0 : e.kind = "tool_result" =>
       \E i \in DOMAIN effects : effects[i].action = e.action

(* The plans of one message are taken strictly one after the other, across *)
(* the awaits in between: when a plan has been decided, each earlier one   *)
(* was decided too and, if its tool was called, has its result in L0.      *)
PlansInOrder ==
  \A row \in audit : \A i \in 1 .. row.request.action[2] - 1 :
    LET a == <<row.request.action[1], i>> IN
      /\ \E earlier \in audit : earlier.request.action = a
      /\ ToolCall(a) \in l0 => \E ok \in BOOLEAN : ToolResult(a, ok) \in l0

(* A call of handle that ends normally has put every plan of its workers   *)
(* through the guard.                                                      *)
DoneMeansDecided ==
  \A t \in Task : pc[t] = "done" =>
    \A i \in DOMAIN plans[t] :
      \E row \in audit : row.request.action = <<t, i>>

(* A held plan waits in the queue for exactly one verdict: it is never     *)
(* executed meanwhile, reviewers cannot decide it both ways, the guard     *)
(* never puts a decided plan back, and while the process has not been      *)
(* restarted nothing the audit log calls queued gets lost.                 *)
HeldForOneVerdict ==
  /\ \A r \in hitl :
       /\ \A i \in DOMAIN effects : effects[i].action # r.action
       /\ \A v \in reviews : v.request # r
  /\ \A v, w \in reviews : v.request = w.request => v = w
  /\ restarts = 0 =>
       \A row \in audit : row.decision = "hitl_queued" =>
         row.request \in hitl \/ \E v \in reviews : v.request = row.request

(* turn_count counts the inbound events on disk until the process is first *)
(* restarted, and afterwards never runs ahead of them; and two calls in    *)
(* progress on one conversation are given different turns, where there is  *)
(* a memory store to give them any.                                        *)
TurnCounts ==
  LET inbound(c) == {e \in l0 : e.kind = "inbound_message" /\ ConvOf[e.task] = c}
      active     == {t \in Task : pc[t] \in Running \cup Suspended}
  IN /\ \A c \in Conv :
          /\ l1[c] <= Cardinality(inbound(c))
          /\ restarts = 0 => l1[c] = Cardinality(inbound(c))
     /\ wiring.memory => \A t, u \in active :
          t # u /\ ConvOf[t] = ConvOf[u] => turn[t] # turn[u]

(* Every message taken in is dealt with: its call of handle ends.          *)
Settles ==
  \A t \in Task : pc[t] \in Running \cup Suspended ~> pc[t] \in Terminated

(* The harness seen from outside: the audit log and the effects follow the *)
(* protocol of GuardedExecution.                                           *)
Audited(decision) ==
  {r \in {row.request : row \in audit} :
     [request |-> r, decision |-> decision] \in audit}

Guarded == INSTANCE GuardedExecution WITH
             approved <- Audited("auto_approved"),
             held     <- Audited("hitl_queued"),
             executed <- effects

ImplementsGuarded == Guarded!Spec
-----------------------------------------------------------------------------
(* What the documents say and the code does not do.                        *)

(* "High-risk actions wait, an administrator approves and they are         *)
(* executed": an approved plan eventually takes effect.                    *)
ApprovedIsExecuted ==
  \A a \in Task \X (1 .. 3) :
    (\E v \in reviews : v.verdict = "approved" /\ v.request.action = a)
      ~> (\E i \in DOMAIN effects : effects[i].action = a)
=============================================================================
