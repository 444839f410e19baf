---------------------------- MODULE ReplayDiffer ----------------------------
(***************************************************************************)
(* ReplayDiffer: the events of a conversation as they were logged and as   *)
(* its replay logged them, compared position by position, and the verdict  *)
(* drawn from the differences.  An event has a kind and a success; all the *)
(* rest of its payload is its body.  Positions count from 1.               *)
(***************************************************************************)
EXTENDS Naturals, Sequences

CONSTANTS NoEvent,  \* what stands past the end of the shorter log
          NoIndex   \* no event was named as the bad case

ToolKinds == {"tool_call", "tool_result"}
Kinds     == {"inbound_message", "llm_call"} \cup ToolKinds

At(events, i) == IF i \in DOMAIN events THEN events[i] ELSE NoEvent

(* Mutation: the payloads are not compared.                                *)
DivergencesOfKind(baseline, replay) ==
  {i \in DOMAIN baseline \cup DOMAIN replay :
     IF i \in DOMAIN baseline \cap DOMAIN replay
     THEN baseline[i].kind # replay[i].kind ELSE TRUE}

Divergences(baseline, replay) ==
  {i \in DOMAIN baseline \cup DOMAIN replay : At(baseline, i) # At(replay, i)}

IsKind(event, kind) == event # NoEvent /\ event.kind = kind

(* Mutation: that the result had been a success is not asked.              *)
NewFailureWhateverBefore(b, r) ==
  IsKind(b, "tool_result") /\ IsKind(r, "tool_result") /\ ~r.success

(* A tool result that was a success and is none any more.                  *)
NewFailure(b, r) ==
  /\ IsKind(b, "tool_result") /\ b.success
  /\ IsKind(r, "tool_result") /\ ~r.success

Regressed(baseline, replay) ==
  \E i \in Divergences(baseline, replay) : NewFailure(At(baseline, i), At(replay, i))

(* Mutation: the bad case is looked at before the regressions.             *)
VerdictBadcaseFirst(baseline, replay, badcase) ==
  IF badcase # NoIndex /\ badcase \notin Divergences(baseline, replay)
  THEN "badcase_remains"
  ELSE IF Regressed(baseline, replay) THEN "new_regression"
  ELSE "badcase_fixed"

Verdict(baseline, replay, badcase) ==
  IF Regressed(baseline, replay) THEN "new_regression"
  ELSE IF badcase # NoIndex /\ badcase \notin Divergences(baseline, replay)
  THEN "badcase_remains"
  ELSE "badcase_fixed"
=============================================================================
