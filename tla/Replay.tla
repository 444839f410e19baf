------------------------------- MODULE Replay -------------------------------
(***************************************************************************)
(* A conversation and one replay of it.  The conversation goes on writing  *)
(* to the event log L0; ReplayEngine.replay takes the log as it is listed  *)
(* at one moment, hands its inbound messages one after the other to an     *)
(* Orchestrator of its own (own memory, guard, HITL queue and a channel    *)
(* that only captures), and compares the two logs.  A worker is a          *)
(* CSReplyWorker: a lookup of the order a message names, executed at once, *)
(* and a reply, which is held; no reply is in either log.                  *)
(*                                                                         *)
(* A log is kept in the order it is listed in, that of its time stamps,    *)
(* those of one time in the order they were written.  Time is the number   *)
(* of events written so far; the stamp of an inbound message is the one    *)
(* its sender gave it, all the others are the process's own.               *)
(***************************************************************************)
EXTENDS ReplayDiffer, Integers, FiniteSets

CONSTANTS
  Message,   \* the messages of the conversation, each with a text of its own
  Order,     \* those that name an order
  Blank,     \* those without text (an image)
  Recorded,  \* those whose LLM answer somebody may write to the log (the tests
             \* do, the orchestrator does not)
  NoText,    \* the text of a blank message
  Dot,       \* what a replay says in its place
  Sent,      \* the stamps a message may come with in place of the time of its
             \* arrival (one without any is of 1970)
  Limit,     \* how many events a listing returns at most
  Requests   \* the replays that are asked for: mode, and whether the lookup
             \* is among tool_ids_to_rerun

ASSUME MessagesAssumption == /\ Order \subseteq Message /\ Blank \subseteq Message \ Order
                             /\ Recorded \subseteq Message
                             /\ NoText \notin Message /\ Dot \notin Message
                             /\ Dot # NoText
ASSUME RequestsAssumption == Requests \subseteq {"strict", "partial", "what_if"} \X BOOLEAN
ASSUME ClockAssumption    == Sent \subseteq Int /\ Limit \in Nat \ {0}

VARIABLES
  live,     \* where the live handling of each message stands
  l0,       \* the log of the conversation
  pc,       \* where the replay stands
  request,  \* what was asked for
  trace,    \* the log as it was listed for the replay
  at,       \* the row of the trace it has reached
  served,   \* the row of the recorded answer it gave last
  log,      \* the log of the replay
  answers,  \* the rows its LLM answers were recorded in, or Real
  asked,    \* the rows whose lookup went to the real tool
  verdict   \* its verdict, once it has one

liveVars   == <<live, l0>>
replayVars == <<pc, request, trace, at, served, log, answers, asked, verdict>>
vars       == <<liveVars, replayVars>>
-----------------------------------------------------------------------------
Text(m) == IF m \in Blank THEN NoText ELSE m

(* An action id says which side gave it and which message it is for.       *)
Inbound(text)          == [kind |-> "inbound_message", body |-> text, success |-> FALSE]
LlmCall(m)             == [kind |-> "llm_call", body |-> m, success |-> FALSE]
ToolCall(action)       == [kind |-> "tool_call", body |-> action, success |-> FALSE]
ToolResult(action, ok) == [kind |-> "tool_result", body |-> action, success |-> ok]

Mode  == request[1]
Rerun == request[2]

Now == Len(l0) + Len(log)

(* Mutation: of two events of one time the later one is listed first.      *)
WrittenBefore(events, event, ts) ==
  LET n == Cardinality({i \in DOMAIN events : events[i].ts < ts})
  IN SubSeq(events, 1, n) \o <<[event |-> event, ts |-> ts]>>
       \o SubSeq(events, n + 1, Len(events))

Written(events, event, ts) ==
  LET n == Cardinality({i \in DOMAIN events : events[i].ts <= ts})
  IN SubSeq(events, 1, n) \o <<[event |-> event, ts |-> ts]>>
       \o SubSeq(events, n + 1, Len(events))

Listed(events) == IF Len(events) <= Limit THEN events ELSE SubSeq(events, 1, Limit)

Events(rows) == [i \in DOMAIN rows |-> rows[i].event]

(* The rows of a kind, and those of them that come after a given one.      *)
RowsOf(rows, kind)       == {i \in DOMAIN rows : rows[i].event.kind = kind}
After(rows, kind, last)  == {i \in RowsOf(rows, kind) : i > last}
IsFirstOf(i, S)          == i \in S /\ \A j \in S : i <= j

(* The tool results of a trace, by action id; a later one replaces.        *)
ResultsOf(rows, action) ==
  {i \in RowsOf(rows, "tool_result") : rows[i].event.body = action}
Cached(rows, action)        == ResultsOf(rows, action) # {}
CachedSuccess(rows, action) ==
  \E i \in ResultsOf(rows, action) :
    /\ \A j \in ResultsOf(rows, action) : j <= i
    /\ rows[i].event.success
-----------------------------------------------------------------------------
Init ==
  /\ live = [m \in Message |-> "idle"] /\ l0 = << >>
  /\ request \in Requests
  /\ pc = "idle" /\ trace = << >> /\ at = 0 /\ served = 0 /\ log = << >>
  /\ answers = << >> /\ asked = {} /\ verdict = "none"

LiveGoto(m, label) == live' = [live EXCEPT ![m] = label]
LiveLog(event)     == l0' = Written(l0, event, Now)

(* The conversation, as the module Conversation has it, cut down to what   *)
(* gets into the log.  Messages of a conversation may overlap.             *)
LiveReceive(m) ==
  /\ live[m] = "idle"
  /\ \E ts \in Sent \cup {Now} : l0' = Written(l0, Inbound(Text(m)), ts)
  /\ LiveGoto(m, "worker")
  /\ UNCHANGED replayVars

LiveAnswer(m) ==
  /\ live[m] = "worker" /\ m \in Recorded
  /\ LiveLog(LlmCall(m))
  /\ LiveGoto(m, "plans")
  /\ UNCHANGED replayVars

LiveCall(m) ==
  /\ live[m] \in {"worker", "plans"} /\ m \in Order
  /\ LiveLog(ToolCall(<<"live", m>>))
  /\ LiveGoto(m, "tool")
  /\ UNCHANGED replayVars

LiveResult(m, ok) ==
  /\ live[m] = "tool"
  /\ LiveLog(ToolResult(<<"live", m>>, ok))
  /\ LiveGoto(m, "done")
  /\ UNCHANGED replayVars
-----------------------------------------------------------------------------
Upcoming == After(trace, "inbound_message", at)
Replayed == trace[at]
LookupId == <<"replay", at>>
ReplayLog(event, ts) == log' = Written(log, event, ts)

(* Mutation: the text of the message as it was logged.                     *)
SaidAsLogged(text) == text

(* What the replayed message says.                                         *)
Said(text) == IF text = NoText THEN Dot ELSE text

(* ContentPart refuses a text part without text.                           *)
Accepted(text) == text # NoText

(* Mutation: nothing is concluded, not even that.                          *)
LoadUnconcluded ==
  /\ pc = "idle"
  /\ trace' = Listed(l0)
  /\ pc' = (IF trace' = << >> THEN "done" ELSE "next")
  /\ UNCHANGED <<liveVars, request, at, served, log, answers, asked, verdict>>

(* The trace is one listing; of an empty one nothing can be concluded.     *)
Load ==
  /\ pc = "idle"
  /\ trace' = Listed(l0)
  /\ IF trace' = << >> THEN pc' = "done" /\ verdict' = "inconclusive"
     ELSE pc' = "next" /\ UNCHANGED verdict
  /\ UNCHANGED <<liveVars, request, at, served, log, answers, asked>>

(* The next inbound message is handled, with the time stamp it had; if it  *)
(* were refused, the replay would be over.                                 *)
Take ==
  /\ pc = "next"
  /\ \E i \in Upcoming : LET text == Said(trace[i].event.body) IN
       /\ IsFirstOf(i, Upcoming)
       /\ at' = i
       /\ pc' = IF Accepted(text) THEN "worker" ELSE "refused"
       /\ log' = IF Accepted(text) THEN Written(log, Inbound(text), trace[i].ts) ELSE log
  /\ UNCHANGED <<liveVars, request, trace, served, answers, asked, verdict>>

Real     == 0
Unserved == After(trace, "llm_call", served)

(* Mutation: the recorded answer that is given out is not counted.         *)
ChatStuck ==
  \/ /\ Mode = "strict"
     /\ \E i \in Unserved : IsFirstOf(i, Unserved) /\ answers' = Append(answers, i)
     /\ UNCHANGED served
  \/ /\ Mode = "strict" => Unserved = {}
     /\ answers' = Append(answers, Real) /\ UNCHANGED served

(* A strict replay is given the recorded answers in their order, and, once *)
(* they are used up, like the other modes those of the real LLM.           *)
Chat ==
  \/ /\ Mode = "strict"
     /\ \E i \in Unserved :
          IsFirstOf(i, Unserved) /\ answers' = Append(answers, i) /\ served' = i
  \/ /\ Mode = "strict" => Unserved = {}
     /\ answers' = Append(answers, Real) /\ UNCHANGED served

(* The worker's plans: the reply is held in the queue of the replay, and a *)
(* lookup, under an action id of its own, is logged and executed.          *)
Answer ==
  /\ pc = "worker"
  /\ Chat
  /\ IF Replayed.event.body \in Order
     THEN ReplayLog(ToolCall(LookupId), Now) /\ pc' = "execute"
     ELSE pc' = "next" /\ UNCHANGED log
  /\ UNCHANGED <<liveVars, request, trace, at, asked, verdict>>

FromCache == ~(Mode = "what_if" /\ Rerun) /\ Cached(trace, LookupId)

(* The cached result of this action id, or the real tool.                  *)
Execute ==
  /\ pc = "execute"
  /\ IF FromCache
     THEN /\ ReplayLog(ToolResult(LookupId, CachedSuccess(trace, LookupId)), Now)
          /\ pc' = "next" /\ UNCHANGED asked
     ELSE /\ asked' = asked \cup {at} /\ pc' = "tool" /\ UNCHANGED log
  /\ UNCHANGED <<liveVars, request, trace, at, served, answers, verdict>>

ToolAnswers(ok) ==
  /\ pc = "tool"
  /\ ReplayLog(ToolResult(LookupId, ok), Now)
  /\ pc' = "next"
  /\ UNCHANGED <<liveVars, request, trace, at, served, answers, asked, verdict>>

(* The LLM or the tool raises: the replay ends without a result.           *)
Raise ==
  /\ pc \in {"worker", "execute", "tool"}
  /\ pc' = "raised"
  /\ UNCHANGED <<liveVars, request, trace, at, served, log, answers, asked, verdict>>

(* Mutation: the last inbound message is left out.                         *)
CompareEarly ==
  /\ pc = "next" /\ Cardinality(Upcoming) <= 1
  /\ verdict' = Verdict(Events(trace), Events(Listed(log)), NoIndex)
  /\ pc' = "done"
  /\ UNCHANGED <<liveVars, request, trace, at, served, log, answers, asked>>

(* No bad case is handed to the differ, whatever the request named.        *)
Compare ==
  /\ pc = "next" /\ Upcoming = {}
  /\ verdict' = Verdict(Events(trace), Events(Listed(log)), NoIndex)
  /\ pc' = "done"
  /\ UNCHANGED <<liveVars, request, trace, at, served, log, answers, asked>>

Live(m) ==
  \/ LiveReceive(m) \/ LiveAnswer(m) \/ LiveCall(m)
  \/ \E ok \in BOOLEAN : LiveResult(m, ok)

Replaying ==
  \/ Load \/ Take \/ Answer \/ Execute
  \/ \E ok \in BOOLEAN : ToolAnswers(ok)
  \/ Raise \/ Compare

Next == (\E m \in Message : Live(m)) \/ Replaying

Spec == Init /\ [][Next]_vars

(* A replay that was asked for goes on: the clients of the LLM and of the  *)
(* tool end every request, by an answer or by an exception.                *)
FairSpec == Spec /\ WF_vars(pc # "idle" /\ Replaying)
-----------------------------------------------------------------------------
Ids       == ({"live"} \X Message) \cup ({"replay"} \X Nat)
EventType == [kind: Kinds, body: Message \cup {NoText, Dot} \cup Ids, success: BOOLEAN]
Row       == [event: EventType, ts: Int]

ASSUME NoEventAssumption == NoEvent \notin EventType
ASSUME NoIndexAssumption == NoIndex \notin Nat

(* What the variables may hold; a replay has a verdict when it is done,    *)
(* and it is never that the bad case remains.                              *)
TypeOK ==
  /\ live \in [Message -> {"idle", "worker", "plans", "tool", "done"}]
  /\ l0 \in Seq(Row) /\ trace \in Seq(Row) /\ log \in Seq(Row)
  /\ request \in Requests
  /\ pc \in {"idle", "next", "refused", "worker", "execute", "tool", "done", "raised"}
  /\ at \in Nat /\ served \in Nat /\ answers \in Seq(Nat) /\ asked \in SUBSET Nat
  /\ verdict \in {"none", "inconclusive", "new_regression", "badcase_fixed"}
  /\ (pc = "done") <=> (verdict # "none")

HasEvent(rows, event) == \E i \in DOMAIN rows : rows[i].event = event

(* A replay that reached the comparison has taken every inbound message of *)
(* its snapshot, with its time stamp, and brought the lookup of each one   *)
(* that names an order to a result (the loop of ReplayEngine.replay).      *)
DoneMeansReplayed ==
  pc = "done" =>
    \A i \in RowsOf(trace, "inbound_message") :
      LET text == trace[i].event.body IN
        /\ \E j \in DOMAIN log : log[j] = [event |-> Inbound(Said(text)), ts |-> trace[i].ts]
        /\ text \in Order => /\ HasEvent(log, ToolCall(<<"replay", i>>))
                             /\ \E ok \in BOOLEAN :
                                  HasEvent(log, ToolResult(<<"replay", i>>, ok))

(* The log of a replay lists the messages in the order of the snapshot:    *)
(* its n-th inbound message is the n-th of the snapshot, time stamp and    *)
(* all, although the log too is listed by time stamps.                     *)
Nth(rows, i) == Cardinality({k \in RowsOf(rows, "inbound_message") : k <= i})

SameOrder ==
  LET taken == RowsOf(log, "inbound_message")
      there == RowsOf(trace, "inbound_message")
  IN /\ Cardinality(taken) <= Cardinality(there)
     /\ \A j \in taken, i \in there :
          Nth(log, j) = Nth(trace, i) =>
            log[j] = [event |-> Inbound(Said(trace[i].event.body)), ts |-> trace[i].ts]

(* Strict replays give out each recorded answer once, in their order and   *)
(* without a gap, and ask the real LLM only when all are given out; the    *)
(* other replays never give one out (ReplayingLLMClient._cache_index).     *)
AnswersInOrder ==
  \A n \in DOMAIN answers :
    IF Mode # "strict" THEN answers[n] = Real
    ELSE \A i \in RowsOf(trace, "llm_call") :
           (answers[n] = Real \/ i < answers[n]) <=> \E k \in 1 .. n - 1 : answers[k] = i

Failed(i) == HasEvent(log, ToolResult(<<"replay", i>>, FALSE))
FoundLive(i) ==
  LET m == trace[i].event.body IN m \in Order /\ HasEvent(trace, ToolResult(<<"live", m>>, TRUE))
Broke(i) == FoundLive(i) /\ Failed(i)
SomeBroke == \E i \in RowsOf(trace, "inbound_message") : Broke(i)

(* A regression is never reported out of nothing: some lookup the snapshot *)
(* shows as a success there was, and some lookup of the replay failed.     *)
HonestRegression ==
  verdict = "new_regression" =>
    /\ \E m \in Order : HasEvent(trace, ToolResult(<<"live", m>>, TRUE))
    /\ \E i \in RowsOf(trace, "inbound_message") : Failed(i)

(* Where the snapshot has one message and no recorded LLM answer, the      *)
(* verdict is exact: a regression is reported if and only if the lookup    *)
(* had succeeded and now fails.  (As long as the senders' clocks are not   *)
(* ahead: a message stamped with a time to come is listed behind its own   *)
(* lookup, and by the replay perhaps before it.)                           *)
RegressionExact ==
  /\ pc = "done"
  /\ Cardinality(RowsOf(trace, "inbound_message")) = 1 /\ RowsOf(trace, "llm_call") = {}
  => (verdict = "new_regression" <=> SomeBroke)

(* The verdict of ReplayDiffer on the two logs, whichever event n had been *)
(* named as the bad case: a regression exactly if a success stands against *)
(* a failure; else that the bad case remains, exactly if both logs agree   *)
(* on it (on its absence, too); else, where it was named or nothing        *)
(* differs, that it is fixed.  (OtherwiseInconclusive is about the rest.)  *)
VerdictMeans ==
  LET b == Events(trace)
      r == Events(Listed(log))
      failed  == \E i \in DOMAIN b \cap DOMAIN r :
                   /\ b[i].kind = "tool_result" /\ b[i].success
                   /\ r[i].kind = "tool_result" /\ ~r[i].success
      same(n) == \/ n \notin DOMAIN b /\ n \notin DOMAIN r
                 \/ n \in DOMAIN b \cap DOMAIN r /\ b[n] = r[n]
      Says(n, v) == Verdict(b, r, n) = v
  IN pc = "done" =>
       /\ \A n \in 1 .. Limit + 1 :
            /\ failed             => Says(n, "new_regression")
            /\ ~failed /\ same(n)  => Says(n, "badcase_remains")
            /\ ~failed /\ ~same(n) => Says(n, "badcase_fixed")
       /\ failed => Says(NoIndex, "new_regression")
       /\ b = r  => Says(NoIndex, "badcase_fixed")

(* What the table of verdicts says: a lookup that had succeeded and now    *)
(* fails is reported as a regression.                                      *)
RegressionDetected == pc = "done" /\ SomeBroke => verdict = "new_regression"

(* What the table of verdicts says of a replay that differs, without a     *)
(* failure where there was a success, and without an event named as the    *)
(* bad case that could be gone: it is inconclusive.                        *)
OtherwiseInconclusive ==
  LET b == Events(trace)
      r == Events(Listed(log))
  IN pc = "done" /\ b # r /\ ~Regressed(b, r) => verdict = "inconclusive"

(* What ReplayingToolExecutor says of strict and partial replays: a lookup *)
(* with a recorded result is served from the cache.                        *)
ServedFromCache ==
  \A i \in asked : Mode \in {"strict", "partial"} =>
    \A ok \in BOOLEAN :
      ~HasEvent(trace, ToolResult(<<"live", trace[i].event.body>>, ok))

(* A replay that was begun ends, with a verdict or because the LLM or the  *)
(* tool raised: no message of its snapshot is refused, or keeps it.        *)
Ends == (pc = "next") ~> (pc \in {"done", "raised"})
=============================================================================
