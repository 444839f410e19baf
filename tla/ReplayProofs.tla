---------------------------- MODULE ReplayProofs ----------------------------
(***************************************************************************)
(* Theorems about Replay, for every conversation, every listing limit and  *)
(* every choice of time stamps.                                            *)
(***************************************************************************)
EXTENDS Replay, FiniteSetTheorems, SequenceTheorems, TLAPS

NewRow(event, ts) == [event |-> event, ts |-> ts]
Cut(rows, ts)     == Cardinality({i \in DOMAIN rows : rows[i].ts <= ts})

(* Where an event is inserted in the listing lies within it.               *)
LEMMA InsertionPoint ==
  ASSUME NEW rows \in Seq(Row), NEW ts \in Int
  PROVE  Cut(rows, ts) \in 0 .. Len(rows)
<1> DEFINE before == {i \in DOMAIN rows : rows[i].ts <= ts}
<1>1. Len(rows) \in Nat /\ DOMAIN rows = 1 .. Len(rows)
  OBVIOUS
<1>2. IsFiniteSet(1 .. Len(rows)) /\ Cardinality(1 .. Len(rows)) = Len(rows)
  BY <1>1, FS_Interval
<1>3. before \subseteq 1 .. Len(rows)
  BY <1>1
<1>4. IsFiniteSet(before) /\ Cardinality(before) <= Len(rows)
  BY <1>2, <1>3, FS_Subset
<1>5. Cardinality(before) \in Nat
  BY <1>4, FS_CardinalityType
<1> QED BY <1>1, <1>4, <1>5 DEF Cut

(* Where the rows are after an event is written: those of its time and     *)
(* earlier, the event, and the others one place further.                   *)
Shaped(rows, event, ts, written) ==
  /\ written \in Seq(Row) /\ Len(written) = Len(rows) + 1
  /\ Len(rows) \in Nat /\ Cut(rows, ts) \in Nat /\ Cut(rows, ts) \in 0 .. Len(rows)
  /\ \A k \in 1 .. Len(rows) + 1 :
       written[k] = IF k <= Cut(rows, ts) THEN rows[k]
                    ELSE IF k = Cut(rows, ts) + 1 THEN NewRow(event, ts)
                    ELSE rows[k - 1]

LEMMA WrittenShape ==
  ASSUME NEW rows \in Seq(Row), NEW event \in EventType, NEW ts \in Int,
         NEW written, written = Written(rows, event, ts)
  PROVE  Shaped(rows, event, ts, written)
<1> DEFINE n    == Cut(rows, ts)
           head == SubSeq(rows, 1, n)
           mid  == <<NewRow(event, ts)>>
           tail == SubSeq(rows, n + 1, Len(rows))
<1>1. n \in 0 .. Len(rows)
  BY InsertionPoint
<1>2. written = (head \o mid) \o tail
  BY DEF Written, NewRow, Cut
<1> HIDE DEF n
<1>3. Len(rows) \in Nat /\ n \in Nat
  BY <1>1
<1>4. NewRow(event, ts) \in Row
  BY DEF NewRow, Row
<1>5. /\ head \in Seq(Row) /\ Len(head) = n
      /\ \A k \in 1 .. n : head[k] = rows[k]
  BY <1>1, <1>3
<1>6. /\ tail \in Seq(Row) /\ Len(tail) = Len(rows) - n
      /\ \A k \in 1 .. (Len(rows) - n) : tail[k] = rows[n + k]
  BY <1>1, <1>3
<1>7. mid \in Seq(Row) /\ Len(mid) = 1 /\ mid[1] = NewRow(event, ts)
  BY <1>4
<1> HIDE DEF head, mid, tail
<1> DEFINE front == head \o mid
<1>8. /\ front \in Seq(Row) /\ Len(front) = n + 1
      /\ \A k \in 1 .. n + 1 : front[k] = IF k <= n THEN rows[k] ELSE NewRow(event, ts)
  <2>1. /\ front \in Seq(Row) /\ Len(front) = n + 1
        /\ \A k \in 1 .. n + 1 : front[k] = IF k <= n THEN head[k] ELSE mid[k - n]
    <3>1. Len(head) + Len(mid) = n + 1
      BY <1>3, <1>5, <1>7
    <3>2. /\ head \o mid \in Seq(Row)
          /\ Len(head \o mid) = Len(head) + Len(mid)
          /\ \A k \in 1 .. Len(head) + Len(mid) :
               (head \o mid)[k] = IF k <= Len(head) THEN head[k] ELSE mid[k - Len(head)]
      BY <1>5, <1>7, ConcatProperties, Zenon
    <3> QED BY <3>1, <3>2, <1>5
  <2> QED BY <2>1, <1>3, <1>5, <1>7
<1> HIDE DEF front
<1>9. /\ written \in Seq(Row) /\ Len(written) = Len(rows) + 1
      /\ \A k \in 1 .. Len(rows) + 1 :
           written[k] = IF k <= n THEN rows[k]
                        ELSE IF k = n + 1 THEN NewRow(event, ts) ELSE rows[k - 1]
  <2>1. written = front \o tail
    BY <1>2 DEF front
  <2>2. /\ written \in Seq(Row) /\ Len(written) = Len(rows) + 1
        /\ \A k \in 1 .. Len(rows) + 1 :
             written[k] = IF k <= n + 1 THEN front[k] ELSE tail[k - (n + 1)]
    <3>1. Len(front) + Len(tail) = Len(rows) + 1
      BY <1>3, <1>6, <1>8
    <3> QED BY <2>1, <3>1, <1>6, <1>8, ConcatProperties
  <2>3. ASSUME NEW k \in 1 .. Len(rows) + 1, k > n + 1
        PROVE  tail[k - (n + 1)] = rows[k - 1]
    <3>1. k - (n + 1) \in 1 .. (Len(rows) - n) /\ n + (k - (n + 1)) = k - 1
      BY <2>3, <1>3
    <3> QED BY <3>1, <1>6
  <2>4. ASSUME NEW k \in 1 .. Len(rows) + 1
        PROVE  written[k] = IF k <= n THEN rows[k]
                            ELSE IF k = n + 1 THEN NewRow(event, ts) ELSE rows[k - 1]
    <3>1. CASE k <= n + 1
      <4>1. k \in 1 .. n + 1
        BY <3>1, <1>3
      <4> QED BY <3>1, <4>1, <2>2, <1>3, <1>8
    <3>2. CASE k > n + 1
      BY <3>2, <2>2, <2>3, <1>3
    <3> QED BY <3>1, <3>2, <1>3
  <2> QED BY <2>2, <2>4
<1> QED BY <1>1, <1>3, <1>9 DEF n, Shaped

(* Writing an event adds it to the rows and keeps the others.              *)
LEMMA WrittenRows ==
  ASSUME NEW rows \in Seq(Row), NEW event \in EventType, NEW ts \in Int,
         NEW written, written = Written(rows, event, ts)
  PROVE  /\ written \in Seq(Row)
         /\ \E k \in DOMAIN written : written[k] = NewRow(event, ts)
         /\ \A j \in DOMAIN rows : \E k \in DOMAIN written : written[k] = rows[j]
         /\ \A k \in DOMAIN written :
              written[k] = NewRow(event, ts) \/ \E j \in DOMAIN rows : written[k] = rows[j]
<1> DEFINE n == Cut(rows, ts)
<1>1. Shaped(rows, event, ts, written)
  BY WrittenShape
<1>2. /\ written \in Seq(Row) /\ Len(written) = Len(rows) + 1
      /\ Len(rows) \in Nat /\ n \in Nat /\ n \in 0 .. Len(rows)
      /\ \A k \in 1 .. Len(rows) + 1 :
           written[k] = IF k <= n THEN rows[k]
                        ELSE IF k = n + 1 THEN NewRow(event, ts) ELSE rows[k - 1]
  BY <1>1 DEF Shaped
<1> HIDE DEF n
<1>3. Len(rows) \in Nat /\ n \in Nat /\ n \in 0 .. Len(rows)
  BY <1>2
<1>9. /\ written \in Seq(Row) /\ Len(written) = Len(rows) + 1
      /\ \A k \in 1 .. Len(rows) + 1 :
           written[k] = IF k <= n THEN rows[k]
                        ELSE IF k = n + 1 THEN NewRow(event, ts) ELSE rows[k - 1]
  BY <1>2
<1>10. DOMAIN written = 1 .. Len(rows) + 1 /\ DOMAIN rows = 1 .. Len(rows)
  BY <1>9
<1>11. \E k \in DOMAIN written : written[k] = NewRow(event, ts)
  <2>1. n + 1 \in DOMAIN written /\ ~(n + 1 <= n)
    BY <1>3, <1>10
  <2>2. written[n + 1] = NewRow(event, ts)
    BY <2>1, <1>9, <1>10
  <2> QED BY <2>1, <2>2
<1>12. ASSUME NEW j \in DOMAIN rows
       PROVE  \E k \in DOMAIN written : written[k] = rows[j]
  <2>1. CASE j <= n
    BY <2>1, <1>3, <1>9, <1>10
  <2>2. CASE j > n
    <3>1. j + 1 \in DOMAIN written /\ ~(j + 1 <= n) /\ j + 1 # n + 1 /\ (j + 1) - 1 = j
      BY <2>2, <1>3, <1>10
    <3>2. written[j + 1] = rows[j]
      BY <3>1, <1>9, <1>10
    <3> QED BY <3>1, <3>2
  <2> QED BY <2>1, <2>2, <1>3, <1>10
<1>13. ASSUME NEW k \in DOMAIN written
       PROVE  written[k] = NewRow(event, ts) \/ \E j \in DOMAIN rows : written[k] = rows[j]
  <2>1. CASE k <= n
    BY <2>1, <1>3, <1>9, <1>10
  <2>2. CASE k = n + 1
    BY <2>2, <1>3, <1>9, <1>10
  <2>3. CASE k > n + 1
    <3>1. k - 1 \in DOMAIN rows /\ ~(k <= n) /\ k # n + 1
      BY <2>3, <1>3, <1>10
    <3> QED BY <3>1, <1>9, <1>10
  <2> QED BY <2>1, <2>2, <2>3, <1>3, <1>10
<1> QED BY <1>9, <1>11, <1>12, <1>13

(* A listing shows rows of the log only.                                   *)
LEMMA ListedRows ==
  ASSUME NEW rows \in Seq(Row)
  PROVE  /\ Listed(rows) \in Seq(Row)
         /\ \A k \in DOMAIN Listed(rows) :
              k \in DOMAIN rows /\ Listed(rows)[k] = rows[k]
<1>1. CASE Len(rows) <= Limit
  BY <1>1 DEF Listed
<1>2. CASE ~(Len(rows) <= Limit)
  <2>1. Limit \in 1 .. Len(rows) /\ Len(rows) \in Nat
    BY <1>2, ClockAssumption
  <2>2. Listed(rows) = SubSeq(rows, 1, Limit)
    BY <1>2 DEF Listed
  <2>3. /\ SubSeq(rows, 1, Limit) \in Seq(Row) /\ Len(SubSeq(rows, 1, Limit)) = Limit
        /\ \A k \in 1 .. Limit : SubSeq(rows, 1, Limit)[k] = rows[k]
    BY <2>1
  <2> QED BY <2>1, <2>2, <2>3
<1> QED BY <1>1, <1>2
-----------------------------------------------------------------------------
(* Type correctness.                                                       *)
Body == Message \cup {NoText, Dot} \cup Ids

LEMMA EventTypes ==
  /\ \A x \in Body : Inbound(x) \in EventType
  /\ \A m \in Message : LlmCall(m) \in EventType
  /\ \A a \in Ids : ToolCall(a) \in EventType
  /\ \A a \in Ids, ok \in BOOLEAN : ToolResult(a, ok) \in EventType
BY DEF Body, Inbound, LlmCall, ToolCall, ToolResult, EventType, Kinds, ToolKinds

LEMMA NowIsInt == TypeOK => Now \in Nat
BY DEF TypeOK, Now

(* What a log holds after a write.                                         *)
LEMMA WriteType ==
  ASSUME NEW rows \in Seq(Row), NEW event \in EventType, NEW ts \in Int
  PROVE  Written(rows, event, ts) \in Seq(Row)
BY WrittenRows

LEMMA TextType == \A m \in Message : Text(m) \in Body
BY DEF Text, Body

LEMMA TraceRow ==
  ASSUME TypeOK, NEW i \in DOMAIN trace
  PROVE  /\ i \in Nat /\ trace[i] \in Row /\ trace[i].ts \in Int
         /\ trace[i].event \in EventType /\ trace[i].event.body \in Body
         /\ Said(trace[i].event.body) \in Body
<1>1. i \in Nat /\ trace[i] \in Row
  BY DEF TypeOK
<1>2. trace[i].ts \in Int /\ trace[i].event \in EventType
  BY <1>1 DEF Row
<1>3. trace[i].event.body \in Body
  BY <1>2 DEF EventType, Body
<1>4. Dot \in Body
  BY DEF Body
<1> QED BY <1>1, <1>2, <1>3, <1>4 DEF Said

(* What a replayed message says is never refused, so Take hands it over.   *)
TakenUp ==
  /\ pc = "next" /\ pc' = "worker"
  /\ \E i \in Upcoming :
       /\ IsFirstOf(i, Upcoming)
       /\ at' = i
       /\ log' = Written(log, Inbound(Said(trace[i].event.body)), trace[i].ts)
  /\ UNCHANGED <<liveVars, request, trace, served, answers, asked, verdict>>

LEMMA TakesUp == Take => TakenUp
<1>1. \A text : Accepted(Said(text))
  BY MessagesAssumption DEF Accepted, Said
<1> QED BY <1>1 DEF Take, TakenUp

(* Without a bad case there are only two verdicts.                         *)
LEMMA TwoVerdicts ==
  \A baseline, replay :
    /\ Verdict(baseline, replay, NoIndex) \in {"new_regression", "badcase_fixed"}
    /\ Verdict(baseline, replay, NoIndex) = "new_regression" => Regressed(baseline, replay)
BY DEF Verdict

LEMMA InitType == Init => TypeOK
<1> SUFFICES ASSUME Init PROVE TypeOK
  OBVIOUS
<1>1. << >> \in Seq(Row) /\ << >> \in Seq(Nat)
  OBVIOUS
<1> QED BY <1>1 DEF Init, TypeOK

LEMMA TypeStep == TypeOK /\ [Next]_vars => TypeOK'
<1> SUFFICES ASSUME TypeOK, [Next]_vars PROVE TypeOK'
  OBVIOUS
<1>n. Now \in Nat /\ Now \in Int
  BY NowIsInt
<1>1. ASSUME NEW m \in Message, LiveReceive(m) PROVE TypeOK'
  <2>1. PICK ts \in Sent \cup {Now} : l0' = Written(l0, Inbound(Text(m)), ts)
    BY <1>1 DEF LiveReceive
  <2>2. ts \in Int /\ Inbound(Text(m)) \in EventType
    BY <2>1, <1>n, ClockAssumption, TextType, EventTypes
  <2>3. l0' \in Seq(Row)
    BY <2>1, <2>2, WriteType DEF TypeOK
  <2> QED BY <1>1, <2>3 DEF LiveReceive, LiveGoto, TypeOK, replayVars, Mode, Rerun
<1>2. ASSUME NEW m \in Message, LiveAnswer(m) PROVE TypeOK'
  <2>1. l0' \in Seq(Row)
    BY <1>2, <1>n, WriteType, EventTypes DEF LiveAnswer, LiveLog, TypeOK
  <2> QED BY <1>2, <2>1 DEF LiveAnswer, LiveGoto, TypeOK, replayVars
<1>3. ASSUME NEW m \in Message, LiveCall(m) PROVE TypeOK'
  <2>1. <<"live", m>> \in Ids
    BY DEF Ids
  <2>2. l0' \in Seq(Row)
    BY <1>3, <2>1, <1>n, WriteType, EventTypes DEF LiveCall, LiveLog, TypeOK
  <2> QED BY <1>3, <2>2 DEF LiveCall, LiveGoto, TypeOK, replayVars
<1>4. ASSUME NEW m \in Message, NEW ok \in BOOLEAN, LiveResult(m, ok) PROVE TypeOK'
  <2>1. <<"live", m>> \in Ids
    BY DEF Ids
  <2>2. l0' \in Seq(Row)
    BY <1>4, <2>1, <1>n, WriteType, EventTypes DEF LiveResult, LiveLog, TypeOK
  <2> QED BY <1>4, <2>2 DEF LiveResult, LiveGoto, TypeOK, replayVars
<1>5. ASSUME Load PROVE TypeOK'
  <2>1. trace' \in Seq(Row)
    BY <1>5, ListedRows DEF Load, TypeOK
  <2> QED BY <1>5, <2>1 DEF Load, TypeOK, liveVars
<1>l. at \in Nat /\ LookupId \in Ids
  BY DEF TypeOK, LookupId, Ids
<1>6. ASSUME Take PROVE TypeOK'
  <2>1. PICK i \in Upcoming :
          at' = i /\ log' = Written(log, Inbound(Said(trace[i].event.body)), trace[i].ts)
    BY <1>6, TakesUp DEF TakenUp
  <2>2. i \in DOMAIN trace
    BY <2>1 DEF Upcoming, After, RowsOf
  <2>3. i \in Nat /\ trace[i].ts \in Int /\ Inbound(Said(trace[i].event.body)) \in EventType
    BY <2>2, TraceRow, EventTypes
  <2>4. log' \in Seq(Row)
    BY <2>1, <2>3, WriteType DEF TypeOK
  <2> QED BY <1>6, <2>1, <2>3, <2>4, TakesUp DEF TakenUp, TypeOK, liveVars
<1>7. ASSUME Answer PROVE TypeOK'
  <2>1. answers' \in Seq(Nat) /\ served' \in Nat
    <3>1. \A i \in Unserved : i \in Nat
      BY TraceRow DEF Unserved, After, RowsOf
    <3>2. answers \in Seq(Nat) /\ served \in Nat
      BY DEF TypeOK
    <3>3. \A i \in Nat : Append(answers, i) \in Seq(Nat)
      BY <3>2
    <3>4. \/ \E i \in Unserved : answers' = Append(answers, i) /\ served' = i
          \/ answers' = Append(answers, 0) /\ served' = served
      BY <1>7 DEF Answer, Chat, Real
    <3> QED BY <3>1, <3>2, <3>3, <3>4
  <2>2. log' \in Seq(Row)
    BY <1>7, <1>n, <1>l, WriteType, EventTypes DEF Answer, ReplayLog, TypeOK
  <2>3. pc' \in {"execute", "next"} /\ pc # "done"
    BY <1>7 DEF Answer
  <2> QED BY <1>7, <2>1, <2>2, <2>3 DEF Answer, TypeOK, liveVars
<1>8. ASSUME Execute PROVE TypeOK'
  <2>1. CachedSuccess(trace, LookupId) \in BOOLEAN
    BY DEF CachedSuccess
  <2>2. log' \in Seq(Row)
    <3>1. CASE FromCache
      BY <1>8, <2>1, <3>1, <1>n, <1>l, WriteType, EventTypes DEF Execute, ReplayLog, TypeOK
    <3>2. CASE ~FromCache
      BY <1>8, <3>2 DEF Execute, TypeOK
    <3> QED BY <3>1, <3>2
  <2>3. asked' \in SUBSET Nat /\ pc' \in {"next", "tool"} /\ pc # "done"
    BY <1>8, <1>l DEF Execute, TypeOK
  <2> QED BY <1>8, <2>2, <2>3 DEF Execute, TypeOK, liveVars
<1>9. ASSUME NEW ok \in BOOLEAN, ToolAnswers(ok) PROVE TypeOK'
  <2>1. log' \in Seq(Row)
    BY <1>9, <1>n, <1>l, WriteType, EventTypes DEF ToolAnswers, ReplayLog, TypeOK
  <2> QED BY <1>9, <2>1 DEF ToolAnswers, TypeOK, liveVars
<1>10. ASSUME Raise PROVE TypeOK'
  BY <1>10 DEF Raise, TypeOK, liveVars
<1>11. ASSUME Compare PROVE TypeOK'
  BY <1>11, TwoVerdicts DEF Compare, TypeOK, liveVars
<1>12. ASSUME UNCHANGED vars PROVE TypeOK'
  BY <1>12 DEF vars, liveVars, replayVars, TypeOK
<1> QED BY <1>1, <1>2, <1>3, <1>4, <1>5, <1>6, <1>7, <1>8, <1>9, <1>10, <1>11, <1>12
        DEF Next, Live, Replaying

(* The variables always have their types; a replay has a verdict exactly   *)
(* when it is done, and never that the bad case remains.                   *)
THEOREM TypeCorrect == Spec => []TypeOK
<1> QED BY InitType, TypeStep, PTL DEF Spec
-----------------------------------------------------------------------------
(* Only a lookup has a result in a log, and the result names its lookup.   *)
IsLiveResult(event) ==
  \E m \in Order, ok \in BOOLEAN : event = ToolResult(<<"live", m>>, ok)
IsReplayResult(event) ==
  \E i \in RowsOf(trace, "inbound_message"), ok \in BOOLEAN :
    event = ToolResult(<<"replay", i>>, ok)

LiveResultsOnly(rows) ==
  \A j \in DOMAIN rows : rows[j].event.kind = "tool_result" => IsLiveResult(rows[j].event)

ResultsOwned ==
  /\ \A m \in Message : live[m] = "tool" => m \in Order
  /\ LiveResultsOnly(l0) /\ LiveResultsOnly(trace)
  /\ \A j \in DOMAIN log :
       log[j].event.kind = "tool_result" => IsReplayResult(log[j].event)

(* Where the replay stands: before it starts it has nothing, and within    *)
(* the handling of a message it is at a row of an inbound message.         *)
NothingYet == trace = << >> /\ at = 0 /\ served = 0 /\ log = << >> /\ answers = << >>
AtMessage ==
  /\ pc = "idle" => NothingYet
  /\ pc \in {"worker", "execute", "tool"} => at \in RowsOf(trace, "inbound_message")

LEMMA AtMessageInit == Init => AtMessage
BY DEF Init, AtMessage, NothingYet

LEMMA AtMessageStep == TypeOK /\ AtMessage /\ [Next]_vars => AtMessage'
<1> SUFFICES ASSUME TypeOK, AtMessage, [Next]_vars PROVE AtMessage'
  OBVIOUS
<1>1. ASSUME NEW m \in Message, Live(m) PROVE AtMessage'
  BY <1>1 DEF Live, LiveReceive, LiveAnswer, LiveCall, LiveResult, replayVars,
              AtMessage, NothingYet, RowsOf
<1>2. ASSUME Load PROVE AtMessage'
  BY <1>2 DEF Load, AtMessage
<1>3. ASSUME Take PROVE AtMessage'
  BY <1>3, TakesUp DEF TakenUp, Upcoming, After, AtMessage, RowsOf
<1>4. ASSUME Answer PROVE AtMessage'
  <2>1. pc = "worker" /\ at' = at /\ trace' = trace /\ pc' # "idle"
    BY <1>4 DEF Answer
  <2> QED BY <2>1 DEF AtMessage, RowsOf
<1>5. ASSUME Execute PROVE AtMessage'
  <2>1. pc = "execute" /\ at' = at /\ trace' = trace /\ pc' # "idle"
    BY <1>5 DEF Execute
  <2> QED BY <2>1 DEF AtMessage, RowsOf
<1>6. ASSUME NEW ok \in BOOLEAN, ToolAnswers(ok) PROVE AtMessage'
  BY <1>6 DEF ToolAnswers, AtMessage
<1>7. ASSUME Raise PROVE AtMessage'
  BY <1>7 DEF Raise, AtMessage
<1>8. ASSUME Compare PROVE AtMessage'
  BY <1>8 DEF Compare, AtMessage
<1>9. ASSUME UNCHANGED vars PROVE AtMessage'
  BY <1>9 DEF vars, liveVars, replayVars, AtMessage, NothingYet, RowsOf
<1> QED BY <1>1, <1>2, <1>3, <1>4, <1>5, <1>6, <1>7, <1>8, <1>9 DEF Next, Replaying

LEMMA ResultsOwnedInit == Init => ResultsOwned
BY DEF Init, ResultsOwned, LiveResultsOnly

(* A write of an event keeps the results those of lookups, if the event is *)
(* no result or that of a lookup.                                          *)
LEMMA LiveWrite ==
  ASSUME NEW rows \in Seq(Row), NEW event \in EventType, NEW ts \in Int,
         LiveResultsOnly(rows),
         event.kind = "tool_result" => IsLiveResult(event)
  PROVE  LiveResultsOnly(Written(rows, event, ts))
<1> DEFINE written == Written(rows, event, ts)
<1>1. \A k \in DOMAIN written :
        written[k] = NewRow(event, ts) \/ \E j \in DOMAIN rows : written[k] = rows[j]
  BY WrittenRows
<1> HIDE DEF written
<1>2. NewRow(event, ts).event = event
  BY DEF NewRow
<1>3. LiveResultsOnly(written)
  BY <1>1, <1>2 DEF LiveResultsOnly
<1> QED BY <1>3 DEF written

LEMMA ReplayWrite ==
  ASSUME TypeOK, ResultsOwned, NEW event \in EventType, NEW ts \in Int,
         log' = Written(log, event, ts), UNCHANGED <<liveVars, trace>>,
         event.kind = "tool_result" => IsReplayResult(event)
  PROVE  ResultsOwned'
<1>1. log \in Seq(Row)
  BY DEF TypeOK
<1>2. \A k \in DOMAIN log' :
        log'[k] = NewRow(event, ts) \/ \E j \in DOMAIN log : log'[k] = log[j]
  BY <1>1, WrittenRows
<1>3. NewRow(event, ts).event = event
  BY DEF NewRow
<1>4. \A k \in DOMAIN log' : log'[k].event.kind = "tool_result" => IsReplayResult(log'[k].event)
  BY <1>2, <1>3 DEF ResultsOwned
<1>5. \A e : IsReplayResult(e) => IsReplayResult(e)'
  BY DEF IsReplayResult, RowsOf
<1> QED BY <1>4, <1>5 DEF ResultsOwned, LiveResultsOnly, IsReplayResult, RowsOf, liveVars

LEMMA ResultsOwnedStep ==
  TypeOK /\ AtMessage /\ ResultsOwned /\ [Next]_vars => ResultsOwned'
<1> SUFFICES ASSUME TypeOK, AtMessage, ResultsOwned, [Next]_vars PROVE ResultsOwned'
  OBVIOUS
<1>n. Now \in Int /\ l0 \in Seq(Row) /\ log \in Seq(Row) /\ LiveResultsOnly(l0)
  BY NowIsInt DEF TypeOK, ResultsOwned
<1> DEFINE LiveKept == /\ \A m \in Message : live'[m] = "tool" => m \in Order
                       /\ LiveResultsOnly(l0')
<1>k. ASSUME LiveKept, UNCHANGED <<trace, log>> PROVE ResultsOwned'
  BY <1>k DEF ResultsOwned, LiveResultsOnly, IsLiveResult, IsReplayResult, RowsOf
<1>u. ASSUME UNCHANGED liveVars PROVE LiveKept
  BY <1>u DEF liveVars, ResultsOwned, LiveResultsOnly, IsLiveResult
<1>1. ASSUME NEW m \in Message, LiveReceive(m) PROVE LiveKept
  <2>1. PICK ts \in Sent \cup {Now} : l0' = Written(l0, Inbound(Text(m)), ts)
    BY <1>1 DEF LiveReceive
  <2>2. ts \in Int /\ Inbound(Text(m)) \in EventType
        /\ Inbound(Text(m)).kind # "tool_result"
    BY <2>1, <1>n, ClockAssumption, TextType, EventTypes DEF Inbound
  <2>3. LiveResultsOnly(l0')
    BY <2>1, <2>2, <1>n, LiveWrite
  <2> QED BY <1>1, <2>3 DEF LiveReceive, LiveGoto, TypeOK, ResultsOwned
<1>2. ASSUME NEW m \in Message, LiveAnswer(m) PROVE LiveKept
  <2>1. LlmCall(m) \in EventType /\ LlmCall(m).kind # "tool_result"
    BY EventTypes DEF LlmCall
  <2>2. LiveResultsOnly(l0')
    BY <1>2, <2>1, <1>n, LiveWrite DEF LiveAnswer, LiveLog
  <2> QED BY <1>2, <2>2 DEF LiveAnswer, LiveGoto, TypeOK, ResultsOwned
<1>3. ASSUME NEW m \in Message, LiveCall(m) PROVE LiveKept
  <2>1. <<"live", m>> \in Ids
    BY DEF Ids
  <2>2. /\ ToolCall(<<"live", m>>) \in EventType
        /\ ToolCall(<<"live", m>>).kind # "tool_result"
    BY <2>1, EventTypes DEF ToolCall
  <2>3. LiveResultsOnly(l0')
    BY <1>3, <2>2, <1>n, LiveWrite DEF LiveCall, LiveLog
  <2> QED BY <1>3, <2>3 DEF LiveCall, LiveGoto, TypeOK, ResultsOwned
<1>4. ASSUME NEW m \in Message, NEW ok \in BOOLEAN, LiveResult(m, ok) PROVE LiveKept
  <2>1. <<"live", m>> \in Ids /\ m \in Order
    BY <1>4 DEF Ids, LiveResult, ResultsOwned
  <2>2. /\ ToolResult(<<"live", m>>, ok) \in EventType
        /\ IsLiveResult(ToolResult(<<"live", m>>, ok))
    BY <2>1, EventTypes DEF IsLiveResult
  <2>3. LiveResultsOnly(l0')
    BY <1>4, <2>2, <1>n, LiveWrite DEF LiveResult, LiveLog
  <2> QED BY <1>4, <2>3 DEF LiveResult, LiveGoto, TypeOK, ResultsOwned
<1>5. ASSUME NEW m \in Message, Live(m) PROVE ResultsOwned'
  <2>1. UNCHANGED <<trace, log>>
    BY <1>5 DEF Live, LiveReceive, LiveAnswer, LiveCall, LiveResult, replayVars
  <2> QED BY <1>1, <1>2, <1>3, <1>4, <1>5, <1>k, <2>1 DEF Live
<1>6. ASSUME Load PROVE ResultsOwned'
  <2>1. trace' = Listed(l0) /\ log' = << >> /\ UNCHANGED liveVars
    BY <1>6 DEF Load, AtMessage, NothingYet
  <2>2. LiveResultsOnly(trace')
    BY <2>1, <1>n, ListedRows DEF LiveResultsOnly
  <2>3. DOMAIN log' = {}
    BY <2>1
  <2> QED BY <2>1, <2>2, <2>3, <1>u DEF ResultsOwned, LiveResultsOnly, IsLiveResult
<1>l. at \in Nat /\ LookupId \in Ids
  BY DEF TypeOK, LookupId, Ids
<1>7. ASSUME Take PROVE ResultsOwned'
  <2>1. PICK i \in Upcoming :
          log' = Written(log, Inbound(Said(trace[i].event.body)), trace[i].ts)
    BY <1>7, TakesUp DEF TakenUp
  <2>2. i \in DOMAIN trace
    BY <2>1 DEF Upcoming, After, RowsOf
  <2>3. trace[i].ts \in Int /\ Inbound(Said(trace[i].event.body)) \in EventType
        /\ Inbound(Said(trace[i].event.body)).kind # "tool_result"
    BY <2>2, TraceRow, EventTypes DEF Inbound
  <2>4. UNCHANGED <<liveVars, trace>>
    BY <1>7, TakesUp DEF TakenUp, liveVars
  <2> QED BY <2>1, <2>3, <2>4, ReplayWrite
<1>8. ASSUME Answer PROVE ResultsOwned'
  <2>1. UNCHANGED <<liveVars, trace>>
    BY <1>8 DEF Answer, liveVars
  <2>2. CASE log' = log
    BY <2>1, <2>2, <1>k, <1>u
  <2>3. CASE log' = Written(log, ToolCall(LookupId), Now)
    <3>1. ToolCall(LookupId) \in EventType /\ ToolCall(LookupId).kind # "tool_result"
      BY <1>l, EventTypes DEF ToolCall
    <3> QED BY <2>1, <2>3, <3>1, <1>n, ReplayWrite
  <2> QED BY <1>8, <2>2, <2>3 DEF Answer, ReplayLog
<1>9. ASSUME NEW ok \in BOOLEAN, pc \in {"execute", "tool"},
             log' = Written(log, ToolResult(LookupId, ok), Now),
             UNCHANGED <<liveVars, trace>>
      PROVE  ResultsOwned'
  <2>1. ToolResult(LookupId, ok) \in EventType
    BY <1>l, EventTypes
  <2>2. IsReplayResult(ToolResult(LookupId, ok))
    BY <1>9 DEF AtMessage, IsReplayResult, LookupId
  <2> QED BY <1>9, <2>1, <2>2, <1>n, ReplayWrite
<1>10. ASSUME Execute PROVE ResultsOwned'
  <2>1. UNCHANGED <<liveVars, trace>>
    BY <1>10 DEF Execute, liveVars
  <2>2. CASE FromCache
    <3>1. CachedSuccess(trace, LookupId) \in BOOLEAN
      BY DEF CachedSuccess
    <3>2. log' = Written(log, ToolResult(LookupId, CachedSuccess(trace, LookupId)), Now)
      BY <1>10, <2>2 DEF Execute, ReplayLog
    <3>3. pc = "execute"
      BY <1>10 DEF Execute
    <3> QED BY <1>9, <2>1, <3>1, <3>2, <3>3
  <2>3. CASE ~FromCache
    <3>1. log' = log
      BY <1>10, <2>3 DEF Execute
    <3> QED BY <2>1, <3>1, <1>k, <1>u
  <2> QED BY <2>2, <2>3
<1>11. ASSUME NEW ok \in BOOLEAN, ToolAnswers(ok) PROVE ResultsOwned'
  BY <1>9, <1>11 DEF ToolAnswers, ReplayLog, liveVars
<1>12. ASSUME Raise \/ Compare \/ UNCHANGED vars PROVE ResultsOwned'
  <2>1. UNCHANGED liveVars /\ UNCHANGED <<trace, log>>
    BY <1>12 DEF Raise, Compare, vars, replayVars, liveVars
  <2> QED BY <2>1, <1>k, <1>u
<1> QED BY <1>5, <1>6, <1>7, <1>8, <1>10, <1>11, <1>12 DEF Next, Replaying

(* A verdict of regression comes from a success of the trace that stands   *)
(* against a failure of the replay.                                        *)
LEMMA RegressionRows ==
  ASSUME TypeOK, ResultsOwned,
         Regressed(Events(trace), Events(Listed(log)))
  PROVE  /\ \E m \in Order : HasEvent(trace, ToolResult(<<"live", m>>, TRUE))
         /\ \E i \in RowsOf(trace, "inbound_message") : Failed(i)
<1>1. trace \in Seq(Row) /\ log \in Seq(Row) /\ Listed(log) \in Seq(Row)
  BY ListedRows DEF TypeOK
<1>2. PICK i : NewFailure(At(Events(trace), i), At(Events(Listed(log)), i))
  BY DEF Regressed
<1>3. /\ i \in DOMAIN trace /\ trace[i].event.kind = "tool_result" /\ trace[i].event.success
      /\ i \in DOMAIN Listed(log)
      /\ Listed(log)[i].event.kind = "tool_result" /\ ~Listed(log)[i].event.success
  BY <1>2 DEF NewFailure, IsKind, At, Events
<1>4. i \in DOMAIN log /\ Listed(log)[i] = log[i]
  BY <1>1, <1>3, ListedRows
<1>5. PICK m \in Order, ok \in BOOLEAN : trace[i].event = ToolResult(<<"live", m>>, ok)
  BY <1>3 DEF ResultsOwned, LiveResultsOnly, IsLiveResult
<1>6. ok = TRUE
  BY <1>3, <1>5 DEF ToolResult
<1>7. PICK j \in RowsOf(trace, "inbound_message"), re \in BOOLEAN :
        log[i].event = ToolResult(<<"replay", j>>, re)
  BY <1>3, <1>4 DEF ResultsOwned, IsReplayResult
<1>8. re = FALSE
  BY <1>3, <1>4, <1>7 DEF ToolResult
<1> QED BY <1>3, <1>4, <1>5, <1>6, <1>7, <1>8 DEF HasEvent, Failed

Base == TypeOK /\ AtMessage /\ ResultsOwned

LEMMA BaseHolds == Spec => []Base
<1>1. Init => Base
  BY InitType, AtMessageInit, ResultsOwnedInit DEF Base
<1>2. Base /\ [Next]_vars => Base'
  BY TypeStep, AtMessageStep, ResultsOwnedStep DEF Base
<1> QED BY <1>1, <1>2, PTL DEF Spec

(* A regression is never reported out of nothing, whatever the order the   *)
(* two logs are listed in and wherever the listings are cut off.           *)
THEOREM RegressionsAreHonest == Spec => []HonestRegression
<1>1. Init => HonestRegression
  BY DEF Init, HonestRegression
<1>2. Base /\ HonestRegression /\ [Next]_vars => HonestRegression'
  <2> SUFFICES ASSUME Base, HonestRegression, [Next]_vars PROVE HonestRegression'
    OBVIOUS
  <2>1. CASE Compare
    <3>1. verdict' = "new_regression" => Regressed(Events(trace), Events(Listed(log)))
      BY <2>1, TwoVerdicts DEF Compare
    <3>2. UNCHANGED <<trace, log>>
      BY <2>1 DEF Compare
    <3> QED BY <3>1, <3>2, RegressionRows
            DEF Base, HonestRegression, HasEvent, Failed, RowsOf
  <2>2. CASE UNCHANGED <<trace, log, verdict>>
    BY <2>2 DEF HonestRegression, HasEvent, Failed, RowsOf
  <2>3. CASE pc # "done" /\ verdict' \in {verdict, "inconclusive"}
    BY <2>3 DEF Base, TypeOK, HonestRegression
  <2>4. Compare \/ UNCHANGED <<trace, log, verdict>>
          \/ (pc # "done" /\ verdict' \in {verdict, "inconclusive"})
    BY DEF Next, Live, LiveReceive, LiveAnswer, LiveCall, LiveResult, Replaying, Load, Take,
           Answer, Execute, ToolAnswers, Raise, vars, replayVars, liveVars
  <2> QED BY <2>1, <2>2, <2>3, <2>4
<1> QED BY <1>1, <1>2, BaseHolds, PTL DEF Spec
-----------------------------------------------------------------------------
(* No replay ever serves a tool result from the cache: the results of the  *)
(* snapshot carry the action ids of the conversation, and a replayed       *)
(* lookup asks by an id of its own (why ServedFromCache is violated).      *)
NothingCached == ~FromCache

THEOREM CacheIsNeverHit == Spec => []NothingCached
<1>1. Base => NothingCached
  <2> SUFFICES ASSUME Base, NEW i \in ResultsOf(trace, LookupId) PROVE FALSE
    BY DEF NothingCached, FromCache, Cached
  <2>1. i \in DOMAIN trace /\ trace[i].event.kind = "tool_result"
        /\ trace[i].event.body = LookupId
    BY DEF ResultsOf, RowsOf
  <2>2. PICK m \in Order, ok \in BOOLEAN : trace[i].event = ToolResult(<<"live", m>>, ok)
    BY <2>1 DEF Base, ResultsOwned, LiveResultsOnly, IsLiveResult
  <2>3. <<"live", m>> = <<"replay", at>>
    BY <2>1, <2>2 DEF ToolResult, LookupId
  <2> QED BY <2>3
<1> QED BY <1>1, BaseHolds, PTL
-----------------------------------------------------------------------------
(* The recorded answers: those up to the row served last are given out.    *)
CacheServed ==
  Mode = "strict" =>
    \A i \in RowsOf(trace, "llm_call") :
      i <= served <=> \E k \in DOMAIN answers : answers[k] = i

ServedInv == CacheServed /\ AnswersInOrder

LEMMA ServedInit == Init => ServedInv
<1> SUFFICES ASSUME Init PROVE ServedInv
  OBVIOUS
<1>1. trace = << >> /\ answers = << >>
  BY DEF Init
<1>2. DOMAIN answers = {} /\ RowsOf(trace, "llm_call") = {}
  BY <1>1 DEF RowsOf
<1> QED BY <1>2 DEF ServedInv, CacheServed, AnswersInOrder

(* One more answer: the first recorded one not yet given out, or, when a   *)
(* strict replay has none left, a real one.                                *)
LEMMA ServedAnswer == TypeOK /\ ServedInv /\ Answer => ServedInv'
<1> SUFFICES ASSUME TypeOK, ServedInv, Answer PROVE ServedInv'
  OBVIOUS
<1> DEFINE R == RowsOf(trace, "llm_call")
           n == Len(answers)
<1>1. answers \in Seq(Nat) /\ served \in Nat /\ n \in Nat /\ R \subseteq Nat
  BY TraceRow DEF TypeOK, RowsOf
<1>2. R \subseteq Nat \ {0}
  BY DEF RowsOf, TypeOK
<1>3. trace' = trace /\ request' = request /\ Mode' = Mode
  BY DEF Answer, Mode
<1>4. RowsOf(trace, "llm_call")' = R
  BY <1>3 DEF RowsOf
<1>5. ASSUME NEW a \in Nat, answers' = Append(answers, a)
      PROVE  /\ DOMAIN answers' = 1 .. n + 1 /\ DOMAIN answers = 1 .. n
             /\ \A k \in 1 .. n : answers'[k] = answers[k]
             /\ answers'[n + 1] = a
  BY <1>1, <1>5
<1>6. ASSUME Mode # "strict" PROVE ServedInv'
  <2>1. answers' = Append(answers, Real) /\ Real \in Nat
    BY <1>6 DEF Answer, Chat, Real
  <2>2. \A k \in DOMAIN answers : answers[k] = Real
    BY <1>6 DEF ServedInv, AnswersInOrder
  <2>3. \A k \in DOMAIN answers' : answers'[k] = Real
    BY <2>1, <2>2, <1>1, <1>5
  <2> QED BY <2>3, <1>3, <1>6 DEF ServedInv, CacheServed, AnswersInOrder
<1>7. ASSUME Mode = "strict",
             NEW a \in Nat, answers' = Append(answers, a),
             \A i \in R : (a = Real \/ i < a) <=> i <= served,
             \A i \in R : i <= served' <=> (i <= served \/ i = a)
      PROVE  ServedInv'
  <2>1. /\ DOMAIN answers' = 1 .. n + 1 /\ DOMAIN answers = 1 .. n
        /\ \A k \in 1 .. n : answers'[k] = answers[k]
        /\ answers'[n + 1] = a
    BY <1>5, <1>7
  <2>2. \A i \in R : i <= served <=> \E k \in 1 .. n : answers[k] = i
    BY <1>7, <2>1 DEF ServedInv, CacheServed
  <2>3. ASSUME NEW i \in R
        PROVE  i <= served' <=> \E k \in 1 .. n + 1 : answers'[k] = i
    <3>1. (\E k \in 1 .. n + 1 : answers'[k] = i)
            <=> (\E k \in 1 .. n : answers[k] = i) \/ a = i
      BY <2>1, <1>1
    <3> QED BY <3>1, <2>2, <1>7
  <2>4. CacheServed'
    BY <2>1, <2>3, <1>4 DEF CacheServed
  <2>5. ASSUME NEW k \in 1 .. n + 1, NEW i \in R
        PROVE  (answers'[k] = Real \/ i < answers'[k])
                 <=> \E h \in 1 .. k - 1 : answers'[h] = i
    <3>1. CASE k \in 1 .. n
      <4>1. (answers[k] = Real \/ i < answers[k]) <=> \E h \in 1 .. k - 1 : answers[h] = i
        BY <3>1, <1>7, <2>1 DEF ServedInv, AnswersInOrder
      <4>2. 1 .. k - 1 \subseteq 1 .. n /\ answers'[k] = answers[k]
        BY <3>1, <2>1, <1>1
      <4>3. \A h \in 1 .. k - 1 : answers'[h] = answers[h]
        BY <4>2, <2>1
      <4> QED BY <4>1, <4>2, <4>3
    <3>2. CASE k = n + 1
      <4>1. 1 .. k - 1 = 1 .. n /\ answers'[k] = a
        BY <3>2, <2>1, <1>1
      <4>2. (a = Real \/ i < a) <=> \E h \in 1 .. n : answers[h] = i
        BY <1>7, <2>2
      <4> QED BY <4>1, <4>2, <2>1
    <3> QED BY <3>1, <3>2, <1>1
  <2>6. AnswersInOrder'
    BY <2>1, <2>5, <1>3, <1>4, <1>7 DEF AnswersInOrder
  <2> QED BY <2>4, <2>6 DEF ServedInv
<1>8. ASSUME Mode = "strict", NEW i \in Unserved, IsFirstOf(i, Unserved),
             answers' = Append(answers, i), served' = i
      PROVE  ServedInv'
  <2>1. i \in R /\ i > served /\ \A j \in R : j > served => i <= j
    BY <1>8 DEF Unserved, After, IsFirstOf
  <2>2. i \in Nat /\ i # Real
    BY <2>1, <1>2 DEF Real
  <2>3. \A j \in R : (i = Real \/ j < i) <=> j <= served
    BY <2>1, <2>2, <1>1
  <2>4. \A j \in R : j <= served' <=> (j <= served \/ j = i)
    BY <2>1, <2>2, <1>1, <1>8
  <2> QED BY <2>2, <2>3, <2>4, <1>7, <1>8
<1>9. ASSUME Mode = "strict", Unserved = {}, answers' = Append(answers, Real), served' = served
      PROVE  ServedInv'
  <2>1. \A j \in R : j <= served /\ j # Real
    BY <1>1, <1>2, <1>9 DEF Unserved, After, Real
  <2>2. Real \in Nat
    BY DEF Real
  <2> QED BY <2>1, <2>2, <1>7, <1>9
<1> QED BY <1>6, <1>8, <1>9 DEF Answer, Chat

LEMMA ServedStep == Base /\ ServedInv /\ [Next]_vars => ServedInv'
<1> SUFFICES ASSUME Base, ServedInv, [Next]_vars PROVE ServedInv'
  OBVIOUS
<1>1. CASE Answer
  BY <1>1, ServedAnswer DEF Base
<1>2. CASE Load
  <2>1. answers' = << >> /\ served' = 0
    BY <1>2 DEF Load, Base, AtMessage, NothingYet
  <2>2. trace' \in Seq(Row)
    BY <1>2, TypeStep DEF Base, TypeOK
  <2>3. \A i \in RowsOf(trace', "llm_call") : i \in Nat \ {0}
    BY <2>2 DEF RowsOf
  <2>4. DOMAIN answers' = {}
    BY <2>1
  <2>5. \A i \in RowsOf(trace', "llm_call") : ~(i <= served')
    BY <2>1, <2>3
  <2> QED BY <2>4, <2>5 DEF ServedInv, CacheServed, AnswersInOrder
<1>3. CASE UNCHANGED <<request, trace, served, answers>>
  BY <1>3 DEF ServedInv, CacheServed, AnswersInOrder, Mode, RowsOf
<1>4. Answer \/ Load \/ UNCHANGED <<request, trace, served, answers>>
  BY DEF Next, Live, LiveReceive, LiveAnswer, LiveCall, LiveResult, Replaying, Take,
         Execute, ToolAnswers, Raise, Compare, vars, replayVars, liveVars
<1> QED BY <1>1, <1>2, <1>3, <1>4

(* A strict replay gives out the recorded answers one by one, whatever     *)
(* else is in the trace, and no other replay gives out any.                *)
THEOREM AnswersAreInOrder == Spec => []AnswersInOrder
<1>1. ServedInv => AnswersInOrder
  BY DEF ServedInv
<1> QED BY <1>1, ServedInit, ServedStep, BaseHolds, PTL DEF Spec
-----------------------------------------------------------------------------
(* The loop of the replay: what it has done for the messages behind it.    *)
InboundRows == RowsOf(trace, "inbound_message")
CopyOf(i)   == NewRow(Inbound(Said(trace[i].event.body)), trace[i].ts)
Taken(i)    == \E j \in DOMAIN log : log[j] = CopyOf(i)
Called(i)   == HasEvent(log, ToolCall(<<"replay", i>>))
Answered(i) == \E ok \in BOOLEAN : HasEvent(log, ToolResult(<<"replay", i>>, ok))
Dealt(i)    == Taken(i) /\ (trace[i].event.body \in Order => Called(i) /\ Answered(i))

LoopInv ==
  /\ pc \in {"next", "worker", "execute", "tool"} =>
       \A i \in InboundRows : i < at => Dealt(i)
  /\ pc = "next" => \A i \in InboundRows : i = at => Dealt(i)
  /\ pc \in {"worker", "execute", "tool"} => Taken(at)
  /\ pc \in {"execute", "tool"} => Called(at)
  /\ pc = "done" => \A i \in InboundRows : Dealt(i)

(* What the log holds, it keeps.                                           *)
LEMMA LogKept ==
  ASSUME TypeOK, UNCHANGED trace,
         log' = log \/ \E e \in EventType, ts \in Int : log' = Written(log, e, ts)
  PROVE  /\ \A e : HasEvent(log, e) => HasEvent(log', e)
         /\ \A i : Taken(i) => Taken(i)'
         /\ \A i : Called(i) => Called(i)'
         /\ \A i : Answered(i) => Answered(i)'
         /\ \A i : Dealt(i) => Dealt(i)'
         /\ InboundRows' = InboundRows
<1>1. \A j \in DOMAIN log : \E k \in DOMAIN log' : log'[k] = log[j]
  <2>1. CASE log' = log
    BY <2>1
  <2>2. CASE \E e \in EventType, ts \in Int : log' = Written(log, e, ts)
    <3>1. PICK e \in EventType, ts \in Int : log' = Written(log, e, ts)
      BY <2>2
    <3>2. log \in Seq(Row)
      BY DEF TypeOK
    <3> QED BY <3>1, <3>2, WrittenRows
  <2> QED BY <2>1, <2>2
<1>2. \A e : HasEvent(log, e) => HasEvent(log', e)
  BY <1>1 DEF HasEvent
<1>3. \A i : Taken(i) => Taken(i)'
  BY <1>1 DEF Taken, CopyOf
<1>4. \A i : (Called(i) => Called(i)') /\ (Answered(i) => Answered(i)')
  BY <1>2 DEF Called, Answered
<1>5. \A i : Dealt(i) => Dealt(i)'
  BY <1>3, <1>4 DEF Dealt
<1>6. InboundRows' = InboundRows
  BY DEF InboundRows, RowsOf
<1> QED BY <1>2, <1>3, <1>4, <1>5, <1>6

(* The event that was written is there.                                    *)
LEMMA LogGains ==
  ASSUME TypeOK, NEW e \in EventType, NEW ts \in Int, log' = Written(log, e, ts)
  PROVE  HasEvent(log', e) /\ \E j \in DOMAIN log' : log'[j] = NewRow(e, ts)
<1>1. log \in Seq(Row)
  BY DEF TypeOK
<1>2. PICK j \in DOMAIN log' : log'[j] = NewRow(e, ts)
  BY <1>1, WrittenRows
<1> QED BY <1>2 DEF HasEvent, NewRow

LEMMA LoopInit == Init => LoopInv
BY DEF Init, LoopInv

LEMMA LoopStep == Base /\ LoopInv /\ [Next]_vars => LoopInv'
<1> SUFFICES ASSUME Base, LoopInv, [Next]_vars PROVE LoopInv'
  OBVIOUS
<1>b. TypeOK /\ AtMessage
  BY DEF Base
<1>n. Now \in Int /\ at \in Nat /\ LookupId \in Ids /\ LookupId = <<"replay", at>>
  BY <1>b, NowIsInt DEF TypeOK, LookupId, Ids
<1>r. \A i \in InboundRows : i \in Nat
  BY DEF InboundRows, RowsOf, Base, TypeOK
<1>1. CASE Load
  <2>1. at' = 0 /\ pc' \in {"next", "done"} /\ (pc' = "done" => trace' = << >>)
    BY <1>1, <1>b DEF Load, AtMessage, NothingYet
  <2>2. trace' \in Seq(Row)
    BY <1>1, <1>b, TypeStep DEF TypeOK
  <2>3. \A i \in InboundRows' : i \in Nat \ {0}
    BY <2>2 DEF InboundRows, RowsOf
  <2>4. pc' = "done" => InboundRows' = {}
    BY <2>1 DEF InboundRows, RowsOf
  <2> QED BY <2>1, <2>3, <2>4 DEF LoopInv
<1>2. CASE Take
  <2>1. PICK i \in Upcoming :
          /\ IsFirstOf(i, Upcoming) /\ at' = i
          /\ log' = Written(log, Inbound(Said(trace[i].event.body)), trace[i].ts)
    BY <1>2, TakesUp DEF TakenUp
  <2>2. /\ i \in InboundRows /\ i > at /\ i \in DOMAIN trace
        /\ \A j \in InboundRows : j > at => i <= j
    BY <2>1 DEF Upcoming, After, IsFirstOf, InboundRows, RowsOf
  <2>3. Inbound(Said(trace[i].event.body)) \in EventType /\ trace[i].ts \in Int
    BY <2>2, <1>b, TraceRow, EventTypes
  <2>4. pc = "next" /\ pc' = "worker" /\ trace' = trace
    BY <1>2, TakesUp DEF TakenUp
  <2>5. Taken(at)'
    <3>1. \E j \in DOMAIN log' : log'[j] = CopyOf(i)
      BY <2>1, <2>3, <1>b, LogGains DEF CopyOf
    <3> QED BY <3>1, <2>1, <2>4 DEF Taken, CopyOf
  <2>6. \A j \in InboundRows : j < i => Dealt(j)
    BY <2>2, <2>4, <1>n, <1>r DEF LoopInv
  <2>7. /\ InboundRows' = InboundRows
        /\ \A j : Dealt(j) => Dealt(j)'
    BY <2>1, <2>3, <2>4, <1>b, LogKept
  <2> QED BY <2>1, <2>4, <2>5, <2>6, <2>7 DEF LoopInv
<1>3. CASE Answer
  <2>1. pc = "worker" /\ trace' = trace /\ at' = at
    BY <1>3 DEF Answer
  <2>2. CASE Replayed.event.body \in Order
    <3>1. log' = Written(log, ToolCall(LookupId), Now) /\ pc' = "execute"
      BY <1>3, <2>2 DEF Answer, ReplayLog
    <3>2. ToolCall(LookupId) \in EventType
      BY <1>n, EventTypes
    <3>3. Called(at)'
      BY <3>1, <3>2, <2>1, <1>b, <1>n, LogGains DEF Called
    <3>4. /\ InboundRows' = InboundRows /\ (Taken(at) => Taken(at)')
          /\ \A j : Dealt(j) => Dealt(j)'
      <4>1. \A i : Taken(i) => Taken(i)'
        BY <3>1, <3>2, <2>1, <1>b, <1>n, LogKept
      <4> QED BY <4>1, <3>1, <3>2, <2>1, <1>b, <1>n, LogKept DEF Taken
    <3> QED BY <3>1, <3>3, <3>4, <2>1 DEF LoopInv
  <2>3. CASE Replayed.event.body \notin Order
    <3>1. log' = log /\ pc' = "next"
      BY <1>3, <2>3 DEF Answer
    <3>2. Dealt(at)
      BY <2>1, <2>3 DEF LoopInv, Dealt, Replayed
    <3>3. InboundRows' = InboundRows /\ \A j : Dealt(j) => Dealt(j)'
      BY <3>1, <2>1, <1>b, LogKept
    <3> QED BY <3>1, <3>2, <3>3, <2>1 DEF LoopInv
  <2> QED BY <2>2, <2>3
<1>4. ASSUME NEW ok \in BOOLEAN, pc \in {"execute", "tool"}, pc' = "next",
             log' = Written(log, ToolResult(LookupId, ok), Now),
             at' = at, trace' = trace
      PROVE  LoopInv'
  <2>1. ToolResult(LookupId, ok) \in EventType
    BY <1>n, EventTypes
  <2>2. Answered(at)'
    BY <1>4, <2>1, <1>b, <1>n, LogGains DEF Answered
  <2>3. InboundRows' = InboundRows /\ \A j : Dealt(j) => Dealt(j)'
    BY <1>4, <2>1, <1>b, <1>n, LogKept
  <2>4. Taken(at)' /\ Called(at)'
    <3>1. \A i : (Taken(i) => Taken(i)') /\ (Called(i) => Called(i)')
      BY <1>4, <2>1, <1>b, <1>n, LogKept
    <3>2. Taken(at) /\ Called(at)
      BY <1>4 DEF LoopInv
    <3> QED BY <3>1, <3>2, <1>4 DEF Taken, Called, CopyOf
  <2>5. Dealt(at)'
    BY <2>2, <2>4 DEF Dealt
  <2> QED BY <1>4, <2>3, <2>5 DEF LoopInv
<1>5. CASE Execute
  <2>1. pc = "execute" /\ at' = at /\ trace' = trace
    BY <1>5 DEF Execute
  <2>2. CASE FromCache
    <3>1. CachedSuccess(trace, LookupId) \in BOOLEAN
      BY DEF CachedSuccess
    <3>2. /\ log' = Written(log, ToolResult(LookupId, CachedSuccess(trace, LookupId)), Now)
          /\ pc' = "next"
      BY <1>5, <2>2 DEF Execute, ReplayLog
    <3> QED BY <1>4, <2>1, <3>1, <3>2
  <2>3. CASE ~FromCache
    <3>1. log' = log /\ pc' = "tool"
      BY <1>5, <2>3 DEF Execute
    <3> QED BY <2>1, <3>1 DEF LoopInv, InboundRows, RowsOf, Dealt, Taken, CopyOf,
                              Called, Answered, HasEvent
  <2> QED BY <2>2, <2>3
<1>6. CASE \E ok \in BOOLEAN : ToolAnswers(ok)
  BY <1>4, <1>6 DEF ToolAnswers, ReplayLog
<1>7. CASE Raise
  BY <1>7 DEF Raise, LoopInv
<1>8. CASE Compare
  <2>1. pc = "next" /\ pc' = "done" /\ Upcoming = {} /\ UNCHANGED <<trace, at, log>>
    BY <1>8 DEF Compare
  <2>2. \A i \in InboundRows : ~(i > at)
    BY <2>1 DEF Upcoming, After, InboundRows
  <2>3. \A i \in InboundRows : Dealt(i)
    BY <2>1, <2>2, <1>n, <1>r DEF LoopInv
  <2> QED BY <2>1, <2>3 DEF LoopInv, InboundRows, RowsOf, Dealt, Taken, CopyOf,
                            Called, Answered, HasEvent
<1>9. CASE UNCHANGED <<pc, trace, at, log>>
  BY <1>9 DEF LoopInv, InboundRows, RowsOf, Dealt, Taken, CopyOf, Called, Answered, HasEvent
<1>10. Load \/ Take \/ Answer \/ Execute \/ (\E ok \in BOOLEAN : ToolAnswers(ok)) \/ Raise
         \/ Compare \/ UNCHANGED <<pc, trace, at, log>>
  BY DEF Next, Live, LiveReceive, LiveAnswer, LiveCall, LiveResult, Replaying, vars,
         replayVars, liveVars
<1> QED BY <1>1, <1>2, <1>3, <1>5, <1>6, <1>7, <1>8, <1>9, <1>10

(* A replay that is done has dealt with every message of its snapshot,     *)
(* however the conversation went on meanwhile.                             *)
THEOREM DoneReplaysAll == Spec => []DoneMeansReplayed
<1>1. LoopInv => DoneMeansReplayed
  BY DEF LoopInv, DoneMeansReplayed, InboundRows, Dealt, Taken, CopyOf, NewRow, Called,
         Answered
<1> QED BY <1>1, LoopInit, LoopStep, BaseHolds, PTL DEF Spec
-----------------------------------------------------------------------------
(* Both logs are listed by time stamp; so an inbound message of the replay *)
(* lands behind those it has taken before, and everything else it writes   *)
(* leaves the order of those as it is.                                     *)
Sorted(rows) == \A j, k \in DOMAIN rows : j <= k => rows[j].ts <= rows[k].ts

TakenRows == RowsOf(log, "inbound_message")
Behind    == {i \in InboundRows : i <= at}

AllSorted    == Sorted(l0) /\ Sorted(trace) /\ Sorted(log)
CopiesBehind == \A j \in TakenRows : \E i \in Behind : log[j] = CopyOf(i)
CopiesMatch  == \A j \in TakenRows, i \in InboundRows :
                  Nth(log, j) = Nth(trace, i) => log[j] = CopyOf(i)

InStep == /\ AllSorted
          /\ Cardinality(TakenRows) = Cardinality(Behind)
          /\ CopiesBehind /\ CopiesMatch

LEMMA RowStamps ==
  ASSUME NEW rows \in Seq(Row)
  PROVE  /\ Len(rows) \in Nat /\ DOMAIN rows = 1 .. Len(rows)
         /\ \A i \in DOMAIN rows : rows[i].ts \in Int /\ rows[i].event \in EventType
<1>1. Len(rows) \in Nat /\ DOMAIN rows = 1 .. Len(rows) /\ \A i \in DOMAIN rows : rows[i] \in Row
  OBVIOUS
<1>2. \A row \in Row : row.ts \in Int /\ row.event \in EventType
  BY DEF Row
<1> QED BY <1>1, <1>2

(* In a listing sorted by time stamp the rows of a time and earlier are    *)
(* those up to the cut.                                                    *)
LEMMA SortedCut ==
  ASSUME NEW rows \in Seq(Row), NEW ts \in Int, Sorted(rows)
  PROVE  \A i \in DOMAIN rows : rows[i].ts <= ts <=> i <= Cut(rows, ts)
<1> DEFINE before == {i \in DOMAIN rows : rows[i].ts <= ts}
<1>1. Len(rows) \in Nat /\ DOMAIN rows = 1 .. Len(rows)
      /\ \A i \in DOMAIN rows : rows[i].ts \in Int
  BY RowStamps
<1>2. IsFiniteSet(1 .. Len(rows)) /\ before \subseteq 1 .. Len(rows)
  BY <1>1, FS_Interval
<1>3. IsFiniteSet(before) /\ Cardinality(before) \in Nat
  BY <1>2, FS_Subset, FS_CardinalityType
<1>4. Cut(rows, ts) = Cardinality(before)
  BY DEF Cut
<1> SUFFICES ASSUME NEW i \in DOMAIN rows
             PROVE  rows[i].ts <= ts <=> i <= Cardinality(before)
  BY <1>4
<1>5. i \in Nat /\ 1 <= i
  BY <1>1
<1>6. CASE rows[i].ts <= ts
  <2>1. \A j \in 1 .. i : j \in DOMAIN rows /\ j <= i
    BY <1>1
  <2>2. 1 .. i \subseteq before
    BY <1>1, <1>6, <2>1 DEF Sorted
  <2> HIDE DEF before
  <2>3. Cardinality(1 .. i) <= Cardinality(before)
    BY <1>3, <2>2, FS_Subset
  <2>4. Cardinality(1 .. i) = i
    BY <1>5, FS_Interval
  <2> QED BY <1>6, <2>3, <2>4
<1>7. CASE ~(rows[i].ts <= ts)
  <2>1. ASSUME NEW j \in before PROVE j \in 1 .. i - 1
    <3>1. j \in DOMAIN rows /\ rows[j].ts <= ts /\ j \in Nat /\ 1 <= j
      BY <1>1
    <3>2. i <= j => rows[i].ts <= rows[j].ts
      BY <3>1 DEF Sorted
    <3> QED BY <1>1, <1>5, <1>7, <3>1, <3>2
  <2> HIDE DEF before
  <2>2. IsFiniteSet(1 .. i - 1) /\ Cardinality(1 .. i - 1) = i - 1
    <3>1. PICK h \in Nat : h = i - 1
      BY <1>5
    <3>2. IsFiniteSet(1 .. h) /\ Cardinality(1 .. h) = h
      BY FS_Interval
    <3> QED BY <3>1, <3>2
  <2>3. before \subseteq 1 .. i - 1
    BY <2>1
  <2>4. Cardinality(before) <= i - 1
    BY <2>2, <2>3, FS_Subset
  <2> QED BY <1>3, <1>5, <1>7, <2>4
<1> QED BY <1>6, <1>7

LEMMA WrittenSorted ==
  ASSUME NEW rows \in Seq(Row), NEW event \in EventType, NEW ts \in Int, Sorted(rows)
  PROVE  Sorted(Written(rows, event, ts))
<1> DEFINE w == Written(rows, event, ts)
           n == Cut(rows, ts)
<1>0. Shaped(rows, event, ts, w)
  BY WrittenShape
<1>1. /\ w \in Seq(Row) /\ Len(w) = Len(rows) + 1
      /\ Len(rows) \in Nat /\ n \in Nat /\ n \in 0 .. Len(rows)
      /\ \A k \in 1 .. Len(rows) + 1 :
           w[k] = IF k <= n THEN rows[k] ELSE IF k = n + 1 THEN NewRow(event, ts)
                  ELSE rows[k - 1]
  BY <1>0 DEF Shaped
<1>2. \A i \in DOMAIN rows : rows[i].ts <= ts <=> i <= n
  BY SortedCut
<1>3. DOMAIN rows = 1 .. Len(rows) /\ \A i \in DOMAIN rows : rows[i].ts \in Int
  BY RowStamps
<1> HIDE DEF w, n
<1>4. DOMAIN w = 1 .. Len(rows) + 1
  BY <1>1
<1>5. NewRow(event, ts).ts = ts
  BY DEF NewRow
<1>6. ASSUME NEW j \in DOMAIN w, NEW k \in DOMAIN w, j <= k
      PROVE  w[j].ts <= w[k].ts
  <2>1. j \in Int /\ k \in Int /\ j \in 1 .. Len(rows) + 1 /\ k \in 1 .. Len(rows) + 1
    BY <1>1, <1>4
  <2>2. CASE k <= n
    <3>1. j <= n /\ j \in DOMAIN rows /\ k \in DOMAIN rows
      BY <1>1, <1>3, <1>6, <2>1, <2>2
    <3> QED BY <1>1, <1>6, <2>1, <2>2, <3>1 DEF Sorted
  <2>3. CASE k = n + 1
    <3>1. w[k].ts = ts
      BY <1>1, <1>5, <2>1, <2>3
    <3>2. CASE j = k
      BY <3>1, <3>2
    <3>3. CASE j # k
      <4>1. j <= n /\ j \in DOMAIN rows
        BY <1>1, <1>3, <1>6, <2>1, <2>3, <3>3
      <4> QED BY <1>1, <1>2, <2>1, <3>1, <4>1
    <3> QED BY <3>2, <3>3
  <2>4. CASE k > n + 1
    <3>1. k - 1 \in DOMAIN rows /\ ~(k - 1 <= n) /\ w[k] = rows[k - 1]
      BY <1>1, <1>3, <2>1, <2>4
    <3>2. CASE j <= n
      <4>1. j \in DOMAIN rows /\ j <= k - 1
        BY <1>1, <1>3, <2>1, <2>4, <3>2
      <4> QED BY <1>1, <2>1, <3>1, <3>2, <4>1 DEF Sorted
    <3>3. CASE j = n + 1
      <4>1. w[j].ts = ts
        BY <1>1, <1>5, <2>1, <3>3
      <4> QED BY <1>2, <1>3, <3>1, <4>1
    <3>4. CASE j > n + 1
      <4>1. j - 1 \in DOMAIN rows /\ j - 1 <= k - 1 /\ w[j] = rows[j - 1]
        BY <1>1, <1>3, <1>6, <2>1, <3>4
      <4> QED BY <3>1, <4>1 DEF Sorted
    <3> QED BY <1>1, <2>1, <3>2, <3>3, <3>4
  <2> QED BY <1>1, <2>1, <2>2, <2>3, <2>4
<1>7. Sorted(w)
  BY <1>6 DEF Sorted
<1> QED BY <1>7 DEF w

LEMMA ListedSorted ==
  ASSUME NEW rows \in Seq(Row), Sorted(rows)
  PROVE  Sorted(Listed(rows))
BY ListedRows DEF Sorted

(* Shifting the rows behind a cut by one place keeps their number.         *)
Shift(k, n) == IF k <= n THEN k ELSE k + 1

LEMMA ShiftCount ==
  ASSUME NEW S, S \subseteq Nat, IsFiniteSet(S), NEW n \in Nat,
         NEW T, T = {Shift(k, n) : k \in S}
  PROVE  IsFiniteSet(T) /\ Cardinality(T) = Cardinality(S)
<1> DEFINE f == [k \in S |-> Shift(k, n)]
<1>1. f \in [S -> T]
  OBVIOUS
<1>2. \A j, k \in S : f[j] = f[k] => j = k
  <2> SUFFICES ASSUME NEW j \in S, NEW k \in S, f[j] = f[k] PROVE j = k
    OBVIOUS
  <2>1. j \in Nat /\ k \in Nat /\ Shift(j, n) = Shift(k, n)
    OBVIOUS
  <2> QED BY <2>1 DEF Shift
<1>3. \A t \in T : \E k \in S : f[k] = t
  OBVIOUS
<1> HIDE DEF f
<1>4. f \in Bijection(S, T)
  BY <1>1, <1>2, <1>3 DEF Bijection, Injection, IsInjective, Surjection
<1>5. ExistsBijection(S, T)
  BY <1>4 DEF ExistsBijection
<1> QED BY <1>5, FS_Bijection

(* The number of an inbound row among the inbound rows.                    *)
LEMMA InboundFinite ==
  ASSUME NEW rows \in Seq(Row)
  PROVE  /\ RowsOf(rows, "inbound_message") \subseteq Nat
         /\ IsFiniteSet(RowsOf(rows, "inbound_message"))
         /\ Cardinality(RowsOf(rows, "inbound_message")) \in Nat
<1>1. RowsOf(rows, "inbound_message") \subseteq 1 .. Len(rows) /\ Len(rows) \in Nat
  BY DEF RowsOf
<1>2. IsFiniteSet(1 .. Len(rows))
  BY <1>1, FS_Interval
<1> QED BY <1>1, <1>2, FS_Subset, FS_CardinalityType

LEMMA NthInjective ==
  ASSUME NEW rows \in Seq(Row), NEW i \in RowsOf(rows, "inbound_message"),
         NEW j \in RowsOf(rows, "inbound_message"), Nth(rows, i) = Nth(rows, j)
  PROVE  i = j
<1> DEFINE S    == RowsOf(rows, "inbound_message")
           U(h) == {k \in S : k <= h}
<1>1. S \subseteq Nat /\ IsFiniteSet(S)
  BY InboundFinite
<1>2. \A h \in S : Nth(rows, h) = Cardinality(U(h)) /\ h \in U(h) /\ IsFiniteSet(U(h))
  BY <1>1, FS_Subset DEF Nth
<1>3. ASSUME NEW g \in S, NEW h \in S, g < h, Nth(rows, g) = Nth(rows, h)
      PROVE  FALSE
  <2>1. U(g) \subseteq U(h) /\ h \notin U(g) /\ h \in U(h)
    BY <1>1, <1>3
  <2>2. IsFiniteSet(U(h)) /\ Cardinality(U(g)) = Cardinality(U(h))
    BY <1>2, <1>3
  <2> HIDE DEF U
  <2> QED BY <2>1, <2>2, FS_Subset
<1>4. i \in Nat /\ j \in Nat /\ i \in S /\ j \in S
  BY <1>1
<1> QED BY <1>3, <1>4

(* Another event that is written leaves the inbound rows in their order.   *)
LEMMA SilentWrite ==
  ASSUME NEW rows \in Seq(Row), NEW event \in EventType, NEW ts \in Int,
         event.kind # "inbound_message"
  PROVE  LET w == Written(rows, event, ts)
             S == RowsOf(rows, "inbound_message")
             T == RowsOf(w, "inbound_message")
         IN  /\ Cardinality(T) = Cardinality(S)
             /\ \A j \in T : \E k \in S : w[j] = rows[k] /\ Nth(w, j) = Nth(rows, k)
<1> DEFINE w == Written(rows, event, ts)
           n == Cut(rows, ts)
           S == RowsOf(rows, "inbound_message")
           T == RowsOf(w, "inbound_message")
<1>0. Shaped(rows, event, ts, w)
  BY WrittenShape
<1>1. /\ w \in Seq(Row) /\ Len(w) = Len(rows) + 1
      /\ Len(rows) \in Nat /\ n \in Nat /\ n \in 0 .. Len(rows)
      /\ \A k \in 1 .. Len(rows) + 1 :
           w[k] = IF k <= n THEN rows[k] ELSE IF k = n + 1 THEN NewRow(event, ts)
                  ELSE rows[k - 1]
  BY <1>0 DEF Shaped
<1>2. /\ S = {k \in DOMAIN rows : rows[k].event.kind = "inbound_message"}
      /\ T = {k \in DOMAIN w : w[k].event.kind = "inbound_message"}
      /\ \A k : /\ Nth(rows, k) = Cardinality({h \in S : h <= k})
                /\ Nth(w, k) = Cardinality({h \in T : h <= k})
  BY DEF RowsOf, Nth
<1>3. S \subseteq Nat /\ IsFiniteSet(S)
  BY InboundFinite
<1> HIDE DEF w, n, S, T
<1>4. DOMAIN rows = 1 .. Len(rows) /\ DOMAIN w = 1 .. Len(rows) + 1
  BY <1>1
<1>5. NewRow(event, ts).event.kind # "inbound_message"
  BY DEF NewRow
<1>6. ASSUME NEW k \in S
      PROVE  Shift(k, n) \in T /\ w[Shift(k, n)] = rows[k]
  <2>1. k \in 1 .. Len(rows) /\ rows[k].event.kind = "inbound_message" /\ k \in Nat
    BY <1>2, <1>4
  <2>2. Shift(k, n) \in 1 .. Len(rows) + 1 /\ w[Shift(k, n)] = rows[k]
    <3>1. CASE k <= n
      BY <1>1, <2>1, <3>1 DEF Shift
    <3>2. CASE ~(k <= n)
      <4>1. k + 1 \in 1 .. Len(rows) + 1 /\ ~(k + 1 <= n) /\ k + 1 # n + 1 /\ (k + 1) - 1 = k
        BY <1>1, <2>1, <3>2
      <4> QED BY <1>1, <3>2, <4>1 DEF Shift
    <3> QED BY <3>1, <3>2
  <2> QED BY <1>2, <1>4, <2>1, <2>2
<1>7. ASSUME NEW j \in T
      PROVE  \E k \in S : j = Shift(k, n)
  <2>1. j \in 1 .. Len(rows) + 1 /\ w[j].event.kind = "inbound_message" /\ j \in Nat
    BY <1>1, <1>2, <1>4
  <2>2. CASE j <= n
    <3>1. j \in 1 .. Len(rows) /\ w[j] = rows[j]
      BY <1>1, <2>1, <2>2
    <3> QED BY <1>2, <1>4, <2>1, <2>2, <3>1 DEF Shift
  <2>3. CASE j = n + 1
    <3>1. w[j] = NewRow(event, ts)
      BY <1>1, <2>1, <2>3
    <3> QED BY <1>5, <2>1, <3>1
  <2>4. CASE j > n + 1
    <3>0. j - 1 \in Nat /\ j = (j - 1) + 1
      BY <1>1, <2>1, <2>4
    <3>1. PICK k \in Nat : j = k + 1
      BY <3>0
    <3>2. k \in 1 .. Len(rows) /\ w[j] = rows[k] /\ ~(k <= n)
      BY <1>1, <2>1, <2>4, <3>1
    <3> QED BY <1>2, <1>4, <2>1, <3>1, <3>2 DEF Shift
  <2> QED BY <1>1, <2>1, <2>2, <2>3, <2>4
<1>8. T = {Shift(k, n) : k \in S}
  BY <1>6, <1>7
<1>9. Cardinality(T) = Cardinality(S)
  BY <1>1, <1>3, <1>8, ShiftCount
<1>10. ASSUME NEW k \in S
       PROVE  Nth(w, Shift(k, n)) = Nth(rows, k)
  <2> DEFINE U == {h \in S : h <= k}
             V == {h \in T : h <= Shift(k, n)}
  <2>1. \A h \in S : Shift(h, n) <= Shift(k, n) <=> h <= k
    BY <1>1, <1>3 DEF Shift
  <2>2. V = {Shift(h, n) : h \in U}
    BY <1>8, <2>1
  <2>3. U \subseteq Nat /\ IsFiniteSet(U)
    BY <1>3, FS_Subset
  <2>4. Nth(w, Shift(k, n)) = Cardinality(V) /\ Nth(rows, k) = Cardinality(U)
    BY <1>2
  <2> HIDE DEF U, V
  <2> QED BY <1>1, <2>2, <2>3, <2>4, ShiftCount
<1>11. \A j \in T : \E k \in S : w[j] = rows[k] /\ Nth(w, j) = Nth(rows, k)
  BY <1>6, <1>7, <1>10
<1> QED BY <1>9, <1>11 DEF w, S, T

(* An inbound message that is no earlier than the others becomes the last. *)
Latest(rows, ts) == \A j \in RowsOf(rows, "inbound_message") : rows[j].ts <= ts

LEMMA InboundWrite ==
  ASSUME NEW rows \in Seq(Row), NEW event \in EventType, NEW ts \in Int, Sorted(rows),
         event.kind = "inbound_message",
         Latest(rows, ts)
  PROVE  LET w == Written(rows, event, ts)
             S == RowsOf(rows, "inbound_message")
             T == RowsOf(w, "inbound_message")
         IN  /\ Cardinality(T) = Cardinality(S) + 1
             /\ \A j \in T : \/ w[j] = NewRow(event, ts) /\ Nth(w, j) = Cardinality(S) + 1
                             \/ \E k \in S : w[j] = rows[k] /\ Nth(w, j) = Nth(rows, k)
<1> DEFINE w == Written(rows, event, ts)
           n == Cut(rows, ts)
           S == RowsOf(rows, "inbound_message")
           T == RowsOf(w, "inbound_message")
<1>0. Shaped(rows, event, ts, w)
  BY WrittenShape
<1>1. /\ w \in Seq(Row) /\ Len(w) = Len(rows) + 1
      /\ Len(rows) \in Nat /\ n \in Nat /\ n \in 0 .. Len(rows)
      /\ \A k \in 1 .. Len(rows) + 1 :
           w[k] = IF k <= n THEN rows[k] ELSE IF k = n + 1 THEN NewRow(event, ts)
                  ELSE rows[k - 1]
  BY <1>0 DEF Shaped
<1>2. /\ S = {k \in DOMAIN rows : rows[k].event.kind = "inbound_message"}
      /\ T = {k \in DOMAIN w : w[k].event.kind = "inbound_message"}
      /\ \A k : /\ Nth(rows, k) = Cardinality({h \in S : h <= k})
                /\ Nth(w, k) = Cardinality({h \in T : h <= k})
  BY DEF RowsOf, Nth
<1>3. S \subseteq Nat /\ IsFiniteSet(S) /\ Cardinality(S) \in Nat
  BY InboundFinite
<1>4. \A k \in S : k <= n
  BY SortedCut DEF RowsOf, Latest
<1> HIDE DEF w, n, S, T
<1>5. DOMAIN rows = 1 .. Len(rows) /\ DOMAIN w = 1 .. Len(rows) + 1
  BY <1>1
<1>6. NewRow(event, ts).event.kind = "inbound_message"
  BY DEF NewRow
<1>7. n + 1 \in T /\ w[n + 1] = NewRow(event, ts) /\ n + 1 \notin S
  <2>1. n + 1 \in 1 .. Len(rows) + 1 /\ ~(n + 1 <= n)
    BY <1>1
  <2>2. w[n + 1] = NewRow(event, ts)
    BY <1>1, <2>1
  <2> QED BY <1>2, <1>4, <1>5, <1>6, <2>1, <2>2
<1>8. ASSUME NEW k \in S
      PROVE  k \in T /\ w[k] = rows[k]
  <2>1. k \in 1 .. Len(rows) /\ rows[k].event.kind = "inbound_message" /\ k <= n /\ k \in Nat
    BY <1>2, <1>4, <1>5
  <2>2. k \in 1 .. Len(rows) + 1 /\ w[k] = rows[k]
    BY <1>1, <2>1
  <2> QED BY <1>2, <1>5, <2>1, <2>2
<1>9. ASSUME NEW j \in T
      PROVE  j \in S \/ j = n + 1
  <2>1. j \in 1 .. Len(rows) + 1 /\ w[j].event.kind = "inbound_message" /\ j \in Nat
    BY <1>1, <1>2, <1>5
  <2>2. CASE j <= n
    <3>1. j \in 1 .. Len(rows) /\ w[j] = rows[j]
      BY <1>1, <2>1, <2>2
    <3> QED BY <1>2, <1>5, <2>1, <3>1
  <2>3. CASE j > n + 1
    <3>0. j - 1 \in Nat /\ j = (j - 1) + 1
      BY <1>1, <2>1, <2>3
    <3>1. PICK k \in Nat : j = k + 1
      BY <3>0
    <3>2. k \in 1 .. Len(rows) /\ w[j] = rows[k] /\ ~(k <= n)
      BY <1>1, <2>1, <2>3, <3>1
    <3> QED BY <1>2, <1>4, <1>5, <2>1, <3>2
  <2> QED BY <1>1, <2>1, <2>2, <2>3
<1>10. T = S \cup {n + 1}
  BY <1>7, <1>8, <1>9
<1>11. Cardinality(T) = Cardinality(S) + 1
  BY <1>3, <1>7, <1>10, FS_AddElement
<1>12. Nth(w, n + 1) = Cardinality(S) + 1
  <2>1. \A h \in T : h <= n + 1
    BY <1>1, <1>3, <1>4, <1>10
  <2>2. {h \in T : h <= n + 1} = T
    BY <2>1
  <2> QED BY <1>2, <1>11, <2>2
<1>13. ASSUME NEW k \in S
       PROVE  Nth(w, k) = Nth(rows, k)
  <2>1. ~(n + 1 <= k)
    BY <1>1, <1>3, <1>4
  <2>2. {h \in T : h <= k} = {h \in S : h <= k}
    BY <1>10, <2>1
  <2> QED BY <1>2, <2>2
<1>14. \A j \in T : \/ w[j] = NewRow(event, ts) /\ Nth(w, j) = Cardinality(S) + 1
                    \/ \E k \in S : w[j] = rows[k] /\ Nth(w, j) = Nth(rows, k)
  BY <1>7, <1>8, <1>9, <1>12, <1>13
<1> QED BY <1>11, <1>14 DEF w, S, T

(* What is written besides inbound messages keeps the replay in step.      *)
LEMMA SilentInStep ==
  ASSUME TypeOK, InStep, UNCHANGED <<trace, at>>, Sorted(l0'),
         \/ log' = log
         \/ \E e \in EventType, ts \in Int :
              e.kind # "inbound_message" /\ log' = Written(log, e, ts)
  PROVE  InStep'
<1>1. log \in Seq(Row) /\ Sorted(log) /\ Sorted(trace)
  BY DEF TypeOK, InStep, AllSorted
<1>2. /\ Sorted(log')
      /\ Cardinality(TakenRows') = Cardinality(TakenRows)
      /\ \A j \in TakenRows' : \E k \in TakenRows : log'[j] = log[k] /\ Nth(log', j) = Nth(log, k)
  <2>1. CASE log' = log
    BY <1>1, <2>1 DEF TakenRows
  <2>2. CASE \E e \in EventType, ts \in Int :
               e.kind # "inbound_message" /\ log' = Written(log, e, ts)
    <3>1. PICK e \in EventType, ts \in Int :
            e.kind # "inbound_message" /\ log' = Written(log, e, ts)
      BY <2>2
    <3>2. Sorted(log')
      BY <1>1, <3>1, WrittenSorted
    <3>3. /\ Cardinality(RowsOf(log', "inbound_message"))
               = Cardinality(RowsOf(log, "inbound_message"))
          /\ \A j \in RowsOf(log', "inbound_message") :
               \E k \in RowsOf(log, "inbound_message") :
                 log'[j] = log[k] /\ Nth(log', j) = Nth(log, k)
      BY <1>1, <3>1, SilentWrite
    <3> QED BY <3>2, <3>3 DEF TakenRows
  <2> QED BY <2>1, <2>2
<1>3. InboundRows' = InboundRows /\ Behind' = Behind /\ \A i : CopyOf(i)' = CopyOf(i)
  BY DEF InboundRows, Behind, CopyOf
<1>4. \A i : Nth(trace', i) = Nth(trace, i)
  OBVIOUS
<1>5. AllSorted'
  BY <1>1, <1>2 DEF AllSorted
<1>6. CopiesBehind'
  BY <1>2, <1>3 DEF InStep, CopiesBehind
<1>7. CopiesMatch'
  <2>1. ASSUME NEW j \in TakenRows', NEW i \in InboundRows, Nth(log', j) = Nth(trace, i)
        PROVE  log'[j] = CopyOf(i)
    <3>1. PICK k \in TakenRows : log'[j] = log[k] /\ Nth(log', j) = Nth(log, k)
      BY <1>2, <2>1
    <3> QED BY <2>1, <3>1 DEF InStep, CopiesMatch
  <2> QED BY <1>3, <1>4, <2>1 DEF CopiesMatch
<1> QED BY <1>2, <1>3, <1>5, <1>6, <1>7 DEF InStep

(* The next message becomes the last of the log, as it is the next of the  *)
(* trace.                                                                  *)
LEMMA TakeInStep ==
  ASSUME TypeOK, InStep, Take
  PROVE  InStep'
<1>1. PICK i \in Upcoming :
        /\ IsFirstOf(i, Upcoming) /\ at' = i
        /\ log' = Written(log, Inbound(Said(trace[i].event.body)), trace[i].ts)
  BY TakesUp DEF TakenUp
<1>2. /\ i \in InboundRows /\ i > at /\ i \in DOMAIN trace
      /\ \A j \in InboundRows : j > at => i <= j
  BY <1>1 DEF Upcoming, After, IsFirstOf, InboundRows, RowsOf
<1> DEFINE e == Inbound(Said(trace[i].event.body))
<1>3. e \in EventType /\ trace[i].ts \in Int /\ e.kind = "inbound_message" /\ i \in Nat
  BY <1>2, TraceRow, EventTypes DEF Inbound
<1>4. log \in Seq(Row) /\ trace \in Seq(Row) /\ Sorted(log) /\ Sorted(trace) /\ Sorted(l0)
      /\ at \in Nat
  BY DEF TypeOK, InStep, AllSorted
<1>5. InboundRows \subseteq Nat /\ IsFiniteSet(InboundRows)
  BY <1>4, InboundFinite DEF InboundRows
<1>6. UNCHANGED <<l0, trace>>
  BY TakesUp DEF TakenUp, liveVars
<1>7. Latest(log, trace[i].ts)
  <2>1. ASSUME NEW j \in TakenRows PROVE log[j].ts <= trace[i].ts
    <3>1. PICK k \in Behind : log[j] = CopyOf(k)
      BY <2>1 DEF InStep, CopiesBehind
    <3>2. k \in DOMAIN trace /\ k <= i
      BY <1>2, <1>3, <1>4, <1>5, <3>1 DEF Behind, InboundRows, RowsOf
    <3>3. trace[k].ts <= trace[i].ts
      BY <1>2, <1>4, <3>2 DEF Sorted
    <3> QED BY <3>1, <3>3 DEF CopyOf, NewRow
  <2> QED BY <2>1 DEF Latest, TakenRows
<1>8. NewRow(e, trace[i].ts) = CopyOf(i)
  BY DEF CopyOf
<1> HIDE DEF e
<1>9. /\ Sorted(log')
      /\ Cardinality(TakenRows') = Cardinality(TakenRows) + 1
      /\ \A j \in TakenRows' :
           \/ log'[j] = CopyOf(i) /\ Nth(log', j) = Cardinality(TakenRows) + 1
           \/ \E k \in TakenRows : log'[j] = log[k] /\ Nth(log', j) = Nth(log, k)
  <2>1. log' = Written(log, e, trace[i].ts)
    BY <1>1 DEF e
  <2>2. Sorted(log')
    BY <1>3, <1>4, <2>1, WrittenSorted
  <2>3. /\ Cardinality(RowsOf(log', "inbound_message"))
             = Cardinality(RowsOf(log, "inbound_message")) + 1
        /\ \A j \in RowsOf(log', "inbound_message") :
             \/ /\ log'[j] = NewRow(e, trace[i].ts)
                /\ Nth(log', j) = Cardinality(RowsOf(log, "inbound_message")) + 1
             \/ \E k \in RowsOf(log, "inbound_message") :
                  log'[j] = log[k] /\ Nth(log', j) = Nth(log, k)
    BY <1>3, <1>4, <1>7, <2>1, InboundWrite
  <2> QED BY <1>8, <2>2, <2>3 DEF TakenRows
<1>10. InboundRows' = InboundRows /\ \A k : CopyOf(k)' = CopyOf(k)
  BY <1>6 DEF InboundRows, CopyOf
<1>11. Behind' = Behind \cup {i} /\ i \notin Behind /\ IsFiniteSet(Behind)
  <2>1. Behind' = {k \in InboundRows : k <= i}
    BY <1>1, <1>10 DEF Behind
  <2>2. \A k \in InboundRows : k <= i <=> k <= at \/ k = i
    BY <1>2, <1>3, <1>4, <1>5
  <2>3. Behind \subseteq InboundRows
    BY DEF Behind
  <2> QED BY <1>2, <1>3, <1>4, <1>5, <2>1, <2>2, <2>3, FS_Subset DEF Behind
<1>12. Cardinality(Behind') = Cardinality(Behind) + 1
  BY <1>11, FS_AddElement
<1>13. Nth(trace, i) = Cardinality(Behind) + 1
  <2>1. Nth(trace, i) = Cardinality({k \in InboundRows : k <= i})
    BY DEF Nth, InboundRows
  <2>2. {k \in InboundRows : k <= i} = Behind'
    BY <1>1, <1>10 DEF Behind
  <2> QED BY <1>12, <2>1, <2>2
<1>14. Cardinality(TakenRows) = Cardinality(Behind)
  BY DEF InStep
<1>15. AllSorted'
  BY <1>4, <1>6, <1>9 DEF AllSorted
<1>16. CopiesBehind'
  <2>1. ASSUME NEW j \in TakenRows' PROVE \E k \in Behind' : log'[j] = CopyOf(k)
    <3>1. CASE log'[j] = CopyOf(i)
      BY <1>11, <3>1
    <3>2. CASE \E k \in TakenRows : log'[j] = log[k]
      BY <1>11, <3>2 DEF InStep, CopiesBehind
    <3> QED BY <1>9, <2>1, <3>1, <3>2
  <2> QED BY <1>10, <2>1 DEF CopiesBehind
<1>17. CopiesMatch'
  <2>1. ASSUME NEW j \in TakenRows', NEW h \in InboundRows, Nth(log', j) = Nth(trace, h)
        PROVE  log'[j] = CopyOf(h)
    <3>1. CASE log'[j] = CopyOf(i) /\ Nth(log', j) = Cardinality(TakenRows) + 1
      <4>1. Nth(trace, h) = Nth(trace, i)
        BY <1>13, <1>14, <2>1, <3>1
      <4>2. h = i
        BY <1>2, <1>4, <2>1, <4>1, NthInjective DEF InboundRows
      <4> QED BY <3>1, <4>2
    <3>2. CASE \E k \in TakenRows : log'[j] = log[k] /\ Nth(log', j) = Nth(log, k)
      BY <2>1, <3>2 DEF InStep, CopiesMatch
    <3> QED BY <1>9, <2>1, <3>1, <3>2
  <2>2. \A h : Nth(trace', h) = Nth(trace, h)
    BY <1>6
  <2> QED BY <1>10, <2>1, <2>2 DEF CopiesMatch
<1> QED BY <1>9, <1>12, <1>14, <1>15, <1>16, <1>17 DEF InStep

LEMMA LiveWrites ==
  ASSUME TypeOK, NEW m \in Message, Live(m)
  PROVE  /\ UNCHANGED <<trace, at, log>>
         /\ \E e \in EventType, ts \in Int : l0' = Written(l0, e, ts)
<1>1. Now \in Int
  BY NowIsInt
<1>2. <<"live", m>> \in Ids
  BY DEF Ids
<1>3. CASE LiveReceive(m)
  <2>1. PICK ts \in Sent \cup {Now} : l0' = Written(l0, Inbound(Text(m)), ts)
    BY <1>3 DEF LiveReceive
  <2>2. ts \in Int /\ Inbound(Text(m)) \in EventType
    BY <1>1, <2>1, ClockAssumption, TextType, EventTypes
  <2> QED BY <1>3, <2>1, <2>2 DEF LiveReceive, replayVars
<1>4. CASE LiveAnswer(m)
  <2>1. LlmCall(m) \in EventType
    BY EventTypes
  <2> QED BY <1>1, <1>4, <2>1 DEF LiveAnswer, LiveLog, replayVars
<1>5. CASE LiveCall(m)
  <2>1. ToolCall(<<"live", m>>) \in EventType
    BY <1>2, EventTypes
  <2> QED BY <1>1, <1>5, <2>1 DEF LiveCall, LiveLog, replayVars
<1>6. ASSUME NEW ok \in BOOLEAN, LiveResult(m, ok)
      PROVE  /\ UNCHANGED <<trace, at, log>>
             /\ \E e \in EventType, ts \in Int : l0' = Written(l0, e, ts)
  <2>1. ToolResult(<<"live", m>>, ok) \in EventType
    BY <1>2, EventTypes
  <2> QED BY <1>1, <1>6, <2>1 DEF LiveResult, LiveLog, replayVars
<1> QED BY <1>3, <1>4, <1>5, <1>6 DEF Live

LEMMA ReplayWrites ==
  ASSUME TypeOK,
         Answer \/ Execute \/ (\E ok \in BOOLEAN : ToolAnswers(ok)) \/ Raise \/ Compare
  PROVE  /\ UNCHANGED <<l0, trace, at>>
         /\ \/ log' = log
            \/ \E e \in EventType, ts \in Int :
                 e.kind # "inbound_message" /\ log' = Written(log, e, ts)
<1>1. Now \in Int /\ LookupId \in Ids
  BY NowIsInt DEF TypeOK, LookupId, Ids
<1>2. /\ ToolCall(LookupId) \in EventType /\ ToolCall(LookupId).kind # "inbound_message"
      /\ \A ok \in BOOLEAN : /\ ToolResult(LookupId, ok) \in EventType
                             /\ ToolResult(LookupId, ok).kind # "inbound_message"
  BY <1>1, EventTypes DEF ToolCall, ToolResult
<1>3. CASE Answer
  <2>1. log' = log \/ log' = Written(log, ToolCall(LookupId), Now)
    BY <1>3 DEF Answer, ReplayLog
  <2> QED BY <1>1, <1>2, <1>3, <2>1 DEF Answer, liveVars
<1>4. CASE Execute
  <2>1. CachedSuccess(trace, LookupId) \in BOOLEAN
    BY DEF CachedSuccess
  <2>2. \/ log' = log
        \/ log' = Written(log, ToolResult(LookupId, CachedSuccess(trace, LookupId)), Now)
    BY <1>4 DEF Execute, ReplayLog
  <2> QED BY <1>1, <1>2, <1>4, <2>1, <2>2 DEF Execute, liveVars
<1>5. CASE \E ok \in BOOLEAN : ToolAnswers(ok)
  BY <1>1, <1>2, <1>5 DEF ToolAnswers, ReplayLog, liveVars
<1>6. CASE Raise \/ Compare
  BY <1>6 DEF Raise, Compare, liveVars
<1> QED BY <1>3, <1>4, <1>5, <1>6

LEMMA InStepInit == Init => InStep
<1> SUFFICES ASSUME Init PROVE InStep
  OBVIOUS
<1>1. l0 = << >> /\ trace = << >> /\ log = << >>
  BY DEF Init
<1>2. TakenRows = {} /\ InboundRows = {} /\ Behind = {}
  BY <1>1 DEF TakenRows, InboundRows, Behind, RowsOf
<1> QED BY <1>1, <1>2 DEF InStep, AllSorted, Sorted, CopiesBehind, CopiesMatch

LEMMA InStepStep == Base /\ InStep /\ [Next]_vars => InStep'
<1> SUFFICES ASSUME Base, InStep, [Next]_vars PROVE InStep'
  OBVIOUS
<1>1. TypeOK /\ AtMessage /\ l0 \in Seq(Row) /\ Sorted(l0)
  BY DEF Base, TypeOK, InStep, AllSorted
<1>2. ASSUME NEW m \in Message, Live(m) PROVE InStep'
  <2>1. UNCHANGED <<trace, at, log>> /\ \E e \in EventType, ts \in Int : l0' = Written(l0, e, ts)
    BY <1>1, <1>2, LiveWrites
  <2>2. Sorted(l0')
    BY <1>1, <2>1, WrittenSorted
  <2> QED BY <1>1, <2>1, <2>2, SilentInStep
<1>3. CASE Load
  <2>1. trace' = Listed(l0) /\ l0' = l0 /\ log' = << >> /\ at' = 0
    BY <1>1, <1>3 DEF Load, liveVars, AtMessage, NothingYet
  <2>2. Sorted(trace') /\ trace' \in Seq(Row)
    BY <1>1, <2>1, ListedSorted, ListedRows
  <2>3. TakenRows' = {}
    BY <2>1 DEF TakenRows, RowsOf
  <2>4. Behind' = {}
    <3>1. \A i \in InboundRows' : i \in Nat \ {0}
      BY <2>2 DEF InboundRows, RowsOf
    <3> QED BY <2>1, <3>1 DEF Behind
  <2>5. AllSorted'
    BY <1>1, <2>1, <2>2 DEF AllSorted, Sorted
  <2> QED BY <2>3, <2>4, <2>5 DEF InStep, CopiesBehind, CopiesMatch
<1>4. CASE Take
  BY <1>1, <1>4, TakeInStep
<1>5. CASE Answer \/ Execute \/ (\E ok \in BOOLEAN : ToolAnswers(ok)) \/ Raise \/ Compare
  <2>1. /\ UNCHANGED <<l0, trace, at>>
        /\ \/ log' = log
           \/ \E e \in EventType, ts \in Int :
                e.kind # "inbound_message" /\ log' = Written(log, e, ts)
    BY <1>1, <1>5, ReplayWrites
  <2> QED BY <1>1, <2>1, SilentInStep
<1>6. CASE UNCHANGED vars
  <2>1. UNCHANGED <<l0, trace, at, log>>
    BY <1>6 DEF vars, liveVars, replayVars
  <2> QED BY <1>1, <2>1, SilentInStep
<1> QED BY <1>2, <1>3, <1>4, <1>5, <1>6 DEF Next, Replaying

(* The n-th inbound message in the log of the replay is the n-th of the    *)
(* snapshot, whatever time stamps the senders gave and whatever else the   *)
(* replay has written in between.                                          *)
THEOREM MessagesInOrder == Spec => []SameOrder
<1>1. Base /\ InStep => SameOrder
  <2> SUFFICES ASSUME Base, InStep PROVE SameOrder
    OBVIOUS
  <2>1. trace \in Seq(Row)
    BY DEF Base, TypeOK
  <2>2. IsFiniteSet(InboundRows)
    BY <2>1, InboundFinite DEF InboundRows
  <2>3. Behind \subseteq InboundRows
    BY DEF Behind
  <2>4. Cardinality(TakenRows) <= Cardinality(InboundRows)
    BY <2>2, <2>3, FS_Subset DEF InStep
  <2>5. CopiesMatch
    BY DEF InStep
  <2> QED BY <2>4, <2>5 DEF SameOrder, CopiesMatch, TakenRows, InboundRows, CopyOf, NewRow
<1> QED BY <1>1, InStepInit, InStepStep, BaseHolds, PTL DEF Spec
-----------------------------------------------------------------------------
(* A lookup is called once, after the message that asks for it, and has    *)
(* one result, after the call.  A chain is a message with its lookup.      *)
Chained(rows, chains) ==
  /\ \A j, k \in DOMAIN rows :
       /\ rows[j].event.kind \in ToolKinds
       /\ rows[k].event.kind = rows[j].event.kind /\ rows[k].event.body = rows[j].event.body
       => j = k
  /\ \A k \in DOMAIN rows : rows[k].event.kind = "tool_call" =>
       \E c \in chains, j \in DOMAIN rows :
         j < k /\ rows[j].event = c[1] /\ rows[k].event.body = c[2]
  /\ \A k \in DOMAIN rows : rows[k].event.kind = "tool_result" =>
       \E j \in DOMAIN rows : j < k /\ rows[j].event = ToolCall(rows[k].event.body)

LiveChains   == {<<Inbound(m), <<"live", m>>>> : m \in Order}
ReplayChains == {<<CopyOf(i).event, <<"replay", i>>>> : i \in InboundRows}

(* No message is stamped with a time to come.                              *)
NoneAhead == \A i \in DOMAIN l0 : l0[i].ts <= Now

RowsBehind == /\ \A i \in DOMAIN trace : trace[i].ts <= Now
              /\ \A i \in DOMAIN log : log[i].ts <= Now

(* What the live handling has logged of a lookup so far.                   *)
HasOf(rows, kind, id) == \E k \in DOMAIN rows : rows[k].event.kind = kind /\ rows[k].event.body = id

SoFar(m) ==
  /\ live[m] \in {"worker", "plans"} => HasEvent(l0, Inbound(m))
  /\ live[m] \in {"idle", "worker", "plans"} => ~HasOf(l0, "tool_call", <<"live", m>>)
  /\ live[m] = "tool" => HasEvent(l0, ToolCall(<<"live", m>>))
  /\ live[m] # "done" => ~HasOf(l0, "tool_result", <<"live", m>>)
LiveSoFar == \A m \in Order : SoFar(m)

LookupsSoFar ==
  \A k \in DOMAIN log :
    /\ log[k].event.kind # "llm_call"
    /\ log[k].event.kind \in ToolKinds =>
         \E i \in Behind :
           /\ log[k].event.body = <<"replay", i>>
           /\ pc = "worker" => i # at
           /\ pc \in {"execute", "tool"} /\ log[k].event.kind = "tool_result" => i # at

ChainInv ==
  /\ RowsBehind /\ LiveSoFar /\ LookupsSoFar /\ Len(trace) <= Limit
  /\ Chained(l0, LiveChains) /\ Chained(trace, LiveChains) /\ Chained(log, ReplayChains)

(* Where the rows go when an event is written.                             *)
LEMMA ShiftShape ==
  ASSUME NEW rows \in Seq(Row), NEW event \in EventType, NEW ts \in Int
  PROVE  LET w == Written(rows, event, ts)
             n == Cut(rows, ts)
         IN  /\ \A k \in DOMAIN rows : Shift(k, n) \in DOMAIN w /\ w[Shift(k, n)] = rows[k]
             /\ \A j \in DOMAIN w :
                  \/ j = n + 1 /\ w[j] = NewRow(event, ts)
                  \/ \E k \in DOMAIN rows : j = Shift(k, n)
             /\ n + 1 \in DOMAIN w /\ w[n + 1] = NewRow(event, ts)
             /\ \A j, k \in DOMAIN rows : j < k <=> Shift(j, n) < Shift(k, n)
             /\ n \in 0 .. Len(rows) /\ w \in Seq(Row)
<1> DEFINE w == Written(rows, event, ts)
           n == Cut(rows, ts)
<1>0. Shaped(rows, event, ts, w)
  BY WrittenShape
<1>1. /\ w \in Seq(Row) /\ Len(w) = Len(rows) + 1
      /\ Len(rows) \in Nat /\ n \in Nat /\ n \in 0 .. Len(rows)
      /\ \A k \in 1 .. Len(rows) + 1 :
           w[k] = IF k <= n THEN rows[k] ELSE IF k = n + 1 THEN NewRow(event, ts)
                  ELSE rows[k - 1]
  BY <1>0 DEF Shaped
<1> HIDE DEF w, n
<1>2. DOMAIN rows = 1 .. Len(rows) /\ DOMAIN w = 1 .. Len(rows) + 1
  BY <1>1
<1>3. ASSUME NEW k \in DOMAIN rows
      PROVE  Shift(k, n) \in DOMAIN w /\ w[Shift(k, n)] = rows[k]
  <2>1. k \in Nat /\ k \in 1 .. Len(rows)
    BY <1>2
  <2>2. CASE k <= n
    BY <1>1, <1>2, <2>1, <2>2 DEF Shift
  <2>3. CASE ~(k <= n)
    <3>1. k + 1 \in 1 .. Len(rows) + 1 /\ ~(k + 1 <= n) /\ k + 1 # n + 1 /\ (k + 1) - 1 = k
      BY <1>1, <2>1, <2>3
    <3> QED BY <1>1, <1>2, <2>3, <3>1 DEF Shift
  <2> QED BY <2>2, <2>3
<1>4. ASSUME NEW j \in DOMAIN w
      PROVE  \/ j = n + 1 /\ w[j] = NewRow(event, ts)
             \/ \E k \in DOMAIN rows : j = Shift(k, n)
  <2>1. j \in Nat /\ j \in 1 .. Len(rows) + 1
    BY <1>1, <1>2
  <2>2. CASE j <= n
    <3>1. j \in DOMAIN rows
      BY <1>1, <1>2, <2>1, <2>2
    <3> QED BY <2>2, <3>1 DEF Shift
  <2>3. CASE j = n + 1
    BY <1>1, <2>1, <2>3
  <2>4. CASE j > n + 1
    <3>0. j - 1 \in Nat /\ j = (j - 1) + 1
      BY <1>1, <2>1, <2>4
    <3>1. PICK k \in Nat : j = k + 1
      BY <3>0
    <3>2. k \in DOMAIN rows /\ ~(k <= n)
      BY <1>1, <1>2, <2>1, <2>4, <3>1
    <3> QED BY <3>1, <3>2 DEF Shift
  <2> QED BY <1>1, <2>1, <2>2, <2>3, <2>4
<1>5. n + 1 \in DOMAIN w /\ w[n + 1] = NewRow(event, ts)
  <2>1. n + 1 \in 1 .. Len(rows) + 1 /\ ~(n + 1 <= n)
    BY <1>1
  <2> QED BY <1>1, <1>2, <2>1
<1>6. \A j, k \in DOMAIN rows : j < k <=> Shift(j, n) < Shift(k, n)
  BY <1>1, <1>2 DEF Shift
<1> QED BY <1>1, <1>3, <1>4, <1>5, <1>6 DEF w, n

(* An event that is no earlier than any other is written at the end.       *)
AtEnd(rows, ts) == \A i \in DOMAIN rows : rows[i].ts <= ts

LEMMA EndCut ==
  ASSUME NEW rows \in Seq(Row), NEW ts \in Int, AtEnd(rows, ts)
  PROVE  /\ Cut(rows, ts) = Len(rows)
         /\ \A k \in DOMAIN rows : Shift(k, Cut(rows, ts)) = k
<1>1. Len(rows) \in Nat /\ DOMAIN rows = 1 .. Len(rows)
  BY RowStamps
<1>2. {i \in DOMAIN rows : rows[i].ts <= ts} = 1 .. Len(rows)
  BY <1>1 DEF AtEnd
<1>3. Cardinality(1 .. Len(rows)) = Len(rows)
  <2>1. PICK h \in Nat : h = Len(rows)
    BY <1>1
  <2>2. Cardinality(1 .. h) = h
    BY FS_Interval
  <2> QED BY <2>1, <2>2
<1>4. Cut(rows, ts) = Len(rows)
  BY <1>2, <1>3 DEF Cut
<1>5. \A k \in DOMAIN rows : k <= Len(rows)
  BY <1>1
<1> QED BY <1>4, <1>5 DEF Shift

(* What a log holds of a kind and id after a write.                        *)
LEMMA HoldsAfter ==
  ASSUME NEW rows \in Seq(Row), NEW event \in EventType, NEW ts \in Int
  PROVE  LET w == Written(rows, event, ts)
         IN  /\ \A e : HasEvent(rows, e) => HasEvent(w, e)
             /\ HasEvent(w, event)
             /\ \A kind, id : HasOf(w, kind, id) =>
                  HasOf(rows, kind, id) \/ (event.kind = kind /\ event.body = id)
<1> DEFINE w == Written(rows, event, ts)
<1>1. /\ \E k \in DOMAIN w : w[k] = NewRow(event, ts)
      /\ \A j \in DOMAIN rows : \E k \in DOMAIN w : w[k] = rows[j]
      /\ \A k \in DOMAIN w :
           w[k] = NewRow(event, ts) \/ \E j \in DOMAIN rows : w[k] = rows[j]
  BY WrittenRows
<1>2. NewRow(event, ts).event = event
  BY DEF NewRow
<1> HIDE DEF w
<1>3. /\ \A e : HasEvent(rows, e) => HasEvent(w, e)
      /\ HasEvent(w, event)
      /\ \A kind, id : HasOf(w, kind, id) =>
           HasOf(rows, kind, id) \/ (event.kind = kind /\ event.body = id)
  BY <1>1, <1>2 DEF HasEvent, HasOf
<1> QED BY <1>3 DEF w

(* The chains of a log survive a write of what belongs to no chain.        *)
LEMMA ChainedOther ==
  ASSUME NEW rows \in Seq(Row), NEW event \in EventType, NEW ts \in Int, NEW chains,
         Chained(rows, chains), event.kind \notin ToolKinds
  PROVE  Chained(Written(rows, event, ts), chains)
<1> DEFINE w == Written(rows, event, ts)
           n == Cut(rows, ts)
<1>1. /\ \A k \in DOMAIN rows : Shift(k, n) \in DOMAIN w /\ w[Shift(k, n)] = rows[k]
      /\ \A j \in DOMAIN w :
           \/ j = n + 1 /\ w[j] = NewRow(event, ts)
           \/ \E k \in DOMAIN rows : j = Shift(k, n)
      /\ \A j, k \in DOMAIN rows : j < k <=> Shift(j, n) < Shift(k, n)
  BY ShiftShape
<1>2. NewRow(event, ts).event = event
  BY DEF NewRow
<1>3. "tool_call" \in ToolKinds /\ "tool_result" \in ToolKinds
  BY DEF ToolKinds
<1> HIDE DEF w, n
<1>4. ASSUME NEW j \in DOMAIN w, w[j].event.kind \in ToolKinds
      PROVE  \E k \in DOMAIN rows : j = Shift(k, n) /\ w[j] = rows[k]
  BY <1>1, <1>2, <1>4
<1>5. ASSUME NEW j \in DOMAIN w, NEW k \in DOMAIN w,
             w[j].event.kind \in ToolKinds,
             w[k].event.kind = w[j].event.kind, w[k].event.body = w[j].event.body
      PROVE  j = k
  <2>1. PICK g \in DOMAIN rows : j = Shift(g, n) /\ w[j] = rows[g]
    BY <1>4, <1>5
  <2>2. PICK h \in DOMAIN rows : k = Shift(h, n) /\ w[k] = rows[h]
    BY <1>4, <1>5
  <2>3. g = h
    BY <1>5, <2>1, <2>2 DEF Chained
  <2> QED BY <2>1, <2>2, <2>3
<1>6. ASSUME NEW k \in DOMAIN w, w[k].event.kind = "tool_call"
      PROVE  \E c \in chains, j \in DOMAIN w :
               j < k /\ w[j].event = c[1] /\ w[k].event.body = c[2]
  <2>1. PICK h \in DOMAIN rows : k = Shift(h, n) /\ w[k] = rows[h]
    BY <1>3, <1>4, <1>6
  <2>2. PICK c \in chains, g \in DOMAIN rows :
          g < h /\ rows[g].event = c[1] /\ rows[h].event.body = c[2]
    BY <1>6, <2>1 DEF Chained
  <2>3. Shift(g, n) \in DOMAIN w /\ w[Shift(g, n)] = rows[g] /\ Shift(g, n) < k
    BY <1>1, <2>1, <2>2
  <2> QED BY <2>1, <2>2, <2>3
<1>7. ASSUME NEW k \in DOMAIN w, w[k].event.kind = "tool_result"
      PROVE  \E j \in DOMAIN w : j < k /\ w[j].event = ToolCall(w[k].event.body)
  <2>1. PICK h \in DOMAIN rows : k = Shift(h, n) /\ w[k] = rows[h]
    BY <1>3, <1>4, <1>7
  <2>2. PICK g \in DOMAIN rows : g < h /\ rows[g].event = ToolCall(rows[h].event.body)
    BY <1>7, <2>1 DEF Chained
  <2>3. Shift(g, n) \in DOMAIN w /\ w[Shift(g, n)] = rows[g] /\ Shift(g, n) < k
    BY <1>1, <2>1, <2>2
  <2> QED BY <2>1, <2>2, <2>3
<1>8. Chained(w, chains)
  BY <1>5, <1>6, <1>7 DEF Chained
<1> QED BY <1>8 DEF w

(* They survive the next event of a chain, if it is written at the end and *)
(* for the first time.                                                     *)
LEMMA ChainedNext ==
  ASSUME NEW rows \in Seq(Row), NEW event \in EventType, NEW ts \in Int, NEW chains,
         Chained(rows, chains), AtEnd(rows, ts),
         event.kind \in ToolKinds, ~HasOf(rows, event.kind, event.body),
         event.kind = "tool_call" =>
           \E c \in chains : HasEvent(rows, c[1]) /\ event.body = c[2],
         event.kind = "tool_result" => HasEvent(rows, ToolCall(event.body))
  PROVE  Chained(Written(rows, event, ts), chains)
<1> DEFINE w == Written(rows, event, ts)
           n == Cut(rows, ts)
<1>1. /\ \A k \in DOMAIN rows : Shift(k, n) \in DOMAIN w /\ w[Shift(k, n)] = rows[k]
      /\ \A j \in DOMAIN w :
           \/ j = n + 1 /\ w[j] = NewRow(event, ts)
           \/ \E k \in DOMAIN rows : j = Shift(k, n)
  BY ShiftShape
<1>2. n = Len(rows) /\ \A k \in DOMAIN rows : Shift(k, n) = k
  BY EndCut
<1>3. NewRow(event, ts).event = event
  BY DEF NewRow
<1>4. Len(rows) \in Nat /\ DOMAIN rows = 1 .. Len(rows)
  BY RowStamps
<1> DEFINE last == n + 1
<1>5. /\ \A k \in DOMAIN rows : k \in DOMAIN w /\ w[k] = rows[k] /\ k < last
      /\ \A j \in DOMAIN w : \/ j = last /\ w[j].event = event
                             \/ j \in DOMAIN rows /\ j # last
  <2>1. \A k \in DOMAIN rows : k \in Nat /\ k < last
    BY <1>2, <1>4
  <2>2. \A k \in DOMAIN rows : k # last
    BY <2>1, <1>2, <1>4
  <2> HIDE DEF w, n
  <2> QED BY <1>1, <1>2, <1>3, <2>1, <2>2
<1> HIDE DEF w, n, last
<1>6. ASSUME NEW j \in DOMAIN w, NEW k \in DOMAIN w,
             w[j].event.kind \in ToolKinds,
             w[k].event.kind = w[j].event.kind, w[k].event.body = w[j].event.body
      PROVE  j = k
  <2>1. CASE j \in DOMAIN rows /\ k \in DOMAIN rows
    BY <1>5, <1>6, <2>1 DEF Chained
  <2>2. CASE j = last /\ w[j].event = event /\ k \in DOMAIN rows
    BY <1>5, <1>6, <2>2 DEF HasOf
  <2>3. CASE k = last /\ w[k].event = event /\ j \in DOMAIN rows
    BY <1>5, <1>6, <2>3 DEF HasOf
  <2> QED BY <1>5, <2>1, <2>2, <2>3
<1>7. ASSUME NEW k \in DOMAIN w, w[k].event.kind = "tool_call"
      PROVE  \E c \in chains, j \in DOMAIN w :
               j < k /\ w[j].event = c[1] /\ w[k].event.body = c[2]
  <2>1. CASE k \in DOMAIN rows
    BY <1>5, <1>7, <2>1 DEF Chained
  <2>2. CASE k = last /\ w[k].event = event
    <3>1. PICK c \in chains : HasEvent(rows, c[1]) /\ event.body = c[2]
      BY <1>7, <2>2
    <3>2. PICK j \in DOMAIN rows : rows[j].event = c[1]
      BY <3>1 DEF HasEvent
    <3> QED BY <1>5, <2>2, <3>1, <3>2
  <2> QED BY <1>5, <2>1, <2>2
<1>8. ASSUME NEW k \in DOMAIN w, w[k].event.kind = "tool_result"
      PROVE  \E j \in DOMAIN w : j < k /\ w[j].event = ToolCall(w[k].event.body)
  <2>1. CASE k \in DOMAIN rows
    BY <1>5, <1>8, <2>1 DEF Chained
  <2>2. CASE k = last /\ w[k].event = event
    <3>1. PICK j \in DOMAIN rows : rows[j].event = ToolCall(event.body)
      BY <1>8, <2>2 DEF HasEvent
    <3> QED BY <1>5, <2>2, <3>1
  <2> QED BY <1>5, <2>1, <2>2
<1>9. Chained(w, chains)
  BY <1>6, <1>7, <1>8 DEF Chained
<1> QED BY <1>9 DEF w

LEMMA ChainedListed ==
  ASSUME NEW rows \in Seq(Row), NEW chains, Chained(rows, chains)
  PROVE  Chained(Listed(rows), chains) /\ Len(Listed(rows)) <= Limit
<1>1. /\ \A k \in DOMAIN Listed(rows) : k \in DOMAIN rows /\ Listed(rows)[k] = rows[k]
      /\ Listed(rows) \in Seq(Row)
  BY ListedRows
<1>2. \A k \in DOMAIN Listed(rows), j \in DOMAIN rows : j < k => j \in DOMAIN Listed(rows)
  <2>1. DOMAIN Listed(rows) = 1 .. Len(Listed(rows)) /\ Len(Listed(rows)) \in Nat
        /\ DOMAIN rows = 1 .. Len(rows)
    BY <1>1
  <2> QED BY <2>1
<1>3. Len(Listed(rows)) <= Limit
  <2>1. CASE Len(rows) <= Limit
    BY <2>1 DEF Listed
  <2>2. CASE ~(Len(rows) <= Limit)
    <3>1. Limit \in 1 .. Len(rows) /\ Len(rows) \in Nat /\ Limit \in Nat
      BY <2>2, ClockAssumption
    <3>2. Listed(rows) = SubSeq(rows, 1, Limit)
      BY <2>2 DEF Listed
    <3>3. Len(SubSeq(rows, 1, Limit)) = Limit
      BY <3>1
    <3> QED BY <3>1, <3>2, <3>3
  <2> QED BY <2>1, <2>2
<1>4. Chained(Listed(rows), chains)
  <2> DEFINE l == Listed(rows)
  <2> HIDE DEF l
  <2>1. /\ \A k \in DOMAIN l : k \in DOMAIN rows /\ l[k] = rows[k]
        /\ \A k \in DOMAIN l, j \in DOMAIN rows : j < k => j \in DOMAIN l
    BY <1>1, <1>2 DEF l
  <2>2. Chained(l, chains)
    <3>1. ASSUME NEW k \in DOMAIN l, l[k].event.kind = "tool_call"
          PROVE  \E c \in chains, j \in DOMAIN l :
                   j < k /\ l[j].event = c[1] /\ l[k].event.body = c[2]
      <4>1. PICK c \in chains, j \in DOMAIN rows :
              j < k /\ rows[j].event = c[1] /\ rows[k].event.body = c[2]
        BY <2>1, <3>1 DEF Chained
      <4> QED BY <2>1, <4>1
    <3>2. ASSUME NEW k \in DOMAIN l, l[k].event.kind = "tool_result"
          PROVE  \E j \in DOMAIN l : j < k /\ l[j].event = ToolCall(l[k].event.body)
      <4>1. PICK j \in DOMAIN rows : j < k /\ rows[j].event = ToolCall(rows[k].event.body)
        BY <2>1, <3>2 DEF Chained
      <4> QED BY <2>1, <4>1
    <3>3. ASSUME NEW j \in DOMAIN l, NEW k \in DOMAIN l, l[j].event.kind \in ToolKinds,
                 l[k].event.kind = l[j].event.kind, l[k].event.body = l[j].event.body
          PROVE  j = k
      BY <2>1, <3>3 DEF Chained
    <3> QED BY <3>1, <3>2, <3>3 DEF Chained
  <2> QED BY <2>2 DEF l
<1> QED BY <1>3, <1>4

(* The live handling: each message goes through its own events.            *)
LEMMA OthersSoFar ==
  ASSUME TypeOK, LiveSoFar, NEW m \in Message, NEW label, NEW e \in EventType, NEW ts \in Int,
         l0' = Written(l0, e, ts), live' = [live EXCEPT ![m] = label],
         e.kind \in ToolKinds => e.body = <<"live", m>>
  PROVE  \A o \in Order \ {m} : SoFar(o)'
<1>1. l0 \in Seq(Row) /\ live \in [Message -> {"idle", "worker", "plans", "tool", "done"}]
  BY DEF TypeOK
<1>2. /\ \A f : HasEvent(l0, f) => HasEvent(l0', f)
      /\ \A kind, id : HasOf(l0', kind, id) =>
           HasOf(l0, kind, id) \/ (e.kind = kind /\ e.body = id)
  BY <1>1, HoldsAfter
<1> SUFFICES ASSUME NEW o \in Order, o # m PROVE SoFar(o)'
  OBVIOUS
<1>3. o \in Message /\ live'[o] = live[o] /\ SoFar(o)
  BY <1>1, MessagesAssumption DEF LiveSoFar
<1>4. <<"live", o>> # <<"live", m>>
  OBVIOUS
<1>5. \A kind \in ToolKinds :
        HasOf(l0', kind, <<"live", o>>) => HasOf(l0, kind, <<"live", o>>)
  BY <1>2, <1>4
<1> QED BY <1>2, <1>3, <1>5 DEF SoFar, ToolKinds

LEMMA LiveChained ==
  ASSUME TypeOK, LiveSoFar, NoneAhead, Chained(l0, LiveChains),
         \A o \in Message : live[o] = "tool" => o \in Order,
         NEW m \in Message, Live(m)
  PROVE  LiveSoFar' /\ Chained(l0', LiveChains)
<1>1. /\ l0 \in Seq(Row) /\ live \in [Message -> {"idle", "worker", "plans", "tool", "done"}]
      /\ Now \in Int
  BY NowIsInt DEF TypeOK
<1>2. AtEnd(l0, Now)
  BY DEF NoneAhead, AtEnd
<1>3. m \in Order => SoFar(m)
  BY DEF LiveSoFar
<1>4. <<"live", m>> \in Ids
  BY DEF Ids
<1>5. ASSUME NEW label \in {"idle", "worker", "plans", "tool", "done"},
             NEW e \in EventType, NEW ts \in Int,
             l0' = Written(l0, e, ts), live' = [live EXCEPT ![m] = label],
             e.kind \in ToolKinds => e.body = <<"live", m>>,
             m \in Order => SoFar(m)'
      PROVE  LiveSoFar'
  <2>1. \A o \in Order \ {m} : SoFar(o)'
    BY <1>5, OthersSoFar
  <2> QED BY <1>5, <2>1 DEF LiveSoFar
<1>6. ASSUME NEW e \in EventType, NEW ts \in Int, l0' = Written(l0, e, ts)
      PROVE  /\ \A f : HasEvent(l0, f) => HasEvent(l0', f)
             /\ HasEvent(l0', e)
             /\ \A kind, id : HasOf(l0', kind, id) =>
                  HasOf(l0, kind, id) \/ (e.kind = kind /\ e.body = id)
  BY <1>1, <1>6, HoldsAfter
<1>7. CASE LiveReceive(m)
  <2>1. PICK ts \in Sent \cup {Now} : l0' = Written(l0, Inbound(Text(m)), ts)
    BY <1>7 DEF LiveReceive
  <2> DEFINE e == Inbound(Text(m))
  <2>2. ts \in Int /\ e \in EventType /\ e.kind \notin ToolKinds
    BY <1>1, <2>1, ClockAssumption, TextType, EventTypes DEF Inbound, ToolKinds
  <2>3. m \in Order => e = Inbound(m)
    BY MessagesAssumption DEF Text
  <2>4. live[m] = "idle" /\ live' = [live EXCEPT ![m] = "worker"] /\ live'[m] = "worker"
    BY <1>1, <1>7 DEF LiveReceive, LiveGoto
  <2>5. l0' = Written(l0, e, ts)
    BY <2>1
  <2> HIDE DEF e
  <2>6. /\ HasEvent(l0', e)
        /\ \A kind \in ToolKinds : \A id : HasOf(l0', kind, id) => HasOf(l0, kind, id)
    BY <1>6, <2>2, <2>5
  <2>7. m \in Order => SoFar(m)'
    BY <1>3, <2>3, <2>4, <2>6 DEF SoFar, ToolKinds
  <2>8. Chained(l0', LiveChains)
    BY <1>1, <2>2, <2>5, ChainedOther
  <2> QED BY <1>5, <2>2, <2>4, <2>5, <2>7, <2>8
<1>8. CASE LiveAnswer(m)
  <2>1. LlmCall(m) \in EventType /\ LlmCall(m).kind \notin ToolKinds
    BY EventTypes DEF LlmCall, ToolKinds
  <2>2. live[m] = "worker" /\ live' = [live EXCEPT ![m] = "plans"] /\ live'[m] = "plans"
        /\ l0' = Written(l0, LlmCall(m), Now)
    BY <1>1, <1>8 DEF LiveAnswer, LiveGoto, LiveLog
  <2>3. /\ \A f : HasEvent(l0, f) => HasEvent(l0', f)
        /\ \A kind \in ToolKinds : \A id : HasOf(l0', kind, id) => HasOf(l0, kind, id)
    BY <1>1, <1>6, <2>1, <2>2
  <2>4. m \in Order => SoFar(m)'
    BY <1>3, <2>2, <2>3 DEF SoFar, ToolKinds
  <2>5. Chained(l0', LiveChains)
    BY <1>1, <2>1, <2>2, ChainedOther
  <2> QED BY <1>1, <1>5, <2>1, <2>2, <2>4, <2>5
<1>9. CASE LiveCall(m)
  <2> DEFINE id == <<"live", m>>
             e  == ToolCall(id)
  <2>1. e \in EventType /\ e.kind = "tool_call" /\ e.body = id /\ e.kind \in ToolKinds
    BY <1>4, EventTypes DEF ToolCall, ToolKinds
  <2>2. live[m] \in {"worker", "plans"} /\ m \in Order
        /\ live' = [live EXCEPT ![m] = "tool"] /\ live'[m] = "tool"
        /\ l0' = Written(l0, e, Now)
    BY <1>1, <1>9 DEF LiveCall, LiveGoto, LiveLog
  <2>3. HasEvent(l0, Inbound(m)) /\ ~HasOf(l0, "tool_call", id) /\ ~HasOf(l0, "tool_result", id)
    BY <1>3, <2>2 DEF SoFar
  <2>4. <<Inbound(m), id>> \in LiveChains
    BY <2>2 DEF LiveChains
  <2>5. e = ToolCall(id) /\ id = <<"live", m>>
    OBVIOUS
  <2> HIDE DEF e, id
  <2>6. HasEvent(l0', e) /\ (HasOf(l0', "tool_result", id) => HasOf(l0, "tool_result", id))
    BY <1>1, <1>6, <2>1, <2>2
  <2>7. SoFar(m)'
    BY <2>2, <2>3, <2>5, <2>6 DEF SoFar
  <2>8. \E c \in LiveChains : HasEvent(l0, c[1]) /\ e.body = c[2]
    BY <2>1, <2>3, <2>4
  <2>9. Chained(l0', LiveChains)
    BY <1>1, <1>2, <2>1, <2>2, <2>3, <2>8, ChainedNext
  <2> QED BY <1>1, <1>5, <2>1, <2>2, <2>5, <2>7, <2>9
<1>10. ASSUME NEW ok \in BOOLEAN, LiveResult(m, ok)
       PROVE  LiveSoFar' /\ Chained(l0', LiveChains)
  <2> DEFINE id == <<"live", m>>
             e  == ToolResult(id, ok)
  <2>1. e \in EventType /\ e.kind = "tool_result" /\ e.body = id /\ e.kind \in ToolKinds
    BY <1>4, EventTypes DEF ToolResult, ToolKinds
  <2>2. live[m] = "tool" /\ m \in Order
        /\ live' = [live EXCEPT ![m] = "done"] /\ live'[m] = "done"
        /\ l0' = Written(l0, e, Now)
    BY <1>1, <1>10 DEF LiveResult, LiveGoto, LiveLog
  <2>3. HasEvent(l0, ToolCall(id)) /\ ~HasOf(l0, "tool_result", id)
    BY <1>3, <2>2 DEF SoFar
  <2>4. SoFar(m)'
    BY <2>2 DEF SoFar
  <2>5. id = <<"live", m>>
    OBVIOUS
  <2> HIDE DEF e, id
  <2>6. Chained(l0', LiveChains)
    BY <1>1, <1>2, <2>1, <2>2, <2>3, ChainedNext
  <2> QED BY <1>1, <1>5, <2>1, <2>2, <2>4, <2>5, <2>6
<1> QED BY <1>7, <1>8, <1>9, <1>10 DEF Live

LEMMA ChainInit == Init => ChainInv
<1> SUFFICES ASSUME Init PROVE ChainInv
  OBVIOUS
<1>1. l0 = << >> /\ trace = << >> /\ log = << >> /\ live = [m \in Message |-> "idle"]
  BY DEF Init
<1>2. \A m \in Order : m \in Message /\ live[m] = "idle"
  BY <1>1, MessagesAssumption
<1>3. RowsBehind /\ LookupsSoFar
  BY <1>1 DEF RowsBehind, LookupsSoFar
<1>4. LiveSoFar
  BY <1>1, <1>2 DEF LiveSoFar, SoFar, HasOf
<1>5. Chained(l0, LiveChains) /\ Chained(trace, LiveChains) /\ Chained(log, ReplayChains)
  BY <1>1 DEF Chained
<1>6. Len(trace) <= Limit
  BY <1>1, ClockAssumption
<1> QED BY <1>1, <1>3, <1>4, <1>5, <1>6 DEF ChainInv

(* Time goes on.                                                           *)
LEMMA LaterThan ==
  ASSUME TypeOK, UNCHANGED log \/ (\E e \in EventType, ts \in Int : log' = Written(log, e, ts)),
         UNCHANGED l0 \/ (\E e \in EventType, ts \in Int : l0' = Written(l0, e, ts))
  PROVE  Now' \in Nat /\ Now <= Now' /\ Now \in Nat
<1>1. l0 \in Seq(Row) /\ log \in Seq(Row) /\ Len(l0) \in Nat /\ Len(log) \in Nat
  BY DEF TypeOK
<1>2. l0' = l0 \/ Len(l0') = Len(l0) + 1
  BY <1>1, WrittenShape DEF Shaped
<1>3. log' = log \/ Len(log') = Len(log) + 1
  BY <1>1, WrittenShape DEF Shaped
<1> QED BY <1>1, <1>2, <1>3 DEF Now

LEMMA ChainLive ==
  ASSUME TypeOK, ResultsOwned, ChainInv, NoneAhead, NEW m \in Message, Live(m)
  PROVE  ChainInv'
<1>1. /\ UNCHANGED <<trace, at, log>>
      /\ \E e \in EventType, ts \in Int : l0' = Written(l0, e, ts)
  BY LiveWrites
<1>2. UNCHANGED pc
  BY DEF Live, LiveReceive, LiveAnswer, LiveCall, LiveResult, replayVars
<1>3. Now' \in Nat /\ Now <= Now' /\ Now \in Nat
  BY <1>1, LaterThan
<1>4. trace \in Seq(Row) /\ log \in Seq(Row)
  BY DEF TypeOK
<1>5. \A i \in DOMAIN trace : trace[i].ts \in Int
  BY <1>4, RowStamps
<1>6. \A i \in DOMAIN log : log[i].ts \in Int
  BY <1>4, RowStamps
<1>7. RowsBehind'
  BY <1>1, <1>3, <1>5, <1>6 DEF ChainInv, RowsBehind
<1>8. LiveSoFar' /\ Chained(l0', LiveChains)
  BY LiveChained DEF ChainInv, ResultsOwned
<1>9. InboundRows' = InboundRows /\ Behind' = Behind /\ ReplayChains' = ReplayChains
  BY <1>1 DEF InboundRows, Behind, ReplayChains, CopyOf, RowsOf
<1>10. LookupsSoFar'
  BY <1>1, <1>2, <1>9 DEF ChainInv, LookupsSoFar
<1>11. LiveChains' = LiveChains /\ Chained(log', ReplayChains') /\ Chained(trace', LiveChains)
  BY <1>1, <1>9 DEF ChainInv, LiveChains
<1> QED BY <1>1, <1>7, <1>8, <1>10, <1>11 DEF ChainInv

LEMMA ChainLoad ==
  ASSUME TypeOK, AtMessage, ChainInv, NoneAhead, Load
  PROVE  ChainInv'
<1>1. /\ l0' = l0 /\ live' = live /\ log' = log /\ log = << >> /\ trace' = Listed(l0)
      /\ pc = "idle"
  BY DEF Load, liveVars, AtMessage, NothingYet
<1>2. l0 \in Seq(Row)
  BY DEF TypeOK
<1>3. Chained(trace', LiveChains) /\ Len(trace') <= Limit
  BY <1>1, <1>2, ChainedListed DEF ChainInv
<1>4. Now' = Now
  BY <1>1 DEF Now
<1>5. RowsBehind'
  BY <1>1, <1>2, <1>4, ListedRows DEF RowsBehind, NoneAhead
<1>6. LiveSoFar' /\ LiveChains' = LiveChains /\ Chained(l0', LiveChains)
  BY <1>1 DEF ChainInv, LiveSoFar, SoFar, LiveChains
<1>7. LookupsSoFar' /\ Chained(log', ReplayChains')
  BY <1>1 DEF LookupsSoFar, Chained
<1> QED BY <1>3, <1>5, <1>6, <1>7 DEF ChainInv

(* What a step of the replay leaves to be shown.                           *)
LEMMA ChainFrame ==
  ASSUME TypeOK, ChainInv, UNCHANGED <<l0, live, trace>>,
         \/ log' = log
         \/ \E e \in EventType, ts \in Int : ts <= Now /\ log' = Written(log, e, ts),
         LookupsSoFar', Chained(log', ReplayChains)
  PROVE  ChainInv'
<1>1. Now' \in Nat /\ Now <= Now' /\ Now \in Nat
  BY LaterThan
<1>2. trace \in Seq(Row) /\ log \in Seq(Row)
  BY DEF TypeOK
<1>3. \A i \in DOMAIN trace' : trace'[i].ts <= Now'
  <2>1. \A i \in DOMAIN trace : trace[i].ts \in Int
    BY <1>2, RowStamps
  <2> QED BY <1>1, <2>1 DEF ChainInv, RowsBehind
<1>4. \A i \in DOMAIN log' : log'[i].ts <= Now'
  <2>1. \A i \in DOMAIN log : log[i].ts \in Int /\ log[i].ts <= Now
    BY <1>2, RowStamps DEF ChainInv, RowsBehind
  <2>2. CASE log' = log
    BY <1>1, <2>1, <2>2
  <2>3. CASE \E e \in EventType, ts \in Int : ts <= Now /\ log' = Written(log, e, ts)
    <3>1. PICK e \in EventType, ts \in Int : ts <= Now /\ log' = Written(log, e, ts)
      BY <2>3
    <3>2. \A i \in DOMAIN log' :
            log'[i] = NewRow(e, ts) \/ \E j \in DOMAIN log : log'[i] = log[j]
      BY <1>2, <3>1, WrittenRows
    <3>3. NewRow(e, ts).ts = ts
      BY DEF NewRow
    <3>4. \A i \in DOMAIN log' : log'[i].ts \in Int /\ log'[i].ts <= Now
      BY <2>1, <3>1, <3>2, <3>3
    <3> QED BY <1>1, <3>4
  <2> QED BY <2>2, <2>3
<1>5. RowsBehind'
  BY <1>3, <1>4 DEF RowsBehind
<1>6. ReplayChains' = ReplayChains /\ LiveChains' = LiveChains
  BY DEF ReplayChains, LiveChains, CopyOf, InboundRows, RowsOf
<1>7. LiveSoFar'
  BY DEF ChainInv, LiveSoFar, SoFar
<1> QED BY <1>5, <1>6, <1>7 DEF ChainInv

LEMMA ChainTake ==
  ASSUME TypeOK, ChainInv, Take
  PROVE  ChainInv'
<1>1. PICK i \in Upcoming :
        at' = i /\ log' = Written(log, Inbound(Said(trace[i].event.body)), trace[i].ts)
  BY TakesUp DEF TakenUp
<1>2. /\ i \in InboundRows /\ i > at /\ i \in DOMAIN trace /\ at \in Nat /\ i \in Nat
      /\ trace \in Seq(Row) /\ log \in Seq(Row)
  BY <1>1 DEF Upcoming, After, InboundRows, RowsOf, TypeOK
<1> DEFINE e  == Inbound(Said(trace[i].event.body))
           ts == trace[i].ts
<1>3. /\ e \in EventType /\ ts \in Int /\ e.kind = "inbound_message" /\ e.kind \notin ToolKinds
      /\ ts <= Now
  BY <1>2, TraceRow, EventTypes DEF Inbound, ToolKinds, ChainInv, RowsBehind
<1>4. log' = Written(log, e, ts)
  BY <1>1
<1>5. UNCHANGED <<l0, live, trace>> /\ pc' = "worker"
  BY TakesUp DEF TakenUp, liveVars
<1> HIDE DEF e, ts
<1>6. Chained(log', ReplayChains)
  BY <1>2, <1>3, <1>4, ChainedOther DEF ChainInv
<1>7. \A k \in DOMAIN log' :
        log'[k] = NewRow(e, ts) \/ \E j \in DOMAIN log : log'[k] = log[j]
  <2>1. log \in Seq(Row) /\ e \in EventType /\ ts \in Int
    BY <1>2, <1>3
  <2> QED BY <1>4, <2>1, WrittenRows
<1>8. NewRow(e, ts).event = e
  BY DEF NewRow
<1>9. \A h \in Behind : h \in Behind' /\ h # at'
  <2>1. \A h \in InboundRows : h \in Nat
    BY <1>2 DEF InboundRows, RowsOf
  <2> QED BY <1>1, <1>2, <1>5, <2>1 DEF Behind, InboundRows, RowsOf
<1>10. ASSUME NEW k \in DOMAIN log'
       PROVE  /\ log'[k].event.kind # "llm_call"
              /\ log'[k].event.kind \in ToolKinds =>
                   \E h \in Behind' : log'[k].event.body = <<"replay", h>> /\ h # at'
  <2>1. CASE log'[k] = NewRow(e, ts)
    BY <1>3, <1>8, <2>1
  <2>2. CASE \E j \in DOMAIN log : log'[k] = log[j]
    BY <1>9, <2>2 DEF ChainInv, LookupsSoFar
  <2> QED BY <1>7, <2>1, <2>2
<1>11. LookupsSoFar'
  BY <1>10 DEF LookupsSoFar
<1> QED BY <1>3, <1>4, <1>5, <1>6, <1>11, ChainFrame

(* The next event of the lookup that is under way.                         *)
LEMMA ChainLookup ==
  ASSUME TypeOK, AtMessage, LoopInv, ChainInv, UNCHANGED <<l0, live, trace, at>>,
         NEW e \in EventType, log' = Written(log, e, Now), e.body = LookupId,
         \/ e.kind = "tool_call" /\ pc = "worker" /\ pc' = "execute"
         \/ e.kind = "tool_result" /\ pc \in {"execute", "tool"} /\ pc' = "next"
  PROVE  ChainInv'
<1>1. /\ trace \in Seq(Row) /\ log \in Seq(Row) /\ Now \in Int /\ Now <= Now
      /\ at \in InboundRows /\ at \in Nat /\ LookupId = <<"replay", at>>
  BY NowIsInt DEF TypeOK, AtMessage, LookupId, InboundRows
<1>2. AtEnd(log, Now)
  BY DEF ChainInv, RowsBehind, AtEnd
<1>3. e.kind \in ToolKinds
  BY DEF ToolKinds
<1>4. \A i \in InboundRows : <<"replay", i>> = <<"replay", at>> => i = at
  OBVIOUS
<1>5. ~HasOf(log, e.kind, e.body)
  <2> SUFFICES ASSUME NEW k \in DOMAIN log,
                      log[k].event.kind = e.kind, log[k].event.body = e.body
               PROVE  FALSE
    BY DEF HasOf
  <2>1. PICK i \in Behind :
          /\ log[k].event.body = <<"replay", i>>
          /\ pc = "worker" => i # at
          /\ pc \in {"execute", "tool"} /\ log[k].event.kind = "tool_result" => i # at
    BY <1>3 DEF ChainInv, LookupsSoFar
  <2>2. i = at
    BY <1>1, <2>1
  <2> QED BY <2>1, <2>2
<1>6. e.kind = "tool_call" => \E c \in ReplayChains : HasEvent(log, c[1]) /\ e.body = c[2]
  <2> SUFFICES ASSUME pc = "worker"
               PROVE  \E c \in ReplayChains : HasEvent(log, c[1]) /\ e.body = c[2]
    OBVIOUS
  <2>1. HasEvent(log, CopyOf(at).event)
    BY DEF LoopInv, Taken, HasEvent
  <2>2. <<CopyOf(at).event, <<"replay", at>>>> \in ReplayChains
    BY <1>1 DEF ReplayChains
  <2> QED BY <1>1, <2>1, <2>2
<1>7. e.kind = "tool_result" => HasEvent(log, ToolCall(e.body))
  BY <1>1 DEF LoopInv, Called
<1>8. Chained(log', ReplayChains)
  BY <1>1, <1>2, <1>3, <1>5, <1>6, <1>7, ChainedNext DEF ChainInv
<1>9. \A k \in DOMAIN log' :
        log'[k] = NewRow(e, Now) \/ \E j \in DOMAIN log : log'[k] = log[j]
  BY <1>1, WrittenRows
<1>10. NewRow(e, Now).event = e
  BY DEF NewRow
<1>11. Behind' = Behind /\ at \in Behind
  BY <1>1 DEF Behind, InboundRows, RowsOf
<1>12. ASSUME NEW k \in DOMAIN log'
       PROVE  /\ log'[k].event.kind # "llm_call"
              /\ log'[k].event.kind \in ToolKinds =>
                   \E i \in Behind' :
                     /\ log'[k].event.body = <<"replay", i>>
                     /\ pc' = "worker" => i # at'
                     /\ pc' \in {"execute", "tool"} /\ log'[k].event.kind = "tool_result"
                          => i # at'
  <2>1. CASE log'[k] = NewRow(e, Now)
    BY <1>1, <1>10, <1>11, <2>1
  <2>2. CASE \E j \in DOMAIN log : log'[k] = log[j]
    <3>1. PICK j \in DOMAIN log : log'[k] = log[j]
      BY <2>2
    <3> QED BY <1>11, <3>1 DEF ChainInv, LookupsSoFar
  <2> QED BY <1>9, <2>1, <2>2
<1>13. LookupsSoFar'
  BY <1>12 DEF LookupsSoFar
<1> QED BY <1>1, <1>8, <1>13, ChainFrame

LEMMA ChainStep == Base /\ LoopInv /\ ChainInv /\ NoneAhead /\ [Next]_vars => ChainInv'
<1> SUFFICES ASSUME Base, LoopInv, ChainInv, NoneAhead, [Next]_vars PROVE ChainInv'
  OBVIOUS
<1>1. TypeOK /\ AtMessage /\ ResultsOwned
  BY DEF Base
<1>2. LookupId \in Ids /\ Now \in Int
  BY <1>1, NowIsInt DEF TypeOK, LookupId, Ids
<1>3. ASSUME NEW m \in Message, Live(m) PROVE ChainInv'
  BY <1>1, <1>3, ChainLive
<1>4. CASE Load
  BY <1>1, <1>4, ChainLoad
<1>5. CASE Take
  BY <1>1, <1>5, ChainTake
<1>6. ASSUME UNCHANGED <<l0, live, trace, at, log>>,
             \/ pc' \in {pc, "next", "raised", "done"}
             \/ pc = "execute" /\ pc' = "tool"
      PROVE  ChainInv'
  <2>1. Behind' = Behind /\ ReplayChains' = ReplayChains
    BY <1>6 DEF Behind, ReplayChains, CopyOf, InboundRows, RowsOf
  <2>2. LookupsSoFar'
    BY <1>6, <2>1 DEF ChainInv, LookupsSoFar
  <2>3. Chained(log', ReplayChains)
    BY <1>6 DEF ChainInv
  <2> QED BY <1>1, <1>6, <2>2, <2>3, ChainFrame
<1>7. CASE Answer
  <2>1. pc = "worker" /\ UNCHANGED <<l0, live, trace, at>>
    BY <1>7 DEF Answer, liveVars
  <2>2. CASE Replayed.event.body \in Order
    <3>1. log' = Written(log, ToolCall(LookupId), Now) /\ pc' = "execute"
      BY <1>7, <2>2 DEF Answer, ReplayLog
    <3>2. /\ ToolCall(LookupId) \in EventType
          /\ ToolCall(LookupId).kind = "tool_call" /\ ToolCall(LookupId).body = LookupId
      BY <1>2, EventTypes DEF ToolCall
    <3> QED BY <1>1, <2>1, <3>1, <3>2, ChainLookup
  <2>3. CASE ~(Replayed.event.body \in Order)
    <3>1. log' = log /\ pc' = "next"
      BY <1>7, <2>3 DEF Answer
    <3> QED BY <1>6, <2>1, <3>1
  <2> QED BY <2>2, <2>3
<1>8. ASSUME NEW ok \in BOOLEAN, pc \in {"execute", "tool"}, pc' = "next",
             log' = Written(log, ToolResult(LookupId, ok), Now),
             UNCHANGED <<l0, live, trace, at>>
      PROVE  ChainInv'
  <2>1. /\ ToolResult(LookupId, ok) \in EventType
        /\ ToolResult(LookupId, ok).kind = "tool_result"
        /\ ToolResult(LookupId, ok).body = LookupId
    BY <1>2, EventTypes DEF ToolResult
  <2> QED BY <1>1, <1>8, <2>1, ChainLookup
<1>9. CASE Execute
  <2>1. pc = "execute" /\ UNCHANGED <<l0, live, trace, at>>
    BY <1>9 DEF Execute, liveVars
  <2>2. CASE FromCache
    <3>1. CachedSuccess(trace, LookupId) \in BOOLEAN
      BY DEF CachedSuccess
    <3>2. /\ log' = Written(log, ToolResult(LookupId, CachedSuccess(trace, LookupId)), Now)
          /\ pc' = "next"
      BY <1>9, <2>2 DEF Execute, ReplayLog
    <3> QED BY <1>8, <2>1, <3>1, <3>2
  <2>3. CASE ~FromCache
    <3>1. log' = log /\ pc' = "tool"
      BY <1>9, <2>3 DEF Execute
    <3> QED BY <1>6, <2>1, <3>1
  <2> QED BY <2>2, <2>3
<1>10. CASE \E ok \in BOOLEAN : ToolAnswers(ok)
  BY <1>8, <1>10 DEF ToolAnswers, ReplayLog, liveVars
<1>11. CASE Raise \/ Compare \/ UNCHANGED vars
  <2>1. /\ UNCHANGED <<l0, live, trace, at, log>>
        /\ pc' = pc \/ pc' \in {"raised", "done"}
    BY <1>11 DEF Raise, Compare, vars, liveVars, replayVars
  <2> QED BY <1>6, <2>1
<1> QED BY <1>3, <1>4, <1>5, <1>7, <1>9, <1>10, <1>11 DEF Next, Replaying

(* A log with one chain in it has its three rows at the first three places *)
(* when the lookup has a result.                                           *)
OneChain(rows, chains, id) ==
  /\ Chained(rows, chains)
  /\ \A k \in DOMAIN rows : rows[k].event.kind # "llm_call"
  /\ \A j, k \in RowsOf(rows, "inbound_message") : j = k
  /\ \A c \in chains :
       c[1].kind = "inbound_message" /\ (HasEvent(rows, c[1]) => c[2] = id)

LEMMA ThreeRows ==
  ASSUME NEW rows \in Seq(Row), NEW chains, NEW id, OneChain(rows, chains, id),
         NEW p \in RowsOf(rows, "tool_result")
  PROVE  p = 3 /\ rows[p].event.body = id
<1>0. /\ Chained(rows, chains)
      /\ \A k \in DOMAIN rows : rows[k].event.kind # "llm_call"
      /\ \A j, k \in RowsOf(rows, "inbound_message") : j = k
      /\ \A c \in chains :
           c[1].kind = "inbound_message" /\ (HasEvent(rows, c[1]) => c[2] = id)
  BY DEF OneChain
<1>1. DOMAIN rows = 1 .. Len(rows) /\ Len(rows) \in Nat
  BY RowStamps
<1>2. p \in DOMAIN rows /\ rows[p].event.kind = "tool_result"
  BY DEF RowsOf
<1>3. PICK q \in DOMAIN rows : q < p /\ rows[q].event = ToolCall(rows[p].event.body)
  BY <1>0, <1>2 DEF Chained
<1>4. rows[q].event.kind = "tool_call" /\ rows[q].event.body = rows[p].event.body
  BY <1>3 DEF ToolCall
<1>5. PICK c \in chains, j \in DOMAIN rows :
        j < q /\ rows[j].event = c[1] /\ rows[q].event.body = c[2]
  BY <1>0, <1>4 DEF Chained
<1>6. c[2] = id /\ rows[j].event.kind = "inbound_message"
  BY <1>0, <1>5 DEF HasEvent
<1>7. ASSUME NEW k \in DOMAIN rows, rows[k].event.kind = "tool_call"
      PROVE  k = q
  <2>1. rows[k].event.body = id
    BY <1>0, <1>7 DEF Chained, HasEvent
  <2> QED BY <1>0, <1>4, <1>5, <1>6, <1>7, <2>1 DEF Chained, ToolKinds
<1>8. ASSUME NEW k \in DOMAIN rows, rows[k].event.kind = "tool_result"
      PROVE  k = p
  <2>1. PICK g \in DOMAIN rows : g < k /\ rows[g].event = ToolCall(rows[k].event.body)
    BY <1>0, <1>8 DEF Chained
  <2>2. g = q
    BY <1>7, <2>1 DEF ToolCall
  <2>3. rows[k].event.body = rows[p].event.body
    BY <1>4, <2>1, <2>2 DEF ToolCall
  <2> QED BY <1>0, <1>2, <1>8, <2>3 DEF Chained, ToolKinds
<1>9. ASSUME NEW k \in DOMAIN rows, rows[k].event.kind = "inbound_message"
      PROVE  k = j
  BY <1>0, <1>5, <1>6, <1>9 DEF RowsOf
<1>10. \A k \in DOMAIN rows : rows[k].event.kind \in Kinds
  <2>1. \A k \in DOMAIN rows : rows[k] \in Row
    BY <1>1
  <2>2. \A k \in DOMAIN rows : rows[k].event \in EventType
    BY <2>1 DEF Row
  <2> QED BY <2>2 DEF EventType
<1>11. \A k \in DOMAIN rows : k = j \/ k = q \/ k = p
  BY <1>0, <1>7, <1>8, <1>9, <1>10 DEF Kinds, ToolKinds
<1>12. p = 3
  <2>1. j \in Nat /\ q \in Nat /\ p \in Nat /\ 1 <= j /\ j < q /\ q < p /\ p <= Len(rows)
    BY <1>1, <1>2, <1>3, <1>5
  <2>2. 1 \in DOMAIN rows /\ 2 \in DOMAIN rows /\ 3 \in DOMAIN rows
    BY <1>1, <2>1
  <2> QED BY <1>11, <2>1, <2>2
<1> QED BY <1>4, <1>5, <1>6, <1>12

(* With one message and no recorded answer both logs hold one chain, and   *)
(* its two results are compared with one another.                          *)
LEMMA ExactOnOne ==
  ASSUME Base, InStep, ChainInv,
         Cardinality(InboundRows) = 1, RowsOf(trace, "llm_call") = {}
  PROVE  Regressed(Events(trace), Events(Listed(log))) <=> SomeBroke
<1>1. /\ TypeOK /\ ResultsOwned /\ trace \in Seq(Row) /\ log \in Seq(Row)
  BY DEF Base, TypeOK
<1>2. PICK i0 : InboundRows = {i0}
  BY <1>1, InboundFinite, FS_Singleton DEF InboundRows
<1> DEFINE m0 == trace[i0].event.body
<1>3. ASSUME NEW p \in RowsOf(trace, "tool_result")
      PROVE  /\ p = 3 /\ trace[p].event.body = <<"live", m0>>
  <2>1. \A k \in DOMAIN trace : trace[k].event.kind # "llm_call"
    BY DEF RowsOf
  <2>2. \A j, k \in RowsOf(trace, "inbound_message") : j = k
    BY <1>2 DEF InboundRows
  <2>3. \A c \in LiveChains : c[1].kind = "inbound_message"
    BY DEF LiveChains, Inbound
  <2>4. \A c \in LiveChains : HasEvent(trace, c[1]) => c[2] = <<"live", m0>>
    <3> SUFFICES ASSUME NEW m \in Order, NEW k \in DOMAIN trace, trace[k].event = Inbound(m)
                 PROVE  m = m0
      BY DEF LiveChains, HasEvent
    <3>1. k = i0
      BY <1>2 DEF InboundRows, RowsOf, Inbound
    <3> QED BY <3>1 DEF Inbound
  <2>5. Chained(trace, LiveChains)
    BY DEF ChainInv
  <2> HIDE DEF m0
  <2>6. OneChain(trace, LiveChains, <<"live", m0>>)
    BY <2>1, <2>2, <2>3, <2>4, <2>5 DEF OneChain
  <2> QED BY <1>1, <2>6, ThreeRows
<1>4. ASSUME NEW p \in RowsOf(log, "tool_result")
      PROVE  p = 3
  <2>1. \A k \in DOMAIN log : log[k].event.kind # "llm_call"
    BY DEF ChainInv, LookupsSoFar
  <2>2. \A j, k \in RowsOf(log, "inbound_message") : j = k
    <3>1. Behind = {} \/ Behind = {i0}
      BY <1>2 DEF Behind
    <3>2. Cardinality(TakenRows) = 0 \/ Cardinality(TakenRows) = 1
      BY <3>1, FS_EmptySet, FS_Singleton DEF InStep
    <3>3. IsFiniteSet(TakenRows)
      BY <1>1, InboundFinite DEF TakenRows
    <3>4. TakenRows = {} \/ \E x : TakenRows = {x}
      BY <3>2, <3>3, FS_EmptySet, FS_Singleton
    <3> QED BY <3>4 DEF TakenRows
  <2>3. \A c \in ReplayChains : c[1].kind = "inbound_message" /\ c[2] = <<"replay", i0>>
    BY <1>2 DEF ReplayChains, CopyOf, NewRow, Inbound
  <2>4. Chained(log, ReplayChains)
    BY DEF ChainInv
  <2>5. OneChain(log, ReplayChains, <<"replay", i0>>)
    BY <2>1, <2>2, <2>3, <2>4 DEF OneChain
  <2> QED BY <1>1, <2>5, ThreeRows
<1>5. ASSUME Regressed(Events(trace), Events(Listed(log))) PROVE SomeBroke
  <2>1. /\ \E m \in Order : HasEvent(trace, ToolResult(<<"live", m>>, TRUE))
        /\ \E i \in InboundRows : Failed(i)
    BY <1>1, <1>5, RegressionRows DEF InboundRows
  <2>2. Failed(i0)
    BY <1>2, <2>1
  <2>3. PICK m \in Order, p \in DOMAIN trace : trace[p].event = ToolResult(<<"live", m>>, TRUE)
    BY <2>1 DEF HasEvent
  <2>4. p \in RowsOf(trace, "tool_result") /\ trace[p].event.body = <<"live", m>>
    BY <2>3 DEF RowsOf, ToolResult
  <2>5. m = m0
    <3>1. <<"live", m>> = <<"live", m0>>
      BY <1>3, <2>4
    <3> HIDE DEF m0
    <3> QED BY <3>1
  <2>6. FoundLive(i0)
    BY <2>3, <2>5 DEF FoundLive, HasEvent
  <2> QED BY <1>2, <2>2, <2>6 DEF SomeBroke, Broke, InboundRows
<1>6. ASSUME SomeBroke PROVE Regressed(Events(trace), Events(Listed(log)))
  <2>1. PICK i \in InboundRows : FoundLive(i) /\ Failed(i)
    BY <1>6 DEF SomeBroke, Broke, InboundRows
  <2>2. PICK m \in Order, p \in DOMAIN trace : trace[p].event = ToolResult(<<"live", m>>, TRUE)
    BY <2>1 DEF FoundLive, HasEvent
  <2>3. PICK q \in DOMAIN log : log[q].event = ToolResult(<<"replay", i>>, FALSE)
    BY <2>1 DEF Failed, HasEvent
  <2>4. p = 3 /\ q = 3
    BY <1>3, <1>4, <2>2, <2>3 DEF RowsOf, ToolResult
  <2>5. 3 \in DOMAIN Listed(log)
    <3>1. /\ Len(trace) \in Nat /\ Len(log) \in Nat /\ 3 <= Len(trace) /\ 3 <= Len(log)
          /\ Limit \in Nat /\ 3 <= Limit
      BY <1>1, <2>4, RowStamps, ClockAssumption DEF ChainInv
    <3>2. CASE Len(log) <= Limit
      BY <2>4, <3>2 DEF Listed
    <3>3. CASE ~(Len(log) <= Limit)
      <4>1. Listed(log) = SubSeq(log, 1, Limit) /\ Limit \in 1 .. Len(log)
        BY <3>1, <3>3, ClockAssumption DEF Listed
      <4> QED BY <1>1, <3>1, <4>1
    <3> QED BY <3>2, <3>3
  <2>6. Listed(log)[3] = log[3]
    BY <1>1, <2>5, ListedRows
  <2> DEFINE b == trace[3].event
             r == log[3].event
  <2>7. /\ At(Events(trace), 3) = b /\ At(Events(Listed(log)), 3) = r
        /\ 3 \in DOMAIN Events(trace)
    BY <2>4, <2>5, <2>6 DEF At, Events
  <2>8. /\ b.kind = "tool_result" /\ b.success = TRUE
        /\ r.kind = "tool_result" /\ r.success = FALSE
    BY <2>2, <2>3, <2>4 DEF ToolResult
  <2>9. b \in EventType /\ r \in EventType
    <3>1. trace[3] \in Row /\ log[3] \in Row
      BY <1>1, <2>4
    <3> QED BY <3>1 DEF Row
  <2> HIDE DEF b, r
  <2>10. b # NoEvent /\ r # NoEvent /\ b # r
    BY <2>8, <2>9, NoEventAssumption
  <2>11. NewFailure(b, r)
    BY <2>8, <2>10 DEF NewFailure, IsKind
  <2>12. 3 \in Divergences(Events(trace), Events(Listed(log)))
    BY <2>7, <2>10 DEF Divergences
  <2> QED BY <2>7, <2>11, <2>12 DEF Regressed
<1> QED BY <1>5, <1>6

(* The verdict says what it concludes from, at the comparison and ever     *)
(* after.                                                                  *)
LEMMA ExactStep ==
  Base /\ LoopInv /\ InStep /\ ChainInv /\ RegressionExact /\ [Next]_vars => RegressionExact'
<1> SUFFICES ASSUME Base, LoopInv, InStep, ChainInv, RegressionExact, [Next]_vars
             PROVE  RegressionExact'
  OBVIOUS
<1>1. CASE Compare
  <2>1. /\ UNCHANGED <<trace, log>>
        /\ verdict' = Verdict(Events(trace), Events(Listed(log)), NoIndex)
    BY <1>1 DEF Compare
  <2>2. verdict' = "new_regression" <=> Regressed(Events(trace), Events(Listed(log)))
    BY <2>1 DEF Verdict
  <2>3. /\ SomeBroke' <=> SomeBroke
        /\ \A kind : RowsOf(trace', kind) = RowsOf(trace, kind)
    BY <2>1 DEF SomeBroke, Broke, FoundLive, Failed, HasEvent, RowsOf
  <2>4. CASE Cardinality(InboundRows) = 1 /\ RowsOf(trace, "llm_call") = {}
    BY <2>2, <2>3, <2>4, ExactOnOne DEF RegressionExact
  <2>5. CASE ~(Cardinality(InboundRows) = 1 /\ RowsOf(trace, "llm_call") = {})
    BY <2>3, <2>5 DEF RegressionExact, InboundRows
  <2> QED BY <2>4, <2>5
<1>2. CASE Load
  <2>1. CASE trace' = << >>
    <3>1. RowsOf(trace', "inbound_message") = {}
      BY <2>1 DEF RowsOf
    <3> QED BY <3>1, FS_EmptySet DEF RegressionExact
  <2>2. CASE trace' # << >>
    BY <1>2, <2>2 DEF Load, RegressionExact
  <2> QED BY <2>1, <2>2
<1>3. CASE UNCHANGED <<pc, trace, log, verdict>>
  <2>1. /\ SomeBroke' <=> SomeBroke
        /\ \A kind : RowsOf(trace', kind) = RowsOf(trace, kind)
    BY <1>3 DEF SomeBroke, Broke, FoundLive, Failed, HasEvent, RowsOf
  <2> QED BY <1>3, <2>1 DEF RegressionExact
<1>4. CASE pc' # "done"
  BY <1>4 DEF RegressionExact
<1>5. Compare \/ Load \/ UNCHANGED <<pc, trace, log, verdict>> \/ pc' # "done"
  BY DEF Next, Live, LiveReceive, LiveAnswer, LiveCall, LiveResult, Replaying, Take,
         Answer, Execute, ToolAnswers, Raise, vars, replayVars, liveVars
<1> QED BY <1>1, <1>2, <1>3, <1>4, <1>5

(* Where the snapshot has one message and no recorded LLM answer, the      *)
(* verdict is exact, in every behaviour in which no message is stamped     *)
(* with a time to come; one that was would be listed behind its lookup.    *)
THEOREM RegressionsAreExact == Spec /\ []NoneAhead => []RegressionExact
<1>1. Init => RegressionExact
  BY DEF Init, RegressionExact
<1>2. Base /\ LoopInv /\ [Next]_vars => LoopInv'
  BY LoopStep
<1>3. Base /\ InStep /\ [Next]_vars => InStep'
  BY InStepStep
<1> QED BY <1>1, <1>2, <1>3, LoopInit, InStepInit, ChainInit, ChainStep, ExactStep,
           BaseHolds, PTL DEF Spec

(* So it is whatever stamps of the past the messages come with, those of   *)
(* 1970 included.                                                          *)
NoneToCome == \A ts \in Sent : ts <= 0

LEMMA PastStamps == NoneToCome /\ TypeOK /\ NoneAhead /\ [Next]_vars => NoneAhead'
<1> SUFFICES ASSUME NoneToCome, TypeOK, NoneAhead, [Next]_vars PROVE NoneAhead'
  OBVIOUS
<1>1. l0 \in Seq(Row) /\ log \in Seq(Row) /\ Now \in Nat
  BY NowIsInt DEF TypeOK
<1>2. \A i \in DOMAIN l0 : l0[i].ts \in Int /\ l0[i].ts <= Now
  BY <1>1, RowStamps DEF NoneAhead
<1>3. ASSUME NEW e \in EventType, NEW ts \in Int, ts <= Now, l0' = Written(l0, e, ts),
             log' = log
      PROVE  NoneAhead'
  <2>1. Now' \in Nat /\ Now <= Now'
    BY <1>3, LaterThan
  <2>2. \A i \in DOMAIN l0' : l0'[i] = NewRow(e, ts) \/ \E j \in DOMAIN l0 : l0'[i] = l0[j]
    BY <1>1, <1>3, WrittenRows
  <2>3. NewRow(e, ts).ts = ts
    BY DEF NewRow
  <2>4. \A i \in DOMAIN l0' : l0'[i].ts \in Int /\ l0'[i].ts <= Now
    BY <1>2, <1>3, <2>2, <2>3
  <2> QED BY <1>1, <2>1, <2>4 DEF NoneAhead
<1>4. ASSUME NEW m \in Message, Live(m) PROVE NoneAhead'
  <2>1. \E e \in EventType, ts \in Int : ts <= Now /\ l0' = Written(l0, e, ts)
    <3>1. <<"live", m>> \in Ids
      BY DEF Ids
    <3>2. Now \in Int /\ Now <= Now
      BY <1>1
    <3>3. CASE LiveReceive(m)
      <4>1. PICK ts \in Sent \cup {Now} : l0' = Written(l0, Inbound(Text(m)), ts)
        BY <3>3 DEF LiveReceive
      <4>2. ts \in Int /\ ts <= Now
        BY <1>1, <4>1, ClockAssumption DEF NoneToCome
      <4>3. Inbound(Text(m)) \in EventType
        BY TextType, EventTypes
      <4> QED BY <4>1, <4>2, <4>3
    <3>4. CASE LiveAnswer(m)
      <4>1. LlmCall(m) \in EventType
        BY EventTypes
      <4> QED BY <3>2, <3>4, <4>1 DEF LiveAnswer, LiveLog
    <3>5. CASE LiveCall(m)
      <4>1. ToolCall(<<"live", m>>) \in EventType
        BY <3>1, EventTypes
      <4> QED BY <3>2, <3>5, <4>1 DEF LiveCall, LiveLog
    <3>6. ASSUME NEW ok \in BOOLEAN, LiveResult(m, ok)
          PROVE  \E e \in EventType, ts \in Int : ts <= Now /\ l0' = Written(l0, e, ts)
      <4>1. ToolResult(<<"live", m>>, ok) \in EventType
        BY <3>1, EventTypes
      <4> QED BY <3>2, <3>6, <4>1 DEF LiveResult, LiveLog
    <3> QED BY <1>4, <3>3, <3>4, <3>5, <3>6 DEF Live
  <2>2. log' = log
    BY <1>4, LiveWrites
  <2> QED BY <1>3, <2>1, <2>2
<1>5. ASSUME UNCHANGED l0,
             log' = log \/ \E e \in EventType, ts \in Int : log' = Written(log, e, ts)
      PROVE  NoneAhead'
  <2>1. Now' \in Nat /\ Now <= Now'
    BY <1>5, LaterThan
  <2> QED BY <1>1, <1>2, <1>5, <2>1 DEF NoneAhead
<1>6. CASE Load \/ UNCHANGED vars
  BY <1>5, <1>6 DEF Load, vars, liveVars, replayVars
<1>7. CASE Take
  <2>1. PICK i \in Upcoming : log' = Written(log, Inbound(Said(trace[i].event.body)), trace[i].ts)
    BY <1>7, TakesUp DEF TakenUp
  <2>2. i \in InboundRows /\ i \in DOMAIN trace
    BY <2>1 DEF Upcoming, After, InboundRows, RowsOf
  <2>3. Inbound(Said(trace[i].event.body)) \in EventType /\ trace[i].ts \in Int
    BY <2>2, TraceRow, EventTypes
  <2>4. UNCHANGED l0
    BY <1>7, TakesUp DEF TakenUp, liveVars
  <2> QED BY <1>5, <2>1, <2>3, <2>4
<1>8. CASE Answer \/ Execute \/ (\E ok \in BOOLEAN : ToolAnswers(ok)) \/ Raise \/ Compare
  BY <1>5, <1>8, ReplayWrites
<1> QED BY <1>4, <1>6, <1>7, <1>8 DEF Next, Replaying

THEOREM PastStampsAreExact ==
  ASSUME NoneToCome
  PROVE  Spec => []RegressionExact
<1>1. Init => NoneAhead
  BY DEF Init, NoneAhead
<1>2. TypeOK /\ NoneAhead /\ [Next]_vars => NoneAhead'
  BY PastStamps
<1> QED BY <1>1, <1>2, TypeCorrect, RegressionsAreExact, PTL DEF Spec
-----------------------------------------------------------------------------
(* The verdict.  What stands at a position of a log, if anything does.     *)
LEMMA EventAt ==
  ASSUME NEW events \in Seq(EventType), NEW i
  PROVE  /\ i \in DOMAIN events => At(events, i) = events[i] /\ At(events, i) \in EventType
         /\ i \notin DOMAIN events => At(events, i) = NoEvent
         /\ At(events, i) # NoEvent <=> i \in DOMAIN events
<1>1. CASE i \in DOMAIN events
  <2>1. At(events, i) = events[i] /\ events[i] \in EventType
    BY <1>1 DEF At
  <2> QED BY <1>1, <2>1, NoEventAssumption
<1>2. CASE i \notin DOMAIN events
  BY <1>2 DEF At
<1> QED BY <1>1, <1>2

(* A regression is a success that stands against a failure: they differ.   *)
SuccessAgainstFailure(b, r) ==
  \E i \in DOMAIN b \cap DOMAIN r :
    /\ b[i].kind = "tool_result" /\ b[i].success
    /\ r[i].kind = "tool_result" /\ ~r[i].success

LEMMA RegressedIff ==
  ASSUME NEW b \in Seq(EventType), NEW r \in Seq(EventType)
  PROVE  Regressed(b, r) <=> SuccessAgainstFailure(b, r)
<1>1. ASSUME NEW i \in Divergences(b, r), NewFailure(At(b, i), At(r, i))
      PROVE  /\ i \in DOMAIN b \cap DOMAIN r
             /\ b[i].kind = "tool_result" /\ b[i].success
             /\ r[i].kind = "tool_result" /\ ~r[i].success
  <2>1. i \in DOMAIN b \cap DOMAIN r
    BY <1>1, EventAt DEF NewFailure, IsKind
  <2> QED BY <1>1, <2>1, EventAt DEF NewFailure, IsKind
<1>2. ASSUME NEW i \in DOMAIN b \cap DOMAIN r,
             b[i].kind = "tool_result", b[i].success,
             r[i].kind = "tool_result", ~r[i].success
      PROVE  i \in Divergences(b, r) /\ NewFailure(At(b, i), At(r, i))
  <2>1. At(b, i) = b[i] /\ At(r, i) = r[i] /\ At(b, i) # NoEvent /\ At(r, i) # NoEvent
    BY <1>2, EventAt
  <2>2. b[i] # r[i]
    BY <1>2
  <2> QED BY <1>2, <2>1, <2>2 DEF Divergences, NewFailure, IsKind
<1> QED BY <1>1, <1>2 DEF Regressed, SuccessAgainstFailure

(* The bad case has changed unless both logs agree on it.                  *)
BothAgreeOn(b, r, n) ==
  \/ n \notin DOMAIN b /\ n \notin DOMAIN r
  \/ n \in DOMAIN b \cap DOMAIN r /\ b[n] = r[n]

LEMMA SameIff ==
  ASSUME NEW b \in Seq(EventType), NEW r \in Seq(EventType), NEW n
  PROVE  n \notin Divergences(b, r) <=> BothAgreeOn(b, r, n)
<1>1. n \in Divergences(b, r) <=>
        n \in DOMAIN b \cup DOMAIN r /\ At(b, n) # At(r, n)
  BY DEF Divergences
<1>2. CASE n \in DOMAIN b /\ n \in DOMAIN r
  BY <1>1, <1>2, EventAt DEF BothAgreeOn
<1>3. CASE n \in DOMAIN b /\ n \notin DOMAIN r
  BY <1>1, <1>3, EventAt DEF BothAgreeOn
<1>4. CASE n \notin DOMAIN b /\ n \in DOMAIN r
  BY <1>1, <1>4, EventAt DEF BothAgreeOn
<1>5. CASE n \notin DOMAIN b /\ n \notin DOMAIN r
  BY <1>1, <1>5 DEF BothAgreeOn
<1> QED BY <1>2, <1>3, <1>4, <1>5

(* The verdict on any two logs, for any bad case.                          *)
LEMMA VerdictOnLogs ==
  ASSUME NEW b \in Seq(EventType), NEW r \in Seq(EventType), NEW n
  PROVE  /\ SuccessAgainstFailure(b, r) => Verdict(b, r, n) = "new_regression"
         /\ ~SuccessAgainstFailure(b, r) /\ n # NoIndex =>
              Verdict(b, r, n) =
                IF BothAgreeOn(b, r, n) THEN "badcase_remains" ELSE "badcase_fixed"
         /\ ~SuccessAgainstFailure(b, r) => Verdict(b, r, NoIndex) = "badcase_fixed"
BY RegressedIff, SameIff DEF Verdict

LEMMA NothingAgainstItself ==
  ASSUME NEW b PROVE ~SuccessAgainstFailure(b, b)
BY DEF SuccessAgainstFailure

(* The logs that are compared are sequences of events.                     *)
LEMMA LogEvents ==
  ASSUME TypeOK
  PROVE  Events(trace) \in Seq(EventType) /\ Events(Listed(log)) \in Seq(EventType)
<1>1. trace \in Seq(Row) /\ Listed(log) \in Seq(Row)
  BY ListedRows DEF TypeOK
<1>2. ASSUME NEW rows \in Seq(Row) PROVE Events(rows) \in Seq(EventType)
  <2>1. Len(rows) \in Nat /\ DOMAIN rows = 1 .. Len(rows)
    OBVIOUS
  <2>2. \A i \in 1 .. Len(rows) : rows[i].event \in EventType
    <3>1. ASSUME NEW i \in 1 .. Len(rows) PROVE rows[i].event \in EventType
      <4>1. rows[i] \in Row
        OBVIOUS
      <4> QED BY <4>1 DEF Row
    <3> QED BY <3>1
  <2>3. [i \in 1 .. Len(rows) |-> rows[i].event] \in Seq(EventType)
    <3> HIDE DEF Row, EventType
    <3> QED BY <2>1, <2>2, IsASeq
  <2> QED BY <2>1, <2>3 DEF Events
<1> QED BY <1>1, <1>2

(* Whatever the two logs, and whichever event had been named as the bad    *)
(* case, the verdict means what VerdictMeans says.                         *)
THEOREM VerdictIsWhatItMeans == Spec => []VerdictMeans
<1>1. TypeOK => VerdictMeans
  <2> SUFFICES ASSUME TypeOK PROVE VerdictMeans
    OBVIOUS
  <2> DEFINE b == Events(trace)
             r == Events(Listed(log))
             failed == SuccessAgainstFailure(b, r)
             same(n) == BothAgreeOn(b, r, n)
  <2>1. b \in Seq(EventType) /\ r \in Seq(EventType)
    BY LogEvents
  <2>2. \A n \in Nat : n # NoIndex
    BY NoIndexAssumption
  <2> HIDE DEF b, r
  <2>3. ASSUME NEW n \in 1 .. Limit + 1
        PROVE  /\ failed             => Verdict(b, r, n) = "new_regression"
               /\ ~failed /\ same(n)  => Verdict(b, r, n) = "badcase_remains"
               /\ ~failed /\ ~same(n) => Verdict(b, r, n) = "badcase_fixed"
    <3>1. n # NoIndex
      BY <2>2, ClockAssumption
    <3> QED BY <2>1, <3>1, VerdictOnLogs
  <2>4. /\ failed => Verdict(b, r, NoIndex) = "new_regression"
        /\ b = r  => Verdict(b, r, NoIndex) = "badcase_fixed"
    BY <2>1, VerdictOnLogs, NothingAgainstItself
  <2> QED BY <2>3, <2>4 DEF VerdictMeans, SuccessAgainstFailure, BothAgreeOn, b, r
<1> QED BY <1>1, TypeCorrect, PTL
-----------------------------------------------------------------------------
(* No message of a snapshot is ever refused by the replay, with or without *)
(* text: ReplayEngine says "." in place of none.                           *)
NeverRefused == pc # "refused"

THEOREM NoMessageIsRefused == Spec => []NeverRefused
<1>1. Init => NeverRefused
  BY DEF Init, NeverRefused
<1>2. NeverRefused /\ [Next]_vars => NeverRefused'
  <2> SUFFICES ASSUME NeverRefused, [Next]_vars PROVE NeverRefused'
    OBVIOUS
  <2>1. CASE Take
    BY <2>1, TakesUp DEF TakenUp, NeverRefused
  <2>2. CASE ~Take
    BY <2>2 DEF NeverRefused, Next, Live, LiveReceive, LiveAnswer, LiveCall, LiveResult,
       Replaying, Load, Answer, Execute, ToolAnswers, Raise, Compare, vars, replayVars
  <2> QED BY <2>1, <2>2
<1> QED BY <1>1, <1>2, PTL DEF Spec
=============================================================================
