------------------------- MODULE WecomInboundProofs -------------------------
(***************************************************************************)
(* For every number of messages, attempts and restarts: the webhook answers *)
(* "success" only for a handled message, and the handler starts at most    *)
(* once in an attempt.                                                     *)
(***************************************************************************)
EXTENDS WecomInbound, FiniteSetTheorems, TLAPS

(* The platform waits only for an attempt it has made.                     *)
Waiting == \A c \in Callback : platform[c] = "waiting" => attempt[c] >= 1

(* The first message behind a callback names it, and only requests of a    *)
(* callback that was made, and of attempts that were made, are anywhere.   *)
Shape ==
  /\ \A c \in Callback : c > notified => attempt[c] = 0
  /\ \A c \in Callback : attempt[c] > 0 =>
       c \in behind[c] /\ \A m \in behind[c] : c <= m
  /\ \A r \in Request : pc[r] # "none" => r[2] <= attempt[r[1]]
  /\ \A c \in Callback : platform[c] = "retry" => attempt[c] \in 1 .. MaxAttempts - 1
  /\ Waiting

(* The attempts of a callback that are past the fetch.                     *)
Past(c) == {n \in 1 .. MaxAttempts :
              pc[<<c, n>>] \in {"handle", "answered", "failed", "lost"}}

RunsPast == \A c \in Callback : runs[c] <= Cardinality(Past(c))

IInv == TypeOK /\ Shape /\ AnsweredIsHandled /\ RunsPast
-----------------------------------------------------------------------------
(* The head of what a tried callback fetches is its own message.           *)
LEMMA HeadNames ==
  ASSUME TypeOK, Shape, NEW c \in Callback, attempt[c] > 0
  PROVE  KfHead(behind[c]) = c
<1>1. c \in behind[c] /\ behind[c] \subseteq Nat /\ \A m \in behind[c] : c <= m
  BY DEF TypeOK, Shape, Message, Callback
<1>2. \A m \in behind[c] : (\A n \in behind[c] : m <= n) => m = c
  BY <1>1 DEF Callback, Message
<1> QED BY <1>1, <1>2 DEF KfHead

(* The attempts of a callback are a finite set, no larger than its number. *)
LEMMA PastFinite ==
  ASSUME BoundsAssumption, TypeOK, Shape, NEW c \in Callback
  PROVE  /\ IsFiniteSet(Past(c))
         /\ Cardinality(Past(c)) \in Nat
         /\ Cardinality(Past(c)) <= attempt[c]
<1>1. attempt[c] \in Nat
  BY BoundsAssumption DEF TypeOK
<1>2. IsFiniteSet(1 .. attempt[c]) /\ Cardinality(1 .. attempt[c]) = attempt[c]
  BY <1>1, FS_Interval
<1>3. ASSUME NEW n \in Past(c)
      PROVE  n \in 1 .. attempt[c]
  <2>1. <<c, n>> \in Request /\ pc[<<c, n>>] # "none" /\ n \in 1 .. MaxAttempts
    BY <1>3 DEF Past, Request
  <2>2. n <= attempt[c]
    BY <2>1 DEF Shape
  <2> QED BY <1>1, <2>1, <2>2, BoundsAssumption
<1>4. Past(c) \subseteq 1 .. attempt[c]
  BY <1>3
<1> QED BY <1>2, <1>4, FS_Subset, FS_CardinalityType

LEMMA InitIInv == BoundsAssumption /\ Init => IInv
<1> SUFFICES ASSUME BoundsAssumption, Init PROVE IInv
  OBVIOUS
<1>1. TypeOK
  BY BoundsAssumption DEF Init, TypeOK, Callback, Message, Request
<1>2. Shape /\ AnsweredIsHandled
  BY DEF Init, Shape, Waiting, AnsweredIsHandled, Callback, Request
<1>3. RunsPast
  <2> SUFFICES ASSUME NEW c \in Callback PROVE runs[c] <= Cardinality(Past(c))
    BY DEF RunsPast
  <2>1. Cardinality(Past(c)) \in Nat
    BY <1>1, <1>2, PastFinite
  <2> QED BY <2>1 DEF Init, Callback
<1> QED BY <1>1, <1>2, <1>3 DEF IInv

(* A request in progress belongs to an attempt that was made.              *)
LEMMA InProgressTried ==
  ASSUME BoundsAssumption, TypeOK, Shape, NEW r \in Request, pc[r] # "none"
  PROVE  r[1] \in Callback /\ r[2] \in 1 .. MaxAttempts /\ r = <<r[1], r[2]>>
         /\ attempt[r[1]] > 0 /\ KfHead(behind[r[1]]) = r[1]
<1>1. r[1] \in Callback /\ r[2] \in 1 .. MaxAttempts /\ r = <<r[1], r[2]>>
  BY DEF Request
<1>2. attempt[r[1]] > 0
  BY <1>1, BoundsAssumption DEF Shape, TypeOK
<1> QED BY <1>1, <1>2, HeadNames

(* Nothing but a new attempt leaves the attempts past the fetch, and the   *)
(* count of runs holds as long as no handler is started.                   *)
LEMMA RunsKept ==
  ASSUME BoundsAssumption, IInv, runs' = runs,
         \A c \in Callback : Past(c) \subseteq Past(c)'
  PROVE  RunsPast'
<1> SUFFICES ASSUME NEW c \in Callback PROVE runs[c] <= Cardinality(Past(c)')
  BY DEF RunsPast
<1>1. IsFiniteSet(Past(c)') /\ Cardinality(Past(c)') \in Nat
  <2>1. Past(c)' \subseteq 1 .. MaxAttempts
    BY DEF Past
  <2>2. IsFiniteSet(1 .. MaxAttempts)
    BY BoundsAssumption, FS_Interval
  <2> QED BY <2>1, <2>2, FS_Subset, FS_CardinalityType
<1>2. Cardinality(Past(c)) <= Cardinality(Past(c)') /\ Cardinality(Past(c)) \in Nat
  BY <1>1, FS_Subset, FS_CardinalityType
<1>3. runs[c] <= Cardinality(Past(c)) /\ runs[c] \in Nat
  BY DEF IInv, RunsPast, TypeOK, Callback
<1> QED BY <1>1, <1>2, <1>3
-----------------------------------------------------------------------------
(* What the platform may do.                                               *)
LEMMA PlatformKeeps ==
  ASSUME BoundsAssumption, IInv,
         \/ CustomerSends
         \/ \E last \in Message : Notify(last)
         \/ \E c \in Callback : TimesOut(c) \/ Retry(c)
         \/ Restart
  PROVE  IInv'
<1> USE BoundsAssumption DEF IInv
<1>1. CASE CustomerSends
  <2>1. TypeOK'
    BY <1>1 DEF CustomerSends, TypeOK
  <2>2. Shape' /\ AnsweredIsHandled'
    BY <1>1 DEF CustomerSends, Shape, Waiting, AnsweredIsHandled
  <2>3. RunsPast'
    BY <1>1, RunsKept DEF CustomerSends, Past
  <2> QED BY <2>1, <2>2, <2>3
<1>2. ASSUME NEW last \in Message, Notify(last)
      PROVE  IInv'
  <2> DEFINE c == notified + 1
  <2>1. c \in Callback /\ last \in Nat /\ last >= c /\ last <= sent
    BY <1>2 DEF Notify, TypeOK, Callback, Message
  <2>2. /\ notified' = last /\ behind' = [behind EXCEPT ![c] = c .. last]
        /\ attempt' = [attempt EXCEPT ![c] = 1]
        /\ platform' = [platform EXCEPT ![c] = "waiting"]
        /\ pc' = [pc EXCEPT ![<<c, 1>>] = "decrypt"]
        /\ sent' = sent /\ runs' = runs /\ handled' = handled
        /\ restarts' = restarts
    BY <1>2 DEF Notify, Try, Goto
  <2>3. attempt[c] = 0
    BY <2>1 DEF Shape, TypeOK
  <2>c. c > notified /\ notified \in Nat
    BY DEF TypeOK
  <2> HIDE DEF c
  <2>4. TypeOK'
    <3>1. c .. last \subseteq Message
      BY <2>1 DEF Callback, Message, TypeOK
    <3>2. 1 \in 0 .. MaxAttempts /\ last \in 0 .. sent
      BY <2>1 DEF TypeOK
    <3> QED BY <2>1, <2>2, <3>1, <3>2 DEF TypeOK, InProgress
  <2>5. Shape'
    <3>1. \A d \in Callback : d > notified' => attempt'[d] = 0
      BY <2>1, <2>2, <2>c DEF Shape, TypeOK, Callback, Message
    <3>2. \A d \in Callback : attempt'[d] > 0 =>
            d \in behind'[d] /\ \A m \in behind'[d] : d <= m
      BY <2>1, <2>2 DEF Shape, TypeOK, Callback, Message
    <3>3. \A r \in Request : pc'[r] # "none" => r[2] <= attempt'[r[1]]
      BY <2>1, <2>2, <2>3 DEF Shape, TypeOK, Request
    <3>4. \A d \in Callback : platform'[d] = "retry" => attempt'[d] \in 1 .. MaxAttempts - 1
      BY <2>1, <2>2 DEF Shape, TypeOK
    <3>w. Waiting'
      BY <2>1, <2>2 DEF Shape, Waiting, TypeOK
    <3> QED BY <3>1, <3>2, <3>3, <3>4, <3>w DEF Shape
  <2>6. AnsweredIsHandled'
    BY <2>2 DEF AnsweredIsHandled, TypeOK
  <2>7. RunsPast'
    <3>1. pc[<<c, 1>>] = "none"
      BY <2>1, <2>3 DEF Shape, Request, TypeOK
    <3>2. \A d \in Callback : Past(d) \subseteq Past(d)'
      BY <2>2, <3>1 DEF Past, TypeOK, Request
    <3> QED BY <2>2, <3>2, RunsKept
  <2> QED BY <2>4, <2>5, <2>6, <2>7
<1>3. ASSUME NEW c \in Callback, TimesOut(c)
      PROVE  IInv'
  <2>1. Unheard(c) \in {"retry", "dropped"} /\ (Unheard(c) = "retry" => attempt[c] < MaxAttempts)
    BY DEF Unheard
  <2>2. TypeOK'
    BY <1>3, <2>1 DEF TimesOut, TypeOK, external
  <2>3. attempt[c] >= 1
    BY <1>3 DEF TimesOut, Shape, Waiting
  <2>4. Shape'
    BY <1>3, <2>1, <2>3 DEF TimesOut, Shape, Waiting, TypeOK, external
  <2>5. AnsweredIsHandled'
    BY <1>3, <2>1 DEF TimesOut, AnsweredIsHandled, TypeOK, external
  <2>6. RunsPast'
    BY <1>3, RunsKept DEF TimesOut, Past
  <2> QED BY <2>2, <2>4, <2>5, <2>6
<1>4. ASSUME NEW c \in Callback, Retry(c)
      PROVE  IInv'
  <2> DEFINE n == attempt[c] + 1
  <2>1. n \in 1 .. MaxAttempts /\ n > attempt[c] /\ attempt[c] \in Nat /\ attempt[c] > 0
    BY <1>4 DEF Retry, Shape, TypeOK
  <2>2. /\ attempt' = [attempt EXCEPT ![c] = n]
        /\ platform' = [platform EXCEPT ![c] = "waiting"]
        /\ pc' = [pc EXCEPT ![<<c, n>>] = "decrypt"]
        /\ sent' = sent /\ notified' = notified /\ behind' = behind
        /\ runs' = runs /\ handled' = handled /\ restarts' = restarts
    BY <1>4 DEF Retry, Try, Goto, external
  <2> HIDE DEF n
  <2>4. TypeOK'
    <3>1. n \in 0 .. MaxAttempts
      BY <2>1
    <3>2. attempt' \in [Callback -> 0 .. MaxAttempts]
      BY <2>2, <3>1 DEF TypeOK
    <3>3. pc' \in [Request -> {"none"} \cup InProgress \cup Ended]
      BY <2>2 DEF TypeOK, InProgress
    <3> QED BY <2>2, <3>2, <3>3 DEF TypeOK
  <2>5. Shape'
    <3>1. \A d \in Callback : d > notified' => attempt'[d] = 0
      BY <2>1, <2>2 DEF Shape, TypeOK
    <3>2. \A d \in Callback : attempt'[d] > 0 =>
            d \in behind'[d] /\ \A m \in behind'[d] : d <= m
      BY <2>1, <2>2 DEF Shape, TypeOK
    <3>3. ASSUME NEW r \in Request, pc'[r] # "none"
          PROVE  r[2] <= attempt'[r[1]]
      <4>1. CASE r = <<c, n>>
        BY <2>1, <2>2, <4>1 DEF TypeOK
      <4>2. CASE r # <<c, n>>
        <5>1. pc'[r] = pc[r]
          BY <2>2, <4>2 DEF TypeOK
        <5>2. r[2] <= attempt[r[1]] /\ r[1] \in Callback /\ r[2] \in Nat
          BY <5>1, <3>3 DEF Shape, Request
        <5> QED BY <2>1, <2>2, <5>2 DEF TypeOK
      <4> QED BY <4>1, <4>2
    <3>4. \A d \in Callback : platform'[d] = "retry" => attempt'[d] \in 1 .. MaxAttempts - 1
      BY <2>1, <2>2 DEF Shape, TypeOK
    <3>w. Waiting'
      BY <2>1, <2>2 DEF Shape, Waiting, TypeOK
    <3> QED BY <3>1, <3>2, <3>3, <3>4, <3>w DEF Shape
  <2>6. AnsweredIsHandled'
    BY <2>2 DEF AnsweredIsHandled, TypeOK
  <2>7. RunsPast'
    <3>1. pc[<<c, n>>] = "none"
      BY <2>1 DEF Shape, Request, TypeOK
    <3>2. \A d \in Callback : Past(d) \subseteq Past(d)'
      BY <2>2, <3>1 DEF Past, TypeOK, Request
    <3> QED BY <2>2, <3>2, RunsKept
  <2> QED BY <2>4, <2>5, <2>6, <2>7
<1>5. CASE Restart
  <2>0. \A c \in Callback :
          /\ Unheard(c) \in {"retry", "dropped"}
          /\ Unheard(c) = "retry" => attempt[c] < MaxAttempts
    BY DEF Unheard
  <2>1. TypeOK'
    BY <1>5, <2>0 DEF Restart, TypeOK, external, Ended
  <2>2. Shape'
    <3>1. \A c \in Callback : platform'[c] = "retry" => attempt'[c] \in 1 .. MaxAttempts - 1
      BY <1>5, <2>0 DEF Restart, Shape, Waiting, TypeOK
    <3>2. Waiting'
      BY <1>5, <2>0 DEF Restart, Shape, Waiting, external, TypeOK
    <3> QED BY <1>5, <3>1, <3>2 DEF Restart, Shape, external, InProgress
  <2>3. AnsweredIsHandled'
    BY <1>5, <2>0 DEF Restart, AnsweredIsHandled, external
  <2>4. RunsPast'
    BY <1>5, RunsKept DEF Restart, Past, InProgress, Request
  <2> QED BY <2>1, <2>2, <2>3, <2>4
<1> QED BY <1>1, <1>2, <1>3, <1>4, <1>5
-----------------------------------------------------------------------------
(* What the webhook does.                                                  *)

(* What the platform may believe when the handler has finished done.       *)
Legal(belief, done) ==
  /\ belief \in [Callback -> {"none", "waiting", "retry", "acked", "dropped"}]
  /\ \A c \in Callback :
       /\ belief[c] = "waiting" => attempt[c] >= 1
       /\ belief[c] = "retry"   => attempt[c] \in 1 .. MaxAttempts - 1
       /\ belief[c] = "acked"   => c \in done

(* The attempt of a request that ends is answered, or tried again, or given *)
(* up; an answer to an earlier attempt is not heard.                       *)
LEMMA AnswerKeeps ==
  ASSUME BoundsAssumption, IInv, NEW r \in Request, pc[r] # "none",
         NEW outcome \in {"acked", Unheard(r[1])}, Answer(r, outcome),
         NEW done, handled \subseteq done, outcome = "acked" => r[1] \in done
  PROVE  Legal(platform', done)
<1> USE DEF IInv
<1>1. r[1] \in Callback /\ attempt[r[1]] \in Nat
      /\ attempt[r[1]] >= 1 /\ attempt[r[1]] <= MaxAttempts
  BY InProgressTried, BoundsAssumption DEF TypeOK
<1>2. outcome \in {"acked", "retry", "dropped"}
      /\ (outcome = "retry" => attempt[r[1]] < MaxAttempts)
  BY DEF Unheard
<1>3. platform' = platform \/ platform' = [platform EXCEPT ![r[1]] = outcome]
  BY DEF Answer
<1>4. Legal(platform, done)
  BY DEF Legal, TypeOK, Shape, Waiting, AnsweredIsHandled
<1>5. CASE platform' = [platform EXCEPT ![r[1]] = outcome]
  <2>1. platform' \in [Callback -> {"none", "waiting", "retry", "acked", "dropped"}]
    BY <1>1, <1>2, <1>5 DEF TypeOK
  <2>2. \A c \in Callback : c # r[1] => platform'[c] = platform[c]
    BY <1>5 DEF TypeOK
  <2>3. platform'[r[1]] = outcome
    BY <1>1, <1>5 DEF TypeOK
  <2> QED BY <1>1, <1>2, <1>4, <2>1, <2>2, <2>3, BoundsAssumption DEF Legal
<1> QED BY <1>3, <1>4, <1>5

(* A request moves on: all that a step may disturb, apart from the runs.   *)
LEMMA GotoKeeps ==
  ASSUME BoundsAssumption, IInv, NEW r \in Request, pc[r] # "none",
         NEW label \in InProgress \cup Ended, Goto(r, label),
         Legal(platform', handled'),
         UNCHANGED <<external, attempt, restarts>>,
         runs' \in [Message -> Nat], handled' \subseteq Message
  PROVE  TypeOK' /\ Shape' /\ AnsweredIsHandled'
<1> USE DEF IInv
<1>1. pc' = [pc EXCEPT ![r] = label]
  BY DEF Goto
<1>2. TypeOK'
  BY <1>1 DEF TypeOK, Legal, external
<1>3. \A q \in Request : pc'[q] # "none" => q[2] <= attempt'[q[1]]
  BY <1>1 DEF TypeOK, Shape
<1>4. Shape'
  BY <1>3 DEF Shape, Waiting, Legal, external
<1>5. AnsweredIsHandled'
  BY DEF AnsweredIsHandled, Legal
<1> QED BY <1>2, <1>4, <1>5

(* The request past the fetch stays there.                                 *)
LEMMA PastGrows ==
  ASSUME TypeOK, NEW r \in Request, NEW label, Goto(r, label),
         label \in {"handle"} \cup Ended
            \/ pc[r] \notin {"handle", "answered", "failed", "lost"}
  PROVE  \A c \in Callback : Past(c) \subseteq Past(c)'
<1>1. pc' = [pc EXCEPT ![r] = label]
  BY DEF Goto
<1> QED BY <1>1 DEF Past, TypeOK, Request, Ended

LEMMA FailsKeeps ==
  ASSUME BoundsAssumption, IInv, NEW r \in Request, pc[r] # "none", Fails(r)
  PROVE  IInv'
<1>1. Legal(platform', handled')
  BY AnswerKeeps DEF Fails, Unheard
<1>2. TypeOK' /\ Shape' /\ AnsweredIsHandled'
  BY <1>1, GotoKeeps DEF Fails, Ended, IInv, TypeOK
<1>3. RunsPast'
  BY PastGrows, RunsKept DEF Fails, Ended, IInv
<1> QED BY <1>2, <1>3 DEF IInv

LEMMA StepKeeps ==
  ASSUME BoundsAssumption, IInv, NEW r \in Request, Step(r)
  PROVE  IInv'
<1>0. Legal(platform, handled)
  BY DEF Legal, IInv, TypeOK, Shape, Waiting, AnsweredIsHandled
<1>1. CASE Decrypt(r)
  <2>1. TypeOK' /\ Shape' /\ AnsweredIsHandled'
    BY <1>0, <1>1, GotoKeeps DEF Decrypt, InProgress, IInv, TypeOK, Legal
  <2>2. RunsPast'
    BY <1>1, PastGrows, RunsKept DEF Decrypt, IInv
  <2> QED BY <2>1, <2>2 DEF IInv
<1>2. CASE DecryptRaises(r) \/ FetchRaises(r) \/ HandlerRaises(r)
  BY <1>2, FailsKeeps DEF DecryptRaises, FetchRaises, HandlerRaises
<1>3. CASE Fetched(r)
  <2>1. /\ r[1] \in Callback /\ r[2] \in 1 .. MaxAttempts /\ r = <<r[1], r[2]>>
        /\ KfHead(behind[r[1]]) = r[1]
    BY <1>3, InProgressTried DEF Fetched, IInv
  <2>2. runs' = [runs EXCEPT ![r[1]] = @ + 1]
    BY <1>3, <2>1 DEF Fetched
  <2>3. runs' \in [Message -> Nat]
    BY <2>1, <2>2 DEF IInv, TypeOK, Callback
  <2>4. TypeOK' /\ Shape' /\ AnsweredIsHandled'
    BY <1>0, <1>3, <2>3, GotoKeeps DEF Fetched, InProgress, IInv, TypeOK, Legal
  <2>5. \A c \in Callback : Past(c) \subseteq Past(c)'
    BY <1>3, PastGrows DEF Fetched, IInv
  <2>6. ASSUME NEW c \in Callback
        PROVE  runs'[c] <= Cardinality(Past(c)')
    <3>1. /\ IsFiniteSet(Past(c)') /\ Cardinality(Past(c)') \in Nat
          /\ IsFiniteSet(Past(c)) /\ Cardinality(Past(c)) \in Nat
      <4>1. Past(c)' \subseteq 1 .. MaxAttempts /\ Past(c) \subseteq 1 .. MaxAttempts
        BY DEF Past
      <4>2. IsFiniteSet(1 .. MaxAttempts)
        BY BoundsAssumption, FS_Interval
      <4> QED BY <4>1, <4>2, FS_Subset, FS_CardinalityType
    <3>2. runs[c] <= Cardinality(Past(c)) /\ runs[c] \in Nat
      BY DEF IInv, RunsPast, TypeOK, Callback
    <3>3. CASE c # r[1]
      <4>1. runs'[c] = runs[c]
        BY <2>2, <3>3 DEF IInv, TypeOK
      <4>2. Cardinality(Past(c)) <= Cardinality(Past(c)')
        BY <2>5, <3>1, FS_Subset
      <4> QED BY <3>1, <3>2, <4>1, <4>2
    <3>4. CASE c = r[1]
      <4>1. runs'[c] = runs[c] + 1
        BY <2>1, <2>2, <3>4 DEF IInv, TypeOK, Callback
      <4>2. r[2] \notin Past(c) /\ r[2] \in Past(c)'
        BY <1>3, <2>1, <3>4 DEF Fetched, Goto, Past, IInv, TypeOK
      <4>3. Cardinality(Past(c) \cup {r[2]}) = Cardinality(Past(c)) + 1
        BY <3>1, <4>2, FS_AddElement
      <4>4. Cardinality(Past(c) \cup {r[2]}) <= Cardinality(Past(c)')
        BY <2>5, <3>1, <4>2, FS_Subset
      <4> QED BY <3>1, <3>2, <4>1, <4>3, <4>4
    <3> QED BY <3>3, <3>4
  <2>7. RunsPast'
    BY <2>6 DEF RunsPast
  <2> QED BY <2>4, <2>7 DEF IInv
<1>4. CASE Handled(r)
  <2>1. r[1] \in Callback /\ KfHead(behind[r[1]]) = r[1]
    BY <1>4, InProgressTried DEF Handled, IInv
  <2>2. handled' = handled \cup {r[1]}
    BY <1>4, <2>1 DEF Handled
  <2>3. Legal(platform', handled')
    BY <1>4, <2>2, AnswerKeeps DEF Handled
  <2>4. TypeOK' /\ Shape' /\ AnsweredIsHandled'
    BY <1>4, <2>1, <2>2, <2>3, GotoKeeps DEF Handled, Ended, IInv, TypeOK, Callback
  <2>5. RunsPast'
    BY <1>4, PastGrows, RunsKept DEF Handled, Ended, IInv
  <2> QED BY <2>4, <2>5 DEF IInv
<1> QED BY <1>1, <1>2, <1>3, <1>4 DEF Step
-----------------------------------------------------------------------------
(* The inductive invariant holds in every state.                           *)
THEOREM Invariance == Spec => []IInv
<1>1. Init => IInv
  BY BoundsAssumption, InitIInv
<1>2. IInv /\ [Next]_vars => IInv'
  <2> SUFFICES ASSUME IInv, [Next]_vars PROVE IInv'
    OBVIOUS
  <2>1. CASE Next
    BY <2>1, BoundsAssumption, PlatformKeeps, StepKeeps DEF Next
  <2>2. CASE UNCHANGED vars
    BY <2>2 DEF vars, external, IInv, TypeOK, Shape, Waiting, AnsweredIsHandled,
                RunsPast, Past
  <2> QED BY <2>1, <2>2
<1> QED BY <1>1, <1>2, PTL DEF Spec

(* Every variable of the webhook has its type in every state.              *)
THEOREM TypeCorrect == Spec => []TypeOK
BY Invariance, PTL DEF IInv

(* "success" is only ever said of a callback whose message was handled.    *)
THEOREM AnsweredHandled == Spec => []AnsweredIsHandled
BY Invariance, PTL DEF IInv

(* The handler starts on a message at most once in an attempt, whatever    *)
(* attempts overlap and wherever they were cut off.                        *)
THEOREM RunsBounded == Spec => []RunsAreAttempts
<1>1. IInv => RunsAreAttempts
  <2> SUFFICES ASSUME IInv, NEW c \in Message PROVE runs[c] <= attempt[c]
    BY DEF RunsAreAttempts
  <2>1. Cardinality(Past(c)) \in Nat /\ Cardinality(Past(c)) <= attempt[c]
    BY BoundsAssumption, PastFinite DEF IInv, Callback
  <2>2. runs[c] <= Cardinality(Past(c)) /\ runs[c] \in Nat /\ attempt[c] \in Nat
    BY BoundsAssumption DEF IInv, RunsPast, TypeOK, Callback
  <2> QED BY <2>1, <2>2
<1> QED BY <1>1, Invariance, PTL
=============================================================================
