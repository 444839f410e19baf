---------------------------- MODULE WecomInbound ----------------------------
(***************************************************************************)
(* Messages that reach OpenCS over the WeCom webhook.                      *)
(*                                                                         *)
(* The platform is external: it notifies the gateway by a callback that    *)
(* carries no message, only a token, and several messages may stand behind *)
(* one callback.  The gateway decrypts the callback, asks the platform for *)
(* the messages (await), runs the wired handler on the first one (await)   *)
(* and only then answers "success".  A callback that is answered by an     *)
(* error, by nothing because the process died, or too late is repeated.    *)
(*                                                                         *)
(* Messages are numbered in the order the customers send them; a callback  *)
(* is named by the first message behind it, a request by its callback and  *)
(* the number of the attempt.  Nothing of this is stored by the gateway.   *)
(***************************************************************************)
EXTENDS Naturals, FiniteSets

CONSTANTS
  MaxMessages,  \* bound on the messages customers send
  MaxAttempts,  \* how often the platform tries a callback
  MaxRestarts   \* bound on the restarts of the gateway

ASSUME BoundsAssumption ==
  /\ MaxMessages \in Nat /\ MaxAttempts \in Nat \ {0} /\ MaxRestarts \in Nat

VARIABLES
  sent,      \* how many messages customers have sent
  notified,  \* how many of them stand behind some callback
  behind,    \* the messages behind each callback
  attempt,   \* the number of the latest attempt of each callback
  platform,  \* what the platform knows of that attempt
  pc,        \* where each request stands in the gateway
  runs,      \* how often the handler was started on each message
  handled,   \* the messages the handler returned from
  restarts   \* how often the gateway was restarted

external == <<sent, notified, behind>>
vars == <<external, attempt, platform, pc, runs, handled, restarts>>

Message  == 1 .. MaxMessages
Callback == Message
Request  == Callback \X (1 .. MaxAttempts)

InProgress == {"decrypt", "fetch", "handle"}
Ended      == {"answered", "failed", "lost"}
-----------------------------------------------------------------------------
(* Mutation: the message after the last one of the list.                   *)
KfHeadPastTheList(messages) == 1 + Cardinality(messages)

(* parse_inbound keeps kf_msgs[0], whatever else sync_msg returned.        *)
KfHead(messages) == CHOOSE m \in messages : \A n \in messages : m <= n

Goto(r, label) == pc' = [pc EXCEPT ![r] = label]

(* The platform counts an attempt as failed, and tries again or gives up.  *)
Unheard(c) == IF attempt[c] < MaxAttempts THEN "retry" ELSE "dropped"

(* An answer counts only for the attempt the platform still waits for.     *)
Awaited(r) == platform[r[1]] = "waiting" /\ attempt[r[1]] = r[2]
Answer(r, outcome) ==
  platform' = IF Awaited(r) THEN [platform EXCEPT ![r[1]] = outcome] ELSE platform

Init ==
  /\ sent = 0 /\ notified = 0
  /\ behind   = [c \in Callback |-> {}]
  /\ attempt  = [c \in Callback |-> 0]
  /\ platform = [c \in Callback |-> "none"]
  /\ pc       = [r \in Request |-> "none"]
  /\ runs     = [m \in Message |-> 0]
  /\ handled  = {}
  /\ restarts = 0
-----------------------------------------------------------------------------
(* The customers and the platform.                                         *)

CustomerSends ==
  /\ sent < MaxMessages
  /\ sent' = sent + 1
  /\ UNCHANGED <<notified, behind, attempt, platform, pc, runs, handled, restarts>>

Try(c, n) ==
  /\ attempt'  = [attempt EXCEPT ![c] = n]
  /\ platform' = [platform EXCEPT ![c] = "waiting"]
  /\ Goto(<<c, n>>, "decrypt")

Notify(last) ==
  LET c == notified + 1 IN
    /\ last \in c .. sent
    /\ notified' = last
    /\ behind' = [behind EXCEPT ![c] = c .. last]
    /\ Try(c, 1)
    /\ UNCHANGED <<sent, runs, handled, restarts>>

TimesOut(c) ==
  /\ platform[c] = "waiting"
  /\ platform' = [platform EXCEPT ![c] = Unheard(c)]
  /\ UNCHANGED <<external, attempt, pc, runs, handled, restarts>>

Retry(c) ==
  /\ platform[c] = "retry"
  /\ Try(c, attempt[c] + 1)
  /\ UNCHANGED <<external, runs, handled, restarts>>
-----------------------------------------------------------------------------
(* The webhook.                                                            *)

(* Mutation: the exception is swallowed, and the route answers "success".  *)
FailsQuietly(r) ==
  /\ Goto(r, "failed")
  /\ Answer(r, "acked")
  /\ UNCHANGED <<external, attempt, runs, handled, restarts>>

(* An exception leaves the callback route: 400 or 500.                     *)
Fails(r) ==
  /\ Goto(r, "failed")
  /\ Answer(r, Unheard(r[1]))
  /\ UNCHANGED <<external, attempt, runs, handled, restarts>>

(* Mutation: the callback is answered before its message is looked at.     *)
DecryptAndAnswer(r) ==
  /\ pc[r] = "decrypt"
  /\ Goto(r, "fetch") /\ Answer(r, "acked")
  /\ UNCHANGED <<external, attempt, runs, handled, restarts>>

Decrypt(r) ==
  /\ pc[r] = "decrypt"
  /\ Goto(r, "fetch")
  /\ UNCHANGED <<external, attempt, platform, runs, handled, restarts>>

(* Adapter not installed, bad signature, body that is not the expected XML. *)
DecryptRaises(r) == pc[r] = "decrypt" /\ Fails(r)

(* The platform returns the messages, and the handler starts on the first. *)
Fetched(r) ==
  /\ pc[r] = "fetch"
  /\ Goto(r, "handle")
  /\ runs' = [runs EXCEPT ![KfHead(behind[r[1]])] = @ + 1]
  /\ UNCHANGED <<external, attempt, platform, handled, restarts>>

(* The fetch fails, or returns an empty list.                              *)
FetchRaises(r) == pc[r] = "fetch" /\ Fails(r)

Handled(r) ==
  /\ pc[r] = "handle"
  /\ Goto(r, "answered")
  /\ handled' = handled \cup {KfHead(behind[r[1]])}
  /\ Answer(r, "acked")
  /\ UNCHANGED <<external, attempt, runs, restarts>>

(* Mutation: a handler that raises is run again on the spot.               *)
HandlerRunsAgain(r) ==
  /\ pc[r] = "handle" /\ runs[KfHead(behind[r[1]])] < MaxAttempts + 2
  /\ runs' = [runs EXCEPT ![KfHead(behind[r[1]])] = @ + 1]
  /\ UNCHANGED <<external, attempt, platform, pc, handled, restarts>>

HandlerRaises(r) == pc[r] = "handle" /\ Fails(r)

(* Requests in progress end with the process; their connections break.     *)
Restart ==
  /\ restarts < MaxRestarts
  /\ restarts' = restarts + 1
  /\ pc' = [r \in Request |-> IF pc[r] \in InProgress THEN "lost" ELSE pc[r]]
  /\ platform' = [c \in Callback |->
       IF platform[c] = "waiting" THEN Unheard(c) ELSE platform[c]]
  /\ UNCHANGED <<external, attempt, runs, handled>>
-----------------------------------------------------------------------------
Step(r) ==
  \/ Decrypt(r) \/ DecryptRaises(r) \/ Fetched(r) \/ FetchRaises(r)
  \/ Handled(r) \/ HandlerRaises(r)

Next ==
  \/ CustomerSends
  \/ \E last \in Message : Notify(last)
  \/ \E c \in Callback : TimesOut(c) \/ Retry(c)
  \/ \E r \in Request : Step(r)
  \/ Restart

(* A request is run to its end: the fetch and the handler end by a result  *)
(* or by an exception.  The platform notifies and retries, but may be slow *)
(* or impatient: nothing is said of TimesOut.                              *)
Fairness ==
  /\ \A r \in Request : WF_vars(Step(r))
  /\ WF_vars(\E last \in Message : Notify(last))
  /\ \A c \in Callback : WF_vars(Retry(c))

Spec     == Init /\ [][Next]_vars
FairSpec == Spec /\ Fairness
-----------------------------------------------------------------------------
(* Every variable has its type.                                            *)
TypeOK ==
  /\ sent \in 0 .. MaxMessages /\ notified \in 0 .. sent
  /\ behind   \in [Callback -> SUBSET Message]
  /\ attempt  \in [Callback -> 0 .. MaxAttempts]
  /\ platform \in [Callback -> {"none", "waiting", "retry", "acked", "dropped"}]
  /\ pc       \in [Request -> {"none"} \cup InProgress \cup Ended]
  /\ runs     \in [Message -> Nat]
  /\ handled  \subseteq Message
  /\ restarts \in 0 .. MaxRestarts

(* The webhook says "success" only for a callback whose message the        *)
(* handler has finished, in whichever attempt, so that a crash or an       *)
(* exception before that always leaves the platform something to repeat.   *)
AnsweredIsHandled == \A c \in Callback : platform[c] = "acked" => c \in handled

(* Nothing in the gateway recognises a message it has seen, so the handler *)
(* starts anew in every attempt, also beside an earlier one that is still  *)
(* running; but it never starts more often than that, and on messages that *)
(* do not head a callback it never starts.                                 *)
RunsAreAttempts == \A m \in Message : runs[m] <= attempt[m]

(* Every message a customer sends is handled in the end, or every attempt  *)
(* was used up on its callback, or it stood behind another message of its  *)
(* callback: those are the only ways to lose one.                          *)
Accounted ==
  \A m \in Message :
    sent >= m ~> \/ m \in handled
                 \/ platform[m] = "dropped"
                 \/ \E c \in Callback : c < m /\ m \in behind[c]
=============================================================================
