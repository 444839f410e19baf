------------------------------ MODULE WebChat -------------------------------
(***************************************************************************)
(* The web chat: sockets of customers, the endpoint that serves each one   *)
(* (a coroutine that subscribes the socket to its conversation, hands its  *)
(* messages one after the other to the orchestrator and waits for each),   *)
(* the subscriptions of the adapter, and the tasks that push replies to    *)
(* the sockets.  Any number of sockets may share a conversation.  A socket *)
(* is one connection; who comes back has a new one.                        *)
(*                                                                         *)
(* The client and the ASGI server between it and the endpoint are          *)
(* external.  A sequence of pushes to one socket is sent in the order the  *)
(* tasks were created in, which is the order the event loop runs them in.  *)
(***************************************************************************)
EXTENDS Naturals, Sequences

CONSTANTS
  Socket,       \* the connections
  Conv,         \* conversation ids
  ConvOf,       \* the conversation id each socket names
  HasHandler,   \* is the endpoint wired with a handler?
  MaxMessages,  \* bound on the messages a client sends
  MaxReplies    \* bound on the replies to a conversation

ASSUME SocketsAssumption == ConvOf \in [Socket -> Conv]
ASSUME WiringAssumption  == HasHandler \in BOOLEAN
ASSUME BoundsAssumption  == MaxMessages \in Nat /\ MaxReplies \in Nat

VARIABLES
  client,       \* is the client away, connected or gone?
  sent,         \* how many messages it has sent
  inbox,        \* how many of them the endpoint has not received
  pc,           \* where the endpoint of each socket stands
  subscribers,  \* the sockets subscribed to each conversation
  pending,      \* the replies whose push task has not run, for each socket
  delivered,    \* the replies that reached the client
  feed,         \* the replies sent to each conversation (history)
  from          \* how many there were when a socket subscribed (history)

wire    == <<client, sent, inbox>>
history == <<feed, from>>
vars    == <<wire, pc, subscribers, pending, delivered, history>>
-----------------------------------------------------------------------------
(* A reply is known by the socket whose message it answers and the number  *)
(* of that message.                                                        *)
Reply == Socket \X (0 .. MaxMessages)

Served   == {"receive", "handle"}
Feed(s)  == feed[ConvOf[s]]
Goto(s, label) == pc' = [pc EXCEPT ![s] = label]

Init ==
  /\ client = [s \in Socket |-> "away"]
  /\ sent = [s \in Socket |-> 0] /\ inbox = [s \in Socket |-> 0]
  /\ pc = [s \in Socket |-> "idle"]
  /\ subscribers = [c \in Conv |-> {}]
  /\ pending = [s \in Socket |-> << >>] /\ delivered = [s \in Socket |-> << >>]
  /\ feed = [c \in Conv |-> << >>] /\ from = [s \in Socket |-> 0]

(* The client and the server it is connected to.                           *)
Connect(s) ==
  /\ client[s] = "away"
  /\ client' = [client EXCEPT ![s] = "up"]
  /\ Goto(s, "accept")
  /\ UNCHANGED <<sent, inbox, subscribers, pending, delivered, history>>

ClientSends(s) ==
  /\ client[s] = "up" /\ pc[s] # "accept" /\ sent[s] < MaxMessages
  /\ sent' = [sent EXCEPT ![s] = @ + 1]
  /\ inbox' = [inbox EXCEPT ![s] = @ + 1]
  /\ UNCHANGED <<client, pc, subscribers, pending, delivered, history>>

ClientLeaves(s) ==
  /\ client[s] = "up"
  /\ client' = [client EXCEPT ![s] = "gone"]
  /\ UNCHANGED <<sent, inbox, pc, subscribers, pending, delivered, history>>

(* The server closes the connection of an endpoint that has ended.         *)
ServerCloses(s) ==
  /\ client[s] = "up" /\ pc[s] \in {"closed", "refused"}
  /\ client' = [client EXCEPT ![s] = "gone"]
  /\ UNCHANGED <<sent, inbox, pc, subscribers, pending, delivered, history>>
-----------------------------------------------------------------------------
(* Mutation: the subscription takes the place of the conversation's others.*)
SubscribeAlone(s) ==
  /\ pc[s] = "accept"
  /\ subscribers' = [subscribers EXCEPT ![ConvOf[s]] = {s}]
  /\ from' = [from EXCEPT ![s] = Len(Feed(s))]
  /\ Goto(s, "receive")
  /\ UNCHANGED <<wire, pending, delivered, feed>>

(* The connection is accepted and its push callback subscribed.            *)
Subscribe(s) ==
  /\ pc[s] = "accept"
  /\ subscribers' = [subscribers EXCEPT ![ConvOf[s]] = @ \cup {s}]
  /\ from' = [from EXCEPT ![s] = Len(Feed(s))]
  /\ Goto(s, "receive")
  /\ UNCHANGED <<wire, pending, delivered, feed>>

AcceptRaises(s) ==
  /\ pc[s] = "accept" /\ client[s] = "gone"
  /\ Goto(s, "refused")
  /\ UNCHANGED <<wire, subscribers, pending, delivered, history>>

(* The finally of the endpoint: whatever ended it, it unsubscribes.        *)
End(s) ==
  /\ subscribers' = [subscribers EXCEPT ![ConvOf[s]] = @ \ {s}]
  /\ Goto(s, "closed")
  /\ UNCHANGED <<pending, delivered, history>>

(* The next message is parsed and handed to the handler.                   *)
Receive(s) ==
  /\ pc[s] = "receive" /\ inbox[s] > 0
  /\ inbox' = [inbox EXCEPT ![s] = @ - 1]
  /\ Goto(s, IF HasHandler THEN "handle" ELSE "receive")
  /\ UNCHANGED <<client, sent, subscribers, pending, delivered, history>>

(* It is no JSON object, has no text or a time stamp without a zone.       *)
ReceiveRaises(s) ==
  /\ pc[s] = "receive" /\ inbox[s] > 0
  /\ inbox' = [inbox EXCEPT ![s] = @ - 1]
  /\ End(s)
  /\ UNCHANGED <<client, sent>>

(* Mutation: the exception is swallowed inside the loop.                   *)
DisconnectIgnored(s) ==
  /\ pc[s] = "receive" /\ inbox[s] = 0 /\ client[s] = "gone"
  /\ Goto(s, "receive")
  /\ UNCHANGED <<wire, subscribers, pending, delivered, history>>

(* That the client has left is noticed after its last message, and only    *)
(* where the endpoint waits for the next one.                              *)
Disconnect(s) ==
  /\ pc[s] = "receive" /\ inbox[s] = 0 /\ client[s] = "gone"
  /\ End(s)
  /\ UNCHANGED wire

HandlerReturns(s) ==
  /\ pc[s] = "handle"
  /\ Goto(s, "receive")
  /\ UNCHANGED <<wire, subscribers, pending, delivered, history>>

(* Mutation: only an endpoint whose client has left unsubscribes.          *)
HandlerRaisesSubscribed(s) ==
  /\ pc[s] = "handle"
  /\ Goto(s, "closed")
  /\ UNCHANGED <<wire, subscribers, pending, delivered, history>>

HandlerRaises(s) ==
  /\ pc[s] = "handle"
  /\ End(s)
  /\ UNCHANGED wire

(* Mutation: every socket that named the conversation gets a push task.    *)
SendToNamed(s, c) ==
  /\ pc[s] = "handle" /\ Len(feed[c]) < MaxReplies
  /\ LET reply == <<s, sent[s] - inbox[s]>> IN
       /\ feed' = [feed EXCEPT ![c] = Append(@, reply)]
       /\ pending' = [t \in Socket |-> IF ConvOf[t] = c
                                       THEN Append(pending[t], reply) ELSE pending[t]]
  /\ UNCHANGED <<wire, pc, subscribers, delivered, from>>

(* Mutation: a push task overtakes those that were created before it.      *)
SendFirst(s, c) ==
  /\ pc[s] = "handle" /\ Len(feed[c]) < MaxReplies
  /\ LET reply == <<s, sent[s] - inbox[s]>> IN
       /\ feed' = [feed EXCEPT ![c] = Append(@, reply)]
       /\ pending' = [t \in Socket |-> IF t \in subscribers[c]
                                       THEN <<reply>> \o pending[t] ELSE pending[t]]
  /\ UNCHANGED <<wire, pc, subscribers, delivered, from>>

(* WebChatAdapter.send, called by the handler for the conversation its     *)
(* plan names: one push task for every subscriber.                         *)
Send(s, c) ==
  /\ pc[s] = "handle" /\ Len(feed[c]) < MaxReplies
  /\ LET reply == <<s, sent[s] - inbox[s]>> IN
       /\ feed' = [feed EXCEPT ![c] = Append(@, reply)]
       /\ pending' = [t \in Socket |-> IF t \in subscribers[c]
                                       THEN Append(pending[t], reply) ELSE pending[t]]
  /\ UNCHANGED <<wire, pc, subscribers, delivered, from>>

(* Mutation: replies are pushed only while a message is handled.           *)
PushWhileHandling(s) ==
  /\ pending[s] # << >> /\ pc[s] = "handle"
  /\ pending' = [pending EXCEPT ![s] = Tail(@)]
  /\ delivered' = IF client[s] = "up"
                  THEN [delivered EXCEPT ![s] = Append(@, Head(pending[s]))]
                  ELSE delivered
  /\ UNCHANGED <<wire, pc, subscribers, history>>

(* A push task runs: its reply is sent, or lost with the connection.       *)
Push(s) ==
  /\ pending[s] # << >>
  /\ pending' = [pending EXCEPT ![s] = Tail(@)]
  /\ delivered' = IF client[s] = "up"
                  THEN [delivered EXCEPT ![s] = Append(@, Head(pending[s]))]
                  ELSE delivered
  /\ UNCHANGED <<wire, pc, subscribers, history>>

(* Everything but the history is in the memory of the process.             *)
Restart ==
  /\ \E s \in Socket : client[s] = "up"
  /\ client' = [s \in Socket |-> IF client[s] = "up" THEN "gone" ELSE client[s]]
  /\ pc' = [s \in Socket |-> CASE pc[s] = "accept" -> "refused"
                               [] pc[s] \in Served -> "closed"
                               [] OTHER -> pc[s]]
  /\ inbox' = [s \in Socket |-> 0]
  /\ subscribers' = [c \in Conv |-> {}]
  /\ pending' = [s \in Socket |-> << >>]
  /\ UNCHANGED <<sent, delivered, history>>
-----------------------------------------------------------------------------
Endpoint(s) ==
  \/ Subscribe(s) \/ AcceptRaises(s)
  \/ Receive(s) \/ ReceiveRaises(s) \/ Disconnect(s)

(* The handler ends (Conversation), and the event loop runs every task.    *)
Next ==
  \/ \E s \in Socket :
       \/ Connect(s) \/ ClientSends(s) \/ ClientLeaves(s) \/ ServerCloses(s)
       \/ Endpoint(s) \/ HandlerReturns(s) \/ HandlerRaises(s) \/ Push(s)
       \/ \E c \in Conv : Send(s, c)
  \/ Restart

Fairness == \A s \in Socket :
  /\ WF_vars(Endpoint(s)) /\ WF_vars(HandlerReturns(s) \/ HandlerRaises(s))
  /\ WF_vars(Push(s)) /\ WF_vars(ServerCloses(s))

Spec     == Init /\ [][Next]_vars
FairSpec == Spec /\ Fairness
-----------------------------------------------------------------------------
NeverSubscribed == {"idle", "accept", "refused"}

(* Every variable has its type, and a reply is pushed only to sockets that *)
(* subscribed.                                                             *)
TypeOK ==
  /\ client \in [Socket -> {"away", "up", "gone"}]
  /\ sent \in [Socket -> 0 .. MaxMessages] /\ inbox \in [Socket -> Nat]
  /\ \A s \in Socket : inbox[s] <= sent[s]
  /\ pc \in [Socket -> NeverSubscribed \cup Served \cup {"closed"}]
  /\ subscribers \in [Conv -> SUBSET Socket]
  /\ pending \in [Socket -> Seq(Reply)] /\ delivered \in [Socket -> Seq(Reply)]
  /\ feed \in [Conv -> Seq(Reply)] /\ from \in [Socket -> Nat]
  /\ \A s \in Socket : pc[s] \in NeverSubscribed => pending[s] = << >> /\ delivered[s] = << >>

(* The subscriptions are those of the endpoints that are being served:     *)
(* none outlives its endpoint, whichever way that ended, and none reaches  *)
(* a conversation the socket did not name.                                 *)
SubscribedWhileServed ==
  \A c \in Conv : subscribers[c] = {s \in Socket : ConvOf[s] = c /\ pc[s] \in Served}

(* A client that stays misses nothing: while its endpoint is served, the   *)
(* replies it was given and those about to be pushed are all the replies   *)
(* to the conversation since it subscribed, whichever socket's message     *)
(* they answer.                                                            *)
NothingMissed ==
  \A s \in Socket : client[s] = "up" /\ pc[s] \in Served =>
    delivered[s] \o pending[s] = SubSeq(Feed(s), from[s] + 1, Len(Feed(s)))

(* Every reply reaches every client that was subscribed when it was sent,  *)
(* if it stays.                                                            *)
Reaches ==
  \A s \in Socket : \A n \in 1 .. MaxReplies :
    pc[s] \in Served /\ from[s] < n /\ n <= Len(Feed(s))
      ~> from[s] + Len(delivered[s]) >= n \/ client[s] = "gone"

(* The subscription of a client that has left is removed at last, although *)
(* the endpoint looks only between two messages.                           *)
Unsubscribes ==
  \A s \in Socket :
    client[s] = "gone" ~> \A c \in Conv : s \notin subscribers[c]

(* The sockets are the readers of one feed for each conversation.          *)
Published == INSTANCE ReplyFeed WITH
               Reader <- Socket,
               joined <- {s \in Socket : pc[s] \notin NeverSubscribed},
               seen   <- delivered

ImplementsReplyFeed == Published!Spec
=============================================================================
