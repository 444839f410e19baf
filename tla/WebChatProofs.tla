--------------------------- MODULE WebChatProofs ----------------------------
(***************************************************************************)
(* Proofs about WebChat, for any sockets, conversations and bounds.        *)
(***************************************************************************)
EXTENDS WebChat, SequenceTheorems, TLAPS

LEMMA AppendedReply ==
  ASSUME NEW q \in Seq(Reply), NEW reply \in Reply
  PROVE  /\ Append(q, reply) \in Seq(Reply)
         /\ Len(Append(q, reply)) = Len(q) + 1
         /\ \A i \in 1 .. Len(q) : Append(q, reply)[i] = q[i]
         /\ Append(q, reply)[Len(q) + 1] = reply
OBVIOUS

LEMMA TailReply ==
  ASSUME NEW q \in Seq(Reply), q # << >>
  PROVE  /\ Head(q) \in Reply /\ Head(q) = q[1] /\ Len(q) \in Nat \ {0}
         /\ Tail(q) \in Seq(Reply)
         /\ Len(Tail(q)) = Len(q) - 1
         /\ \A i \in 1 .. Len(q) - 1 : Tail(q)[i] = q[i + 1]
OBVIOUS

LEMMA SameSequence ==
  ASSUME NEW q \in Seq(Reply), NEW r \in Seq(Reply), Len(q) = Len(r),
         \A i \in 1 .. Len(q) : q[i] = r[i]
  PROVE  q = r
OBVIOUS

(* A client that has not connected has no endpoint.                        *)
AwayIsIdle == \A s \in Socket : client[s] = "away" => pc[s] = "idle"

(* The number of the message that is handled is one of those sent.         *)
LEMMA ReplyType ==
  ASSUME TypeOK, NEW s \in Socket
  PROVE  <<s, sent[s] - inbox[s]>> \in Reply
<1>1. sent[s] \in 0 .. MaxMessages /\ inbox[s] \in Nat /\ inbox[s] <= sent[s]
  BY DEF TypeOK
<1>2. sent[s] - inbox[s] \in 0 .. MaxMessages
  BY <1>1, BoundsAssumption
<1> QED BY <1>2 DEF Reply

LEMMA TypeInit == Init => TypeOK /\ AwayIsIdle
<1> SUFFICES ASSUME Init PROVE TypeOK /\ AwayIsIdle
  OBVIOUS
<1>1. << >> \in Seq(Reply)
  OBVIOUS
<1>2. 0 \in 0 .. MaxMessages
  BY BoundsAssumption
<1> QED BY <1>1, <1>2 DEF Init, TypeOK, AwayIsIdle, NeverSubscribed, Served

LEMMA TypeWire ==
  ASSUME TypeOK, AwayIsIdle, NEW s \in Socket,
         Connect(s) \/ ClientSends(s) \/ ClientLeaves(s) \/ ServerCloses(s)
  PROVE  TypeOK' /\ AwayIsIdle'
<1>1. CASE Connect(s)
  BY <1>1 DEF Connect, Goto, TypeOK, AwayIsIdle, NeverSubscribed, Served, history
<1>2. CASE ClientSends(s)
  <2>1. sent[s] + 1 \in 0 .. MaxMessages /\ inbox[s] + 1 \in Nat /\ inbox[s] + 1 <= sent[s] + 1
    BY <1>2, BoundsAssumption DEF ClientSends, TypeOK
  <2> QED BY <1>2, <2>1 DEF ClientSends, TypeOK, AwayIsIdle, history
<1>3. CASE ClientLeaves(s) \/ ServerCloses(s)
  BY <1>3 DEF ClientLeaves, ServerCloses, TypeOK, AwayIsIdle, history
<1> QED BY <1>1, <1>2, <1>3

(* The finally of an endpoint, whatever ended it.                          *)
LEMMA EndType ==
  ASSUME TypeOK, AwayIsIdle, NEW s \in Socket, pc[s] \in Served, End(s), UNCHANGED <<client, sent>>,
         inbox' \in [Socket -> Nat], \A t \in Socket : inbox'[t] <= sent[t]
  PROVE  TypeOK' /\ AwayIsIdle'
<1>1. pc' \in [Socket -> NeverSubscribed \cup Served \cup {"closed"}]
  BY DEF End, Goto, TypeOK
<1>2. subscribers' \in [Conv -> SUBSET Socket]
  BY DEF End, TypeOK
<1>3. \A t \in Socket : pc'[t] \in NeverSubscribed => pc[t] \in NeverSubscribed
  BY DEF End, Goto, TypeOK, NeverSubscribed
<1>4. client[s] # "away"
  BY DEF AwayIsIdle, Served
<1>5. AwayIsIdle'
  BY <1>4 DEF End, Goto, TypeOK, AwayIsIdle
<1>6. UNCHANGED <<client, sent, pending, delivered, feed, from>>
  BY DEF End, history
<1> QED BY <1>1, <1>2, <1>3, <1>5, <1>6 DEF TypeOK

LEMMA TypeEndpoint ==
  ASSUME TypeOK, AwayIsIdle, NEW s \in Socket,
         Endpoint(s) \/ HandlerReturns(s) \/ HandlerRaises(s)
  PROVE  TypeOK' /\ AwayIsIdle'
<1>1. CASE Subscribe(s)
  <2>1. Len(Feed(s)) \in Nat
    BY SocketsAssumption DEF Feed, TypeOK
  <2> QED BY <1>1, <2>1 DEF Subscribe, Goto, TypeOK, AwayIsIdle, NeverSubscribed, Served, wire
<1>2. CASE AcceptRaises(s)
  BY <1>2 DEF AcceptRaises, Goto, TypeOK, AwayIsIdle, NeverSubscribed, Served, wire, history
<1>3. CASE Receive(s)
  <2>1. inbox[s] - 1 \in Nat /\ inbox[s] - 1 <= sent[s]
    BY <1>3 DEF Receive, TypeOK
  <2> QED BY <1>3, <2>1 DEF Receive, Goto, TypeOK, AwayIsIdle, NeverSubscribed, Served, history
<1>4. CASE ReceiveRaises(s)
  <2>1. pc[s] \in Served /\ End(s) /\ UNCHANGED <<client, sent>>
    BY <1>4 DEF ReceiveRaises, Served
  <2>2. inbox[s] - 1 \in Nat /\ inbox[s] - 1 <= sent[s]
    BY <1>4 DEF ReceiveRaises, TypeOK
  <2>3. inbox' \in [Socket -> Nat] /\ \A t \in Socket : inbox'[t] <= sent[t]
    BY <1>4, <2>2 DEF ReceiveRaises, TypeOK
  <2> QED BY <2>1, <2>3, EndType
<1>5. CASE Disconnect(s) \/ HandlerRaises(s)
  <2>1. pc[s] \in Served /\ End(s) /\ UNCHANGED wire
    BY <1>5 DEF Disconnect, HandlerRaises, Served
  <2>2. inbox' \in [Socket -> Nat] /\ \A t \in Socket : inbox'[t] <= sent[t]
    BY <2>1 DEF wire, TypeOK
  <2> QED BY <2>1, <2>2, EndType DEF wire
<1>6. CASE HandlerReturns(s)
  BY <1>6 DEF HandlerReturns, Goto, TypeOK, AwayIsIdle, NeverSubscribed, Served, wire, history
<1> QED BY <1>1, <1>2, <1>3, <1>4, <1>5, <1>6 DEF Endpoint

(* Subscriptions follow the endpoints.                                     *)
LEMMA SubscribedStep ==
  ASSUME TypeOK, AwayIsIdle, SubscribedWhileServed, [Next]_vars
  PROVE  SubscribedWhileServed'
<1>1. CASE UNCHANGED vars
  BY <1>1 DEF vars, SubscribedWhileServed
<1>2. CASE Restart
  BY <1>2 DEF Restart, SubscribedWhileServed, Served
<1>3. ASSUME NEW s \in Socket, UNCHANGED subscribers,
             \A t \in Socket : pc'[t] \in Served <=> pc[t] \in Served
      PROVE  SubscribedWhileServed'
  BY <1>3 DEF SubscribedWhileServed
<1>4. ASSUME NEW s \in Socket, Subscribe(s) PROVE SubscribedWhileServed'
  BY <1>4, SocketsAssumption DEF Subscribe, Goto, TypeOK, SubscribedWhileServed, Served
<1>5. ASSUME NEW s \in Socket, End(s) PROVE SubscribedWhileServed'
  BY <1>5, SocketsAssumption DEF End, Goto, TypeOK, SubscribedWhileServed, Served
<1>6. ASSUME NEW s \in Socket, Connect(s) PROVE SubscribedWhileServed'
  BY <1>6 DEF Connect, Goto, TypeOK, AwayIsIdle, SubscribedWhileServed, Served
<1>7. ASSUME NEW s \in Socket,
             AcceptRaises(s) \/ Receive(s) \/ HandlerReturns(s)
      PROVE  SubscribedWhileServed'
  BY <1>3, <1>7 DEF AcceptRaises, Receive, HandlerReturns, Goto, TypeOK, Served
<1>8. ASSUME NEW s \in Socket,
             \/ ClientSends(s) \/ ClientLeaves(s) \/ ServerCloses(s) \/ Push(s)
             \/ \E c \in Conv : Send(s, c)
      PROVE  SubscribedWhileServed'
  BY <1>3, <1>8 DEF ClientSends, ClientLeaves, ServerCloses, Push, Send
<1> QED BY <1>1, <1>2, <1>4, <1>5, <1>6, <1>7, <1>8
        DEF Next, Endpoint, ReceiveRaises, Disconnect, HandlerRaises

LEMMA TypeSend ==
  ASSUME TypeOK, AwayIsIdle, SubscribedWhileServed, NEW s \in Socket, NEW c \in Conv, Send(s, c)
  PROVE  TypeOK' /\ AwayIsIdle'
<1> DEFINE reply == <<s, sent[s] - inbox[s]>>
<1>1. reply \in Reply
  BY ReplyType
<1>2. Append(feed[c], reply) \in Seq(Reply)
  BY <1>1, AppendedReply DEF TypeOK
<1>3. feed' \in [Conv -> Seq(Reply)]
  BY <1>2 DEF Send, TypeOK
<1>4. ASSUME NEW t \in Socket PROVE Append(pending[t], reply) \in Seq(Reply)
  BY <1>1, <1>4, AppendedReply DEF TypeOK
<1>5. pending' \in [Socket -> Seq(Reply)]
  BY <1>4 DEF Send, TypeOK
<1>6. \A t \in Socket : pc[t] \in NeverSubscribed => pending'[t] = << >>
  <2> SUFFICES ASSUME NEW t \in Socket, pc[t] \in NeverSubscribed PROVE pending'[t] = << >>
    OBVIOUS
  <2>1. t \notin subscribers[c]
    BY DEF SubscribedWhileServed, NeverSubscribed, Served
  <2> QED BY <2>1 DEF Send, TypeOK
<1> QED BY <1>3, <1>5, <1>6 DEF Send, TypeOK, AwayIsIdle, wire

LEMMA TypePush ==
  ASSUME TypeOK, AwayIsIdle, NEW s \in Socket, Push(s)
  PROVE  TypeOK' /\ AwayIsIdle'
<1>1. pending[s] \in Seq(Reply) /\ pending[s] # << >> /\ delivered[s] \in Seq(Reply)
  BY DEF Push, TypeOK
<1>2. Tail(pending[s]) \in Seq(Reply) /\ Append(delivered[s], Head(pending[s])) \in Seq(Reply)
  BY <1>1, TailReply, AppendedReply
<1>3. pc[s] \notin NeverSubscribed
  BY <1>1 DEF TypeOK
<1>4. pending' \in [Socket -> Seq(Reply)] /\ delivered' \in [Socket -> Seq(Reply)]
  BY <1>2 DEF Push, TypeOK
<1>5. \A t \in Socket : pc[t] \in NeverSubscribed =>
        pending'[t] = pending[t] /\ delivered'[t] = delivered[t]
  BY <1>3 DEF Push, TypeOK
<1> QED BY <1>4, <1>5 DEF Push, TypeOK, AwayIsIdle, wire, history

LEMMA TypeRestart ==
  ASSUME TypeOK, AwayIsIdle, Restart
  PROVE  TypeOK' /\ AwayIsIdle'
<1>1. << >> \in Seq(Reply)
  OBVIOUS
<1>2. pc' \in [Socket -> NeverSubscribed \cup Served \cup {"closed"}]
  BY DEF Restart, TypeOK, NeverSubscribed, Served
<1>3. \A t \in Socket : pc'[t] \in NeverSubscribed => pc[t] \in NeverSubscribed
  BY DEF Restart, TypeOK, NeverSubscribed, Served
<1>4. client' \in [Socket -> {"away", "up", "gone"}]
  BY DEF Restart, TypeOK
<1>5. inbox' \in [Socket -> Nat] /\ \A s \in Socket : inbox'[s] <= sent[s]
  BY BoundsAssumption DEF Restart, TypeOK
<1>6. AwayIsIdle'
  <2> SUFFICES ASSUME NEW t \in Socket, client'[t] = "away" PROVE pc'[t] = "idle"
    BY DEF AwayIsIdle
  <2>1. client[t] = "away"
    BY DEF Restart, TypeOK
  <2>2. pc[t] = "idle"
    BY <2>1 DEF AwayIsIdle
  <2> QED BY <2>2 DEF Restart, Served
<1> QED BY <1>1, <1>2, <1>3, <1>4, <1>5, <1>6 DEF Restart, TypeOK, history

Safe == TypeOK /\ AwayIsIdle /\ SubscribedWhileServed

LEMMA SafeStep == Safe /\ [Next]_vars => Safe'
<1> SUFFICES ASSUME TypeOK, AwayIsIdle, SubscribedWhileServed, [Next]_vars
             PROVE  TypeOK' /\ AwayIsIdle'
  BY SubscribedStep DEF Safe
<1>1. CASE UNCHANGED vars
  BY <1>1 DEF vars, wire, history, TypeOK, AwayIsIdle
<1> QED BY <1>1, TypeWire, TypeEndpoint, TypeSend, TypePush, TypeRestart DEF Next

LEMMA SafeAlways == Spec => []Safe
<1>1. Init => Safe
  BY TypeInit DEF Init, Safe, SubscribedWhileServed, Served
<1> QED BY <1>1, SafeStep, PTL DEF Spec

(* Every variable has its type, and nothing is pushed to a socket that     *)
(* never subscribed (the whole module).                                    *)
THEOREM TypeCorrect == Spec => []TypeOK
<1>1. Safe => TypeOK
  BY DEF Safe
<1> QED BY <1>1, SafeAlways, PTL

(* No subscription outlives its endpoint (the finally of webchat_ws).      *)
THEOREM SubscriptionsEnd == Spec => []SubscribedWhileServed
<1>1. Safe => SubscribedWhileServed
  BY DEF Safe
<1> QED BY <1>1, SafeAlways, PTL
-----------------------------------------------------------------------------
(* While a client stays, what it was given and what is about to be pushed  *)
(* is a window of the feed that begins where its socket subscribed; until  *)
(* its endpoint ends the window reaches to the end of the feed.            *)
Window(s) ==
  LET a == from[s]
      d == Len(delivered[s])
      p == Len(pending[s])
  IN /\ a + d + p <= Len(Feed(s))
     /\ pc[s] \in Served => a + d + p = Len(Feed(s))
     /\ \A i \in 1 .. d : delivered[s][i] = Feed(s)[a + i]
     /\ \A i \in 1 .. p : pending[s][i] = Feed(s)[a + d + i]

Subscribed(s) == pc[s] \notin NeverSubscribed /\ client[s] = "up"

InWindow == \A s \in Socket : Subscribed(s) => Window(s)

(* A step that leaves a socket's queue, replies and feed alone.            *)
LEMMA WindowKept ==
  ASSUME Safe, InWindow, NEW s \in Socket, Subscribed(s)',
         pc[s] \notin NeverSubscribed, pc'[s] \in Served => pc[s] \in Served,
         client[s] = "up", from'[s] = from[s], delivered'[s] = delivered[s],
         pending'[s] = pending[s], Feed(s)' = Feed(s)
  PROVE  Window(s)'
<1>1. Window(s)
  BY DEF InWindow, Subscribed
<1> QED BY <1>1 DEF Window

LEMMA SubscribeWindow ==
  ASSUME Safe, InWindow, NEW s \in Socket, Subscribe(s)
  PROVE  InWindow'
<1> SUFFICES ASSUME NEW t \in Socket, Subscribed(t)' PROVE Window(t)'
  BY DEF InWindow
<1>f. Feed(t)' = Feed(t) /\ Feed(t) \in Seq(Reply)
  BY SocketsAssumption DEF Subscribe, Feed, Safe, TypeOK
<1>1. CASE t = s
  <2>1. delivered'[s] = << >> /\ pending'[s] = << >>
    BY DEF Subscribe, Safe, TypeOK, NeverSubscribed
  <2>2. from'[s] = Len(Feed(s))
    BY DEF Subscribe, Safe, TypeOK
  <2> QED BY <1>1, <1>f, <2>1, <2>2 DEF Window
<1>2. CASE t # s
  <2>1. from'[t] = from[t] /\ pc'[t] = pc[t]
    BY <1>2 DEF Subscribe, Goto, Safe, TypeOK
  <2> QED BY <1>f, <2>1, WindowKept DEF Subscribe, Subscribed, wire
<1> QED BY <1>1, <1>2

LEMMA SendWindow ==
  ASSUME Safe, InWindow, NEW s \in Socket, NEW c \in Conv, Send(s, c)
  PROVE  InWindow'
<1> SUFFICES ASSUME NEW t \in Socket, Subscribed(t)' PROVE Window(t)'
  BY DEF InWindow
<1> DEFINE reply == <<s, sent[s] - inbox[s]>>
<1>r. reply \in Reply
  BY ReplyType DEF Safe
<1>t. /\ pending[t] \in Seq(Reply) /\ delivered[t] \in Seq(Reply) /\ Feed(t) \in Seq(Reply)
      /\ from[t] \in Nat
  BY SocketsAssumption DEF Safe, TypeOK, Feed
<1>u. pc' = pc /\ client' = client /\ from' = from /\ delivered' = delivered
  BY DEF Send, wire
<1>w. Window(t) /\ pc[t] \notin NeverSubscribed
  BY <1>u DEF InWindow, Subscribed
<1>1. CASE ConvOf[t] # c
  <2>1. t \notin subscribers[c]
    BY <1>1 DEF Safe, SubscribedWhileServed
  <2>2. pending'[t] = pending[t]
    BY <2>1 DEF Send
  <2>3. Feed(t)' = Feed(t)
    BY <1>1, SocketsAssumption DEF Send, Feed, Safe, TypeOK
  <2> QED BY <1>u, <1>w, <2>2, <2>3 DEF Window
<1>2. CASE ConvOf[t] = c
  <2>1. Feed(t)' = Append(Feed(t), reply)
    BY <1>2 DEF Send, Feed, Safe, TypeOK
  <2>2. /\ Feed(t)' \in Seq(Reply) /\ Len(Feed(t)') = Len(Feed(t)) + 1
        /\ \A i \in 1 .. Len(Feed(t)) : Feed(t)'[i] = Feed(t)[i]
        /\ Feed(t)'[Len(Feed(t)) + 1] = reply
    BY <1>r, <1>t, <2>1, AppendedReply
  <2> DEFINE a == from[t]
             d == Len(delivered[t])
             p == Len(pending[t])
             n == Len(Feed(t))
  <2>n. a \in Nat /\ d \in Nat /\ p \in Nat /\ n \in Nat /\ a + d + p <= n
    BY <1>t, <1>w DEF Window
  <2>3. \A i \in 1 .. d : delivered[t][i] = Feed(t)'[a + i]
    <3> SUFFICES ASSUME NEW i \in 1 .. d PROVE delivered[t][i] = Feed(t)'[a + i]
      OBVIOUS
    <3>1. a + i \in 1 .. n
      BY <2>n
    <3> QED BY <1>w, <2>2, <3>1 DEF Window
  <2>4. \A i \in 1 .. p : pending[t][i] = Feed(t)'[a + d + i]
    <3> SUFFICES ASSUME NEW i \in 1 .. p PROVE pending[t][i] = Feed(t)'[a + d + i]
      OBVIOUS
    <3>1. a + d + i \in 1 .. n
      BY <2>n
    <3> QED BY <1>w, <2>2, <3>1 DEF Window
  <2>5. CASE pc[t] \in Served
    <3>1. t \in subscribers[c]
      BY <1>2, <2>5 DEF Safe, SubscribedWhileServed
    <3>2. pending'[t] = Append(pending[t], reply)
      BY <3>1 DEF Send
    <3>3. /\ Len(pending'[t]) = p + 1 /\ pending'[t][p + 1] = reply
          /\ \A i \in 1 .. p : pending'[t][i] = pending[t][i]
      BY <1>r, <1>t, <3>2, AppendedReply
    <3>4. a + d + p = n
      BY <1>w, <2>5 DEF Window
    <3>5. \A i \in 1 .. p + 1 : pending'[t][i] = Feed(t)'[a + d + i]
      <4> SUFFICES ASSUME NEW i \in 1 .. p + 1 PROVE pending'[t][i] = Feed(t)'[a + d + i]
        OBVIOUS
      <4>1. CASE i = p + 1
        <5>1. a + d + (p + 1) = n + 1
          BY <2>n, <3>4
        <5> QED BY <2>2, <3>3, <4>1, <5>1
      <4>2. CASE i \in 1 .. p
        BY <2>4, <3>3, <4>2
      <4> QED BY <2>n, <4>1, <4>2
    <3>6. a + d + (p + 1) = n + 1
      <4> HIDE DEF a, d, p, n
      <4> QED BY <2>n, <3>4
    <3>7. /\ from'[t] = a /\ Len(delivered'[t]) = d /\ Len(pending'[t]) = p + 1
          /\ Len(Feed(t)') = n + 1 /\ delivered'[t] = delivered[t]
      BY <1>u, <2>2, <3>3
    <3>8. a + d + (p + 1) <= n + 1
      BY <2>n, <3>6
    <3> HIDE DEF a, d, p, n
    <3> QED BY <2>3, <3>5, <3>6, <3>7, <3>8 DEF Window
  <2>6. CASE pc[t] \notin Served
    <3>1. t \notin subscribers[c]
      BY <2>6 DEF Safe, SubscribedWhileServed
    <3>2. pending'[t] = pending[t]
      BY <3>1 DEF Send
    <3> QED BY <1>u, <2>2, <2>3, <2>4, <2>6, <2>n, <3>2 DEF Window
  <2> QED BY <2>5, <2>6
<1> QED BY <1>1, <1>2

LEMMA PushWindow ==
  ASSUME Safe, InWindow, NEW s \in Socket, Push(s)
  PROVE  InWindow'
<1> SUFFICES ASSUME NEW t \in Socket, Subscribed(t)' PROVE Window(t)'
  BY DEF InWindow
<1>u. pc' = pc /\ client' = client /\ from' = from /\ Feed(t)' = Feed(t)
  BY DEF Push, wire, history, Feed
<1>1. CASE t # s
  <2>1. pending'[t] = pending[t] /\ delivered'[t] = delivered[t]
    BY <1>1 DEF Push, Safe, TypeOK
  <2> QED BY <1>u, <2>1, WindowKept DEF Subscribed
<1>2. CASE t = s
  <2> DEFINE a == from[s]
             d == Len(delivered[s])
             p == Len(pending[s])
  <2>p. pending[s] \in Seq(Reply) /\ pending[s] # << >> /\ delivered[s] \in Seq(Reply)
    BY DEF Push, Safe, TypeOK
  <2>f. Feed(s) \in Seq(Reply) /\ a \in Nat
    BY SocketsAssumption DEF Safe, TypeOK, Feed
  <2>l. ASSUME NEW q \in Seq(Reply) PROVE Len(q) \in Nat
    OBVIOUS
  <2>t. /\ pending[s] \in Seq(Reply) /\ pending[s] # << >> /\ delivered[s] \in Seq(Reply)
        /\ a \in Nat /\ d \in Nat /\ Len(Feed(s)) \in Nat
    BY <2>p, <2>f, <2>l
  <2>n. a \in Nat /\ d \in Nat /\ p \in Nat \ {0}
    BY <2>t, TailReply
  <2>w. Window(s)
    BY <1>2, <1>u DEF InWindow, Subscribed
  <2>1. pending'[s] = Tail(pending[s]) /\ delivered'[s] = Append(delivered[s], Head(pending[s]))
    BY <1>2, <1>u DEF Push, Safe, TypeOK, Subscribed
  <2>2. /\ Head(pending[s]) = pending[s][1] /\ p \in Nat \ {0}
        /\ Len(pending'[s]) = p - 1
        /\ \A i \in 1 .. p - 1 : pending'[s][i] = pending[s][i + 1]
    BY <2>t, <2>1, TailReply
  <2>3. /\ Len(delivered'[s]) = d + 1 /\ delivered'[s][d + 1] = pending[s][1]
        /\ \A i \in 1 .. d : delivered'[s][i] = delivered[s][i]
    BY <2>t, <2>1, <2>2, TailReply, AppendedReply
  <2>4. \A i \in 1 .. d + 1 : delivered'[s][i] = Feed(s)[a + i]
    <3> SUFFICES ASSUME NEW i \in 1 .. d + 1 PROVE delivered'[s][i] = Feed(s)[a + i]
      OBVIOUS
    <3>1. CASE i = d + 1
      <4>1. pending[s][1] = Feed(s)[a + d + 1]
        BY <2>w, <2>2 DEF Window
      <4>2. a + (d + 1) = a + d + 1
        BY <2>t
      <4> QED BY <2>3, <3>1, <4>1, <4>2
    <3>2. CASE i \in 1 .. d
      BY <2>w, <2>3, <3>2 DEF Window
    <3>3. i = d + 1 \/ i \in 1 .. d
      <4> HIDE DEF d
      <4> QED BY <2>n
    <3> QED BY <3>1, <3>2, <3>3
  <2>5. \A i \in 1 .. p - 1 : pending'[s][i] = Feed(s)[a + (d + 1) + i]
    <3> SUFFICES ASSUME NEW i \in 1 .. p - 1 PROVE pending'[s][i] = Feed(s)[a + (d + 1) + i]
      OBVIOUS
    <3>1. i + 1 \in 1 .. p /\ a + d + (i + 1) = a + (d + 1) + i
      <4> HIDE DEF a, d, p
      <4> QED BY <2>n
    <3>2. pending[s][i + 1] = Feed(s)[a + d + (i + 1)]
      BY <2>w, <3>1 DEF Window
    <3> QED BY <2>2, <3>1, <3>2
  <2>6. a + (d + 1) + (p - 1) = a + d + p
    <3> HIDE DEF a, d, p
    <3> QED BY <2>n
  <2>7. a + d + p <= Len(Feed(s)) /\ (pc[s] \in Served => a + d + p = Len(Feed(s)))
    BY <2>w DEF Window
  <2> QED BY <1>2, <1>u, <2>2, <2>3, <2>4, <2>5, <2>6, <2>7 DEF Window
<1> QED BY <1>1, <1>2

LEMMA WindowInductive == Safe /\ InWindow /\ [Next]_vars => InWindow'
<1> SUFFICES ASSUME Safe, InWindow, [Next]_vars PROVE InWindow'
  OBVIOUS
<1>1. CASE UNCHANGED vars
  BY <1>1 DEF vars, wire, history, InWindow, Subscribed, Window, Feed
<1>2. CASE Restart
  <2>1. \A s \in Socket : client'[s] # "up"
    BY <1>2 DEF Restart, Safe, TypeOK
  <2> QED BY <2>1 DEF InWindow, Subscribed
<1>3. ASSUME UNCHANGED <<pending, delivered, history>>,
             \A t \in Socket : client'[t] = "up" => client[t] = "up" \/ pc'[t] \in NeverSubscribed,
             \A t \in Socket : pc'[t] = pc[t] \/ pc'[t] \in NeverSubscribed
                               \/ (pc[t] \in Served /\ pc'[t] \in Served \cup {"closed"})
      PROVE  InWindow'
  <2> SUFFICES ASSUME NEW t \in Socket, Subscribed(t)' PROVE Window(t)'
    BY DEF InWindow
  <2>1. client[t] = "up" /\ pc[t] \notin NeverSubscribed /\ (pc'[t] \in Served => pc[t] \in Served)
    BY <1>3 DEF Subscribed, NeverSubscribed, Served
  <2> QED BY <1>3, <2>1, WindowKept DEF history, Feed
<1>4. ASSUME NEW s \in Socket,
             \/ Connect(s) \/ ClientSends(s) \/ ClientLeaves(s) \/ ServerCloses(s)
             \/ AcceptRaises(s) \/ Receive(s) \/ ReceiveRaises(s) \/ Disconnect(s)
             \/ HandlerReturns(s) \/ HandlerRaises(s)
      PROVE  InWindow'
  <2>1. UNCHANGED <<pending, delivered, history>>
    BY <1>4 DEF Connect, ClientSends, ClientLeaves, ServerCloses, AcceptRaises, Receive,
                ReceiveRaises, Disconnect, HandlerReturns, HandlerRaises, End
  <2>2. \A t \in Socket : client'[t] = "up" => client[t] = "up" \/ pc'[t] \in NeverSubscribed
    BY <1>4 DEF Connect, ClientSends, ClientLeaves, ServerCloses, AcceptRaises, Receive,
                ReceiveRaises, Disconnect, HandlerReturns, HandlerRaises, End, Goto, wire,
                Safe, TypeOK, NeverSubscribed
  <2>3. \A t \in Socket : pc'[t] = pc[t] \/ pc'[t] \in NeverSubscribed
                           \/ (pc[t] \in Served /\ pc'[t] \in Served \cup {"closed"})
    BY <1>4 DEF Connect, ClientSends, ClientLeaves, ServerCloses, AcceptRaises, Receive,
                ReceiveRaises, Disconnect, HandlerReturns, HandlerRaises, End, Goto,
                Safe, TypeOK, NeverSubscribed, Served
  <2> QED BY <1>3, <2>1, <2>2, <2>3
<1> QED BY <1>1, <1>2, <1>4, SubscribeWindow, SendWindow, PushWindow DEF Next, Endpoint

LEMMA WindowAlways == Spec => [](Safe /\ InWindow)
<1>1. Init => InWindow
  BY DEF Init, InWindow, Subscribed, NeverSubscribed
<1> QED BY <1>1, WindowInductive, SafeAlways, PTL DEF Spec

(* A client that stays misses none of the replies to its conversation, and *)
(* is given none twice or out of order (webchat_ws, WebChatAdapter.send).  *)
THEOREM NoneMissed == Spec => []NothingMissed
<1>1. Safe /\ InWindow => NothingMissed
  <2> SUFFICES ASSUME Safe, InWindow, NEW s \in Socket, client[s] = "up", pc[s] \in Served
               PROVE  delivered[s] \o pending[s] = SubSeq(Feed(s), from[s] + 1, Len(Feed(s)))
    BY DEF NothingMissed
  <2> DEFINE a == from[s]
             d == Len(delivered[s])
             p == Len(pending[s])
             n == Len(Feed(s))
             given == delivered[s] \o pending[s]
             due   == SubSeq(Feed(s), a + 1, n)
  <2>1. Window(s)
    BY DEF InWindow, Subscribed, NeverSubscribed, Served
  <2>2. /\ pending[s] \in Seq(Reply) /\ delivered[s] \in Seq(Reply) /\ Feed(s) \in Seq(Reply)
        /\ a \in Nat
    BY SocketsAssumption DEF Safe, TypeOK, Feed
  <2>3. d \in Nat /\ p \in Nat /\ n \in Nat
    BY <2>2
  <2>4. a + d + p = n
    BY <2>1 DEF Window
  <2>5. given \in Seq(Reply) /\ Len(given) = d + p
    BY <2>2
  <2>6. \A i \in 1 .. n : Feed(s)[i] \in Reply
    BY <2>2
  <2>7. n - (a + 1) + 1 = d + p /\ a + 1 <= n + 1
    <3> HIDE DEF a, d, p, n
    <3> QED BY <2>2, <2>3, <2>4
  <2>8. /\ due \in Seq(Reply) /\ Len(due) = d + p
        /\ \A i \in 1 .. d + p : due[i] = Feed(s)[a + i]
    <3>1. a + 1 \in Int /\ n \in Int /\ \A i \in a + 1 .. n : Feed(s)[i] \in Reply
      BY <2>2, <2>3, <2>6
    <3>2. /\ due \in Seq(Reply)
          /\ Len(due) = IF a + 1 <= n THEN n - (a + 1) + 1 ELSE 0
          /\ \A i \in 1 .. n - (a + 1) + 1 : due[i] = Feed(s)[(a + 1) + i - 1]
      BY <3>1, SubSeqProperties
    <3> HIDE DEF a, d, p, n, due
    <3>3. Len(due) = d + p
      BY <2>2, <2>3, <2>4, <2>7, <3>2
    <3>4. \A i \in 1 .. d + p : (a + 1) + i - 1 = a + i
      BY <2>2, <2>3
    <3> QED BY <2>7, <3>2, <3>3, <3>4
  <2>9. \A i \in 1 .. d + p : given[i] = Feed(s)[a + i]
    <3> SUFFICES ASSUME NEW i \in 1 .. d + p PROVE given[i] = Feed(s)[a + i]
      OBVIOUS
    <3>1. CASE i \in 1 .. d
      <4>1. given[i] = delivered[s][i]
        BY <2>2, <3>1
      <4> QED BY <2>1, <3>1, <4>1 DEF Window
    <3>2. CASE i \notin 1 .. d
      <4>1. given[i] = pending[s][i - d]
        BY <2>2, <2>3, <3>2
      <4>2. i - d \in 1 .. p /\ a + d + (i - d) = a + i
        <5> HIDE DEF a, d, p
        <5> QED BY <2>2, <2>3, <3>2
      <4>3. pending[s][i - d] = Feed(s)[a + d + (i - d)]
        BY <2>1, <4>2 DEF Window
      <4> QED BY <4>1, <4>2, <4>3
    <3> QED BY <3>1, <3>2
  <2> QED
    <3> HIDE DEF d, p, given, due
    <3>1. given = due
      BY <2>5, <2>8, <2>9, SameSequence
    <3> QED BY <3>1 DEF given, due
<1> QED BY <1>1, WindowAlways, PTL
-----------------------------------------------------------------------------
(* The refinement: the sockets that subscribed are the readers.            *)
Joined == {s \in Socket : pc[s] \notin NeverSubscribed}

LEMMA JoinStep ==
  ASSUME Safe, NEW s \in Socket, Subscribe(s)
  PROVE  Published!Join(s)
<1>1. s \notin Joined
  BY DEF Joined, Subscribe, NeverSubscribed
<1>2. Joined' = Joined \cup {s}
  BY DEF Joined, Subscribe, Goto, Safe, TypeOK, NeverSubscribed
<1> QED BY <1>1, <1>2 DEF Joined, Subscribe, Published!Join, Published!Feed, Feed

LEMMA PublishStep ==
  ASSUME Safe, NEW s \in Socket, NEW c \in Conv, Send(s, c)
  PROVE  \E reply \in Reply : Published!Publish(c, reply)
<1>1. <<s, sent[s] - inbox[s]>> \in Reply
  BY ReplyType DEF Safe
<1>2. Published!Publish(c, <<s, sent[s] - inbox[s]>>)
  BY DEF Send, Published!Publish
<1> QED BY <1>1, <1>2

LEMMA ReadStep ==
  ASSUME Safe, InWindow, NEW s \in Socket, Push(s), client[s] = "up"
  PROVE  Published!Read(s)
<1> DEFINE a == from[s]
           d == Len(delivered[s])
           p == Len(pending[s])
<1>1. /\ pending[s] \in Seq(Reply) /\ pending[s] # << >>
      /\ a \in Nat /\ d \in Nat /\ Len(Feed(s)) \in Nat
  BY SocketsAssumption DEF Push, Safe, TypeOK, Feed
<1>2. p \in Nat \ {0} /\ Head(pending[s]) = pending[s][1]
  BY <1>1, TailReply
<1>3. s \in Joined
  BY <1>1 DEF Joined, Safe, TypeOK
<1>4. Window(s)
  BY <1>3 DEF InWindow, Subscribed, Joined
<1>5. pending[s][1] = Feed(s)[a + d + 1]
  BY <1>2, <1>4 DEF Window
<1>6. a + d + 1 <= Len(Feed(s))
  <2>1. a + d + p <= Len(Feed(s))
    BY <1>4 DEF Window
  <2> HIDE DEF a, d, p
  <2> QED BY <1>1, <1>2, <2>1
<1>7. delivered' = [delivered EXCEPT ![s] = Append(@, Feed(s)[a + d + 1])]
  BY <1>2, <1>5 DEF Push
<1> QED BY <1>3, <1>6, <1>7 DEF Push, Published!Read, Published!Feed, Feed, Joined, history

LEMMA FeedStutters ==
  ASSUME UNCHANGED <<delivered, history>>, Joined' = Joined
  PROVE  UNCHANGED Published!vars
BY DEF Joined, Published!vars, history

(* The web chat implements the feed of replies: each conversation has one, *)
(* and each socket reads it from where it subscribed without a gap, until  *)
(* it is closed (webchat_ws, WebChatAdapter).                              *)
THEOREM FeedRefinement == Spec => ImplementsReplyFeed
<1>1. Init => Published!Init
  BY DEF Init, Published!Init, NeverSubscribed
<1>2. Safe /\ InWindow /\ [Next]_vars => [Published!Next]_(Published!vars)
  <2> SUFFICES ASSUME Safe, InWindow, [Next]_vars PROVE [Published!Next]_(Published!vars)
    OBVIOUS
  <2>1. CASE UNCHANGED vars
    BY <2>1, FeedStutters DEF vars, Joined
  <2>2. CASE Restart
    <3>1. Joined' = Joined
      BY <2>2 DEF Restart, Joined, Safe, TypeOK, NeverSubscribed, Served
    <3> QED BY <2>2, <3>1, FeedStutters DEF Restart
  <2>3. ASSUME NEW s \in Socket, Subscribe(s) PROVE Published!Next
    BY <2>3, JoinStep DEF Published!Next
  <2>4. ASSUME NEW s \in Socket, NEW c \in Conv, Send(s, c) PROVE Published!Next
    BY <2>4, PublishStep DEF Published!Next
  <2>5. ASSUME NEW s \in Socket, Push(s) PROVE [Published!Next]_(Published!vars)
    <3>1. CASE client[s] = "up"
      BY <2>5, <3>1, ReadStep DEF Published!Next
    <3>2. CASE client[s] # "up"
      BY <2>5, <3>2, FeedStutters DEF Push, Joined
    <3> QED BY <3>1, <3>2
  <2>6. ASSUME NEW s \in Socket,
               \/ Connect(s) \/ ClientSends(s) \/ ClientLeaves(s) \/ ServerCloses(s)
               \/ AcceptRaises(s) \/ Receive(s) \/ ReceiveRaises(s) \/ Disconnect(s)
               \/ HandlerReturns(s) \/ HandlerRaises(s)
        PROVE  UNCHANGED Published!vars
    <3>1. Joined' = Joined
      BY <2>6 DEF Connect, ClientSends, ClientLeaves, ServerCloses, AcceptRaises, Receive,
                  ReceiveRaises, Disconnect, HandlerReturns, HandlerRaises, End, Goto, wire,
                  Joined, Safe, TypeOK, AwayIsIdle, NeverSubscribed, Served
    <3>2. UNCHANGED <<delivered, history>>
      BY <2>6 DEF Connect, ClientSends, ClientLeaves, ServerCloses, AcceptRaises, Receive,
                  ReceiveRaises, Disconnect, HandlerReturns, HandlerRaises, End
    <3> QED BY <3>1, <3>2, FeedStutters
  <2> QED BY <2>1, <2>2, <2>3, <2>4, <2>5, <2>6 DEF Next, Endpoint
<1> QED BY <1>1, <1>2, WindowAlways, PTL DEF Spec, ImplementsReplyFeed, Published!Spec
=============================================================================
