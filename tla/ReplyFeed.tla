----------------------------- MODULE ReplyFeed ------------------------------
(***************************************************************************)
(* What the web chat promises: the replies to a conversation form one      *)
(* feed.  A reader joins it at some point and from there on is given every *)
(* reply, once and in order, until he reads no more.                       *)
(***************************************************************************)
EXTENDS Naturals, Sequences

CONSTANTS Reader, Conv, ConvOf, Reply

VARIABLES
  feed,    \* the replies of each conversation
  joined,  \* the readers who joined
  from,    \* how many replies there were when a reader did
  seen     \* what each reader has been given

vars == <<feed, joined, from, seen>>

Feed(r) == feed[ConvOf[r]]

Init ==
  /\ feed = [c \in Conv |-> << >>]
  /\ joined = {}
  /\ from = [r \in Reader |-> 0]
  /\ seen = [r \in Reader |-> << >>]

Publish(c, reply) ==
  /\ feed' = [feed EXCEPT ![c] = Append(@, reply)]
  /\ UNCHANGED <<joined, from, seen>>

Join(r) ==
  /\ r \notin joined
  /\ joined' = joined \cup {r}
  /\ from' = [from EXCEPT ![r] = Len(Feed(r))]
  /\ UNCHANGED <<feed, seen>>

Read(r) ==
  /\ r \in joined
  /\ LET next == from[r] + Len(seen[r]) + 1 IN
       /\ next <= Len(Feed(r))
       /\ seen' = [seen EXCEPT ![r] = Append(@, Feed(r)[next])]
  /\ UNCHANGED <<feed, joined, from>>

Next ==
  \/ \E c \in Conv, reply \in Reply : Publish(c, reply)
  \/ \E r \in Reader : Join(r) \/ Read(r)

Spec == Init /\ [][Next]_vars
=============================================================================
