--------------------------- MODULE MCConversation ---------------------------
(***************************************************************************)
(* Small instances of Conversation.                                        *)
(***************************************************************************)
EXTENDS Conversation

CONSTANTS t1, t2, c1

Tasks    == {t1, t2}
OneConv  == [t \in Tasks |-> c1]

Lookup == [tool |-> "crm.get_order", tier |-> GREEN, channel |-> "webchat"]
Reply(tier, channel) == [tool |-> "channel.send", tier |-> tier, channel |-> channel]

(* CSReplyWorker: the free-text reply, after the lookup of an order the    *)
(* message names.                                                          *)
CSReply == {<<Reply(ORANGE_C, "webchat")>>,
            <<Lookup, Reply(ORANGE_C, "webchat")>>}

(* A worker of automatic replies, like those of the orchestrator's tests.  *)
AutoReply == {<< >>, <<Reply(GREEN, "webchat")>>, <<Reply(ORANGE_A, "wecom_cs")>>}

TwoWorkers == <<CSReply, AutoReply>>

(* A deployment with everything, one of WeCom alone without a tool         *)
(* executor, and one without a memory store.                               *)
FullWiring ==
  {[executor |-> TRUE, memory |-> TRUE, adapters |-> {"webchat", "wecom_cs"}]}
EveryWiring ==
  FullWiring
    \cup {[executor |-> FALSE, memory |-> TRUE, adapters |-> {"wecom_cs"}]}
    \cup {[executor |-> TRUE, memory |-> FALSE, adapters |-> {"webchat"}]}
=============================================================================
