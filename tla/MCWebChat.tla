----------------------------- MODULE MCWebChat ------------------------------
(***************************************************************************)
(* A small instance of WebChat: two sockets of one conversation.           *)
(***************************************************************************)
EXTENDS WebChat

CONSTANTS s1, s2, c1

OneConv == [s \in {s1, s2} |-> c1]
=============================================================================
