------------------------------ MODULE MCReplay ------------------------------
(***************************************************************************)
(* Small instances of Replay.                                              *)
(***************************************************************************)
EXTENDS Replay

CONSTANTS m1, m2

(* Messages without a time stamp; time starts after 1970.                  *)
Epoch == {-1}

(* Every request, and the one that lets the real tool answer anew.         *)
AllRequests == {"strict", "partial", "what_if"} \X BOOLEAN
LookupAnew  == {<<"what_if", TRUE>>}
=============================================================================
