--------------------------- MODULE MCWecomInbound ---------------------------
(***************************************************************************)
(* Small instances of WecomInbound.                                        *)
(***************************************************************************)
EXTENDS WecomInbound
=============================================================================
