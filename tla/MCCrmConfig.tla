----------------------------- MODULE MCCrmConfig -----------------------------
(***************************************************************************)
(* Small instances of CrmConfig.                                           *)
(***************************************************************************)
EXTENDS CrmConfig, TLC

Doc(paths) == [json |-> TRUE, paths |-> paths]

(* Two schemas that share an operation, one that is no OpenAPI document.   *)
Documents == {Doc({"getOrder", "refund", NoId}), Doc({"getOrder"}), Doc(NoPaths)}

(* The calls are interchangeable.                                          *)
Calls == Permutations(Call)
=============================================================================
