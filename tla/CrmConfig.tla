------------------------------ MODULE CrmConfig ------------------------------
(***************************************************************************)
(* The CRM configuration: one row in a table, and the wizards of the admin *)
(* web UI (one per open page) that let an administrator enter a schema,    *)
(* have it validated, select operations and save.                          *)
(*                                                                         *)
(* Validating and saving are requests: while one is on its way the page    *)
(* can be used, and an answer acts on whatever the wizard shows by then.   *)
(* The gateway keeps nothing between them, and stores what it is sent.     *)
(***************************************************************************)
EXTENDS Naturals

CONSTANTS
  Wizard,    \* the open wizards
  Op,        \* operation ids
  NoId,      \* what an entry of a path has that is no named operation
  NoPaths,   \* the "paths" of a text that has none
  Schemas,   \* the schema texts the administrators may enter
  Empty,     \* the empty text field
  NoResult,  \* a wizard's validation before the first answer
  NoConfig,  \* the table without its row
  Call       \* as many calls of the gateway as may be on their way at once

(* What _detect_operations tells apart in a text: whether it is JSON, has  *)
(* "paths", and which operation ids stand under them.                      *)
Document == [json: BOOLEAN, paths: {NoPaths} \cup SUBSET (Op \cup {NoId})]
Result   == [ok: BOOLEAN, detected: SUBSET Op]
Text     == Schemas \cup {Empty}
Config   == [schema: Text, exposed: SUBSET Op]

ASSUME SchemasAssumption  == Schemas \subseteq Document /\ Empty \notin Document
ASSUME SentinelAssumption == NoId \notin Op /\ NoResult \notin Result /\ NoConfig \notin Config

VARIABLES
  step,        \* the step each wizard shows
  schemaJson,  \* its text field
  validation,  \* the answer it validated with last
  selected,    \* the operations ticked in it
  checks,      \* the validation requests on their way
  puts,        \* the save requests on their way
  acks,        \* the answers to the saves that were stored
  config,      \* the row of the table
  detour,      \* history: the wizards that left the straight way
  straight     \* history: the row was sent by a wizard on the straight way

form == <<step, schemaJson, validation, selected>>
net  == <<checks, puts, acks>>
vars == <<form, net, config, detour, straight>>

Check == [call: Call, wizard: Wizard, schema: Schemas]
Put   == [call: Call, wizard: Wizard, config: Config, straight: BOOLEAN]
Ack   == [call: Call, wizard: Wizard]
-----------------------------------------------------------------------------
(* Mutation: entries of a path without an operationId are taken along.     *)
DetectOperationsUnnamed(doc) ==
  IF doc # Empty /\ doc.json /\ doc.paths # NoPaths
  THEN [ok |-> TRUE, detected |-> doc.paths]
  ELSE [ok |-> FALSE, detected |-> {}]

(* _detect_operations.                                                     *)
DetectOperations(doc) ==
  IF doc # Empty /\ doc.json /\ doc.paths # NoPaths
  THEN [ok |-> TRUE, detected |-> doc.paths \ {NoId}]
  ELSE [ok |-> FALSE, detected |-> {}]

Init ==
  /\ step       = [w \in Wizard |-> 1]
  /\ schemaJson = [w \in Wizard |-> Empty]
  /\ validation = [w \in Wizard |-> NoResult]
  /\ selected   = [w \in Wizard |-> {}]
  /\ checks = {} /\ puts = {} /\ acks = {}
  /\ config = NoConfig
  /\ detour = {} /\ straight = TRUE

(* A button clicked twice makes two calls, equal but for what they are.    *)
Idle == Call \ {r.call : r \in checks \cup puts \cup acks}

Show(w, n) == step' = [step EXCEPT ![w] = n]

(* The wizard may no longer save what it has shown.                        *)
Leaves(w, condition) == detour' = IF condition THEN detour \cup {w} ELSE detour
-----------------------------------------------------------------------------
EnterBaseUrl(w) ==
  /\ step[w] = 1
  /\ Show(w, 2)
  /\ UNCHANGED <<schemaJson, validation, selected, net, config, detour, straight>>

(* Typing does not wait for, nor undo, a validation on its way.            *)
EditSchema(w, text) ==
  /\ step[w] = 2
  /\ schemaJson' = [schemaJson EXCEPT ![w] = text]
  /\ Leaves(w, \E c \in checks : c.wizard = w)
  /\ UNCHANGED <<step, validation, selected, net, config, straight>>

(* Back keeps everything entered and selected.                             *)
Back(w) ==
  /\ step[w] \in {2, 3}
  /\ Show(w, step[w] - 1)
  /\ Leaves(w, step[w] = 3 /\ selected[w] # {})
  /\ UNCHANGED <<schemaJson, validation, selected, net, config, straight>>

ClickValidate(w) ==
  /\ step[w] = 2 /\ schemaJson[w] # Empty
  /\ \E call \in Idle :
       checks' = checks \cup {[call |-> call, wizard |-> w, schema |-> schemaJson[w]]}
  /\ UNCHANGED <<form, puts, acks, config, detour, straight>>

(* Mutation: the wizard goes on whatever the answer says.                  *)
ValidatedWhatever(c) ==
  /\ checks' = checks \ {c}
  /\ validation' = [validation EXCEPT ![c.wizard] = DetectOperations(c.schema)]
  /\ Show(c.wizard, 3)
  /\ UNCHANGED <<schemaJson, selected, puts, acks, config, detour, straight>>

(* The answer replaces the last one, and a good one shows step 3 wherever  *)
(* the wizard stands.                                                      *)
Validated(c) ==
  LET res == DetectOperations(c.schema) IN
    /\ checks' = checks \ {c}
    /\ validation' = [validation EXCEPT ![c.wizard] = res]
    /\ IF res.ok THEN Show(c.wizard, 3) ELSE UNCHANGED step
    /\ UNCHANGED <<schemaJson, selected, puts, acks, config, detour, straight>>

Toggle(w, op) ==
  /\ step[w] = 3 /\ op \in validation[w].detected
  /\ selected' = [selected EXCEPT ![w] = IF op \in @ THEN @ \ {op} ELSE @ \cup {op}]
  /\ UNCHANGED <<step, schemaJson, validation, net, config, detour, straight>>

ClickSave(w) ==
  /\ step[w] = 3
  /\ \E call \in Idle :
       puts' = puts \cup {[call |-> call, wizard |-> w, straight |-> w \notin detour,
                           config |-> [schema |-> schemaJson[w], exposed |-> selected[w]]]}
  /\ UNCHANGED <<form, checks, acks, config, detour, straight>>

(* CRMConfigStore.save: the table has one row, which is replaced whole.    *)
SaveConfig(cfg) == config' = cfg

(* put_crm_config stores what it is sent, and looks at nothing again.      *)
StorePut(p) ==
  /\ puts' = puts \ {p}
  /\ SaveConfig(p.config)
  /\ straight' = p.straight
  /\ acks' = acks \cup {[call |-> p.call, wizard |-> p.wizard]}
  /\ UNCHANGED <<form, checks, detour>>

Saved(a) ==
  /\ acks' = acks \ {a}
  /\ Show(a.wizard, 4)
  /\ UNCHANGED <<schemaJson, validation, selected, checks, puts, config, detour, straight>>

(* A request or its answer is lost, or the gateway answers with an error:  *)
(* the promise is rejected and the wizard stays as it is.                  *)
Lost ==
  /\ \/ \E c \in checks : checks' = checks \ {c} /\ UNCHANGED <<puts, acks>>
     \/ \E p \in puts : puts' = puts \ {p} /\ UNCHANGED <<checks, acks>>
     \/ \E a \in acks : acks' = acks \ {a} /\ UNCHANGED <<checks, puts>>
  /\ UNCHANGED <<form, config, detour, straight>>

Next ==
  \/ \E w \in Wizard :
       \/ EnterBaseUrl(w) \/ Back(w) \/ ClickValidate(w) \/ ClickSave(w)
       \/ \E text \in Text : EditSchema(w, text)
       \/ \E op \in Op : Toggle(w, op)
  \/ \E c \in checks : Validated(c)
  \/ \E p \in puts : StorePut(p)
  \/ \E a \in acks : Saved(a)
  \/ Lost

Spec == Init /\ [][Next]_vars
-----------------------------------------------------------------------------
(* Every variable has its type.                                            *)
TypeOK ==
  /\ step       \in [Wizard -> 1 .. 4]
  /\ schemaJson \in [Wizard -> Text]
  /\ validation \in [Wizard -> Result \cup {NoResult}]
  /\ selected   \in [Wizard -> SUBSET Op]
  /\ checks \subseteq Check /\ puts \subseteq Put /\ acks \subseteq Ack
  /\ config \in Config \cup {NoConfig}
  /\ detour \subseteq Wizard /\ straight \in BOOLEAN

(* A configuration whose schema is valid and names all it exposes.         *)
Detected(cfg) ==
  LET res == DetectOperations(cfg.schema) IN res.ok /\ cfg.exposed \subseteq res.detected

(* Whatever several administrators do at once and whatever requests are    *)
(* lost or late, a stored configuration exposes only operations of its own *)
(* schema, which was found valid, if its wizard took the straight way: the *)
(* schema was not edited while it was being validated, and nobody went     *)
(* back from a selection.                                                  *)
StraightIsDetected == straight /\ config # NoConfig => Detected(config)
=============================================================================
