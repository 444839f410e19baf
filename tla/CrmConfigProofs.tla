--------------------------- MODULE CrmConfigProofs ---------------------------
(***************************************************************************)
(* For any number of wizards, schemas and requests: on the straight way a  *)
(* wizard stores only operations of the very schema it stores.             *)
(***************************************************************************)
EXTENDS CrmConfig, TLAPS

(* A wizard on the straight way has no validation on its way but of the    *)
(* text it shows, offers for selection what that text has, and keeps a     *)
(* selection only while the text cannot be edited.                         *)
OnTheWay(w) ==
  /\ \A c \in checks : c.wizard = w => c.schema = schemaJson[w]
  /\ step[w] = 3 => /\ validation[w] = DetectOperations(schemaJson[w])
                    /\ validation[w].ok
  /\ selected[w] # {} =>
       /\ step[w] \in {3, 4}
       /\ selected[w] \subseteq DetectOperations(schemaJson[w]).detected

Straight == \A w \in Wizard : w \notin detour => OnTheWay(w)

(* Step 3 is never shown without an answer.                                *)
Answered == \A w \in Wizard : step[w] = 3 => validation[w] \in Result

SentAsDetected == \A p \in puts : p.straight => Detected(p.config)

IInv == TypeOK /\ Straight /\ Answered /\ SentAsDetected /\ StraightIsDetected
-----------------------------------------------------------------------------
(* _detect_operations returns an answer, and no operation without an ok.   *)
LEMMA DetectType ==
  ASSUME NEW text \in Text
  PROVE  DetectOperations(text) \in Result
BY SchemasAssumption DEF DetectOperations, Result, Text, Document

LEMMA InitIInv == Init => IInv
BY DEF Init, IInv, TypeOK, Text, Straight, OnTheWay, Answered, SentAsDetected,
       StraightIsDetected

(* A step of one wizard that sends and stores nothing leaves what the      *)
(* others show, and what is on its way, alone.                             *)
LEMMA FormStep ==
  ASSUME IInv, NEW w \in Wizard, UNCHANGED <<puts, acks, config, straight>>,
         TypeOK', detour \subseteq detour', checks' \subseteq checks \cup [call: Call, wizard: {w}, schema: Schemas],
         \A v \in Wizard : v # w =>
           /\ step'[v] = step[v] /\ schemaJson'[v] = schemaJson[v]
           /\ validation'[v] = validation[v] /\ selected'[v] = selected[v],
         w \notin detour' => OnTheWay(w)',
         step'[w] = 3 => validation'[w] \in Result
  PROVE  IInv'
<1>1. ASSUME NEW v \in Wizard, v \notin detour'
      PROVE  OnTheWay(v)'
  <2>1. CASE v = w
    BY <1>1, <2>1
  <2>2. CASE v # w
    <3>1. OnTheWay(v)
      BY <1>1 DEF IInv, Straight
    <3> QED BY <2>2, <3>1 DEF OnTheWay
  <2> QED BY <2>1, <2>2
<1>2. Straight'
  BY <1>1 DEF Straight
<1>3. Answered'
  BY DEF IInv, Answered
<1>4. SentAsDetected' /\ StraightIsDetected'
  BY DEF IInv, SentAsDetected, StraightIsDetected, Detected
<1> QED BY <1>2, <1>3, <1>4 DEF IInv

LEMMA WizardKeeps ==
  ASSUME IInv, NEW w \in Wizard,
         \/ EnterBaseUrl(w) \/ Back(w) \/ ClickValidate(w)
         \/ \E text \in Text : EditSchema(w, text)
         \/ \E op \in Op : Toggle(w, op)
  PROVE  IInv'
<1>0. TypeOK /\ (w \notin detour => OnTheWay(w)) /\ (step[w] = 3 => validation[w] \in Result)
  BY DEF IInv, Straight, Answered
<1>1. CASE EnterBaseUrl(w)
  <2>1. TypeOK' /\ UNCHANGED <<checks, detour>>
    BY <1>0, <1>1 DEF EnterBaseUrl, Show, TypeOK, net
  <2>2. w \notin detour' => OnTheWay(w)'
    BY <1>0, <1>1 DEF EnterBaseUrl, Show, TypeOK, OnTheWay, net
  <2>3. step'[w] = 2
    BY <1>0, <1>1 DEF EnterBaseUrl, Show, TypeOK
  <2> QED BY <1>0, <1>1, <2>1, <2>2, <2>3, FormStep DEF EnterBaseUrl, Show, TypeOK, net
<1>2. CASE Back(w)
  <2>1. TypeOK' /\ UNCHANGED checks /\ detour \subseteq detour'
    BY <1>0, <1>2 DEF Back, Show, Leaves, TypeOK, net
  <2>2. w \notin detour' => OnTheWay(w)'
    BY <1>0, <1>2 DEF Back, Show, Leaves, TypeOK, OnTheWay, net
  <2>3. step'[w] \in {1, 2}
    BY <1>0, <1>2 DEF Back, Show, TypeOK
  <2> QED BY <1>0, <1>2, <2>1, <2>2, <2>3, FormStep DEF Back, Show, TypeOK, net
<1>3. CASE ClickValidate(w)
  <2>1. schemaJson[w] \in Schemas
    BY <1>0, <1>3 DEF ClickValidate, TypeOK, Text
  <2>2. PICK call \in Call :
          checks' = checks \cup {[call |-> call, wizard |-> w, schema |-> schemaJson[w]]}
    BY <1>3 DEF ClickValidate, Idle
  <2>3. TypeOK' /\ UNCHANGED detour
    BY <1>0, <1>3, <2>1, <2>2 DEF ClickValidate, TypeOK, form, Check
  <2>4. w \notin detour' => OnTheWay(w)'
    BY <1>0, <1>3, <2>2 DEF ClickValidate, OnTheWay, form
  <2> QED BY <1>0, <1>3, <2>1, <2>2, <2>3, <2>4, FormStep DEF ClickValidate, form
<1>4. ASSUME NEW text \in Text, EditSchema(w, text)
      PROVE  IInv'
  <2>1. TypeOK' /\ UNCHANGED checks /\ detour \subseteq detour'
    BY <1>0, <1>4 DEF EditSchema, Leaves, TypeOK, net
  <2>2. w \notin detour' => OnTheWay(w)'
    BY <1>0, <1>4 DEF EditSchema, Leaves, TypeOK, OnTheWay, net
  <2>3. step'[w] = 2
    BY <1>0, <1>4 DEF EditSchema
  <2> QED BY <1>0, <1>4, <2>1, <2>2, <2>3, FormStep DEF EditSchema, TypeOK, net
<1>5. ASSUME NEW op \in Op, Toggle(w, op)
      PROVE  IInv'
  <2>1. TypeOK' /\ UNCHANGED <<checks, detour>>
    BY <1>0, <1>5 DEF Toggle, TypeOK, net
  <2>2. w \notin detour' => OnTheWay(w)'
    BY <1>0, <1>5 DEF Toggle, TypeOK, OnTheWay, net
  <2>3. step' = step /\ validation' = validation
    BY <1>5 DEF Toggle
  <2> QED BY <1>0, <1>5, <2>1, <2>2, <2>3, FormStep DEF Toggle, TypeOK, net
<1> QED BY <1>1, <1>2, <1>3, <1>4, <1>5

LEMMA ValidatedKeeps ==
  ASSUME IInv, NEW c \in checks, Validated(c)
  PROVE  IInv'
<1> DEFINE w == c.wizard
           res == DetectOperations(c.schema)
<1>1. w \in Wizard /\ c.schema \in Schemas /\ TypeOK /\ (w \notin detour => OnTheWay(w))
  BY DEF IInv, TypeOK, Check, Straight
<1>2. res \in Result
  BY <1>1, DetectType DEF Text
<1>3. /\ checks' = checks \ {c} /\ validation' = [validation EXCEPT ![w] = res]
      /\ step' = (IF res.ok THEN [step EXCEPT ![w] = 3] ELSE step)
      /\ UNCHANGED <<schemaJson, selected, puts, acks, config, detour, straight>>
  BY DEF Validated, Show
<1>4. w \notin detour => c.schema = schemaJson[w]
  BY <1>1 DEF OnTheWay
<1> HIDE DEF res
<1>5. TypeOK'
  BY <1>1, <1>2, <1>3 DEF TypeOK
<1>6. validation'[w] = res /\ step'[w] \in {3, step[w]} /\ (~res.ok => step' = step)
  BY <1>1, <1>3 DEF TypeOK
<1>7. ASSUME w \notin detour'
      PROVE  OnTheWay(w)'
  <2>1. OnTheWay(w) /\ c.schema = schemaJson[w] /\ res = DetectOperations(schemaJson[w])
    BY <1>1, <1>3, <1>4, <1>7 DEF res
  <2>2. step'[w] = 3 => res.ok
    BY <1>3, <2>1 DEF OnTheWay
  <2> QED BY <1>3, <1>6, <2>1, <2>2 DEF OnTheWay
<1> HIDE DEF w
<1> QED BY <1>1, <1>2, <1>3, <1>5, <1>6, <1>7, FormStep DEF TypeOK

LEMMA SaveKeeps ==
  ASSUME IInv, NEW w \in Wizard, ClickSave(w)
  PROVE  IInv'
<1>0. PICK call \in Call :
        puts' = puts \cup {[call |-> call, wizard |-> w, straight |-> w \notin detour,
                            config |-> [schema |-> schemaJson[w], exposed |-> selected[w]]]}
  BY DEF ClickSave, Idle
<1> DEFINE p == [call |-> call, wizard |-> w, straight |-> w \notin detour,
                 config |-> [schema |-> schemaJson[w], exposed |-> selected[w]]]
<1>1. puts' = puts \cup {p}
      /\ UNCHANGED <<form, checks, acks, config, detour, straight>>
  BY <1>0 DEF ClickSave
<1>2. p \in Put
  BY DEF Put, Config, IInv, TypeOK
<1>3. ASSUME w \notin detour
      PROVE  Detected(p.config)
  <2>1. OnTheWay(w) /\ step[w] = 3
    BY <1>3 DEF IInv, Straight, ClickSave
  <2> QED BY <2>1 DEF OnTheWay, Detected
<1>4. TypeOK'
  BY <1>1, <1>2 DEF IInv, TypeOK, form
<1>5. SentAsDetected'
  <2>1. p.straight => Detected(p.config)
    BY <1>3
  <2> HIDE DEF p
  <2> QED BY <1>1, <2>1 DEF IInv, SentAsDetected, Detected
<1>6. Straight' /\ Answered' /\ StraightIsDetected'
  BY <1>1 DEF IInv, Straight, OnTheWay, Answered, StraightIsDetected, form
<1> QED BY <1>4, <1>5, <1>6 DEF IInv

LEMMA StoreKeeps ==
  ASSUME IInv, NEW p \in puts, StorePut(p)
  PROVE  IInv'
<1>1. p \in Put /\ (p.straight => Detected(p.config))
  BY DEF IInv, TypeOK, SentAsDetected
<1>2. TypeOK'
  BY <1>1 DEF StorePut, SaveConfig, IInv, TypeOK, form, Put, Ack
<1>3. StraightIsDetected'
  BY <1>1 DEF StorePut, SaveConfig, StraightIsDetected
<1>4. Straight' /\ Answered' /\ SentAsDetected'
  BY DEF StorePut, SaveConfig, IInv, Straight, OnTheWay, Answered, SentAsDetected, form
<1> QED BY <1>2, <1>3, <1>4 DEF IInv

LEMMA SavedKeeps ==
  ASSUME IInv, NEW a \in acks, Saved(a)
  PROVE  IInv'
<1> DEFINE w == a.wizard
<1>1. w \in Wizard
  BY DEF IInv, TypeOK, Ack
<1>2. TypeOK' /\ step' = [step EXCEPT ![w] = 4]
  BY <1>1 DEF Saved, Show, IInv, TypeOK
<1>3. Straight' /\ Answered'
  BY <1>1, <1>2 DEF Saved, IInv, TypeOK, Straight, OnTheWay, Answered
<1>4. SentAsDetected' /\ StraightIsDetected'
  BY DEF Saved, IInv, SentAsDetected, StraightIsDetected
<1> QED BY <1>2, <1>3, <1>4 DEF IInv

LEMMA LostKeeps == IInv /\ Lost => IInv'
BY DEF IInv, Lost, TypeOK, Straight, OnTheWay, Answered, SentAsDetected,
       StraightIsDetected, form
-----------------------------------------------------------------------------
(* The inductive invariant holds in every state.                           *)
THEOREM Invariance == Spec => []IInv
<1>1. IInv /\ [Next]_vars => IInv'
  <2> SUFFICES ASSUME IInv, [Next]_vars PROVE IInv'
    OBVIOUS
  <2>1. CASE Next
    BY <2>1, WizardKeeps, ValidatedKeeps, SaveKeeps, StoreKeeps, SavedKeeps, LostKeeps
       DEF Next
  <2>2. CASE UNCHANGED vars
    BY <2>2 DEF vars, form, net, IInv, TypeOK, Straight, OnTheWay, Answered,
                SentAsDetected, StraightIsDetected
  <2> QED BY <2>1, <2>2
<1> QED BY <1>1, InitIInv, PTL DEF Spec

(* Every variable of the wizards and the table has its type.               *)
THEOREM TypeCorrect == Spec => []TypeOK
BY Invariance, PTL DEF IInv

(* A configuration stored from the straight way exposes only operations    *)
(* detected in its own, valid schema.                                      *)
THEOREM StraightStored == Spec => []StraightIsDetected
BY Invariance, PTL DEF IInv
=============================================================================
