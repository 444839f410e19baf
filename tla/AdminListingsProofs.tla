------------------------ MODULE AdminListingsProofs ------------------------
(***************************************************************************)
(* For every page size, every filter and however far the tables grow: a    *)
(* reader of the audit log who got to the last page has seen all the rows  *)
(* that matched when the reading began, and a reader of the proposals has  *)
(* missed at most one for each change made meanwhile.                      *)
(***************************************************************************)
EXTENDS AdminListings, FiniteSetTheorems, SequenceTheorems, TLAPS

(* The answers the client has or will have.                                *)
Known == answers \cup {pages[from] : from \in DOMAIN pages}

(* Appending rows only pushes a row away from the top.  So a row the       *)
(* reader has not seen is at the current offset or beyond it, and beyond   *)
(* the end of every page that was answered without it.                     *)
NotBehind == \A x \in begun \ seen : Rank(x) >= offset
Beyond ==
  \A a \in Known :
    /\ \A x \in begun \ (seen \cup a.items) : Rank(x) >= a.offset + PageSize
    /\ a.offset + PageSize >= a.total => begun \subseteq seen \cup a.items

Reading ==
  /\ begun \subseteq Matching
  /\ NotBehind
  /\ Beyond
  /\ \A from \in DOMAIN pages : pages[from].offset = from
  /\ offset \in DOMAIN pages => pages[offset].items \subseteq seen
  /\ DOMAIN pages = {} => offset = 0

IInv == TypeOK /\ (Listed("audit") => Reading)
-----------------------------------------------------------------------------
(* The listed rows are finitely many, and so are those before a row.       *)
LEMMA MatchingFinite ==
  ASSUME TypeOK
  PROVE  IsFiniteSet(Matching) /\ Matching \subseteq Id
<1>1. IsFiniteSet(DOMAIN audit) /\ DOMAIN audit \subseteq Nat \ {0}
  <2>1. DOMAIN audit = 1 .. Len(audit) /\ Len(audit) \in Nat
    BY DEF TypeOK
  <2>2. IsFiniteSet(1 .. Len(audit))
    BY <2>1, FS_Interval
  <2> QED BY <2>1, <2>2
<1>2. IsFiniteSet(Stored) /\ Stored \subseteq Proposal
  BY TableAssumption, FS_Subset DEF Stored
<1>3. Matching \subseteq DOMAIN audit \/ Matching \subseteq Stored
  BY DEF Matching
<1> QED BY <1>1, <1>2, <1>3, FS_Subset DEF Id

LEMMA TotalNat == TypeOK => Total \in Nat
<1> SUFFICES ASSUME TypeOK PROVE Total \in Nat
  OBVIOUS
<1>1. IsFiniteSet(DOMAIN audit)
  <2>1. DOMAIN audit = 1 .. Len(audit) /\ Len(audit) \in Nat
    BY DEF TypeOK
  <2> QED BY <2>1, FS_Interval
<1>2. IsFiniteSet(Stored)
  BY TableAssumption, FS_Subset DEF Stored
<1> DEFINE C == {i \in DOMAIN audit : Counted(audit[i])}
           S == {p \in Stored : HasStatus(p)}
<1>3. Cardinality(C) \in Nat /\ Cardinality(S) \in Nat /\ Cardinality(Stored) \in Nat
  BY <1>1, <1>2, FS_Subset, FS_CardinalityType
<1> QED BY <1>3, BoundsAssumption DEF Total

(* A listed audit row has fewer rows before it than there are listed, and  *)
(* the total counts at least those.                                        *)
LEMMA RankFacts ==
  ASSUME TypeOK, Listed("audit")
  PROVE  /\ \A x \in Matching : Rank(x) \in Nat /\ Rank(x) < Cardinality(Matching)
         /\ Cardinality(Matching) <= Total
         /\ Cardinality(Matching) \in Nat
<1>1. IsFiniteSet(Matching) /\ Cardinality(Matching) \in Nat
  BY MatchingFinite, FS_CardinalityType
<1>2. ASSUME NEW x \in Matching
      PROVE  Rank(x) \in Nat /\ Rank(x) < Cardinality(Matching)
  <2>1. x \in DOMAIN audit /\ x \in Int
    BY DEF Matching, TypeOK
  <2>2. Before(x) \subseteq Matching \ {x}
    BY <2>1 DEF Before
  <2>3. IsFiniteSet(Matching \ {x}) /\ Cardinality(Matching \ {x}) = Cardinality(Matching) - 1
    BY <1>1, FS_RemoveElement
  <2>4. Cardinality(Before(x)) \in Nat
        /\ Cardinality(Before(x)) <= Cardinality(Matching \ {x})
    BY <2>2, <2>3, FS_Subset, FS_CardinalityType
  <2> QED BY <1>1, <2>3, <2>4 DEF Rank
<1>3. Cardinality(Matching) <= Total
  <2> DEFINE C == {i \in DOMAIN audit : Counted(audit[i])}
  <2>1. Total = Cardinality(C)
    BY DEF Total, Listed
  <2>2. Matching = {i \in DOMAIN audit : Counted(audit[i]) /\ InTime(audit[i])}
    BY DEF Matching
  <2>5. Matching \subseteq C
    BY <2>2
  <2>3. IsFiniteSet(DOMAIN audit)
    <3>1. DOMAIN audit = 1 .. Len(audit) /\ Len(audit) \in Nat
      BY DEF TypeOK
    <3> QED BY <3>1, FS_Interval
  <2>4. IsFiniteSet(C)
    BY <2>3, FS_Subset
  <2> HIDE DEF C
  <2> QED BY <2>1, <2>5, <2>4, FS_Subset
<1> QED BY <1>1, <1>2, <1>3

(* An appended row leaves every listed row listed, none nearer to the top. *)
LEMMA AppendPushes ==
  ASSUME TypeOK, Listed("audit"), NEW e \in Entry, AppendEntry(e)
  PROVE  /\ Matching \subseteq Matching'
         /\ \A x \in Matching : Rank(x)' \in Nat /\ Rank(x) <= Rank(x)'
<1>1. audit \in Seq(Entry) /\ audit' = Append(audit, e) /\ query' = query
  BY DEF AppendEntry, pager, TypeOK
<1>2. DOMAIN audit \subseteq DOMAIN audit' /\ DOMAIN audit' = 1 .. Len(audit) + 1
      /\ Len(audit) \in Nat /\ \A i \in DOMAIN audit : audit'[i] = audit[i]
  BY <1>1
<1>3. Matching \subseteq Matching'
  BY <1>1, <1>2 DEF Matching, Listed, Counted, InTime, Passes
<1>4. IsFiniteSet(Matching')
  <2>1. Matching' \subseteq 1 .. Len(audit) + 1
    BY <1>1, <1>2 DEF Matching, Listed
  <2>2. IsFiniteSet(1 .. Len(audit) + 1)
    BY <1>2, FS_Interval
  <2> QED BY <2>1, <2>2, FS_Subset
<1>5. ASSUME NEW x \in Matching
      PROVE  Rank(x)' \in Nat /\ Rank(x) <= Rank(x)'
  <2>1. Before(x) \subseteq Before(x)' /\ Before(x)' \subseteq Matching'
    BY <1>1, <1>3 DEF Before, Listed
  <2>2. IsFiniteSet(Before(x)')
    BY <1>4, <2>1, FS_Subset
  <2> QED BY <2>1, <2>2, FS_Subset, FS_CardinalityType DEF Rank
<1> QED BY <1>3, <1>5

LEMMA InitIInv == Init => IInv
<1> SUFFICES ASSUME Init PROVE IInv
  OBVIOUS
<1>1. TypeOK
  BY DEF Init, TypeOK
<1>2. Reading
  BY DEF Init, Reading, NotBehind, Beyond, Known
<1> QED BY <1>1, <1>2 DEF IInv
-----------------------------------------------------------------------------
(* What an action that leaves the tables alone leaves of the listing.      *)
LEMMA SameListing ==
  ASSUME UNCHANGED <<rows, older, audit, query>>
  PROVE  Matching' = Matching /\ Listed("audit")' = Listed("audit")
         /\ \A x : Rank(x)' = Rank(x)
BY DEF Matching, Listed, Counted, InTime, Passes, HasStatus, Stored, Rank, Before

LEMMA AppendKeeps ==
  ASSUME IInv, NEW e \in Entry, AppendEntry(e)
  PROVE  IInv'
<1>1. TypeOK'
  <2>1. audit' \in Seq(Entry)
    BY DEF IInv, TypeOK, AppendEntry
  <2> QED BY <2>1 DEF IInv, TypeOK, AppendEntry, pager
<1>2. TypeOK /\ Listed("audit") /\ Reading
  BY DEF IInv, AppendEntry
<1>3. UNCHANGED <<offset, pages, answers, seen, begun>>
  BY DEF AppendEntry, pager
<1>4. Matching \subseteq Matching'
      /\ \A x \in Matching : Rank(x)' \in Nat /\ Rank(x) <= Rank(x)'
  BY <1>2, AppendPushes
<1>5. \A x \in begun : x \in Matching /\ Rank(x) \in Nat
  BY <1>2, RankFacts DEF Reading
<1>6. Known' = Known
  BY <1>3 DEF Known
<1>7. NotBehind'
  BY <1>2, <1>3, <1>4, <1>5 DEF Reading, NotBehind, TypeOK
<1>8. \A a \in Known : a.offset \in Nat
  BY <1>2 DEF Known, TypeOK, Answer
<1>9. Beyond'
  <2>1. ASSUME NEW a \in Known, NEW x \in begun \ (seen \cup a.items)
        PROVE  Rank(x)' >= a.offset + PageSize
    <3>1. Rank(x) >= a.offset + PageSize
      BY <1>2, <2>1 DEF Reading, Beyond
    <3>2. Rank(x) <= Rank(x)' /\ Rank(x) \in Nat /\ Rank(x)' \in Nat
      BY <1>4, <1>5
    <3>3. a.offset + PageSize \in Nat
      BY <1>8, BoundsAssumption
    <3> QED BY <3>1, <3>2, <3>3
  <2>2. \A a \in Known : a.offset + PageSize >= a.total => begun \subseteq seen \cup a.items
    BY <1>2 DEF Reading, Beyond
  <2> QED BY <1>3, <1>6, <2>1, <2>2 DEF Beyond
<1> QED BY <1>1, <1>2, <1>3, <1>4, <1>7, <1>9 DEF IInv, Reading

LEMMA ChangeKeeps ==
  ASSUME IInv, NEW p \in Proposal, ChangeProposal(p)
  PROVE  IInv'
<1>1. rows \in [Proposal -> Row \cup {NoRow}] /\ older \subseteq Proposal \X Proposal
  BY DEF IInv, TypeOK
<1>2. p \in Stored => rows[p] \in Row
  BY <1>1 DEF Stored
<1>3. ASSUME NEW row \in Row, Save(p, row)
      PROVE  rows' \in [Proposal -> Row \cup {NoRow}] /\ older' \subseteq Proposal \X Proposal
  BY <1>1, <1>3 DEF Save, Stored
<1>4. rows' \in [Proposal -> Row \cup {NoRow}] /\ older' \subseteq Proposal \X Proposal
  <2>1. CASE SubmitProposal(p)
    BY <1>3, <2>1 DEF SubmitProposal, Fresh, Row, Status
  <2>2. CASE PromoteProposal(p)
    BY <1>1, <2>2 DEF PromoteProposal, UpdateGateDecision, Row, Status, GateDecision
  <2>3. CASE HoldProposal(p)
    <3>1. [Fresh EXCEPT !.status = "hitl_pending"] \in Row
      BY DEF Fresh, Row, Status
    <3> QED BY <1>3, <2>3, <3>1 DEF HoldProposal, Enqueue
  <2>4. CASE DecideProposal(p)
    <3>1. PICK reviewer \in Reviewer, status \in {"hitl_approved", "rejected"} :
            Decide(p, reviewer, status)
      BY <2>4 DEF DecideProposal
    <3>2. [rows[p] EXCEPT !.status = status, !.reviewer = reviewer] \in Row
      BY <1>2, <3>1 DEF Decide, Pending, Row, Status
    <3> QED BY <1>3, <3>1, <3>2 DEF Decide
  <2>5. CASE MarkProposal(p)
    <3>1. PICK status \in {"shadow_running", "rejected"} :
            rows' = [rows EXCEPT ![p].status = status] /\ UNCHANGED older
      BY <2>5 DEF MarkProposal, UpdateStatus
    <3>2. [rows[p] EXCEPT !.status = status] \in Row
      BY <1>2, <2>5 DEF MarkProposal, Row, Status
    <3> QED BY <1>1, <3>1, <3>2
  <2> QED BY <2>1, <2>2, <2>3, <2>4, <2>5 DEF ChangeProposal
<1>5. TypeOK'
  BY <1>4 DEF IInv, TypeOK, ChangeProposal, pager
<1>6. ~Listed("audit")'
  BY DEF ChangeProposal, Listed, pager
<1> QED BY <1>5, <1>6 DEF IInv

LEMMA AnswerPageTypes ==
  ASSUME TypeOK, AnswerPage
  PROVE  TypeOK'
<1>1. Page(offset) \subseteq Id /\ Total \in Nat /\ Matching \subseteq Id
  BY MatchingFinite, TotalNat DEF Page
<1>2. [offset |-> offset, items |-> Page(offset), total |-> Total] \in Answer
  BY <1>1 DEF Answer, TypeOK
<1>3. answers' \subseteq Answer
  BY <1>2 DEF AnswerPage, TypeOK
<1>4. begun' \subseteq Id /\ changes' \in Nat
  BY <1>1 DEF AnswerPage, TypeOK
<1> QED BY <1>3, <1>4 DEF AnswerPage, TypeOK

LEMMA AnswerPageKeeps ==
  ASSUME IInv, AnswerPage
  PROVE  IInv'
<1>1. TypeOK'
  BY AnswerPageTypes DEF IInv
<1> SUFFICES ASSUME Listed("audit")' PROVE Reading'
  BY <1>1 DEF IInv
<1>2. UNCHANGED <<rows, older, audit, query, offset, pages, seen>>
  BY DEF AnswerPage
<1>3. Matching' = Matching /\ Listed("audit") /\ \A x : Rank(x)' = Rank(x)
  BY <1>2, SameListing
<1>4. TypeOK /\ Reading
  BY <1>3 DEF IInv
<1>5. begun' = begun \/ (begun' = Matching /\ DOMAIN pages = {} /\ answers = {})
  BY DEF AnswerPage
<1>6. \A x \in Matching : Rank(x) \in Nat /\ Rank(x) < Cardinality(Matching)
  BY <1>3, <1>4, RankFacts
<1>7. begun' \subseteq Matching
  BY <1>4, <1>5 DEF Reading
<1>8. \A x \in begun' \ seen : Rank(x) >= offset
  BY <1>4, <1>5, <1>6 DEF Reading, NotBehind
<1> DEFINE new == [offset |-> offset, items |-> Page(offset), total |-> Total]
<1>9. Known' = Known \cup {new}
  BY <1>2 DEF AnswerPage, Known
<1>10. offset \in Nat /\ PageSize \in Nat
  BY <1>4, BoundsAssumption DEF TypeOK
<1>11. ASSUME NEW x \in begun' \ (seen \cup Page(offset))
       PROVE  Rank(x) >= offset + PageSize
  <2>1. x \in Matching /\ Rank(x) >= offset /\ Rank(x) \in Nat
    BY <1>6, <1>7, <1>8, <1>11
  <2>2. Rank(x) \notin offset .. offset + PageSize - 1
    BY <2>1, <1>11 DEF Page
  <2> QED BY <1>10, <2>1, <2>2
<1>12. ASSUME offset + PageSize >= Total
       PROVE  begun' \subseteq seen \cup Page(offset)
  <2> SUFFICES ASSUME NEW x \in begun' \ (seen \cup Page(offset)) PROVE FALSE
    OBVIOUS
  <2>1. Rank(x) >= offset + PageSize
    BY <1>11
  <2>2. Rank(x) \in Nat /\ Rank(x) < Cardinality(Matching)
    BY <1>6, <1>7
  <2>3. Cardinality(Matching) <= Total /\ Cardinality(Matching) \in Nat /\ Total \in Nat
    BY <1>3, <1>4, RankFacts, TotalNat
  <2> QED BY <1>10, <1>12, <2>1, <2>2, <2>3
<1>13. ASSUME NEW a \in Known
       PROVE  /\ \A x \in begun' \ (seen \cup a.items) : Rank(x) >= a.offset + PageSize
              /\ a.offset + PageSize >= a.total => begun' \subseteq seen \cup a.items
  <2>1. begun' = begun
    BY <1>5, <1>13 DEF Known
  <2> QED BY <1>4, <1>13, <2>1 DEF Reading, Beyond
<1>14. /\ \A x \in begun' \ (seen \cup new.items) : Rank(x) >= new.offset + PageSize
       /\ new.offset + PageSize >= new.total => begun' \subseteq seen \cup new.items
  BY <1>11, <1>12
<1> HIDE DEF new
<1>15. NotBehind' /\ Beyond'
  BY <1>2, <1>3, <1>8, <1>9, <1>13, <1>14 DEF NotBehind, Beyond
<1> QED BY <1>2, <1>3, <1>4, <1>7, <1>15 DEF Reading

(* A cached page is displayed: the row of it that were not seen now are.   *)
LEMMA DisplayKeeps ==
  ASSUME IInv, Listed("audit"), NEW from \in Nat, NEW cache, Display(from, cache),
         from \in DOMAIN cache => cache[from] \in Answer,
         UNCHANGED <<rows, older, audit, query, begun>>
  PROVE  /\ seen \subseteq seen' /\ seen' \subseteq Id
         /\ \A a \in Known :
              /\ \A x \in begun \ (seen' \cup a.items) : Rank(x)' >= a.offset + PageSize
              /\ a.offset + PageSize >= a.total => begun \subseteq seen' \cup a.items
         /\ \A x \in begun \ seen' : Rank(x)' >= offset
         /\ from \in DOMAIN cache => cache[from].items \subseteq seen'
<1>1. TypeOK /\ Reading
  BY DEF IInv
<1>2. \A x : Rank(x)' = Rank(x)
  BY SameListing
<1>3. seen \subseteq seen' /\ seen' \subseteq Id
      /\ (from \in DOMAIN cache => cache[from].items \subseteq seen')
  BY <1>1 DEF Display, Items, TypeOK, Answer
<1> QED BY <1>1, <1>2, <1>3 DEF Reading, NotBehind, Beyond

LEMMA ReceivePageKeeps ==
  ASSUME IInv, NEW a \in answers, ReceivePage(a)
  PROVE  IInv'
<1>1. a \in Answer /\ a \in Known /\ TypeOK
  BY DEF IInv, TypeOK, Known
<1>2. /\ answers' = answers \ {a}
      /\ pages' = [from \in DOMAIN pages \cup {a.offset} |->
                     IF from = a.offset THEN a ELSE pages[from]]
      /\ Display(offset, pages')
      /\ UNCHANGED <<rows, older, audit, query, offset, begun, changes>>
  BY DEF ReceivePage
<1>3. DOMAIN pages' = DOMAIN pages \cup {a.offset} /\ DOMAIN pages' \subseteq Nat
      /\ \A from \in DOMAIN pages' : pages'[from] \in Answer
  BY <1>1, <1>2 DEF TypeOK, Answer
<1>4. seen' \subseteq Id
  BY <1>1, <1>2, <1>3 DEF Display, Items, TypeOK, Answer
<1>5. TypeOK'
  BY <1>1, <1>2, <1>3, <1>4 DEF TypeOK
<1> SUFFICES ASSUME Listed("audit")' PROVE Reading'
  BY <1>5 DEF IInv
<1>6. Listed("audit") /\ Matching' = Matching /\ Reading
  BY <1>2, SameListing DEF IInv
<1>7. Known' \subseteq Known
  BY <1>1, <1>2, <1>3 DEF Known
<1>8. /\ \A b \in Known :
           /\ \A x \in begun \ (seen' \cup b.items) : Rank(x)' >= b.offset + PageSize
           /\ b.offset + PageSize >= b.total => begun \subseteq seen' \cup b.items
      /\ \A x \in begun \ seen' : Rank(x)' >= offset
      /\ offset \in DOMAIN pages' => pages'[offset].items \subseteq seen'
  BY <1>1, <1>2, <1>3, <1>6, DisplayKeeps DEF TypeOK
<1>9. NotBehind' /\ Beyond'
  BY <1>2, <1>7, <1>8 DEF NotBehind, Beyond
<1>10. \A from \in DOMAIN pages' : pages'[from].offset = from
  BY <1>2, <1>3, <1>6 DEF Reading
<1>11. DOMAIN pages' # {}
  BY <1>3
<1> QED BY <1>2, <1>6, <1>8, <1>9, <1>10, <1>11 DEF Reading

(* The client goes to a page at which no unseen row is behind it.          *)
LEMMA TurnKeeps ==
  ASSUME IInv, NEW from \in Nat, Turn(from),
         Listed("audit") => \A x \in begun \ seen : Rank(x) >= from,
         DOMAIN pages = {} => from = 0
  PROVE  IInv'
<1>1. TypeOK /\ (from \in DOMAIN pages => pages[from] \in Answer)
  BY DEF IInv, TypeOK
<1>2. /\ offset' = from /\ Display(from, pages)
      /\ UNCHANGED <<rows, older, audit, query, pages, answers, begun, changes>>
  BY DEF Turn
<1>3. seen' \subseteq Id
  BY <1>1, <1>2 DEF Display, Items, TypeOK, Answer
<1>4. TypeOK'
  BY <1>1, <1>2, <1>3 DEF TypeOK
<1> SUFFICES ASSUME Listed("audit")' PROVE Reading'
  BY <1>4 DEF IInv
<1>5. Listed("audit") /\ Matching' = Matching /\ (\A x : Rank(x)' = Rank(x)) /\ Reading
  BY <1>2, SameListing DEF IInv
<1>6. /\ seen \subseteq seen'
      /\ \A a \in Known :
           /\ \A x \in begun \ (seen' \cup a.items) : Rank(x)' >= a.offset + PageSize
           /\ a.offset + PageSize >= a.total => begun \subseteq seen' \cup a.items
      /\ from \in DOMAIN pages => pages[from].items \subseteq seen'
  BY <1>1, <1>2, <1>5, DisplayKeeps
<1>7. Known' = Known
  BY <1>2 DEF Known
<1>8. NotBehind' /\ Beyond'
  BY <1>2, <1>5, <1>6, <1>7 DEF NotBehind, Beyond
<1> QED BY <1>2, <1>5, <1>6, <1>8 DEF Reading

LEMMA ButtonsKeep ==
  ASSUME IInv, NextPage \/ PreviousPage \/ FirstPage
  PROVE  IInv'
<1>1. TypeOK /\ offset \in Nat /\ PageSize \in Nat
  BY BoundsAssumption DEF IInv, TypeOK
<1>2. Listed("audit") => Reading
  BY DEF IInv
<1>3. Listed("audit") => begun \subseteq Matching /\ \A x \in Matching : Rank(x) \in Nat
  BY <1>1, <1>2, RankFacts DEF Reading
<1>4. CASE NextPage
  <2>1. offset \in DOMAIN pages /\ Turn(offset + PageSize)
    BY <1>4 DEF NextPage
  <2>2. ASSUME Listed("audit"), NEW x \in begun \ seen
        PROVE  Rank(x) >= offset + PageSize
    <3>1. pages[offset] \in Known /\ pages[offset].offset = offset
          /\ pages[offset].items \subseteq seen
      BY <1>2, <2>1, <2>2 DEF Reading, Known
    <3> QED BY <1>2, <2>2, <3>1 DEF Reading, Beyond
  <2> QED BY <1>1, <2>1, <2>2, TurnKeeps
<1>5. ASSUME NEW from \in Nat, from <= offset, Turn(from), DOMAIN pages = {} => from = 0
      PROVE  IInv'
  <2>1. ASSUME Listed("audit"), NEW x \in begun \ seen
        PROVE  Rank(x) >= from
    BY <1>1, <1>2, <1>3, <1>5, <2>1 DEF Reading, NotBehind
  <2> QED BY <1>5, <2>1, TurnKeeps
<1>6. CASE PreviousPage
  <2> DEFINE from == IF offset > PageSize THEN offset - PageSize ELSE 0
  <2>1. from \in Nat /\ from <= offset
    BY <1>1
  <2>2. Turn(from) /\ DOMAIN pages # {}
    BY <1>6 DEF PreviousPage
  <2> HIDE DEF from
  <2> QED BY <1>5, <2>1, <2>2
<1>7. CASE FirstPage
  BY <1>1, <1>5, <1>7 DEF FirstPage
<1> QED BY <1>4, <1>6, <1>7
-----------------------------------------------------------------------------
(* The inductive invariant holds in every state.                           *)
THEOREM Invariance == Spec => []IInv
<1>1. Init => IInv
  BY InitIInv
<1>2. IInv /\ [Next]_vars => IInv'
  <2> SUFFICES ASSUME IInv, [Next]_vars PROVE IInv'
    OBVIOUS
  <2>1. CASE Next
    BY <2>1, AppendKeeps, ChangeKeeps, AnswerPageKeeps, ReceivePageKeeps, ButtonsKeep
       DEF Next
  <2>2. CASE UNCHANGED vars
    <3>1. UNCHANGED <<rows, older, audit, query, offset, pages, answers, seen, begun, changes>>
      BY <2>2 DEF vars, pager
    <3>2. Matching' = Matching /\ Listed("audit")' = Listed("audit")
          /\ \A x : Rank(x)' = Rank(x)
      BY <3>1, SameListing
    <3>3. TypeOK'
      BY <3>1 DEF IInv, TypeOK
    <3>4. Listed("audit") => Reading'
      BY <3>1, <3>2 DEF IInv, Reading, NotBehind, Beyond, Known
    <3> QED BY <3>2, <3>3, <3>4 DEF IInv
  <2> QED BY <2>1, <2>2
<1> QED BY <1>1, <1>2, PTL DEF Spec

(* Every variable of the listing and its client has its type.              *)
THEOREM TypeCorrect == Spec => []TypeOK
BY Invariance, PTL DEF IInv

(* A reader of the audit log who is at the last page has seen every row    *)
(* that matched the filters when the reading began.                        *)
THEOREM AuditRead == Spec => []AuditComplete
<1>1. IInv => AuditComplete
  <2> SUFFICES ASSUME IInv, Listed("audit"), AtLastPage PROVE begun \subseteq seen
    BY DEF AuditComplete
  <2>1. Reading /\ offset \in DOMAIN pages
    BY DEF IInv, AtLastPage
  <2>2. /\ pages[offset] \in Known /\ pages[offset].offset = offset
        /\ pages[offset].items \subseteq seen
    BY <2>1 DEF Reading, Known
  <2>3. begun \subseteq seen \cup pages[offset].items
    BY <2>1, <2>2 DEF Reading, Beyond, AtLastPage
  <2> QED BY <2>2, <2>3
<1> QED BY <1>1, Invariance, PTL
-----------------------------------------------------------------------------
(* The proposals.  A verdict moves rows up the listing, by one place each, *)
(* and may bring a row back; so of the rows the reader has not seen, those *)
(* that slipped past a place of the listing are at most one for a change.  *)
Slipped(place, shown) == {p \in (begun \cap Matching) \ shown : Rank(p) < place}
Unseen(shown)         == (begun \cap Matching) \ shown
Tolerable(S)          == Cardinality(S) <= changes

(* Rowids order the stored proposals.                                      *)
ByRowid ==
  /\ older \subseteq Stored \X Stored
  /\ \A p \in Stored : <<p, p>> \notin older
  /\ \A p, q \in Stored : p = q \/ <<p, q>> \in older \/ <<q, p>> \in older
  /\ \A p, q, r \in Stored : <<p, q>> \in older /\ <<q, r>> \in older => <<p, r>> \in older

Slips ==
  /\ Tolerable(Slipped(offset, seen))
  /\ \A a \in Known : Tolerable(Slipped(a.offset + PageSize, seen \cup a.items))

LastPages ==
  \A a \in Known :
    a.offset + PageSize >= a.total /\ Cardinality(Stored) <= TotalCap =>
      Tolerable(Unseen(seen \cup a.items))

Paging ==
  /\ \A from \in DOMAIN pages : pages[from].offset = from
  /\ offset \in DOMAIN pages => pages[offset].items \subseteq seen
  /\ DOMAIN pages = {} => offset = 0

ListInv == ByRowid /\ begun \subseteq Stored /\ Slips /\ LastPages /\ Paging

ProposalInv == IInv /\ (Listed("proposals") => ListInv)

(* Counting: a set that gains at most one element.                         *)
LEMMA OneMore ==
  ASSUME NEW S, IsFiniteSet(S), NEW x, NEW T, T \subseteq S \cup {x}
  PROVE  Cardinality(T) \in Nat /\ Cardinality(S) \in Nat
         /\ Cardinality(T) <= Cardinality(S) + 1
<1>1. IsFiniteSet(S \cup {x})
      /\ Cardinality(S \cup {x}) = IF x \in S THEN Cardinality(S) ELSE Cardinality(S) + 1
  BY FS_AddElement
<1>2. IsFiniteSet(T) /\ Cardinality(T) <= Cardinality(S \cup {x})
  BY <1>1, FS_Subset
<1>3. Cardinality(T) \in Nat /\ Cardinality(S) \in Nat
  BY <1>2, FS_CardinalityType
<1> QED BY <1>1, <1>2, <1>3

LEMMA NoMore ==
  ASSUME NEW S, IsFiniteSet(S), NEW T, T \subseteq S
  PROVE  Cardinality(T) \in Nat /\ Cardinality(S) \in Nat /\ Cardinality(T) <= Cardinality(S)
BY FS_Subset, FS_CardinalityType

(* The listed proposals: each has a place of its own, and a total that can *)
(* count the table counts them all.                                        *)
LEMMA ProposalRanks ==
  ASSUME TypeOK, Listed("proposals"), ByRowid
  PROVE  /\ IsFiniteSet(Matching) /\ Matching \subseteq Stored
         /\ \A p \in Matching : Rank(p) \in Nat /\ Rank(p) < Cardinality(Matching)
         /\ \A p, q \in Matching : Rank(p) = Rank(q) => p = q
         /\ Cardinality(Matching) \in Nat
         /\ Cardinality(Stored) <= TotalCap => Cardinality(Matching) <= Total
<1>1. IsFiniteSet(Matching) /\ Cardinality(Matching) \in Nat
  BY MatchingFinite, FS_CardinalityType
<1>2. ~Listed("audit")
  BY DEF Listed
<1>3. Matching = {p \in Stored : HasStatus(p) /\ Passes(query.dimension, DimensionOf[p])}
  BY <1>2 DEF Matching
<1>4. \A p : Before(p) = {q \in Matching : <<p, q>> \in older}
  BY <1>2 DEF Before
<1>5. ASSUME NEW p \in Matching
      PROVE  Rank(p) \in Nat /\ Rank(p) < Cardinality(Matching)
  <2>1. Before(p) \subseteq Matching \ {p}
    BY <1>3, <1>4 DEF ByRowid
  <2>2. IsFiniteSet(Matching \ {p}) /\ Cardinality(Matching \ {p}) = Cardinality(Matching) - 1
    BY <1>1, FS_RemoveElement
  <2>3. Cardinality(Before(p)) \in Nat
        /\ Cardinality(Before(p)) <= Cardinality(Matching \ {p})
    BY <2>1, <2>2, NoMore
  <2> QED BY <1>1, <2>2, <2>3 DEF Rank
<1>6. ASSUME NEW p \in Matching, NEW q \in Matching, <<p, q>> \in older
      PROVE  Rank(q) < Rank(p)
  <2>1. Before(q) \subseteq Before(p) \ {q}
    BY <1>3, <1>4, <1>6 DEF ByRowid
  <2>2. q \in Before(p) /\ Before(p) \subseteq Matching
    BY <1>4, <1>6
  <2>3. IsFiniteSet(Before(p))
    BY <2>2, <1>1, FS_Subset
  <2>4. IsFiniteSet(Before(p) \ {q})
        /\ Cardinality(Before(p) \ {q}) = Cardinality(Before(p)) - 1
    BY <2>2, <2>3, FS_RemoveElement
  <2>5. Cardinality(Before(q)) <= Cardinality(Before(p) \ {q})
    BY <2>1, <2>4, NoMore
  <2>6. Cardinality(Before(p)) \in Nat /\ Cardinality(Before(q)) \in Nat
    BY <1>5 DEF Rank
  <2> QED BY <2>4, <2>5, <2>6 DEF Rank
<1>7. \A p, q \in Matching : Rank(p) = Rank(q) => p = q
  <2> SUFFICES ASSUME NEW p \in Matching, NEW q \in Matching, Rank(p) = Rank(q), p # q
               PROVE  FALSE
    OBVIOUS
  <2>1. <<p, q>> \in older \/ <<q, p>> \in older
    BY <1>3 DEF ByRowid
  <2>2. Rank(p) < Rank(q) \/ Rank(q) < Rank(p)
    BY <1>6, <2>1
  <2> QED BY <1>5, <2>2
<1>8. ASSUME Cardinality(Stored) <= TotalCap
      PROVE  Cardinality(Matching) <= Total
  <2>1. IsFiniteSet(Stored)
    BY TableAssumption, FS_Subset DEF Stored
  <2> DEFINE S == {p \in Stored : HasStatus(p)}
  <2>2. Matching \subseteq S /\ S \subseteq Stored
    BY <1>3
  <2>3. Total = Cardinality(S) \/ Total = Cardinality(Stored)
    BY <1>2, <1>8 DEF Total
  <2>4. IsFiniteSet(S)
    BY <2>1, <2>2, FS_Subset
  <2> HIDE DEF S
  <2>5. Cardinality(Matching) <= Cardinality(S)
        /\ Cardinality(Matching) <= Cardinality(Stored)
    BY <2>1, <2>2, <2>4, NoMore
  <2> QED BY <2>3, <2>5
<1> QED BY <1>1, <1>3, <1>5, <1>7, <1>8

(* What a change does to the table: one row is written, in its place or    *)
(* under a new rowid.                                                      *)
LEMMA ChangedTable ==
  ASSUME TypeOK, NEW p \in Proposal, ChangeProposal(p)
  PROVE  /\ Stored' = Stored \cup {p}
         /\ \A q \in Proposal \ {p} : rows'[q] = rows[q]
         /\ \/ p \in Stored /\ older' = older
            \/ older' = {pair \in older : p \notin {pair[1], pair[2]}}
                          \cup ((Stored \ {p}) \X {p})
<1> DEFINE reinserted == {pair \in older : p \notin {pair[1], pair[2]}}
                           \cup ((Stored \ {p}) \X {p})
<1>1. rows \in [Proposal -> Row \cup {NoRow}]
  BY DEF TypeOK
<1>2. \A q \in Stored : rows[q] \in Row
  BY <1>1 DEF Stored
<1>3. ASSUME NEW row \in Row, rows' = [rows EXCEPT ![p] = row]
      PROVE  Stored' = Stored \cup {p} /\ \A q \in Proposal \ {p} : rows'[q] = rows[q]
  BY <1>1, <1>3, RowsAssumption DEF Stored
<1>4. CASE SubmitProposal(p)
  <2>1. Fresh \in Row
    BY DEF Fresh, Row, Status
  <2>2. rows' = [rows EXCEPT ![p] = Fresh] /\ older' = reinserted
    BY <1>4 DEF SubmitProposal, Save
  <2> QED BY <2>1, <2>2, <1>3
<1>5. CASE PromoteProposal(p)
  <2> DEFINE row == [status |-> "auto_promoted", gate |-> "auto_promote", reviewer |-> Nobody]
  <2>1. row \in Row
    BY DEF Row, Status, GateDecision
  <2>2. rows' = [rows EXCEPT ![p] = row] /\ older' = older /\ p \in Stored
    BY <1>5 DEF PromoteProposal, UpdateGateDecision
  <2> HIDE DEF row
  <2> QED BY <2>1, <2>2, <1>3
<1>6. CASE HoldProposal(p)
  <2>1. [Fresh EXCEPT !.status = "hitl_pending"] \in Row
    BY DEF Fresh, Row, Status
  <2>2. /\ rows' = [rows EXCEPT ![p] = [Fresh EXCEPT !.status = "hitl_pending"]]
        /\ older' = reinserted
    BY <1>6 DEF HoldProposal, Enqueue, Save
  <2> QED BY <2>1, <2>2, <1>3
<1>7. CASE DecideProposal(p)
  <2>1. PICK reviewer \in Reviewer, status \in {"hitl_approved", "rejected"} :
          Decide(p, reviewer, status)
    BY <1>7 DEF DecideProposal
  <2>2. [rows[p] EXCEPT !.status = status, !.reviewer = reviewer] \in Row
    BY <1>2, <2>1 DEF Decide, Pending, Row, Status
  <2>3. /\ rows' = [rows EXCEPT ![p] = [rows[p] EXCEPT !.status = status, !.reviewer = reviewer]]
        /\ older' = reinserted
    BY <2>1 DEF Decide, Save
  <2> QED BY <2>2, <2>3, <1>3
<1>8. CASE MarkProposal(p)
  <2>1. PICK status \in {"shadow_running", "rejected"} :
          rows' = [rows EXCEPT ![p].status = status] /\ older' = older
    BY <1>8 DEF MarkProposal, UpdateStatus
  <2>2. [rows[p] EXCEPT !.status = status] \in Row
    BY <1>2, <1>8 DEF MarkProposal, Row, Status
  <2>3. rows' = [rows EXCEPT ![p] = [rows[p] EXCEPT !.status = status]] /\ p \in Stored
    BY <2>1, <1>8 DEF MarkProposal
  <2> QED BY <2>1, <2>2, <2>3, <1>3
<1> QED BY <1>4, <1>5, <1>6, <1>7, <1>8 DEF ChangeProposal

LEMMA ByRowidKept ==
  ASSUME TypeOK, ByRowid, NEW p \in Proposal, ChangeProposal(p)
  PROVE  ByRowid'
<1>1. Stored' = Stored \cup {p}
  BY ChangedTable
<1>2. CASE p \in Stored /\ older' = older
  BY <1>1, <1>2 DEF ByRowid
<1>3. CASE older' = {pair \in older : p \notin {pair[1], pair[2]}} \cup ((Stored \ {p}) \X {p})
  <2>1. \A q, r : <<q, r>> \in older' <=>
                    \/ <<q, r>> \in older /\ p # q /\ p # r
                    \/ q \in Stored \ {p} /\ r = p
    BY <1>3
  <2>2. older' \subseteq Stored' \X Stored'
    BY <1>1, <1>3 DEF ByRowid
  <2>3. \A q \in Stored' : <<q, q>> \notin older'
    BY <1>1, <2>1 DEF ByRowid
  <2>4. \A q, r \in Stored' : q = r \/ <<q, r>> \in older' \/ <<r, q>> \in older'
    BY <1>1, <2>1 DEF ByRowid
  <2>5. ASSUME NEW q \in Stored', NEW r \in Stored', NEW s \in Stored',
               <<q, r>> \in older', <<r, s>> \in older'
        PROVE  <<q, s>> \in older'
    <3>1. <<q, r>> \in older /\ p # q /\ p # r /\ q \in Stored
      BY <2>1, <2>5 DEF ByRowid
    <3>2. CASE s = p
      BY <2>1, <3>1, <3>2
    <3>3. CASE s # p
      BY <1>1, <2>1, <2>5, <3>1, <3>3 DEF ByRowid
    <3> QED BY <3>2, <3>3
  <2> QED BY <2>2, <2>3, <2>4, <2>5 DEF ByRowid
<1> QED BY <1>2, <1>3, ChangedTable

(* What it does to the listing: the other rows stay listed or not, and     *)
(* they move up by one place at most, and not when the row is listed now.  *)
LEMMA ChangedListing ==
  ASSUME TypeOK, ByRowid, NEW p \in Proposal, ChangeProposal(p)
  PROVE  /\ Listed("proposals") /\ Listed("proposals")'
         /\ Matching' \subseteq Matching \cup {p}
         /\ p \notin Stored => Matching \subseteq Matching' /\ p \notin Matching
         /\ \A q \in Matching' \ {p} : /\ q \in Matching /\ Rank(q)' \in Nat
                                       /\ Rank(q) <= Rank(q)' + 1
                                       /\ p \in Matching' \/ p \notin Stored => Rank(q) <= Rank(q)'
<1>1. Listed("proposals") /\ Listed("proposals")' /\ query' = query
      /\ ~Listed("audit") /\ ~Listed("audit")'
  BY DEF ChangeProposal, Listed, pager
<1>2. /\ Matching = {q \in Stored : HasStatus(q) /\ Passes(query.dimension, DimensionOf[q])}
      /\ Matching' = {q \in Stored' : HasStatus(q)' /\ Passes(query.dimension, DimensionOf[q])}
  BY <1>1 DEF Matching, Passes
<1>3. Stored' = Stored \cup {p} /\ \A q \in Proposal \ {p} : rows'[q] = rows[q]
  BY ChangedTable
<1>4. \A q \in Proposal \ {p} : q \in Matching' <=> q \in Matching
  BY <1>1, <1>2, <1>3 DEF HasStatus, Passes, Stored
<1>5. Matching \subseteq Proposal /\ Matching' \subseteq Proposal /\ Matching \subseteq Stored
  BY <1>2 DEF Stored
<1>6. /\ \A q : Before(q) = {r \in Matching : <<q, r>> \in older}
      /\ \A q : Before(q)' = {r \in Matching' : <<q, r>> \in older'}
  BY <1>1 DEF Before
<1>7. \A q \in Stored \ {p} : \A r : <<q, r>> \in older => <<q, r>> \in older'
  BY ChangedTable
<1>9. ASSUME NEW q \in Matching' \ {p}
      PROVE  /\ q \in Matching /\ Rank(q)' \in Nat
             /\ Rank(q) <= Rank(q)' + 1
             /\ p \in Matching' \/ p \notin Stored => Rank(q) <= Rank(q)'
  <2>1. q \in Matching /\ q \in Stored
    BY <1>4, <1>5
  <2>2. IsFiniteSet(Matching')
    BY <1>5, TableAssumption, FS_Subset
  <2>3. IsFiniteSet(Before(q)')
    BY <1>6, <2>2, FS_Subset
  <2>4. Before(q) \subseteq Before(q)' \cup {p}
    BY <1>4, <1>5, <1>6, <1>7, <2>1
  <2>5. p \in Matching' => Before(q) \subseteq Before(q)'
    BY <1>4, <1>5, <1>6, <1>7, <2>1
  <2>6. p \notin Stored => Before(q) \subseteq Before(q)'
    BY <1>5, <1>6, <2>4
  <2>7. Cardinality(Before(q)) <= Cardinality(Before(q)') + 1 /\ Cardinality(Before(q)') \in Nat
    BY <2>3, <2>4, OneMore
  <2>8. Before(q) \subseteq Before(q)' => Cardinality(Before(q)) <= Cardinality(Before(q)')
    BY <2>3, NoMore
  <2> QED BY <2>1, <2>5, <2>6, <2>7, <2>8 DEF Rank
<1> QED BY <1>1, <1>3, <1>4, <1>5, <1>9

(* One change to a stored proposal lets one unseen row slip past a place,  *)
(* a new proposal none.                                                    *)
LEMMA OneSlips ==
  ASSUME TypeOK, ByRowid, begun \subseteq Stored, NEW p \in Proposal, ChangeProposal(p),
         NEW place \in Int, NEW shown,
         Tolerable(Slipped(place, shown))
  PROVE  Cardinality({q \in (begun \cap Matching') \ shown : Rank(q)' < place}) <= changes'
<1> DEFINE S == Slipped(place, shown)
           T == {q \in (begun \cap Matching') \ shown : Rank(q)' < place}
<1>1. /\ Listed("proposals")
      /\ Matching' \subseteq Matching \cup {p}
      /\ \A q \in Matching' \ {p} : /\ q \in Matching /\ Rank(q)' \in Nat
                                    /\ Rank(q) <= Rank(q)' + 1
                                    /\ p \in Matching' \/ p \notin Stored => Rank(q) <= Rank(q)'
  BY ChangedListing
<1>2. /\ \A q \in Matching : Rank(q) \in Nat
      /\ \A q, r \in Matching : Rank(q) = Rank(r) => q = r
      /\ IsFiniteSet(Matching)
  BY <1>1, ProposalRanks
<1>3. IsFiniteSet(S)
  <2>1. S \subseteq Matching
    BY DEF Slipped
  <2> QED BY <1>2, <2>1, FS_Subset
<1>4. changes \in Nat /\ Cardinality(S) <= changes /\ Cardinality(S) \in Nat
  BY <1>3, FS_CardinalityType DEF TypeOK, Tolerable
<1>5. changes' = IF p \in Stored THEN changes + 1 ELSE changes
  BY DEF ChangeProposal
<1>6. CASE p \notin Stored
  <2>1. ASSUME NEW q \in T PROVE q \in S
    <3>1. q \in begun /\ q \in Matching' \ {p} /\ q \notin shown /\ Rank(q)' < place
      BY <1>6
    <3>2. q \in Matching /\ Rank(q) <= Rank(q)' /\ Rank(q)' \in Nat /\ Rank(q) \in Nat
      BY <1>1, <1>2, <1>6, <3>1
    <3> QED BY <3>1, <3>2 DEF Slipped
  <2> HIDE DEF S, T
  <2>2. Cardinality(T) <= Cardinality(S) /\ Cardinality(T) \in Nat
    BY <2>1, <1>3, NoMore
  <2> QED BY <2>2, <1>4, <1>5, <1>6 DEF T
<1>7. CASE p \in Stored
  <2>1. \E x : T \subseteq S \cup {x}
    <3>1. CASE p \in Matching'
      <4>1. ASSUME NEW q \in T, q # p PROVE q \in S
        <5>1. q \in begun /\ q \in Matching' \ {p} /\ q \notin shown /\ Rank(q)' < place
          BY <4>1
        <5>2. q \in Matching /\ Rank(q) <= Rank(q)' /\ Rank(q)' \in Nat /\ Rank(q) \in Nat
          BY <1>1, <1>2, <3>1, <5>1
        <5> QED BY <5>1, <5>2 DEF Slipped
      <4> QED BY <4>1
    <3>2. CASE p \notin Matching'
      <4>1. ASSUME NEW q \in T, q \notin S
            PROVE  q \in Matching /\ Rank(q) = place
        <5>1. q \in begun /\ q \in Matching' \ {p} /\ q \notin shown /\ Rank(q)' < place
          BY <3>2, <4>1
        <5>2. q \in Matching /\ Rank(q) <= Rank(q)' + 1 /\ Rank(q)' \in Nat /\ Rank(q) \in Nat
          BY <1>1, <1>2, <5>1
        <5>3. ~(Rank(q) < place)
          BY <4>1, <5>1, <5>2 DEF Slipped
        <5> QED BY <5>1, <5>2, <5>3
      <4>2. \A q, r \in T \ S : q = r
        BY <4>1, <1>2
      <4> QED BY <4>2
    <3> QED BY <3>1, <3>2
  <2>2. PICK x : T \subseteq S \cup {x}
    BY <2>1
  <2> HIDE DEF S, T
  <2>3. Cardinality(T) <= Cardinality(S) + 1 /\ Cardinality(T) \in Nat
    BY <2>2, <1>3, OneMore
  <2> QED BY <2>3, <1>4, <1>5, <1>7 DEF T
<1> QED BY <1>6, <1>7

LEMMA OneReturns ==
  ASSUME TypeOK, ByRowid, begun \subseteq Stored, NEW p \in Proposal, ChangeProposal(p),
         NEW shown, Tolerable(Unseen(shown))
  PROVE  Cardinality((begun \cap Matching') \ shown) <= changes'
<1> DEFINE S == Unseen(shown)
           T == (begun \cap Matching') \ shown
<1>1. Listed("proposals") /\ Matching' \subseteq Matching \cup {p}
  BY ChangedListing
<1>2. IsFiniteSet(S)
  <2>1. S \subseteq Matching
    BY DEF Unseen
  <2> QED BY <1>1, <2>1, ProposalRanks, FS_Subset
<1>3. changes \in Nat /\ Cardinality(S) <= changes /\ Cardinality(S) \in Nat
  BY <1>2, FS_CardinalityType DEF TypeOK, Tolerable
<1>4. changes' = IF p \in Stored THEN changes + 1 ELSE changes
  BY DEF ChangeProposal
<1>5. T \subseteq S \cup {p} /\ (p \notin Stored => T \subseteq S)
  BY <1>1 DEF Unseen
<1> HIDE DEF S, T
<1>6. CASE p \notin Stored
  <2>1. Cardinality(T) <= Cardinality(S) /\ Cardinality(T) \in Nat
    BY <1>2, <1>5, <1>6, NoMore
  <2> QED BY <2>1, <1>3, <1>4, <1>6 DEF T
<1>7. CASE p \in Stored
  <2>1. Cardinality(T) <= Cardinality(S) + 1 /\ Cardinality(T) \in Nat
    BY <1>2, <1>5, OneMore
  <2> QED BY <2>1, <1>3, <1>4, <1>7 DEF T
<1> QED BY <1>6, <1>7

LEMMA ChangeSlips ==
  ASSUME ProposalInv, NEW p \in Proposal, ChangeProposal(p)
  PROVE  ListInv'
<1>1. TypeOK /\ ListInv /\ UNCHANGED <<offset, pages, answers, seen, begun>>
  BY DEF ProposalInv, IInv, ChangeProposal, pager
<1>2. ByRowid /\ begun \subseteq Stored /\ Slips /\ LastPages /\ Paging
  BY <1>1 DEF ListInv
<1>3. ByRowid'
  BY <1>1, <1>2, ByRowidKept
<1>4. Stored' = Stored \cup {p}
  BY <1>1, ChangedTable
<1>5. begun' \subseteq Stored'
  BY <1>1, <1>2, <1>4
<1>6. Known' = Known
  BY <1>1 DEF Known
<1>7. offset \in Int /\ \A a \in Known : a.offset + PageSize \in Int
  BY <1>1, BoundsAssumption DEF TypeOK, Known, Answer
<1>8. Slips'
  <2>1. Cardinality({q \in (begun \cap Matching') \ seen : Rank(q)' < offset}) <= changes'
    BY <1>1, <1>2, <1>7, OneSlips DEF Slips
  <2>2. ASSUME NEW a \in Known
        PROVE  Cardinality({q \in (begun \cap Matching') \ (seen \cup a.items) :
                              Rank(q)' < a.offset + PageSize}) <= changes'
    <3>1. a.offset + PageSize \in Int /\ Tolerable(Slipped(a.offset + PageSize, seen \cup a.items))
      BY <1>2, <1>7 DEF Slips
    <3> QED BY <1>1, <1>2, <3>1, OneSlips
  <2> QED BY <1>1, <1>6, <2>1, <2>2 DEF Slips, Tolerable, Slipped
<1>9. LastPages'
  <2>1. Cardinality(Stored') <= TotalCap => Cardinality(Stored) <= TotalCap
    <3>1. IsFiniteSet(Stored')
      BY TableAssumption, FS_Subset DEF Stored
    <3>2. Cardinality(Stored) <= Cardinality(Stored')
          /\ Cardinality(Stored) \in Nat /\ Cardinality(Stored') \in Nat
      BY <1>4, <3>1, NoMore
    <3> QED BY <3>2, BoundsAssumption
  <2>2. ASSUME NEW a \in Known, a.offset + PageSize >= a.total, Cardinality(Stored') <= TotalCap
        PROVE  Cardinality((begun \cap Matching') \ (seen \cup a.items)) <= changes'
    <3>1. Tolerable(Unseen(seen \cup a.items))
      BY <1>2, <2>1, <2>2 DEF LastPages
    <3> QED BY <1>1, <1>2, <3>1, OneReturns
  <2> QED BY <1>1, <1>6, <2>2 DEF LastPages, Tolerable, Unseen
<1>10. Paging'
  BY <1>1, <1>2 DEF Paging
<1> QED BY <1>3, <1>5, <1>8, <1>9, <1>10 DEF ListInv

(* What leaves the tables alone leaves the listing as it was.              *)
LEMMA SameProposals ==
  ASSUME UNCHANGED <<rows, older, query>>, UNCHANGED audit
  PROVE  /\ Matching' = Matching /\ Stored' = Stored /\ ByRowid' = ByRowid
         /\ Listed("proposals")' = Listed("proposals")
         /\ \A x : Rank(x)' = Rank(x)
BY SameListing DEF Stored, ByRowid, Listed

(* To have seen more, or to ask about an earlier place, is no worse.       *)
LEMMA SlipLess ==
  ASSUME TypeOK, ByRowid, Listed("proposals"),
         NEW place \in Int, NEW earlier \in Int, earlier <= place,
         NEW shown, NEW more, \A p \in begun : p \in shown => p \in more,
         Tolerable(Slipped(place, shown))
  PROVE  Tolerable(Slipped(earlier, more))
<1> DEFINE S == Slipped(place, shown)
           T == Slipped(earlier, more)
<1>1. IsFiniteSet(Matching) /\ \A p \in Matching : Rank(p) \in Nat
  BY ProposalRanks
<1>2. S \subseteq Matching
  BY DEF Slipped
<1>3. IsFiniteSet(S)
  BY <1>1, <1>2, FS_Subset
<1>4. T \subseteq S
  BY <1>1 DEF Slipped
<1>5. Cardinality(S) <= changes /\ changes \in Nat
  BY DEF Tolerable, TypeOK
<1> HIDE DEF S, T
<1>6. Cardinality(T) \in Nat /\ Cardinality(S) \in Nat /\ Cardinality(T) <= Cardinality(S)
  BY <1>3, <1>4, NoMore
<1>7. Cardinality(T) <= changes
  BY <1>5, <1>6
<1> QED BY <1>7 DEF Tolerable, T

LEMMA UnseenLess ==
  ASSUME TypeOK, NEW shown, NEW more, \A p \in begun : p \in shown => p \in more,
         Tolerable(Unseen(shown))
  PROVE  Tolerable(Unseen(more))
<1> DEFINE S == Unseen(shown)
           T == Unseen(more)
<1>1. S \subseteq Matching /\ T \subseteq S
  BY DEF Unseen
<1>2. IsFiniteSet(S)
  BY <1>1, MatchingFinite, FS_Subset
<1>3. Cardinality(S) <= changes /\ changes \in Nat
  BY DEF Tolerable, TypeOK
<1> HIDE DEF S, T
<1>4. Cardinality(T) \in Nat /\ Cardinality(S) \in Nat /\ Cardinality(T) <= Cardinality(S)
  BY <1>1, <1>2, NoMore
<1>5. Cardinality(T) <= changes
  BY <1>3, <1>4
<1> QED BY <1>5 DEF Tolerable, T

(* An answered page holds all the rows of its places.  When it starts the  *)
(* reading, nothing has slipped yet.                                       *)
LEMMA AnswerSlips ==
  ASSUME ProposalInv, Listed("proposals"), AnswerPage
  PROVE  ListInv'
<1>1. UNCHANGED <<rows, older, audit, query, offset, pages, seen>>
  BY DEF AnswerPage
<1>2. TypeOK /\ ByRowid /\ begun \subseteq Stored /\ Slips /\ LastPages /\ Paging
  BY DEF ProposalInv, IInv, ListInv
<1>3. /\ Matching' = Matching /\ Stored' = Stored /\ ByRowid'
      /\ \A x : Rank(x)' = Rank(x)
  BY <1>1, <1>2, SameProposals
<1>4. /\ IsFiniteSet(Matching) /\ Matching \subseteq Stored /\ Cardinality(Matching) \in Nat
      /\ \A p \in Matching : Rank(p) \in Nat /\ Rank(p) < Cardinality(Matching)
      /\ Cardinality(Stored) <= TotalCap => Cardinality(Matching) <= Total
  BY <1>2, ProposalRanks
<1>5. \/ begun' = begun /\ changes' = changes
      \/ begun' = Matching /\ changes' = 0 /\ DOMAIN pages = {} /\ answers = {}
  BY DEF AnswerPage
<1>6. begun' \subseteq Stored
  BY <1>2, <1>4, <1>5
<1>7. offset \in Nat /\ PageSize \in Nat /\ Total \in Nat /\ changes' \in Nat
  BY <1>2, <1>5, BoundsAssumption, TotalNat DEF TypeOK
<1> DEFINE new  == [offset |-> offset, items |-> Page(offset), total |-> Total]
           past == {p \in (begun' \cap Matching) \ seen : Rank(p) < offset}
<1>8. Known' = Known \cup {new}
  BY <1>1 DEF AnswerPage, Known
<1>9. IsFiniteSet(past) /\ Cardinality(past) \in Nat /\ Cardinality(past) <= changes'
  <2>1. IsFiniteSet(past)
    <3>1. past \subseteq Matching
      OBVIOUS
    <3> QED BY <1>4, <3>1, FS_Subset
  <2>2. CASE begun' = begun /\ changes' = changes
    <3>1. past = Slipped(offset, seen)
      BY <2>2 DEF Slipped
    <3>2. Cardinality(past) <= changes'
      BY <1>2, <2>2, <3>1 DEF Slips, Tolerable
    <3> QED BY <2>1, <3>2, FS_CardinalityType
  <2>3. CASE begun' = Matching /\ changes' = 0 /\ DOMAIN pages = {} /\ answers = {}
    <3>1. offset = 0
      BY <1>2, <2>3 DEF Paging
    <3>2. past = {}
      BY <1>4, <3>1
    <3> QED BY <2>1, <2>3, <3>2, FS_EmptySet
  <2> QED BY <1>5, <2>2, <2>3
<1>10. ASSUME NEW p \in (begun' \cap Matching) \ (seen \cup Page(offset)),
              Rank(p) < offset + PageSize
       PROVE  p \in past
  <2>1. Rank(p) \in Nat /\ Rank(p) \notin offset .. offset + PageSize - 1
    BY <1>4 DEF Page
  <2> QED BY <1>7, <1>10, <2>1
<1> DEFINE slipped == {p \in (begun' \cap Matching) \ (seen \cup Page(offset)) :
                         Rank(p) < offset + PageSize}
           unseen  == (begun' \cap Matching) \ (seen \cup Page(offset))
<1>11. Cardinality(slipped) <= changes'
  <2>1. slipped \subseteq past
    BY <1>10
  <2> HIDE DEF slipped, past
  <2>2. Cardinality(slipped) \in Nat /\ Cardinality(slipped) <= Cardinality(past)
    BY <1>9, <2>1, NoMore
  <2> QED BY <1>7, <1>9, <2>2
<1>12. offset + PageSize >= Total /\ Cardinality(Stored) <= TotalCap
         => Cardinality(unseen) <= changes'
  <2> SUFFICES ASSUME offset + PageSize >= Total, Cardinality(Stored) <= TotalCap
               PROVE  Cardinality(unseen) <= changes'
    OBVIOUS
  <2>1. \A p \in Matching : Rank(p) < offset + PageSize
    BY <1>4, <1>7
  <2>2. unseen \subseteq past
    BY <1>10, <2>1
  <2> HIDE DEF unseen, past
  <2>3. Cardinality(unseen) \in Nat /\ Cardinality(unseen) <= Cardinality(past)
    BY <1>9, <2>2, NoMore
  <2> QED BY <1>7, <1>9, <2>3
<1>13. ASSUME NEW a \in Known PROVE begun' = begun /\ changes' = changes
  BY <1>5 DEF Known
<1>14. Slips'
  <2>1. Tolerable(Slipped(offset, seen))'
    BY <1>1, <1>3, <1>9 DEF Tolerable, Slipped
  <2>2. ASSUME NEW a \in Known
        PROVE  Cardinality({p \in (begun' \cap Matching) \ (seen \cup a.items) :
                              Rank(p) < a.offset + PageSize}) <= changes'
    BY <1>2, <1>13 DEF Slips, Tolerable, Slipped
  <2>3. Cardinality({p \in (begun' \cap Matching) \ (seen \cup new.items) :
                       Rank(p) < new.offset + PageSize}) <= changes'
    BY <1>11
  <2> HIDE DEF new
  <2>4. \A a \in Known' :
          Cardinality({p \in (begun' \cap Matching) \ (seen \cup a.items) :
                         Rank(p) < a.offset + PageSize}) <= changes'
    BY <1>8, <2>2, <2>3
  <2> QED BY <1>1, <1>3, <2>1, <2>4 DEF Slips, Tolerable, Slipped
<1>15. LastPages'
  <2>1. ASSUME NEW a \in Known, a.offset + PageSize >= a.total, Cardinality(Stored) <= TotalCap
        PROVE  Cardinality((begun' \cap Matching) \ (seen \cup a.items)) <= changes'
    BY <1>2, <1>13, <2>1 DEF LastPages, Tolerable, Unseen
  <2>2. new.offset + PageSize >= new.total /\ Cardinality(Stored) <= TotalCap
          => Cardinality((begun' \cap Matching) \ (seen \cup new.items)) <= changes'
    BY <1>12
  <2> HIDE DEF new
  <2>3. \A a \in Known' :
          a.offset + PageSize >= a.total /\ Cardinality(Stored) <= TotalCap
            => Cardinality((begun' \cap Matching) \ (seen \cup a.items)) <= changes'
    BY <1>8, <2>1, <2>2
  <2> QED BY <1>1, <1>3, <2>3 DEF LastPages, Tolerable, Unseen
<1>16. Paging'
  BY <1>1, <1>2 DEF Paging
<1> QED BY <1>3, <1>6, <1>14, <1>15, <1>16 DEF ListInv

(* The client's own steps: it comes to another place, where no more rows   *)
(* are behind it, and displays what it has.                                *)
LEMMA MoveSlips ==
  ASSUME TypeOK, Listed("proposals"), ListInv,
         NEW place \in Int, place = offset',
         Tolerable(Slipped(place, seen')),
         seen \subseteq seen', Known' \subseteq Known, Paging',
         UNCHANGED <<rows, older, query, audit, begun, changes>>
  PROVE  ListInv'
<1>1. ByRowid /\ begun \subseteq Stored /\ Slips /\ LastPages
  BY DEF ListInv
<1>2. /\ Matching' = Matching /\ Stored' = Stored /\ ByRowid'
      /\ \A x : Rank(x)' = Rank(x)
  BY <1>1, SameProposals
<1>3. ASSUME NEW a \in Known
      PROVE  /\ Tolerable(Slipped(a.offset + PageSize, seen' \cup a.items))
             /\ a.offset + PageSize >= a.total /\ Cardinality(Stored) <= TotalCap =>
                  Tolerable(Unseen(seen' \cup a.items))
  <2>1. a.offset + PageSize \in Int
    BY BoundsAssumption DEF TypeOK, Known, Answer
  <2>2. \A p \in begun : p \in seen \cup a.items => p \in seen' \cup a.items
    OBVIOUS
  <2>3. Tolerable(Slipped(a.offset + PageSize, seen \cup a.items))
    BY <1>1 DEF Slips
  <2>4. Tolerable(Slipped(a.offset + PageSize, seen' \cup a.items))
    BY <1>1, <2>1, <2>2, <2>3, SlipLess
  <2>5. ASSUME a.offset + PageSize >= a.total, Cardinality(Stored) <= TotalCap
        PROVE  Tolerable(Unseen(seen' \cup a.items))
    <3>1. Tolerable(Unseen(seen \cup a.items))
      BY <1>1, <2>5 DEF LastPages
    <3> QED BY <2>2, <3>1, UnseenLess
  <2> QED BY <2>4, <2>5
<1>4. Slips'
  BY <1>2, <1>3 DEF Slips, Tolerable, Slipped
<1>5. LastPages'
  BY <1>2, <1>3 DEF LastPages, Tolerable, Unseen
<1> QED BY <1>1, <1>2, <1>4, <1>5 DEF ListInv

LEMMA ReceiveSlips ==
  ASSUME ProposalInv, Listed("proposals"), NEW a \in answers, ReceivePage(a)
  PROVE  ListInv'
<1>1. TypeOK /\ ListInv /\ ByRowid /\ Slips /\ Paging
  BY DEF ProposalInv, IInv, ListInv
<1>2. /\ answers' = answers \ {a}
      /\ pages' = [from \in DOMAIN pages \cup {a.offset} |->
                     IF from = a.offset THEN a ELSE pages[from]]
      /\ seen' = seen \cup Items(offset, pages')
      /\ UNCHANGED <<rows, older, audit, query, offset, begun, changes>>
  BY DEF ReceivePage, Display
<1>3. DOMAIN pages' = DOMAIN pages \cup {a.offset}
      /\ \A from \in DOMAIN pages' : pages'[from] = a \/ pages'[from] = pages[from]
  BY <1>2
<1>4. Known' \subseteq Known
  BY <1>2 DEF Known
<1>5. Paging'
  <2>1. \A from \in DOMAIN pages' : pages'[from].offset = from
    BY <1>1, <1>2 DEF Paging
  <2>2. offset \in DOMAIN pages' => pages'[offset].items \subseteq seen'
    BY <1>2 DEF Items
  <2> QED BY <1>2, <1>3, <2>1, <2>2 DEF Paging
<1>6. Tolerable(Slipped(offset, seen'))
  <2>1. offset \in Int /\ seen \subseteq seen'
    BY <1>1, <1>2 DEF TypeOK
  <2> QED BY <1>1, <2>1, SlipLess DEF Slips
<1>7. /\ offset \in Int /\ offset = offset' /\ seen \subseteq seen'
      /\ UNCHANGED <<rows, older, query, audit, begun, changes>>
  BY <1>1, <1>2 DEF TypeOK
<1> QED BY <1>1, <1>4, <1>5, <1>6, <1>7, MoveSlips

LEMMA TurnSlips ==
  ASSUME ProposalInv, Listed("proposals"), NEW from \in Nat, Turn(from),
         NEW place \in Int, from <= place, NEW shown, shown \subseteq seen,
         Tolerable(Slipped(place, shown)),
         DOMAIN pages = {} => from = 0
  PROVE  ListInv'
<1>1. TypeOK /\ ListInv /\ ByRowid /\ Paging
  BY DEF ProposalInv, IInv, ListInv
<1>2. /\ offset' = from /\ seen' = seen \cup Items(from, pages)
      /\ UNCHANGED <<rows, older, audit, query, pages, answers, begun, changes>>
  BY DEF Turn, Display
<1>3. Known' = Known
  BY <1>2 DEF Known
<1>4. Paging'
  <2>1. from \in DOMAIN pages => pages[from].items \subseteq seen'
    BY <1>2 DEF Items
  <2> QED BY <1>1, <1>2, <2>1 DEF Paging
<1>5. Tolerable(Slipped(from, seen'))
  <2>1. from \in Int /\ seen \subseteq seen'
    BY <1>2
  <2> QED BY <1>1, <2>1, SlipLess
<1>6. /\ from \in Int /\ from = offset' /\ seen \subseteq seen' /\ Known' \subseteq Known
      /\ UNCHANGED <<rows, older, query, audit, begun, changes>>
  BY <1>2, <1>3
<1> QED BY <1>1, <1>4, <1>5, <1>6, MoveSlips

LEMMA ButtonsSlip ==
  ASSUME ProposalInv, Listed("proposals"), NextPage \/ PreviousPage \/ FirstPage
  PROVE  ListInv'
<1>1. TypeOK /\ ByRowid /\ Slips /\ Paging
  BY DEF ProposalInv, IInv, ListInv
<1>2. offset \in Nat /\ PageSize \in Nat
  BY <1>1, BoundsAssumption DEF TypeOK
<1>3. CASE NextPage
  <2>1. offset \in DOMAIN pages /\ Turn(offset + PageSize)
    BY <1>3 DEF NextPage
  <2>2. pages[offset] \in Known /\ pages[offset].offset = offset
        /\ pages[offset].items \subseteq seen
    BY <1>1, <2>1 DEF Paging, Known
  <2>3. Tolerable(Slipped(offset + PageSize, seen \cup pages[offset].items))
    BY <1>1, <2>2 DEF Slips
  <2> QED BY <1>2, <2>1, <2>2, <2>3, TurnSlips
<1>4. ASSUME NEW from \in Nat, from <= offset, Turn(from), DOMAIN pages = {} => from = 0
      PROVE  ListInv'
  <2>1. Tolerable(Slipped(offset, seen)) /\ offset \in Int
    BY <1>1, <1>2 DEF Slips
  <2> QED BY <1>4, <2>1, TurnSlips
<1>5. CASE PreviousPage
  <2> DEFINE from == IF offset > PageSize THEN offset - PageSize ELSE 0
  <2>1. from \in Nat /\ from <= offset
    BY <1>2
  <2>2. Turn(from) /\ DOMAIN pages # {}
    BY <1>5 DEF PreviousPage
  <2> HIDE DEF from
  <2> QED BY <1>4, <2>1, <2>2
<1>6. CASE FirstPage
  BY <1>2, <1>4, <1>6 DEF FirstPage
<1> QED BY <1>3, <1>5, <1>6

LEMMA ProposalInvInit == Init => ProposalInv
<1> SUFFICES ASSUME Init PROVE ProposalInv
  OBVIOUS
<1>1. IInv /\ TypeOK
  BY InitIInv DEF IInv
<1>2. /\ Known = {} /\ begun = {} /\ older = {} /\ Stored = {} /\ offset = 0 /\ changes = 0
      /\ pages = << >>
  BY DEF Init, Known, Stored
<1>3. Slipped(offset, seen) = {}
  BY <1>2 DEF Slipped
<1>4. Slips
  BY <1>2, <1>3, FS_EmptySet DEF Slips, Tolerable
<1>5. ByRowid /\ LastPages /\ Paging
  BY <1>2 DEF ByRowid, LastPages, Paging
<1> QED BY <1>1, <1>2, <1>4, <1>5 DEF ProposalInv, ListInv

LEMMA ProposalInvStep == ProposalInv /\ IInv' /\ [Next]_vars => ProposalInv'
<1> SUFFICES ASSUME ProposalInv, IInv', [Next]_vars, Listed("proposals")' PROVE ListInv'
  BY DEF ProposalInv
<1>1. query' = query /\ Listed("proposals")
  BY DEF Next, AppendEntry, ChangeProposal, pager, AnswerPage, ReceivePage, NextPage,
         PreviousPage, FirstPage, Turn, vars, Listed
<1>2. ListInv
  BY <1>1 DEF ProposalInv
<1>3. ASSUME NEW e \in Entry, AppendEntry(e) PROVE ListInv'
  BY <1>1, <1>3 DEF AppendEntry, Listed
<1>4. CASE UNCHANGED vars
  <2>1. UNCHANGED <<rows, older, audit, query, offset, pages, answers, seen, begun, changes>>
    BY <1>4 DEF vars, pager
  <2>2. /\ Matching' = Matching /\ Stored' = Stored /\ ByRowid' = ByRowid
        /\ \A x : Rank(x)' = Rank(x)
    BY <2>1, SameProposals
  <2>3. Known' = Known /\ Paging'
    BY <1>2, <2>1 DEF Known, Paging, ListInv
  <2>4. Slips' /\ LastPages'
    BY <1>2, <2>1, <2>2, <2>3 DEF ListInv, Slips, LastPages, Tolerable, Slipped, Unseen
  <2> QED BY <1>2, <2>1, <2>2, <2>3, <2>4 DEF ListInv
<1> QED BY <1>1, <1>3, <1>4, ChangeSlips, AnswerSlips, ReceiveSlips, ButtonsSlip DEF Next

(* A reader of the proposals who is at the last page has missed at most    *)
(* one of those that still match for every change since the reading began, *)
(* whatever the page size and however many proposals there are, as long as *)
(* the total can count them.                                               *)
THEOREM ProposalsAreRead == Spec => []ProposalsMissed
<1>1. ProposalInv => ProposalsMissed
  <2> SUFFICES ASSUME ProposalInv, Listed("proposals"), AtLastPage,
                      Cardinality(Stored) <= TotalCap
               PROVE  Cardinality((begun \cap Matching) \ seen) <= changes
    BY DEF ProposalsMissed
  <2>1. LastPages /\ Paging /\ offset \in DOMAIN pages
    BY DEF ProposalInv, ListInv, AtLastPage
  <2>2. /\ pages[offset] \in Known /\ pages[offset].offset = offset
        /\ pages[offset].items \subseteq seen
    BY <2>1 DEF Paging, Known
  <2>3. Tolerable(Unseen(seen \cup pages[offset].items))
    BY <2>1, <2>2 DEF LastPages, AtLastPage
  <2>4. seen \cup pages[offset].items = seen
    BY <2>2
  <2> QED BY <2>3, <2>4 DEF Tolerable, Unseen
<1> QED BY <1>1, ProposalInvInit, ProposalInvStep, Invariance, PTL DEF Spec
=============================================================================
