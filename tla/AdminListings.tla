---------------------------- MODULE AdminListings ----------------------------
(***************************************************************************)
(* A client paging through a listing of the admin API while the tables     *)
(* behind it change: the audit log, which is only appended to, or the      *)
(* proposals, whose rows change status and whose rowids change too.        *)
(*                                                                         *)
(* The client is the audit log page of the web UI, whose cache keeps every *)
(* page it fetched for one filter and may fetch it again at any time; a    *)
(* client of the proposals listing pages the same way.  A listing is       *)
(* answered in one step, its rows and its total together, and the answer   *)
(* may arrive late.  Each filter has a listing and a cache of its own, so  *)
(* one query is followed.  Times and the since and until of a query stand  *)
(* for their texts: it is the texts that the statement compares.           *)
(***************************************************************************)
EXTENDS ProposalStore, Integers, Sequences, FiniteSets

CONSTANTS
  Entry,        \* what audit rows say: actor, decision and time
  DimensionOf,  \* the dimension of each proposal
  Queries,      \* the listings a client may ask for
  Any,          \* a filter that is not set
  PageSize,     \* the limit of a request
  TotalCap,     \* how many proposals an unfiltered listing counts
  MaxRows,      \* bound on the rows of the audit log
  MaxChanges    \* bound on the changes to stored proposals

VARIABLES
  audit,    \* the audit log, oldest row first
  query,    \* the table listed, and the filters
  offset,   \* the offset of the page the client is at
  pages,    \* the client's cache: an answer for each offset it has
  answers,  \* the answers on their way to the client
  seen,     \* the rows displayed so far
  begun,    \* the rows that matched when the first page was answered
  changes   \* the changes to stored proposals since then

pager == <<query, offset, pages, answers, seen, begun>>
vars  == <<rows, older, audit, pager, changes>>

AuditQuery    == [table: {"audit"}, actor: {e.actor : e \in Entry} \cup {Any},
                  decision: {e.decision : e \in Entry} \cup {Any},
                  since: Nat \cup {Any}, until: Nat \cup {Any}]
ProposalQuery == [table: {"proposals"}, status: Status \cup {Any},
                  dimension: {DimensionOf[p] : p \in Proposal} \cup {Any}]

ASSUME EntryAssumption   == \A e \in Entry : e.ts \in Nat
ASSUME QueriesAssumption == Queries \subseteq AuditQuery \cup ProposalQuery
ASSUME TableAssumption   == IsFiniteSet(Proposal)
ASSUME AnyAssumption     == Any \notin Nat \cup Status
ASSUME BoundsAssumption  == /\ PageSize \in Nat \ {0} /\ TotalCap \in Nat
                            /\ MaxRows \in Nat /\ MaxChanges \in Nat
-----------------------------------------------------------------------------
Listed(table) == query.table = table

(* A clause of the WHERE exists only for a filter that is set.             *)
Passes(filter, value) == filter \in {Any, value}

(* The clauses that AuditLog.list and AuditLog.count have in common.       *)
Counted(e) == Passes(query.actor, e.actor) /\ Passes(query.decision, e.decision)

InTime(e) == /\ query.since = Any \/ e.ts >= query.since
             /\ query.until = Any \/ e.ts <= query.until

HasStatus(p) == Passes(query.status, rows[p].status)

Matching ==
  IF Listed("audit")
  THEN {i \in DOMAIN audit : Counted(audit[i]) /\ InTime(audit[i])}
  ELSE {p \in Stored : HasStatus(p) /\ Passes(query.dimension, DimensionOf[p])}

(* ORDER BY id DESC, ORDER BY rowid DESC: the rows before a row.           *)
Before(x) ==
  IF Listed("audit") THEN {i \in Matching : i > x}
                     ELSE {p \in Matching : <<x, p>> \in older}

(* Mutation: the offset counts the rows of the whole table.                *)
RankInTable(x) ==
  Cardinality(IF Listed("audit") THEN {i \in DOMAIN audit : i > x}
                                 ELSE {p \in Stored : <<x, p>> \in older})

Rank(x) == Cardinality(Before(x))

(* LIMIT and OFFSET.                                                       *)
Page(from) == {x \in Matching : Rank(x) \in from .. from + PageSize - 1}

(* Mutation: the total is taken from the page.                             *)
TotalOfPage == Cardinality(Page(offset))

(* The totals do not look at everything the page looks at: the audit log's *)
(* leaves out the times, the proposals' leaves out the dimension, and is   *)
(* taken from a listing of limited length unless a status is asked for.    *)
Total ==
  CASE Listed("audit") -> Cardinality({i \in DOMAIN audit : Counted(audit[i])})
    [] Listed("proposals") /\ query.status # Any ->
         Cardinality({p \in Stored : HasStatus(p)})
    [] OTHER -> IF Cardinality(Stored) <= TotalCap THEN Cardinality(Stored) ELSE TotalCap

Init ==
  /\ rows = [p \in Proposal |-> NoRow] /\ older = {} /\ audit = << >>
  /\ query \in Queries
  /\ offset = 0 /\ pages = << >> /\ answers = {}
  /\ seen = {} /\ begun = {}
  /\ changes = 0
-----------------------------------------------------------------------------
(* AuditLog.append: AUTOINCREMENT, whoever writes the row.                 *)
AppendEntry(e) ==
  /\ Listed("audit") /\ Len(audit) < MaxRows
  /\ audit' = Append(audit, e)
  /\ UNCHANGED <<rows, older, pager, changes>>

(* A submission, perhaps of a proposal that was submitted before; a run    *)
(* that starts its replay or rejects it; the gate that promotes or holds   *)
(* it; a reviewer who decides it.                                          *)
SubmitProposal(p) == Save(p, Fresh)
MarkProposal(p)    == p \in Stored /\ \E status \in {"shadow_running", "rejected"} :
                                        UpdateStatus(p, status)
PromoteProposal(p) == p \in Stored /\ UpdateGateDecision(p, "auto_promote", "auto_promoted")
HoldProposal(p)    == p \in Stored /\ Enqueue(p, Fresh)
DecideProposal(p)  == \E reviewer \in Reviewer :
                        Decide(p, reviewer, "hitl_approved") \/ Decide(p, reviewer, "rejected")

ChangeProposal(p) ==
  /\ Listed("proposals") /\ changes < MaxChanges
  /\ \/ SubmitProposal(p) \/ MarkProposal(p) \/ PromoteProposal(p)
     \/ HoldProposal(p) \/ DecideProposal(p)
  /\ changes' = IF p \in Stored THEN changes + 1 ELSE changes
  /\ UNCHANGED <<audit, pager>>
-----------------------------------------------------------------------------
(* What the client displays when it is at an offset.                       *)
Items(from, cache) == IF from \in DOMAIN cache THEN cache[from].items ELSE {}

Display(from, cache) == seen' = seen \cup Items(from, cache)

(* The gateway answers a request for the page the client is at.            *)
AnswerPage ==
  /\ \A a \in answers : a.offset # offset
  /\ answers' = answers \cup {[offset |-> offset, items |-> Page(offset), total |-> Total]}
  /\ IF DOMAIN pages = {} /\ answers = {}
     THEN begun' = Matching /\ changes' = 0
     ELSE UNCHANGED <<begun, changes>>
  /\ UNCHANGED <<rows, older, audit, query, offset, pages, seen>>

(* The answer arrives, and is displayed if the client is still there.      *)
ReceivePage(a) ==
  /\ answers' = answers \ {a}
  /\ pages' = [from \in DOMAIN pages \cup {a.offset} |->
                 IF from = a.offset THEN a ELSE pages[from]]
  /\ Display(offset, pages')
  /\ UNCHANGED <<rows, older, audit, query, offset, begun, changes>>

Turn(from) ==
  /\ offset' = from
  /\ Display(from, pages)
  /\ UNCHANGED <<rows, older, audit, query, pages, answers, begun, changes>>

(* The buttons are there when the page is; Next is by the page's total.    *)
NextPage ==
  /\ offset \in DOMAIN pages /\ offset + PageSize < pages[offset].total
  /\ Turn(offset + PageSize)

(* Mutation: the first page has a Previous button too.                     *)
PreviousOfFirst == offset \in DOMAIN pages /\ offset >= 0 /\ Turn(offset - PageSize)

PreviousPage ==
  /\ offset \in DOMAIN pages /\ offset # 0
  /\ Turn(IF offset > PageSize THEN offset - PageSize ELSE 0)

(* Typing in the filter, and deleting it again, leads to the first page.   *)
FirstPage == offset # 0 /\ Turn(0)

Next ==
  \/ \E e \in Entry : AppendEntry(e)
  \/ \E p \in Proposal : ChangeProposal(p)
  \/ AnswerPage
  \/ \E a \in answers : ReceivePage(a)
  \/ NextPage \/ PreviousPage \/ FirstPage

Spec == Init /\ [][Next]_vars
-----------------------------------------------------------------------------
Id == (Nat \ {0}) \cup Proposal
Answer == [offset: Nat, items: SUBSET Id, total: Nat]

(* Every variable has its type.                                            *)
TypeOK ==
  /\ rows \in [Proposal -> Row \cup {NoRow}] /\ older \subseteq Proposal \X Proposal
  /\ audit \in Seq(Entry) /\ query \in Queries
  /\ offset \in Nat /\ changes \in Nat
  /\ answers \subseteq Answer
  /\ DOMAIN pages \subseteq Nat
  /\ \A from \in DOMAIN pages : pages[from] \in Answer
  /\ seen \subseteq Id /\ begun \subseteq Id

AtLastPage == offset \in DOMAIN pages /\ offset + PageSize >= pages[offset].total

(* Whoever reads the audit log up to its last page has seen every matching *)
(* row there was when the reading began, although rows are appended on top *)
(* of the listing meanwhile, pages come from a cache and answers arrive    *)
(* late.                                                                   *)
AuditComplete == Listed("audit") /\ AtLastPage => begun \subseteq seen

(* A reader of the proposals misses at most one of those that still match  *)
(* for every change made to a stored proposal since the reading began:     *)
(* listing by offset loses rows to verdicts, and to nothing else, as long  *)
(* as the unfiltered total can count the table.                            *)
ProposalsMissed ==
  Listed("proposals") /\ AtLastPage /\ Cardinality(Stored) <= TotalCap =>
    Cardinality((begun \cap Matching) \ seen) <= changes
=============================================================================
