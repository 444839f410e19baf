--------------------------- MODULE ProposalStore ---------------------------
(***************************************************************************)
(* The SQLite table of evolution proposals, and the review queue that is   *)
(* nothing but a view of it: a proposal waits when its status says so.     *)
(* Of a row the models keep the columns that change after its creation.    *)
(* Of the rowids they keep the order: the queue is listed by it.           *)
(***************************************************************************)
EXTENDS Naturals

CONSTANTS
  Proposal,  \* proposal ids
  Reviewer,  \* names of reviewers
  Nobody,    \* the reviewer of a row without one (NULL)
  NoRow      \* what get finds for an id that was never saved

VARIABLES
  rows,      \* the row of each proposal
  older      \* the pairs <<p, q>> such that p's row was inserted before q's

Status == {"pending", "shadow_running", "hitl_pending", "auto_promoted",
           "hitl_approved", "rejected"}
GateDecision == {"auto_promote", "hitl_pending"}

Row == [status: Status, gate: GateDecision \cup {"none"},
        reviewer: Reviewer \cup {Nobody}]

ASSUME RowsAssumption == Nobody \notin Reviewer /\ NoRow \notin Row

Stored  == {p \in Proposal : rows[p] # NoRow}
Pending == {p \in Stored : rows[p].status = "hitl_pending"}

(* The order in which list_by_status gives the pending rows.               *)
Ahead == {pair \in older : pair[1] \in Pending /\ pair[2] \in Pending}

(* A proposal as its author creates it.                                    *)
Fresh == [status |-> "pending", gate |-> "none", reviewer |-> Nobody]

(* Mutation: an existing row is updated in place and keeps its rowid.      *)
SaveInPlace(p, row) ==
  /\ rows' = [rows EXCEPT ![p] = row]
  /\ older' = IF p \in Stored THEN older ELSE older \cup (Stored \X {p})

(* INSERT OR REPLACE: the whole row, under a new rowid.                    *)
Save(p, row) ==
  /\ rows' = [rows EXCEPT ![p] = row]
  /\ older' = {pair \in older : p \notin {pair[1], pair[2]}}
                \cup ((Stored \ {p}) \X {p})

(* UPDATE ... WHERE id: nothing happens to an id that is not there.        *)
UpdateStatus(p, status) ==
  /\ rows' = IF p \in Stored THEN [rows EXCEPT ![p].status = status] ELSE rows
  /\ UNCHANGED older

(* Mutation: the parameters of the statement are swapped.                  *)
UpdateGateDecisionSwapped(p, gate, status) ==
  /\ rows' = IF p \in Stored
             THEN [rows EXCEPT ![p] = [status |-> gate, gate |-> status,
                                       reviewer |-> Nobody]]
             ELSE rows
  /\ UNCHANGED older

UpdateGateDecision(p, gate, status) ==
  /\ rows' = IF p \in Stored
             THEN [rows EXCEPT ![p] = [status |-> status, gate |-> gate,
                                       reviewer |-> Nobody]]
             ELSE rows
  /\ UNCHANGED older

(* Mutation: the snapshot is saved as it is.                               *)
EnqueueAsItIs(p, snapshot) == Save(p, snapshot)

(* PersistentHITLQueue.enqueue saves the snapshot its caller holds.        *)
Enqueue(p, snapshot) == Save(p, [snapshot EXCEPT !.status = "hitl_pending"])

(* Mutation: the status of the row is not looked at.                       *)
DecideAnything(p, reviewer, status) ==
  /\ p \in Stored
  /\ Save(p, [rows[p] EXCEPT !.status = status, !.reviewer = reviewer])

(* approve and reject read the row again and refuse one that is not        *)
(* pending (the admin API answers 404).                                    *)
Decide(p, reviewer, status) ==
  /\ p \in Pending
  /\ Save(p, [rows[p] EXCEPT !.status = status, !.reviewer = reviewer])
=============================================================================
