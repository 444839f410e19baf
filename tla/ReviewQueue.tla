---------------------------- MODULE ReviewQueue ----------------------------
(***************************************************************************)
(* What reviewers may rely on, however the proposals are stored: the queue *)
(* is first in, first out; a proposal enqueued again goes to its end; a    *)
(* verdict is accepted only while the proposal waits, and ends the wait.   *)
(* Whoever submitted a proposal may withdraw it.                           *)
(***************************************************************************)
EXTENDS Sequences

CONSTANTS Proposal, \* proposal ids
          Reviewer

VARIABLES waiting,  \* the proposals that wait for a verdict
          ahead,    \* the pairs <<p, q>> of them such that p is before q
          verdicts  \* the verdicts accepted so far, in order

vars == <<waiting, ahead, verdicts>>

Verdict == [proposal: Proposal, reviewer: Reviewer, approved: BOOLEAN]

Without(p) == {pair \in ahead : p \notin {pair[1], pair[2]}}

Init == waiting = {} /\ ahead = {} /\ verdicts = << >>

Enqueue(p) ==
  /\ waiting' = waiting \cup {p}
  /\ ahead' = Without(p) \cup ((waiting \ {p}) \X {p})
  /\ UNCHANGED verdicts

Leave(p) ==
  /\ p \in waiting
  /\ waiting' = waiting \ {p}
  /\ ahead' = Without(p)

Decide(v)   == Leave(v.proposal) /\ verdicts' = Append(verdicts, v)
Withdraw(p) == Leave(p) /\ UNCHANGED verdicts

Next ==
  \/ \E p \in Proposal : Enqueue(p) \/ Withdraw(p)
  \/ \E v \in Verdict : Decide(v)

Spec == Init /\ [][Next]_vars
=============================================================================
