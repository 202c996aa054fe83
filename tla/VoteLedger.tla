----------------------------- MODULE VoteLedger -----------------------------
(***************************************************************************)
(* What the arrows of the app promise, without copies, calls or writes: for *)
(* every yak a phone is in favour (1), against (-1) or neither (0), pressing *)
(* the arrow of the present vote withdraws it, pressing the other one       *)
(* replaces it, and a yak counts what the votes of all phones add up to.    *)
(***************************************************************************)
EXTENDS Integers

CONSTANTS Phones, Docs

VARIABLES
    vote,       \* vote[p][d]
    count       \* count[d]: where d started, plus all votes

ledgerVars == <<vote, count>>

LedgerInit ==
    /\ vote = [p \in Phones |-> [d \in Docs |-> 0]]
    /\ count \in [Docs -> Int]

\* Phone p presses the up (1) or the down (-1) arrow of d.
Press(p, d, arrow) ==
    LET new == IF vote[p][d] = arrow THEN 0 ELSE arrow
    IN  /\ vote' = [vote EXCEPT ![p][d] = new]
        /\ count' = [count EXCEPT ![d] = @ + new - vote[p][d]]

LedgerNext == \E p \in Phones, d \in Docs : Press(p, d, 1) \/ Press(p, d, -1)

LedgerSpec == LedgerInit /\ [][LedgerNext]_ledgerVars

=============================================================================
