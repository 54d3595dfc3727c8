----------------------------- MODULE Settlement -----------------------------
(***************************************************************************)
(* What the protocol promises the two parties of a deal, with no programs, *)
(* keeper or transactions in sight: the lender's money leaves only against *)
(* committed collateral, committed collateral goes back only against a     *)
(* settled debt, and is taken only when money was lent.                    *)
(***************************************************************************)
CONSTANT Deals

VARIABLES
  collateral,  \* none, committed, returned to the borrower, or forfeited
  debt         \* none, owed, settled in full, or written off

vars == <<collateral, debt>>

Init ==
  /\ collateral = [d \in Deals |-> "none"]
  /\ debt = [d \in Deals |-> "none"]

Commit(d) ==
  /\ collateral[d] = "none"
  /\ collateral' = [collateral EXCEPT ![d] = "committed"]
  /\ UNCHANGED debt

Lend(d) ==
  /\ debt[d] = "none"
  /\ collateral[d] = "committed"
  /\ debt' = [debt EXCEPT ![d] = "owed"]
  /\ UNCHANGED collateral

Discharge(d, how) ==
  /\ debt[d] = "owed"
  /\ debt' = [debt EXCEPT ![d] = how]
  /\ UNCHANGED collateral

Return(d) ==
  /\ collateral[d] = "committed"
  /\ debt[d] = "settled"
  /\ collateral' = [collateral EXCEPT ![d] = "returned"]
  /\ UNCHANGED debt

Forfeit(d) ==
  /\ collateral[d] = "committed"
  /\ debt[d] # "none"
  /\ collateral' = [collateral EXCEPT ![d] = "forfeited"]
  /\ UNCHANGED debt

Next ==
  \E d \in Deals :
    \/ Commit(d)
    \/ Lend(d)
    \/ \E how \in {"settled", "writtenOff"} : Discharge(d, how)
    \/ Return(d)
    \/ Forfeit(d)

Spec == Init /\ [][Next]_vars
=============================================================================
