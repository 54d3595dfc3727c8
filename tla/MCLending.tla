----------------------------- MODULE MCLending ------------------------------
(***************************************************************************)
(* Lending for TLC: one deal, its two parties and the operator.            *)
(***************************************************************************)
EXTENDS Lending, TLC

CONSTANTS d1, alice, bob, oscar, usdc, tbtc, k1, k2, c1

(* The two clients are alike until one proposes, and so are the ticks.     *)
Interchangeable == Permutations({alice, bob}) \union Permutations({k1, k2})

(* Two installments, collateral that can be halved once.                   *)
MCTermSheets ==
  {[principal |-> 100, loanMint |-> usdc, collateralMint |-> tbtc,
    collateral |-> 2, rate |-> 0, duration |-> 2, ltv |-> 5000]}

(* Bounds: one kind of proposal, the later course of a deal being the same *)
(* for all, and two ticks at once, or one of them and a transaction that   *)
(* may land late or a button the operator has pressed.                     *)
OneKind ==
  HasDeal(d1) => deals[d1].visibility = "Private" /\ deals[d1].creatorSide = "Borrower"

OneOverlap ==
  /\ late # {} => <<>> \in {sending[k1], sending[k2]}
  /\ sending[c1] # <<>> => <<>> \in {sending[k1], sending[k2]} /\ late = {}
=============================================================================
