----------------------------- MODULE MCPrograms -----------------------------
(***************************************************************************)
(* Four programs for TLC, each on its own against callers who may send    *)
(* any instruction with any signer at any time.  No instruction of one     *)
(* reads an account of another, so each is explored alone: `focus` is the  *)
(* program whose instructions are being sent, chosen once.                 *)
(*                                                                         *)
(* One deal id, three wallets that may take either side or sign for a      *)
(* program, one loan with the shortest real term and real rates, and for   *)
(* governance two proposals, three signers and a key without a seat; fee   *)
(* rates at and just above the cap, on principals that leave remainders.   *)
(* The second deal id is for a second loan, lent and repaid out of the     *)
(* same token accounts within the first tick of the clock.                 *)
(***************************************************************************)
EXTENDS Wire, LoanLifecycle, Governance, FeeTreasury, TLC

CONSTANTS d1, d2, alice, bob, carol, usdc, tbtc, ana, ben, cyd, dan, p1, p2

VARIABLE focus

programVars == <<focus, dealVars, loanVars, govVars, treasuryVars, messageVars>>

(* A form with whole 16-bit numbers, one whose rate does not fit sixteen   *)
(* bits and whose term is half a month over six, one whose rate is below   *)
(* zero, and one left blank.  The numbers are in halves.                   *)
Typed(rate, months, side, counterparty) ==
  [principal |-> 100, loanMint |-> usdc, collateralMint |-> tbtc, collateral |-> 2,
   rate |-> rate, months |-> months, side |-> side, counterparty |-> counterparty]

MCForms ==
  {Typed(2000, 12, "Borrower", Default), Typed(2 * 66356, 13, "Lender", bob),
   Typed(-2 * 65000, 12, "Borrower", bob),
   [Typed(NaN, NaN, "Borrower", Default) EXCEPT !.principal = NaN]}

MCShorts ==
  [rate |-> 2000, duration |-> 12, ltv |-> 10000, maxLtv |-> 10000, partialLtv |-> 14000,
   fullLtv |-> 16000, penalty |-> 1000, maxPartial |-> 4000, paymentsMade |-> 8]

Interchangeable == Permutations(Keys) \union Permutations(Proposals)

Sheet(collateral, ltv) ==
  [principal |-> 100, loanMint |-> usdc, collateralMint |-> tbtc,
   collateral |-> collateral, rate |-> 1000, duration |-> 6, ltv |-> ltv]

(* Two valid sheets a stale screen could confuse, and one over the maximum *)
(* loan-to-value, which no form should get through.                        *)
MCTermSheets == {Sheet(2, 5000), Sheet(1, 5000), Sheet(2, 5001)}

ProgramsInit ==
  /\ focus \in {"deal_registry", "loan_lifecycle", "two_loans", "governance", "fee_treasury",
               "wire"}
  /\ WireInit /\ LoanInit /\ GovernanceInit /\ TreasuryInit

OneDeal == deals'[d2] = NoAccount /\ loans'[d2] = NoAccount

FeesToTreasury == \A w \in Wallets : collected'[w] = 0

TwoLoans ==
  /\ now' = 0 /\ loanConfig' = NoAccount
  /\ \A d \in Deals : loans'[d] # NoAccount => loans'[d].total > loans'[d].principal

ProgramsNext ==
  /\ UNCHANGED focus
  /\ \/ /\ focus = "deal_registry"
        /\ DealNext /\ UNCHANGED <<loanVars, govVars, treasuryVars, messageVars>> /\ OneDeal
     \/ /\ focus \in {"loan_lifecycle", "two_loans"}
        /\ LoanNext /\ UNCHANGED <<dealVars, govVars, treasuryVars, messageVars>>
        /\ IF focus = "two_loans" THEN TwoLoans ELSE OneDeal /\ FeesToTreasury
     \/ /\ focus = "governance"
        /\ GovernanceNext /\ UNCHANGED <<dealVars, loanVars, treasuryVars, messageVars>>
     \/ /\ focus = "fee_treasury"
        /\ TreasuryNext /\ UNCHANGED <<dealVars, loanVars, govVars, messageVars>>
     \/ /\ focus = "wire"
        /\ WireNext /\ UNCHANGED <<loanVars, govVars, treasuryVars>>
        /\ flight' = Empty \/ flight'.input.dealId = d1

ProgramsSpec == ProgramsInit /\ [][ProgramsNext]_programVars
=============================================================================
