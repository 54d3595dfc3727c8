---------------------------- MODULE FeeTreasury -----------------------------
(***************************************************************************)
(* The fee_treasury program: two fee rates under governance, a destination *)
(* and a running total of the fees the loan program's authority reports.   *)
(* It holds no tokens: activate_loan makes the transfer.                   *)
(*                                                                         *)
(* `volume` is a history variable: the principal of every report accepted. *)
(***************************************************************************)
EXTENDS PersatMath

CONSTANTS
  FeeRates,    \* rates governance may ask for, in basis points
  Volumes,     \* principals a caller may report
  MaxVolume    \* bound on the principal reported in all

ASSUME TreasuryAssumption ==
  /\ FeeRates \subseteq Nat
  /\ Volumes \subseteq U64
  /\ MaxVolume \in Nat

VARIABLES
  treasury,   \* the TreasuryConfig singleton
  volume      \* principal of the reports accepted so far

treasuryVars == <<treasury, volume>>

Origins == {"Direct", "Marketplace"}

MaxOriginationFee == 500

TreasuryConfig ==
  [governance : Wallets, destination : Wallets, loan : Wallets,
   rates : [Origins -> Nat], collected : U64]

ASSUME NoAccountIsNoTreasury == NoAccount \notin TreasuryConfig

HasTreasury == treasury # NoAccount

TreasuryTypeOK ==
  /\ treasury \in TreasuryConfig \union {NoAccount}
  /\ volume \in Nat

(* The bound is checked on one of the two rates only.                      *)
RatesAllowedMutant(rates) == rates["Direct"] <= MaxOriginationFee

RatesAllowed(rates) == \A o \in Origins : rates[o] <= MaxOriginationFee

(* What split_disbursement sends to the treasury, rounded down.            *)
Fee(principal, rate) == (principal * rate) \div BpsDenominator

TreasuryInit == treasury = NoAccount /\ volume = 0

InitializeTreasury(governance, destination, loan, rates) ==
  /\ ~HasTreasury
  /\ RatesAllowed(rates)
  /\ treasury' = [governance |-> governance, destination |-> destination,
                  loan |-> loan, rates |-> rates, collected |-> 0]
  /\ UNCHANGED volume

SetFeeParameters(signer, rates) ==
  /\ HasTreasury /\ signer = treasury.governance
  /\ RatesAllowed(rates)
  /\ treasury' = [treasury EXCEPT !.rates = rates]
  /\ UNCHANGED volume

SetTreasury(signer, destination) ==
  /\ HasTreasury /\ signer = treasury.governance
  /\ treasury' = [treasury EXCEPT !.destination = destination]
  /\ UNCHANGED volume

(* The caller names the fee it charged; the program computes its own.      *)
RecordOriginationFee(signer, principal, origin, reported) ==
  /\ HasTreasury
  /\ RatesAllowed(treasury.rates)
  /\ reported = Fee(principal, treasury.rates[origin])
  /\ signer = treasury.loan
  /\ treasury.collected + reported <= MaxU64
  /\ volume + principal <= MaxVolume
  /\ treasury' = [treasury EXCEPT !.collected = @ + reported]
  /\ volume' = volume + principal

TreasuryNext ==
  \/ \E g, d, l \in Wallets, r \in [Origins -> FeeRates] :
       InitializeTreasury(g, d, l, r)
  \/ \E g \in Wallets, r \in [Origins -> FeeRates] : SetFeeParameters(g, r)
  \/ \E g, d \in Wallets : SetTreasury(g, d)
  \/ \E l \in Wallets, p \in Volumes, o \in Origins, f \in U64 :
       RecordOriginationFee(l, p, o, f)

TreasurySpec == TreasuryInit /\ [][TreasuryNext]_treasuryVars

(***************************************************************************)
(* Properties.                                                             *)
(***************************************************************************)

(* However often governance changed the rates between reports, the total   *)
(* the treasury publishes is within the protocol's cap of the principal it *)
(* was reported for: no caller and no schedule inflates it.                *)
TotalWithinCap ==
  HasTreasury =>
    treasury.collected * BpsDenominator <= volume * MaxOriginationFee
=============================================================================
