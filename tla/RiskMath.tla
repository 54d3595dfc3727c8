------------------------------ MODULE RiskMath ------------------------------
(***************************************************************************)
(* Valuation and liquidation arithmetic of the persat-core crate (ltv.rs,  *)
(* liquidation.rs).  As in PersatMath, a predicate named ...Ok is true     *)
(* exactly when the Rust function returns Ok, and the u128 intermediates   *)
(* cannot overflow on the inputs the programs validate.                    *)
(***************************************************************************)
EXTENDS PersatMath

AtMost(a, cap) == IF a > cap THEN cap ELSE a

(* No difference of decimals exceeds the 38 where pow10 stops.             *)
Pow10[n \in Nat] == IF n = 0 THEN 1 ELSE 10 * Pow10[n - 1]

(* From one number of decimals to another, truncating. *)
Rescale(value, from, to) ==
  IF from >= to THEN value \div Pow10[from - to] ELSE value * Pow10[to - from]

(***************************************************************************)
(* ltv.rs.  A price is [mantissa, decimals]; collateral and loan amounts   *)
(* come with the decimals of their mints.                                  *)
(***************************************************************************)
CollateralValue(collateral, collateralDecimals, price, loanDecimals) ==
  Rescale(collateral * price.mantissa, collateralDecimals + price.decimals,
          loanDecimals)

(* Division by zero is avoided the wrong way round: worthless collateral   *)
(* reads as a healthy position.                                            *)
CurrentLtvMutant(debt, value) ==
  IF debt = 0 \/ value = 0 THEN 0
  ELSE AtMost(CeilDiv(debt * BpsDenominator, value), MaxU64)

(* Rounded up; debt against worthless collateral is maximally unhealthy.   *)
CurrentLtv(debt, value) ==
  IF debt = 0 THEN 0
  ELSE IF value = 0 THEN MaxU64
  ELSE AtMost(CeilDiv(debt * BpsDenominator, value), MaxU64)

RequiredCollateralMutant(principal, maxLtv, collateralDecimals, price, loanDecimals) ==
  Rescale((principal * BpsDenominator) \div maxLtv,
          loanDecimals, collateralDecimals + price.decimals) \div price.mantissa

RequiredCollateral(principal, maxLtv, collateralDecimals, price, loanDecimals) ==
  CeilDiv(Rescale(CeilDiv(principal * BpsDenominator, maxLtv),
                  loanDecimals, collateralDecimals + price.decimals),
          price.mantissa)

(***************************************************************************)
(* liquidation.rs.                                                         *)
(***************************************************************************)
MaxProtocolLtv == 5000

ThresholdsValid(t) ==
  /\ 0 < t.maxLtv /\ t.maxLtv <= MaxProtocolLtv
  /\ t.maxLtv < t.partialLtv /\ t.partialLtv < t.fullLtv
  /\ t.fullLtv <= BpsDenominator

PartlyLiquidatableMutant(ltv, t) == ltv >= t.maxLtv

PartlyLiquidatable(ltv, t) == ltv >= t.partialLtv

FullyLiquidatable(ltv, t) == ltv >= t.fullLtv

(* The missed installment with its penalty, and the share of collateral    *)
(* worth that much.                                                        *)
Owed(missed, penalty) == missed + CeilDiv(missed * penalty, BpsDenominator)

ShareWorthMutant(collateral, amount, value) == (collateral * amount) \div value

ShareWorth(collateral, amount, value) == CeilDiv(collateral * amount, value)

PartialCapMutant(collateral, maxPartial) == collateral

PartialCap(collateral, maxPartial) == (collateral * maxPartial) \div BpsDenominator

PartialOk(missed, penalty, collateral, value, maxPartial) ==
  collateral > 0 /\ value > 0 =>
    /\ Owed(missed, penalty) <= MaxU64
    /\ ShareWorth(collateral, Owed(missed, penalty), value) <= MaxU64
    /\ PartialCap(collateral, maxPartial) <= MaxU64

PartialAmount(missed, penalty, collateral, value, maxPartial) ==
  IF collateral = 0 \/ value = 0 THEN 0
  ELSE AtMost(AtMost(ShareWorth(collateral, Owed(missed, penalty), value),
                     PartialCap(collateral, maxPartial)),
              collateral)

Outcome(seized, surplus, shortfall) ==
  [seized |-> seized, surplus |-> surplus, shortfall |-> shortfall]

(* Nothing to take; worthless, so it stays the borrower's; underwater, so  *)
(* all of it goes to the lender; or just the share that covers the debt.   *)
FullLiquidation(debt, collateral, value) ==
  IF collateral = 0 THEN Outcome(0, 0, debt)
  ELSE IF value = 0 THEN Outcome(0, collateral, debt)
  ELSE IF value <= debt THEN Outcome(collateral, 0, debt - value)
  ELSE LET seized == AtMost(ShareWorth(collateral, debt, value), collateral)
       IN  Outcome(seized, collateral - seized, 0)

=============================================================================
