----------------------------- MODULE PersatMath -----------------------------
(***************************************************************************)
(* The arithmetic of the persat-core crate.  The Rust code computes in     *)
(* u128 and narrows to u64, returning an error when the result does not    *)
(* fit; here each function comes with a predicate (...Ok) that is true     *)
(* exactly when the Rust function returns Ok.  The u128 intermediates      *)
(* cannot overflow on u64 and u16 arguments and need no predicate.         *)
(***************************************************************************)
EXTENDS ProtocolBase

CONSTANT AllowedDurations   \* loan terms in months; {6, 12, 24} in the code

ASSUME DurationAssumption == AllowedDurations \subseteq Nat \ {0}

BpsDenominator == 10000
MonthsPerYear  == 12

CeilDiv(a, b) == (a + b - 1) \div b

(* Simple interest over the whole term, rounded up. *)
TotalInterest(principal, rate, months) ==
  CeilDiv(principal * rate * months, BpsDenominator * MonthsPerYear)

TotalRepayment(principal, rate, months) ==
  principal + TotalInterest(principal, rate, months)

(* build_schedule returns Ok: a positive principal, an offered term, and a *)
(* total that fits 64 bits (then so do the interest and every installment).*)
ScheduleOk(principal, rate, months) ==
  /\ principal > 0
  /\ months \in AllowedDurations
  /\ TotalRepayment(principal, rate, months) <= MaxU64

(* Equal installments, truncated; the last absorbs the whole remainder. *)
BuildSchedule(principal, rate, months) ==
  LET total == TotalRepayment(principal, rate, months)
  IN  [total       |-> total,
       installment |-> total \div months,
       final       |-> (total \div months) + (total % months)]

=============================================================================
