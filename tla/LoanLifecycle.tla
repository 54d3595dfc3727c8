--------------------------- MODULE LoanLifecycle ----------------------------
(***************************************************************************)
(* The loan_lifecycle program: a loan from activation to repayment,        *)
(* default or liquidation.  One action per instruction; a step is one      *)
(* Solana transaction, which applies as a whole or not at all.  `now` is   *)
(* the chain clock and `cash` the loan currency each wallet holds, in one  *)
(* token account or more, and the account of a treasury that is no wallet. *)
(*                                                                         *)
(* `charged` and `collected` are history variables: the origination fees.  *)
(***************************************************************************)
EXTENDS PersatMath, FiniteSets, Functions

CONSTANTS
  Treasury,         \* the treasury's token account
  Authorities,      \* wallets a deployment may choose as an authority
  Principals,       \* principals the clients propose
  Rates,            \* annual rates in basis points
  Fees,             \* origination fees the clients pass in
  SecondsPerMonth,  \* SECONDS_PER_MONTH, in clock ticks
  GracePeriod,      \* GRACE_PERIOD_SECONDS, in clock ticks
  InitialCash,      \* loan currency each wallet starts with
  MaxTime           \* bound on the clock

ASSUME LoanAssumption ==
  /\ Treasury \notin Wallets
  /\ Authorities \subseteq Wallets
  /\ Principals \subseteq U64
  /\ Rates \subseteq Nat
  /\ Fees \subseteq Nat
  /\ SecondsPerMonth \in Nat \ {0}
  /\ GracePeriod \in Nat
  /\ InitialCash \in Nat
  /\ MaxTime \in Nat
  /\ IsFiniteSet(Deals) /\ IsFiniteSet(Wallets)   \* ids of 16 bytes, keys of 32

VARIABLES
  loans,       \* the loan account of each deal
  loanConfig,  \* the liquidation authority, NoAccount before setup
  cash,        \* token balances in the loan currency
  now,         \* Clock::get()?.unix_timestamp
  charged,     \* fees taken out of what each wallet borrowed
  collected    \* fees paid into each account

feeVars == <<charged, collected>>
loanVars == <<loans, loanConfig, cash, now, feeVars>>

CashAccounts == Wallets \union {Treasury}

LoanState ==
  {"Active", "Defaulted", "PartiallyLiquidated", "FullyLiquidated", "Completed"}

Loan ==
  [borrower : Wallets, lender : Wallets, principal : Nat, duration : Nat,
   total : Nat, installment : Nat, final : Nat,
   paymentsMade : Nat, totalPaid : Nat, activatedAt : Nat, state : LoanState]

HasLoan(d) == loans[d] # NoAccount

(***************************************************************************)
(* Queries of the Loan account.                                            *)
(***************************************************************************)
Repayable(s) == s \in {"Active", "Defaulted"}

(* Mutants are named ...Mutant: each is the definition that follows it     *)
(* with a plausible mistake, and no specification uses them.               *)
AmountDueMutant(l) == l.installment

AmountDue(l) ==
  IF l.paymentsMade = l.duration - 1 THEN l.final ELSE l.installment

OutstandingMutant(l) == l.total - l.paymentsMade * l.installment - 1

Outstanding(l) == l.total - l.totalPaid

NextDueAt(l) == l.activatedAt + (l.paymentsMade + 1) * SecondsPerMonth

IsOverdue(l, t) ==
  /\ l.paymentsMade < l.duration
  /\ t > NextDueAt(l) + GracePeriod

ASSUME NoAccountIsNoLoan == NoAccount \notin Loan

LoanTypeOK ==
  /\ loans \in [Deals -> Loan \union {NoAccount}]
  /\ loanConfig \in Authorities \union {NoAccount}
  /\ cash \in [CashAccounts -> Nat]
  /\ now \in 0 .. MaxTime
  /\ charged \in [Wallets -> Nat]
  /\ collected \in [CashAccounts -> Nat]

(* Nothing lent and no fee taken yet.                                      *)
BooksOpen ==
  /\ loans = [d \in Deals |-> NoAccount]
  /\ cash = [a \in CashAccounts |-> IF a = Treasury THEN 0 ELSE InitialCash]
  /\ now = 0
  /\ charged = [w \in Wallets |-> 0]
  /\ collected = [a \in CashAccounts |-> 0]

LoanInit == BooksOpen /\ loanConfig = NoAccount

(***************************************************************************)
(* Instructions.                                                           *)
(***************************************************************************)
InitializeLoanConfig(authority) ==
  /\ loanConfig = NoAccount
  /\ loanConfig' = authority
  /\ UNCHANGED <<loans, cash, now, feeVars>>

FeeAllowed(principal, fee) == fee < principal

DisbursedMutant(principal, fee) == principal

(* What the borrower receives: the fee is taken out of the principal. *)
Disbursed(principal, fee) == principal - fee

(* The lender pays the borrower and then the fee, into whichever account   *)
(* of the currency it names as the treasury's: only the mint is checked.   *)
(* Nothing here looks at the deal or the vault of the same deal id.        *)
ActivateLoan(d, lender, borrower, principal, rate, months, fee, feeAccount) ==
  /\ ~HasLoan(d)
  /\ ScheduleOk(principal, rate, months)
  /\ FeeAllowed(principal, fee)
  /\ CanPay(cash, lender, Disbursed(principal, fee))
  /\ LET schedule == BuildSchedule(principal, rate, months)
         paid == Transfer(cash, lender, borrower, Disbursed(principal, fee))
     IN  /\ CanPay(paid, lender, fee)
         /\ cash' = Transfer(paid, lender, feeAccount, fee)
         /\ loans' = [loans EXCEPT ![d] =
              [borrower |-> borrower, lender |-> lender,
               principal |-> principal, duration |-> months,
               total |-> schedule.total,
               installment |-> schedule.installment,
               final |-> schedule.final,
               paymentsMade |-> 0, totalPaid |-> 0,
               activatedAt |-> now, state |-> "Active"]]
  /\ charged' = [charged EXCEPT ![borrower] = @ + fee]
  /\ collected' = [collected EXCEPT ![feeAccount] = @ + fee]
  /\ UNCHANGED <<loanConfig, now>>

AfterPaymentMutant(l) ==
  IF l.paymentsMade + 1 = l.duration THEN "Completed" ELSE l.state

(* The state a payment leaves: it clears a default, and the last one       *)
(* completes the loan.                                                     *)
AfterPayment(l) ==
  IF l.paymentsMade + 1 = l.duration THEN "Completed" ELSE "Active"

MakePayment(d, payer, amount) ==
  /\ HasLoan(d)
  /\ LET l == loans[d]
     IN  /\ payer = l.borrower
         /\ Repayable(l.state)
         /\ l.paymentsMade < l.duration
         /\ amount = AmountDue(l)
         /\ CanPay(cash, l.borrower, amount)
         /\ l.totalPaid + amount <= MaxU64
         /\ cash' = Transfer(cash, l.borrower, l.lender, amount)
         /\ loans' = [loans EXCEPT ![d] =
              [l EXCEPT !.paymentsMade = @ + 1, !.totalPaid = @ + amount,
                        !.state = AfterPayment(l)]]
  /\ UNCHANGED <<loanConfig, now, feeVars>>

RepayInFull(d, payer) ==
  /\ HasLoan(d)
  /\ LET l == loans[d]
         amount == Outstanding(l)
     IN  /\ payer = l.borrower
         /\ Repayable(l.state)
         /\ amount > 0
         /\ CanPay(cash, l.borrower, amount)
         /\ cash' = Transfer(cash, l.borrower, l.lender, amount)
         /\ loans' = [loans EXCEPT ![d] =
              [l EXCEPT !.paymentsMade = l.duration, !.totalPaid = @ + amount,
                        !.state = "Completed"]]
  /\ UNCHANGED <<loanConfig, now, feeVars>>

(* Anyone may report: the clock decides. *)
FlagDefault(d) ==
  /\ HasLoan(d)
  /\ loans[d].state = "Active"
  /\ IsOverdue(loans[d], now)
  /\ loans' = [loans EXCEPT ![d].state = "Defaulted"]
  /\ UNCHANGED <<loanConfig, cash, now, feeVars>>

LiquidatableMutant(s) == s # "FullyLiquidated"

Liquidatable(s) == Repayable(s)

MarkLiquidated(d, signer, fully) ==
  /\ HasLoan(d)
  /\ Liquidatable(loans[d].state)
  /\ loanConfig # NoAccount
  /\ signer = loanConfig
  /\ loans' = [loans EXCEPT ![d].state =
                 IF fully THEN "FullyLiquidated" ELSE "PartiallyLiquidated"]
  /\ UNCHANGED <<loanConfig, cash, now, feeVars>>

(* The chain clock only moves forward. *)
AdvanceClock ==
  /\ now < MaxTime
  /\ now' = now + 1
  /\ UNCHANGED <<loans, loanConfig, cash, feeVars>>

LoanNext ==
  \/ \E a \in Authorities : InitializeLoanConfig(a)
  \/ \E d \in Deals, lender, borrower \in Wallets, p \in Principals,
        r \in Rates, n \in AllowedDurations, f \in Fees, a \in CashAccounts :
       ActivateLoan(d, lender, borrower, p, r, n, f, a)
  \/ \E d \in Deals, w \in Wallets, a \in U64 : MakePayment(d, w, a)
  \/ \E d \in Deals, w \in Wallets : RepayInFull(d, w)
  \/ \E d \in Deals : FlagDefault(d)
  \/ \E d \in Deals, w \in Wallets, fully \in BOOLEAN : MarkLiquidated(d, w, fully)
  \/ AdvanceClock

LoanSpec == LoanInit /\ [][LoanNext]_loanVars

(***************************************************************************)
(* Properties.                                                             *)
(***************************************************************************)
PaidUpTo(l, n) == IF n = l.duration THEN l.total ELSE n * l.installment

(* What the borrower has paid is exactly the schedule up to the payments   *)
(* counted, through any mix of installments, cured defaults and an early   *)
(* full repayment; the loan is Completed exactly when the count and the    *)
(* total are both reached.  Nobody finishes owing or overpaying an atom.   *)
PaidIsScheduled ==
  \A d \in Deals : HasLoan(d) =>
    LET l == loans[d]
    IN  /\ l.paymentsMade <= l.duration
        /\ l.totalPaid = PaidUpTo(l, l.paymentsMade)
        /\ l.state = "Completed" <=> l.paymentsMade = l.duration
        /\ l.state = "Completed" => l.totalPaid = l.total

Unreturned(l) == l.principal - l.totalPaid

(* What a wallet lent, or borrowed, beyond what was paid back on it; less  *)
(* than nothing once the interest comes in.                                *)
OutBy(w) ==
  [d \in Deals |-> IF HasLoan(d) /\ loans[d].lender = w THEN Unreturned(loans[d]) ELSE 0]

InBy(w) ==
  [d \in Deals |-> IF HasLoan(d) /\ loans[d].borrower = w THEN Unreturned(loans[d]) ELSE 0]

(* No token is made or lost, and what a wallet holds is explained to the   *)
(* atom by all of its loans: it is out what it lent and up what it         *)
(* borrowed, as far as not paid back, less the fees on what it borrowed,   *)
(* plus the fees that some lender chose to send it.  A lender is out the   *)
(* principal, neither more nor less: the fee comes out of the borrower's   *)
(* side (activate_loan's two transfers, and the repayments).               *)
LenderIsOutPrincipal ==
  /\ SumFunction(cash) = InitialCash * Cardinality(Wallets)
  /\ \A w \in Wallets :
       cash[w] = InitialCash - SumFunction(OutBy(w)) + SumFunction(InBy(w))
                   - charged[w] + collected[w]

(* A loan shown as Defaulted is one whose current installment is unpaid    *)
(* past its grace period, at every later time too: the clock only makes it *)
(* later and any payment clears the flag.                                  *)
DefaultedIsOverdue ==
  \A d \in Deals :
    HasLoan(d) /\ loans[d].state = "Defaulted" => IsOverdue(loans[d], now)

(* A loan that is completed or liquidated in any degree is out of reach of *)
(* every instruction; the agreed numbers of a loan never change; and       *)
(* payments are counted one at a time or settled all at once.              *)
LoanProgress(d) ==
  HasLoan(d) =>
    LET l == loans[d]
        m == loans'[d]
    IN  /\ ~Repayable(l.state) => m = l
        /\ m = [l EXCEPT !.paymentsMade = m.paymentsMade,
                         !.totalPaid = m.totalPaid, !.state = m.state]
        /\ m.paymentsMade \in {l.paymentsMade, l.paymentsMade + 1, l.duration}

LoanOnlyProgresses == [][\A d \in Deals : LoanProgress(d)]_loanVars

(* What liquidation.rs says of a partial liquidation, that the loan        *)
(* continues with reduced collateral: its borrower can pay the next        *)
(* installment.  The code refuses it, which a run shows.                   *)
PartialLiquidationContinues ==
  \A d \in Deals :
    HasLoan(d) /\ loans[d].state = "PartiallyLiquidated" =>
      \/ cash[loans[d].borrower] < AmountDue(loans[d])
      \/ ENABLED MakePayment(d, loans[d].borrower, AmountDue(loans[d]))
=============================================================================
