------------------------------ MODULE Lending -------------------------------
(***************************************************************************)
(* One deal from proposal to settlement: the three programs, the two       *)
(* parties acting through the web pages, and the keeper page that drives   *)
(* everything the parties cannot.  No program calls another; only the      *)
(* order in which clients send transactions ties the deal, the vault and   *)
(* the loan together.                                                      *)
(*                                                                         *)
(* The keeper page decides on account data it has loaded, of any age: it   *)
(* loads when a deal is opened or reloaded by hand and after each of its   *)
(* transactions, and its timer loads nothing.  A tick sends one or more    *)
(* transactions, each on its own.  Between the decision and each landing   *)
(* anything may happen, a transaction may be refused or lost and the page  *)
(* still goes on to the next one, and the timer may start a tick while the *)
(* last one is still sending.                                              *)
(***************************************************************************)
EXTENDS LoanLifecycle, DealRegistry, EscrowVault, Sequences, FiniteSets

CONSTANTS
  Operator,   \* the key behind every program authority on this deployment
  Ticks,      \* keeper ticks that may be sending at the same time
  Consoles,   \* pages the operator has open, each with its buttons
  MaxLate     \* bound on transactions that may land after they were given up

ASSUME LendingAssumption ==
  /\ Operator \in Authorities \intersect Operators \intersect Programs
  /\ MaxLate \in Nat
  /\ Ticks \intersect Consoles = {}

VARIABLES
  plans,     \* per deal: what a tick of its keeper page may send
  sending,   \* per tick or page: the transactions it has yet to see confirmed
  late       \* transactions whose confirmation timed out

keeperVars == <<plans, sending, late>>
lendingVars == <<loanVars, dealVars, vaultVars, keeperVars>>

Clients == Wallets \ {Operator}

Senders == Ticks \union Consoles

Transactions ==
  [op : {"lock", "begin", "activate", "release", "closeCompleted", "seize",
         "markPartly", "markFully", "closePartly", "closeFully", "load"},
   deal : Deals, amount : Nat]

Tx(op, d) == [op |-> op, deal |-> d, amount |-> 0]

LendingTypeOK ==
  /\ LoanTypeOK /\ DealTypeOK /\ VaultTypeOK
  /\ plans \in [Deals -> SUBSET Seq(Transactions)]
  /\ sending \in [Senders -> Seq(Transactions)]
  /\ late \subseteq Transactions

(* A deployed protocol: the registry and loan configurations exist.        *)
LendingInit ==
  /\ BooksOpen
  /\ loanConfig = Operator
  /\ registry = [escrow |-> Operator, loan |-> Operator, liquidation |-> Operator]
  /\ deals = [d \in Deals |-> NoAccount]
  /\ signed = {}
  /\ VaultInit
  /\ plans = [d \in Deals |-> {}]
  /\ sending = [k \in Senders |-> <<>>]
  /\ late = {}

(***************************************************************************)
(* The parties, through the deal pages.                                    *)
(***************************************************************************)
LoanStep   == UNCHANGED <<dealVars, vaultVars, keeperVars>>
DealStep   == UNCHANGED <<loanVars, vaultVars, keeperVars>>
VaultStep  == UNCHANGED <<loanVars, dealVars, keeperVars>>
KeeperStep == UNCHANGED <<loanVars, dealVars, vaultVars>>

Propose(d) ==
  /\ \E w \in Clients, t \in TermSheets, v \in {"Private", "Public"},
        s \in {"Borrower", "Lender"}, c \in Clients \union {Default} :
       ProposeDeal(d, w, t, v, s, c)
  /\ DealStep

(* The page signs for the terms it fetched from the chain. *)
Confirm(d) ==
  /\ HasDeal(d)
  /\ \E w \in Clients : ConfirmDeal(d, w, deals[d].terms)
  /\ DealStep

Cancel(d) == (\E w \in Clients : CancelDeal(d, w)) /\ DealStep

(* The vault panel looks at the wallet and the vault, not the deal state.  *)
CreateVault(d) ==
  /\ HasDeal(d)
  /\ deals[d].borrower \in Clients
  /\ InitializeVault(d, deals[d].borrower, Operator, Operator)
  /\ VaultStep

Deposit(d) ==
  /\ HasDeal(d)
  /\ DepositCollateral(d, deals[d].borrower, deals[d].terms.collateral)
  /\ VaultStep

ClientFee(principal) == (principal * 200) \div BpsDenominator

FundingOpenMutant(d) == InDealState(d, {"Confirmed", "Funding"})

FundingOpen(d) == InDealState(d, {"Funding"})

LoanPrincipalMutant(t) == t.principal - ClientFee(t.principal)

LoanPrincipal(t) == t.principal

(* What the parties sign for is within what the programs' inputs range     *)
(* over, and the operator may seize any amount a vault holds.              *)
ASSUME ClientAssumption ==
  /\ \A t \in TermSheets :
       t.principal \in Principals /\ t.rate \in Rates /\ ClientFee(t.principal) \in Fees
  /\ DepositAmounts = U64

(* The fee goes to the operator's own account: TREASURY is OPERATOR.       *)
Fund(d) ==
  /\ FundingOpen(d)
  /\ LET deal == deals[d]
         t == deal.terms
     IN  ActivateLoan(d, deal.lender, deal.borrower, LoanPrincipal(t), t.rate,
                      t.duration, ClientFee(t.principal), Operator)
  /\ LoanStep

(* The amount the page computes; make_payment takes no other. *)
NextInstallment(l) ==
  IF l.paymentsMade + 1 = l.duration THEN l.final ELSE l.installment

Pay(d) ==
  /\ HasLoan(d)
  /\ MakePayment(d, loans[d].borrower, NextInstallment(loans[d]))
  /\ LoanStep

PayAll(d) == HasLoan(d) /\ RepayInFull(d, loans[d].borrower) /\ LoanStep

ReportDefault(d) == FlagDefault(d) /\ LoanStep

(* The repayment page offers these while the loan is not settled, and once *)
(* it is the two steps of ClosePlan, which only the operator can sign.     *)
RepaymentPage(d) == Pay(d) \/ PayAll(d) \/ ReportDefault(d)

(* Only the time since an activation matters, so the clock starts there.   *)
TimePasses == (\E d \in Deals : HasLoan(d)) /\ AdvanceClock /\ LoanStep

(***************************************************************************)
(* The keeper page.  The accounts it loaded settle what its tick sends, so *)
(* it is modelled by that: the list of transactions of the branch of       *)
(* `tick` they select, or of each branch where the price decides.  The     *)
(* terms and the parties a list depends on never change once it exists.    *)
(* A page stays with the deal it opened.                                   *)
(***************************************************************************)
When(condition, txs) == IF condition THEN {txs} ELSE {}

LockTx(d) == [Tx("lock", d) EXCEPT !.amount = deals[d].terms.collateral]

LockPlan(d) ==
  When(InDealState(d, {"Confirmed"}) /\ InVaultState(d, {"Open"}), <<LockTx(d)>>)

CollateralSeenMutant(d) == HasVault(d)

CollateralSeen(d) == InVaultState(d, {"Locked"})

BeginPlan(d) ==
  When(InDealState(d, {"Confirmed"}) /\ CollateralSeen(d), <<Tx("begin", d)>>)

ActivatePlan(d) ==
  When(InDealState(d, {"Funding"}) /\ HasLoan(d), <<Tx("activate", d)>>)

RepaidMutant(s) == s \notin {"Defaulted", "PartiallyLiquidated"}

Repaid(s) == s = "Completed"

ClosePlan(d) ==
  When(InDealState(d, {"Active"}) /\ HasLoan(d) /\ Repaid(loans[d].state),
       <<Tx("release", d), Tx("closeCompleted", d)>>)

(* The loan-to-value the page computes from its price feed is an input: it *)
(* may be below 70%, in which case the tick sends nothing.                 *)
Distressed(d) ==
  /\ ~InDealState(d, {"Funding"})
  /\ HasLoan(d) /\ loans[d].state \in {"Defaulted", "PartiallyLiquidated"}
  /\ HasVault(d) /\ vaults[d].atoms > 0

SeizeTx(d, amount) == [Tx("seize", d) EXCEPT !.amount = amount]

SeizeAllPlan(d) ==
  When(Distressed(d), <<SeizeTx(d, vaults[d].atoms), Tx("markFully", d), Tx("closeFully", d)>>)

SeizeHalfPlan(d) ==
  When(Distressed(d), <<SeizeTx(d, vaults[d].atoms \div 2), Tx("markPartly", d)>>)

ProgressPlans(d) == LockPlan(d) \union BeginPlan(d) \union ActivatePlan(d) \union ClosePlan(d)

Loaded(d) == plans' = [plans EXCEPT ![d] =
               ProgressPlans(d) \union SeizeAllPlan(d) \union SeizeHalfPlan(d)]

(* The page opens the deal, or is told to load it again; it may do so      *)
(* while a tick is sending.  A load that fails leaves the screen as it is. *)
Load(d) ==
  /\ Loaded(d)
  /\ KeeperStep /\ UNCHANGED <<sending, late>>

StartSending(k, txs) ==
  /\ sending[k] = <<>>
  /\ sending' = [sending EXCEPT ![k] = txs]
  /\ KeeperStep /\ UNCHANGED <<plans, late>>

Tick(k) == \E d \in Deals : \E txs \in plans[d] : StartSending(k, txs)

(* After each transaction the tick waits for a load.                       *)
LoadTx(d) == Tx("load", d)

IsLoading(k) == sending[k] # <<>> /\ Head(sending[k]).op = "load"

Reload(k) ==
  /\ IsLoading(k)
  /\ sending' = [sending EXCEPT ![k] = Tail(@)]
  /\ Loaded(Head(sending[k]).deal)
  /\ KeeperStep /\ UNCHANGED late

ReloadFails(k) ==
  /\ IsLoading(k)
  /\ sending' = [sending EXCEPT ![k] = Tail(@)]
  /\ KeeperStep /\ UNCHANGED <<plans, late>>

(***************************************************************************)
(* The operator's buttons, each one transaction.  What a page shows is the *)
(* last state it loaded: a press decides now and lands later.  Its load    *)
(* afterwards is one of the loads at any time.                             *)
(***************************************************************************)
(* The steps of the branches the tick would take.                          *)
ProgressButtons(d) ==
  UNION {{txs[i] : i \in DOMAIN txs} : txs \in ProgressPlans(d)}

SeizeButtons(d) ==
  {SeizeTx(d, vaults[d].atoms), SeizeTx(d, vaults[d].atoms \div 2)}

MarkButtons(d) == {Tx("markPartly", d), Tx("markFully", d)}

(* The keeper page: seize and mark whenever the loan can still change,     *)
(* close by the state it ended in.                                         *)
LiquidationButtons(d) ==
  IF ~HasLoan(d) THEN {}
  ELSE CASE loans[d].state \in {"Active", "Defaulted"} ->
              SeizeButtons(d) \union MarkButtons(d)
         [] loans[d].state = "PartiallyLiquidated" ->
              SeizeButtons(d) \union MarkButtons(d) \union {Tx("closePartly", d)}
         [] loans[d].state = "FullyLiquidated" -> {Tx("closeFully", d)}
         [] OTHER -> {}

(* The manage page's simulation looks only at whether a loan exists.       *)
SimulationButtons(d) ==
  IF HasLoan(d) /\ HasVault(d)
  THEN SeizeButtons(d) \union MarkButtons(d) \union {Tx("closeFully", d)}
  ELSE {}

Press(c) ==
  \E d \in Deals :
    \E tx \in ProgressButtons(d) \union LiquidationButtons(d)
                \union SimulationButtons(d) :
      StartSending(c, <<tx>>)

(***************************************************************************)
(* A keeper transaction reaches the chain.                                 *)
(***************************************************************************)
OnDeal(A) == A /\ UNCHANGED <<loanVars, vaultVars>>
OnVault(A) == A /\ UNCHANGED <<loanVars, dealVars>>
OnLoan(A) == A /\ UNCHANGED <<dealVars, vaultVars>>

Execute(tx) ==
  LET d == tx.deal
  IN  \/ tx.op = "lock" /\ OnVault(LockVault(d, Operator, tx.amount))
      \/ tx.op = "begin" /\ OnDeal(BeginFunding(d, Operator))
      \/ tx.op = "activate" /\ OnDeal(MarkActive(d, Operator))
      \/ /\ tx.op = "release"
         /\ OnVault(ReleaseCollateral(d, Operator, deals[d].borrower))
      \/ /\ tx.op = "seize"
         /\ OnVault(SeizeCollateral(d, Operator, deals[d].lender, tx.amount))
      \/ tx.op = "markPartly" /\ OnLoan(MarkLiquidated(d, Operator, FALSE))
      \/ tx.op = "markFully" /\ OnLoan(MarkLiquidated(d, Operator, TRUE))
      \/ tx.op = "closePartly" /\ OnDeal(CloseDeal(d, Operator, "PartiallyLiquidated"))
      \/ tx.op = "closeFully" /\ OnDeal(CloseDeal(d, Operator, "FullyLiquidated"))
      \/ tx.op = "closeCompleted" /\ OnDeal(CloseDeal(d, Operator, "Completed"))

(* The first transaction is done with: a tick loads before it goes on.     *)
PopFirst(k) ==
  /\ sending[k] # <<>> /\ ~IsLoading(k)
  /\ sending' = [sending EXCEPT ![k] =
       IF k \in Ticks THEN <<LoadTx(Head(@).deal)>> \o Tail(@) ELSE Tail(@)]

Land(k) == PopFirst(k) /\ Execute(Head(sending[k])) /\ UNCHANGED <<plans, late>>

(* Refused by the program, lost, or the page reports an error; `act` logs  *)
(* it and the tick carries on.                                             *)
Fail(k) == PopFirst(k) /\ KeeperStep /\ UNCHANGED <<plans, late>>

(* No confirmation in time, but the transaction is still out there.        *)
TimeOut(k) ==
  /\ PopFirst(k)
  /\ Cardinality(late) < MaxLate
  /\ late' = late \union {Head(sending[k])}
  /\ KeeperStep /\ UNCHANGED plans

LandLate(tx) ==
  /\ tx \in late /\ late' = late \ {tx}
  /\ Execute(tx) /\ UNCHANGED <<plans, sending>>

Expire(tx) ==
  /\ tx \in late /\ late' = late \ {tx}
  /\ KeeperStep /\ UNCHANGED <<plans, sending>>

PartyStep ==
  \E d \in Deals :
    \/ Propose(d) \/ Confirm(d)  \/ Cancel(d) \/ CreateVault(d) \/ Deposit(d)
    \/ Fund(d)    \/ RepaymentPage(d)

LendingNext ==
  \/ PartyStep
  \/ TimePasses
  \/ \E d \in Deals : Load(d)
  \/ \E k \in Ticks : Tick(k) \/ Reload(k) \/ ReloadFails(k)
  \/ \E c \in Consoles : Press(c)
  \/ \E k \in Senders : Land(k) \/ Fail(k) \/ TimeOut(k)
  \/ \E tx \in late : LandLate(tx) \/ Expire(tx)

LendingSpec == LendingInit /\ [][LendingNext]_lendingVars

(* As much as the page could hope for: its timer keeps ticking, every tick *)
(* gets through its list, a transaction that could land again and again    *)
(* lands at some point, and so does a load.  The parties promise nothing,  *)
(* and nobody reloads the page by hand.                                    *)
KeeperFairness ==
  \A k \in Ticks :
    /\ WF_lendingVars(Tick(k))
    /\ WF_lendingVars(Land(k) \/ Fail(k))
    /\ SF_lendingVars(Land(k))
    /\ WF_lendingVars(Reload(k) \/ ReloadFails(k))
    /\ SF_lendingVars(Reload(k))

FairLendingSpec == LendingSpec /\ KeeperFairness

(***************************************************************************)
(* Properties.                                                             *)
(***************************************************************************)
(* While a deal waits for its lender, the full agreed collateral is locked *)
(* in its vault and none of it has moved, so the lender who pays against a *)
(* Funding deal pays against collateral that is there (begin_funding does  *)
(* not look at the vault: only the order of the keeper's steps does this). *)
FundingIsBacked ==
  \A d \in Deals : InDealState(d, {"Funding"}) =>
    /\ flows[d].seized > 0 => HasLoan(d)
    /\ ~HasLoan(d) => /\ InVaultState(d, {"Locked"})
                      /\ vaults[d].atoms >= deals[d].terms.collateral

(* A loan exists only on a deal both parties signed, between those two     *)
(* parties, on the signed numbers, with the same borrower's collateral     *)
(* behind it.  The loan program checks none of this.                       *)
LoanMatchesDeal ==
  \A d \in Deals : HasLoan(d) =>
    LET l == loans[d]
        t == deals[d].terms
    IN  /\ HasDeal(d) /\ HasVault(d)
        /\ deals[d].state \in PastProposal \ {"Confirmed"}
        /\ <<l.borrower, l.lender>> = <<deals[d].borrower, deals[d].lender>>
        /\ <<d, l.lender, t>> \in signed /\ <<d, l.borrower, t>> \in signed
        /\ l.principal = t.principal
        /\ l.total = TotalRepayment(t.principal, t.rate, t.duration)
        /\ vaults[d].borrower = l.borrower

(* Collateral goes back to the borrower only after the whole debt is paid, *)
(* even when release transactions land late or out of order.               *)
ReleasedOnlyWhenRepaid ==
  \A d \in Deals : flows[d].released > 0 =>
    HasLoan(d) /\ loans[d].state = "Completed"

(* A deal the registry reports as Completed, the signal reputation is      *)
(* built from, has a loan that was repaid to the last atom.                *)
CompletedIsRepaid ==
  \A d \in Deals : InDealState(d, {"Completed"}) =>
    /\ HasLoan(d)
    /\ loans[d].totalPaid = loans[d].total

(* The protocol as the parties see it implements the promise: a commitment *)
(* precedes the lending, a settlement precedes the return.                 *)
CollateralOf(d) ==
  IF ~InVaultState(d, {"Locked", "Closed"}) THEN "none"
  ELSE IF flows[d].seized > 0               THEN "forfeited"
  ELSE IF flows[d].released > 0             THEN "returned"
                                            ELSE "committed"

DebtOf(d) ==
  CASE ~HasLoan(d)                                       -> "none"
    [] HasLoan(d) /\ loans[d].state = "Completed"        -> "settled"
    [] HasLoan(d) /\ Repayable(loans[d].state)           -> "owed"
    [] OTHER                                             -> "writtenOff"

Promise == INSTANCE Settlement WITH
  collateral <- [d \in Deals |-> CollateralOf(d)],
  debt       <- [d \in Deals |-> DebtOf(d)]

KeepsPromise == Promise!Spec

(***************************************************************************)
(* What a page says and the code does not do; a run finds each violated.   *)
(***************************************************************************)

(* The repayment page: a defaulted borrower can still repay to cure, and   *)
(* make_payment's comment: a borrower who catches up clears the default.   *)
(* So a loan in good standing has its collateral.                          *)
CuredLoanKeepsCollateral ==
  \A d \in Deals : HasLoan(d) /\ loans[d].state \in {"Active", "Completed"} =>
    flows[d].seized = 0

(* The keeper page: autonomous mode polls every 15 seconds and progresses  *)
(* states automatically, lock, funding, active, and all state is polled.   *)
(* So a deal that the page has worked on becomes active once it is funded. *)
AutonomousProgresses ==
  \A d \in Deals :
    [](plans[d] # {} =>
         ((InDealState(d, {"Funding"}) /\ HasLoan(d)) ~> ~InDealState(d, {"Funding"})))
=============================================================================
