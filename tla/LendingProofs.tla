--------------------------- MODULE LendingProofs ----------------------------
(***************************************************************************)
(* Proofs about Lending, for any number of deals, clients, term sheets,    *)
(* keeper ticks, consoles and late transactions.                           *)
(*                                                                         *)
(* Every step of the composition is a step of each program, so what was    *)
(* proved of the programs one by one holds of them together.  What ties    *)
(* them to each other is in no program: it is carried by the transactions  *)
(* under way, each sent for a reason that nobody can take back.            *)
(***************************************************************************)
EXTENDS Lending, ProgramProofs

Committed(d) == InVaultState(d, {"Locked", "Closed"})

RepaidInFull(d) == HasLoan(d) /\ loans[d].state = "Completed"

UnderWay == PastProposal \ {"Confirmed"}

(* The loan is the one the deal's parties signed for.                      *)
LoanFits(d) ==
  LET l == loans[d]
      t == deals[d].terms
  IN  /\ l.borrower = deals[d].borrower /\ l.lender = deals[d].lender
      /\ l.principal = t.principal
      /\ l.total = TotalRepayment(t.principal, t.rate, t.duration)

(* What ties the three accounts of a deal together.                        *)
Tied(d) ==
  /\ HasVault(d) => HasDeal(d) /\ vaults[d].borrower = deals[d].borrower
  /\ InDealState(d, UnderWay) => Committed(d)
  /\ InDealState(d, {"Completed"}) => RepaidInFull(d)
  /\ ~Committed(d) => flows[d].seized = 0
  /\ flows[d].released > 0 => RepaidInFull(d) /\ InVaultState(d, {"Closed"})
  /\ Committed(d) /\ ~HasLoan(d) =>
       /\ vaults[d].state = "Locked" /\ flows[d].seized = 0
       /\ vaults[d].atoms >= deals[d].terms.collateral
  /\ HasLoan(d) => InDealState(d, UnderWay) /\ LoanFits(d)

(* Why a transaction was sent, as far as it can never cease to hold.       *)
Justified(tx) ==
  /\ tx.op = "lock" => HasDeal(tx.deal) /\ tx.amount = deals[tx.deal].terms.collateral
  /\ tx.op = "begin" => Committed(tx.deal)
  /\ tx.op \in {"release", "closeCompleted"} => RepaidInFull(tx.deal)
  /\ tx.op = "seize" => HasLoan(tx.deal)

ProgramsInv == LoanInv /\ DealInv /\ VaultInv

SendingOK ==
  /\ plans \in [Deals -> SUBSET Seq(Transactions)]
  /\ sending \in [Senders -> Seq(Transactions)]
  /\ late \subseteq Transactions
  /\ \A d \in Deals : \A txs \in plans[d] : \A i \in 1 .. Len(txs) : Justified(txs[i])
  /\ \A k \in Senders : \A i \in 1 .. Len(sending[k]) : Justified(sending[k][i])
  /\ \A tx \in late : Justified(tx)

LendingInv == ProgramsInv /\ SendingOK /\ \A d \in Deals : Tied(d)

(***************************************************************************)
(* Transactions under way.                                                 *)
(***************************************************************************)

(* The operator is a wallet, and the authority of every program.           *)
LEMMA OperatorSigns ==
  Operator \in Wallets /\ Operator \in Programs /\ Clients \subseteq Wallets
BY LendingAssumption, LoanAssumption DEF Clients

(* A list of one, two or three transactions consists of them.              *)
LEMMA ShortLists ==
  ASSUME NEW S, NEW a \in S, NEW b \in S, NEW c \in S
  PROVE  /\ <<a>> \in Seq(S) /\ \A i \in 1 .. Len(<<a>>) : <<a>>[i] = a
         /\ <<a, b>> \in Seq(S) /\ \A i \in 1 .. Len(<<a, b>>) : <<a, b>>[i] \in {a, b}
         /\ <<a, b, c>> \in Seq(S)
         /\ \A i \in 1 .. Len(<<a, b, c>>) : <<a, b, c>>[i] \in {a, b, c}
OBVIOUS

(* A list holds members, and so does what is left of it.                   *)
LEMMA RestOfList ==
  ASSUME NEW S, NEW s \in Seq(S), s # <<>>
  PROVE  /\ Head(s) \in S /\ 1 \in 1 .. Len(s) /\ Head(s) = s[1]
         /\ Tail(s) \in Seq(S)
         /\ \A i \in 1 .. Len(Tail(s)) : i + 1 \in 1 .. Len(s) /\ Tail(s)[i] = s[i + 1]
OBVIOUS

LEMMA ListStartsWith ==
  ASSUME NEW S, NEW s \in Seq(S), NEW a \in S
  PROVE  /\ <<a>> \o s \in Seq(S)
         /\ \A i \in 1 .. Len(<<a>> \o s) :
              IF i = 1 THEN (<<a>> \o s)[i] = a
              ELSE i - 1 \in 1 .. Len(s) /\ (<<a>> \o s)[i] = s[i - 1]
OBVIOUS

(* Taking the first transaction off a list leaves justified ones; loading  *)
(* needs no reason.                                                        *)
LEMMA FirstOfList ==
  ASSUME SendingOK, NEW k \in Senders, PopFirst(k) \/ Reload(k) \/ ReloadFails(k)
  PROVE  /\ Head(sending[k]) \in Transactions /\ Justified(Head(sending[k]))
         /\ sending' \in [Senders -> Seq(Transactions)]
         /\ \A j \in Senders : \A i \in 1 .. Len(sending'[j]) : Justified(sending'[j][i])
<1> DEFINE first == Head(sending[k])
           rest == Tail(sending[k])
           marker == LoadTx(first.deal)
<1>1. /\ sending \in [Senders -> Seq(Transactions)] /\ sending[k] \in Seq(Transactions)
      /\ sending[k] # <<>>
      /\ \A j \in Senders : \A i \in 1 .. Len(sending[j]) : Justified(sending[j][i])
  BY DEF SendingOK, PopFirst, Reload, ReloadFails, IsLoading
<1>2. /\ first \in Transactions /\ Justified(first)
      /\ rest \in Seq(Transactions)
      /\ \A i \in 1 .. Len(rest) : Justified(rest[i])
  <2>1. /\ first \in Transactions /\ 1 \in 1 .. Len(sending[k]) /\ first = sending[k][1]
        /\ rest \in Seq(Transactions)
        /\ \A i \in 1 .. Len(rest) :
             i + 1 \in 1 .. Len(sending[k]) /\ rest[i] = sending[k][i + 1]
    BY <1>1, RestOfList
  <2> HIDE DEF rest, first
  <2>2. ASSUME NEW i \in 1 .. Len(rest)
        PROVE  Justified(rest[i])
    BY <1>1, <2>1
  <2> QED
    BY <1>1, <2>1, <2>2
<1>3. marker \in Transactions /\ Justified(marker)
  BY <1>2 DEF LoadTx, Tx, Transactions, Justified
<1> HIDE DEF rest, marker
<1>4. /\ <<marker>> \o rest \in Seq(Transactions)
      /\ \A i \in 1 .. Len(<<marker>> \o rest) : Justified((<<marker>> \o rest)[i])
  <2>1. /\ <<marker>> \o rest \in Seq(Transactions)
        /\ \A i \in 1 .. Len(<<marker>> \o rest) :
             IF i = 1 THEN (<<marker>> \o rest)[i] = marker
             ELSE i - 1 \in 1 .. Len(rest) /\ (<<marker>> \o rest)[i] = rest[i - 1]
    BY <1>2, <1>3, ListStartsWith
  <2> QED
    BY <1>2, <1>3, <2>1
<1>5. PICK txs \in {rest, <<marker>> \o rest} : sending' = [sending EXCEPT ![k] = txs]
  BY DEF PopFirst, Reload, ReloadFails, rest, marker
<1>6. txs \in Seq(Transactions) /\ \A i \in 1 .. Len(txs) : Justified(txs[i])
  BY <1>2, <1>4, <1>5
<1>7. ASSUME NEW j \in Senders, NEW i \in 1 .. Len(sending'[j])
      PROVE  Justified(sending'[j][i])
  <2>1. sending'[j] = IF j = k THEN txs ELSE sending[j]
    BY <1>1, <1>5
  <2> QED
    BY <1>1, <1>6, <1>7, <2>1
<1> QED
  BY <1>1, <1>2, <1>5, <1>6, <1>7

(***************************************************************************)
(* Every step is a step of each program, or leaves it alone.               *)
(***************************************************************************)

(* A step is a party's, time's, a transaction that lands, or the keeper's  *)
(* own, which touches no account.                                          *)
LEMMA StepKinds ==
  ASSUME LendingInv, LendingNext
  PROVE  \/ PartyStep
         \/ TimePasses
         \/ \E tx \in Transactions : Justified(tx) /\ Execute(tx)
         \/ KeeperStep
<1>1. ASSUME NEW k \in Senders, Land(k)
      PROVE  \E tx \in Transactions : Justified(tx) /\ Execute(tx)
  BY <1>1, FirstOfList DEF Land, LendingInv
<1>2. ASSUME NEW tx \in late, LandLate(tx)
      PROVE  tx \in Transactions /\ Justified(tx) /\ Execute(tx)
  BY <1>2 DEF LandLate, LendingInv, SendingOK
<1>3. ASSUME NEW k \in Senders, Fail(k) \/ TimeOut(k)
      PROVE  KeeperStep
  BY <1>3 DEF Fail, TimeOut
<1>4. ASSUME NEW k, NEW txs, StartSending(k, txs)
      PROVE  KeeperStep
  BY <1>4 DEF StartSending
<1>5. ASSUME NEW k \in Ticks, Tick(k)
      PROVE  KeeperStep
  BY <1>4, <1>5 DEF Tick
<1>6. ASSUME NEW c \in Consoles, Press(c)
      PROVE  KeeperStep
  BY <1>4, <1>6 DEF Press
<1>7. ASSUME NEW tx \in late, Expire(tx)
      PROVE  KeeperStep
  BY <1>7 DEF Expire
<1>8. ASSUME NEW d \in Deals, Load(d)
      PROVE  KeeperStep
  BY <1>8 DEF Load
<1>9. ASSUME NEW k \in Ticks, Reload(k) \/ ReloadFails(k)
      PROVE  KeeperStep
  BY <1>9 DEF Reload, ReloadFails
<1> QED
  BY <1>1, <1>2, <1>3, <1>5, <1>6, <1>7, <1>8, <1>9 DEF LendingNext

(* Nothing but the lender's press on a Funding deal makes a loan, on what  *)
(* its parties signed.                                                     *)
LEMMA FundStep ==
  ASSUME ProgramsInv, NEW d \in Deals, Fund(d)
  PROVE  /\ InDealState(d, {"Funding"}) /\ deals[d] \in DealAccount /\ ~HasLoan(d)
         /\ deals[d].lender \in Wallets /\ deals[d].borrower \in Wallets
         /\ LET t == deals[d].terms
            IN  /\ t.principal \in Principals /\ t.rate \in Rates
                /\ t.duration \in AllowedDurations /\ ClientFee(t.principal) \in Fees
                /\ ActivateLoan(d, deals[d].lender, deals[d].borrower, t.principal,
                                t.rate, t.duration, ClientFee(t.principal), Operator)
<1>1. InDealState(d, {"Funding"})
  BY DEF Fund, FundingOpen
<1>2. GoodDeal(d) /\ deals[d] \in DealAccount
  BY <1>1 DEF ProgramsInv, DealInv, InDealState, GoodDeal
<1>3. deals[d].terms \in TermSheets /\ Default \notin {deals[d].lender, deals[d].borrower}
  BY <1>1, <1>2 DEF GoodDeal, DealAccount, InDealState, PastProposal, DealState
<1>4. deals[d].lender \in Wallets /\ deals[d].borrower \in Wallets
  BY <1>2, <1>3 DEF DealAccount, Parties
<1>5. ActivateLoan(d, deals[d].lender, deals[d].borrower, deals[d].terms.principal,
                   deals[d].terms.rate, deals[d].terms.duration,
                   ClientFee(deals[d].terms.principal), Operator)
  BY DEF Fund, LoanPrincipal
<1> QED
  BY <1>1, <1>2, <1>3, <1>4, <1>5, ClientAssumption DEF ActivateLoan, ScheduleOk

LEMMA LoanSteps ==
  ASSUME LendingInv, LendingNext
  PROVE  LoanNext \/ UNCHANGED loanVars
<1>1. ASSUME NEW d \in Deals, Fund(d)
      PROVE  LoanNext
  <2>1. Operator \in CashAccounts
    BY OperatorSigns DEF CashAccounts
  <2> QED
    BY <1>1, <2>1, FundStep DEF LendingInv, LoanNext
<1>2. ASSUME NEW d \in Deals, HasLoan(d)
      PROVE  loans[d] \in Loan /\ loans[d].borrower \in Wallets
  BY <1>2 DEF LendingInv, ProgramsInv, LoanInv, GoodLoan, Loan
<1>3. ASSUME NEW d \in Deals, Pay(d)
      PROVE  LoanNext
  <2>1. HasLoan(d) /\ MakePayment(d, loans[d].borrower, NextInstallment(loans[d]))
    BY <1>3 DEF Pay
  <2>2. NextInstallment(loans[d]) \in Nat /\ loans[d].totalPaid \in Nat
    BY <1>2, <2>1 DEF NextInstallment, Loan
  <2>3. NextInstallment(loans[d]) \in U64
    BY <2>1, <2>2, BaseAssumption DEF MakePayment, U64
  <2> QED
    BY <1>2, <2>1, <2>3 DEF LoanNext
<1>4. ASSUME NEW d \in Deals, PayAll(d) \/ ReportDefault(d)
      PROVE  LoanNext
  BY <1>2, <1>4 DEF PayAll, ReportDefault, LoanNext
<1>5. CASE PartyStep
  <2>1. ASSUME NEW d \in Deals,
               Propose(d) \/ Confirm(d) \/ Cancel(d) \/ CreateVault(d) \/ Deposit(d)
        PROVE  UNCHANGED loanVars
    BY <2>1 DEF Propose, Confirm, Cancel, CreateVault, Deposit, DealStep, VaultStep
  <2> QED
    BY <1>1, <1>3, <1>4, <1>5, <2>1 DEF PartyStep, RepaymentPage
<1>6. CASE TimePasses
  BY <1>6 DEF TimePasses, LoanNext
<1>7. ASSUME NEW tx \in Transactions, Execute(tx)
      PROVE  LoanNext \/ UNCHANGED loanVars
  <2>1. tx.deal \in Deals
    BY DEF Transactions
  <2>2. \/ UNCHANGED loanVars
        \/ MarkLiquidated(tx.deal, Operator, FALSE)
        \/ MarkLiquidated(tx.deal, Operator, TRUE)
    BY <1>7 DEF Execute, OnDeal, OnVault, OnLoan
  <2> QED
    BY <2>1, <2>2, OperatorSigns DEF LoanNext
<1> QED
  BY <1>5, <1>6, <1>7, StepKinds DEF KeeperStep

LEMMA DealSteps ==
  ASSUME LendingInv, LendingNext
  PROVE  DealNext \/ UNCHANGED dealVars
<1>1. ASSUME NEW d \in Deals, Propose(d)
      PROVE  DealNext
  <2>1. Clients \union {Default} \subseteq Parties
    BY OperatorSigns DEF Parties
  <2> QED
    BY <1>1, <2>1, OperatorSigns DEF Propose, DealNext
<1>2. ASSUME NEW d \in Deals, Confirm(d)
      PROVE  DealNext
  <2>1. deals[d].terms \in TermSheets
    BY <1>2 DEF Confirm, LendingInv, ProgramsInv, DealInv, GoodDeal, DealAccount
  <2> QED
    BY <1>2, <2>1, OperatorSigns DEF Confirm, DealNext
<1>3. ASSUME NEW d \in Deals, Cancel(d)
      PROVE  DealNext
  BY <1>3, OperatorSigns DEF Cancel, DealNext
<1>4. CASE PartyStep
  <2>1. ASSUME NEW d \in Deals,
               \/ CreateVault(d) \/ Deposit(d) \/ Fund(d) \/ Pay(d) \/ PayAll(d)
               \/ ReportDefault(d)
        PROVE  UNCHANGED dealVars
    BY <2>1 DEF CreateVault, Deposit, Fund, Pay, PayAll, ReportDefault, VaultStep, LoanStep
  <2> QED
    BY <1>1, <1>2, <1>3, <1>4, <2>1 DEF PartyStep, RepaymentPage
<1>5. ASSUME NEW tx \in Transactions, Execute(tx)
      PROVE  DealNext \/ UNCHANGED dealVars
  <2>1. tx.deal \in Deals
    BY DEF Transactions
  <2>2. \/ UNCHANGED dealVars
        \/ BeginFunding(tx.deal, Operator) \/ MarkActive(tx.deal, Operator)
        \/ \E o \in CloseOutcome : CloseDeal(tx.deal, Operator, o)
    BY <1>5 DEF Execute, OnDeal, OnVault, OnLoan, CloseOutcome
  <2> QED
    BY <2>1, <2>2, OperatorSigns DEF DealNext
<1> QED
  BY <1>4, <1>5, StepKinds DEF KeeperStep, TimePasses, LoanStep

LEMMA VaultSteps ==
  ASSUME LendingInv, LendingNext
  PROVE  VaultNext \/ UNCHANGED vaultVars
<1>1. ASSUME NEW d \in Deals, CreateVault(d)
      PROVE  VaultNext
  BY <1>1, OperatorSigns DEF CreateVault, VaultNext
<1>2. ASSUME NEW d \in Deals, Deposit(d)
      PROVE  VaultNext
  <2>1. HasDeal(d) /\ DepositCollateral(d, deals[d].borrower, deals[d].terms.collateral)
    BY <1>2 DEF Deposit
  <2>2. deals[d].terms.collateral \in DepositAmounts
    BY <2>1, DealAssumption, ClientAssumption
       DEF LendingInv, ProgramsInv, DealInv, GoodDeal, DealAccount, DealTerms
  <2>3. deals[d].borrower \in Wallets
    BY <2>1 DEF DepositCollateral, LendingInv, ProgramsInv, VaultInv, VaultTypeOK, HasVault,
                Vault
  <2> QED
    BY <2>1, <2>2, <2>3 DEF VaultNext
<1>3. CASE PartyStep
  <2>1. ASSUME NEW d \in Deals,
               \/ Propose(d) \/ Confirm(d) \/ Cancel(d) \/ Fund(d) \/ Pay(d) \/ PayAll(d)
               \/ ReportDefault(d)
        PROVE  UNCHANGED vaultVars
    BY <2>1 DEF Propose, Confirm, Cancel, Fund, Pay, PayAll, ReportDefault, DealStep, LoanStep
  <2> QED
    BY <1>1, <1>2, <1>3, <2>1 DEF PartyStep, RepaymentPage
<1>4. ASSUME NEW tx \in Transactions, Justified(tx), Execute(tx)
      PROVE  VaultNext \/ UNCHANGED vaultVars
  <2> DEFINE d == tx.deal
  <2>1. d \in Deals /\ tx.amount \in Nat
    BY DEF Transactions
  <2>2. CASE tx.op = "lock" /\ LockVault(d, Operator, tx.amount)
    <3>1. tx.amount \in DepositAmounts
      BY <1>4, <2>1, <2>2, DealAssumption, ClientAssumption
         DEF Justified, LendingInv, ProgramsInv, DealInv, GoodDeal, DealAccount, DealTerms
    <3> QED
      BY <2>1, <2>2, <3>1, OperatorSigns DEF VaultNext
  <2>3. CASE ReleaseCollateral(d, Operator, deals[d].borrower)
    <3>1. deals[d].borrower \in Wallets
      BY <2>1, <2>3 DEF ReleaseCollateral, MayReceive, InVaultState, LendingInv, ProgramsInv,
                  VaultInv, VaultTypeOK, HasVault, Vault
    <3> QED
      BY <2>1, <2>3, <3>1, OperatorSigns DEF VaultNext
  <2>4. CASE SeizeCollateral(d, Operator, deals[d].lender, tx.amount) /\ HasLoan(d)
    <3>1. tx.amount \in DepositAmounts
      <4>1. tx.amount <= vaults[d].atoms /\ vaults[d] \in Vault
        BY <2>1, <2>4 DEF SeizeCollateral, Seizable, InVaultState, LendingInv, ProgramsInv,
                    VaultInv, VaultTypeOK, HasVault
      <4> QED
        BY <2>1, <4>1, ClientAssumption, BaseAssumption DEF Vault, U64
    <3>2. deals[d].lender \in Wallets
      <4>1. InDealState(d, UnderWay)
        BY <2>1, <2>4 DEF LendingInv, Tied
      <4> QED
        BY <2>1, <4>1 DEF InDealState, UnderWay, LendingInv, ProgramsInv, DealInv, GoodDeal,
                          DealAccount, Parties
    <3> QED
      BY <2>1, <2>4, <3>1, <3>2, OperatorSigns DEF VaultNext
  <2> QED
    BY <1>4, <2>2, <2>3, <2>4 DEF Execute, OnDeal, OnVault, OnLoan, Justified
<1> QED
  BY <1>3, <1>4, StepKinds DEF KeeperStep, TimePasses, LoanStep

(***************************************************************************)
(* What lasts.                                                             *)
(***************************************************************************)

(* The invariants of the three programs hold of them together. *)
LEMMA ProgramsKept ==
  ASSUME LendingInv, LendingNext
  PROVE  ProgramsInv'
BY LoanSteps, DealSteps, VaultSteps, LoanInvInductive, DealInvInductive, VaultInvInductive
   DEF LendingInv, ProgramsInv

(* Agreed terms, locked collateral, a loan and its repayment last.         *)
LEMMA Lasting ==
  ASSUME LendingInv, LendingNext, NEW d \in Deals
  PROVE  /\ StaysBound(d)
         /\ Committed(d) => Committed(d)'
         /\ HasLoan(d) => HasLoan(d)'
         /\ LoanProgress(d)
         /\ RepaidInFull(d) => RepaidInFull(d)'
<1>1. StaysBound(d)
  <2>1. CASE DealNext
    BY <2>1, StaysBoundStep DEF LendingInv, ProgramsInv
  <2>2. CASE UNCHANGED dealVars
    BY <2>2 DEF StaysBound, HasDeal, dealVars
  <2> QED
    BY <2>1, <2>2, DealSteps
<1>2. Committed(d) => Committed(d)'
  <2>1. CASE VaultNext
    BY <2>1, StaysCommittedStep DEF LendingInv, ProgramsInv, StaysCommitted, Committed
  <2>2. CASE UNCHANGED vaultVars
    BY <2>2 DEF Committed, InVaultState, HasVault, vaultVars
  <2> QED
    BY <2>1, <2>2, VaultSteps
<1>3. HasLoan(d) => HasLoan(d)'
  <2>1. CASE LoanNext
    BY <2>1, LoanStays DEF LendingInv, ProgramsInv
  <2>2. CASE UNCHANGED loanVars
    BY <2>2 DEF HasLoan, loanVars
  <2> QED
    BY <2>1, <2>2, LoanSteps
<1>4. LoanProgress(d)
  <2>1. CASE LoanNext
    BY <2>1, LoanProgressStep DEF LendingInv, ProgramsInv
  <2>2. CASE UNCHANGED loanVars
    <3> SUFFICES ASSUME HasLoan(d)
                 PROVE  LoanProgress(d)
      BY DEF LoanProgress
    <3>1. loans'[d] = loans[d] /\ loans[d] \in Loan
      BY <2>2 DEF loanVars, LendingInv, ProgramsInv, LoanInv, GoodLoan
    <3> QED
      BY <3>1 DEF LoanProgress, Loan
  <2> QED
    BY <2>1, <2>2, LoanSteps
<1>5. RepaidInFull(d) => RepaidInFull(d)'
  BY <1>3, <1>4 DEF RepaidInFull, LoanProgress, Repayable
<1> QED
  BY <1>1, <1>2, <1>3, <1>4, <1>5

(* So does the reason a transaction was sent for. *)
LEMMA JustifiedStays ==
  ASSUME LendingInv, LendingNext
  PROVE  \A tx \in Transactions : Justified(tx) => Justified(tx)'
<1> SUFFICES ASSUME NEW tx \in Transactions, Justified(tx)
             PROVE  Justified(tx)'
  OBVIOUS
<1>1. tx.deal \in Deals
  BY DEF Transactions
<1> QED
  BY <1>1, Lasting DEF Justified, StaysBound

(***************************************************************************)
(* Transactions under way stay justified.                                  *)
(***************************************************************************)

(* What the keeper and the pages send, they send for a reason.             *)
LEMMA SentForReason ==
  ASSUME LendingInv, NEW k \in Senders, NEW txs \in Seq(Transactions),
         \A i \in 1 .. Len(txs) : Justified(txs[i]), StartSending(k, txs)
  PROVE  /\ sending' \in [Senders -> Seq(Transactions)] /\ UNCHANGED <<plans, late>>
         /\ \A j \in Senders : \A i \in 1 .. Len(sending'[j]) : Justified(sending'[j][i])
<1>1. /\ sending \in [Senders -> Seq(Transactions)] /\ UNCHANGED <<plans, late>>
      /\ sending' = [sending EXCEPT ![k] = txs]
  BY DEF LendingInv, SendingOK, StartSending
<1>2. ASSUME NEW j \in Senders, NEW i \in 1 .. Len(sending'[j])
      PROVE  Justified(sending'[j][i])
  <2>1. sending'[j] = IF j = k THEN txs ELSE sending[j]
    BY <1>1
  <2> QED
    BY <1>2, <2>1 DEF LendingInv, SendingOK
<1> QED
  BY <1>1, <1>2

LEMMA AgreedCollateral ==
  ASSUME LendingInv, NEW d \in Deals, HasDeal(d)
  PROVE  deals[d].terms.collateral \in Nat
<1>1. deals[d] \in DealAccount
  BY DEF LendingInv, ProgramsInv, DealInv, GoodDeal
<1>2. deals[d].terms \in DealTerms
  BY <1>1, DealAssumption DEF DealAccount
<1> QED
  BY <1>2, BaseAssumption DEF DealTerms, U64

(* Whatever the loaded accounts make a tick send is justified, and stays   *)
(* so however old they get.                                                *)
LEMMA PlansAreJustified ==
  ASSUME LendingInv, NEW d \in Deals,
         NEW txs \in ProgressPlans(d) \union SeizeAllPlan(d) \union SeizeHalfPlan(d)
  PROVE  txs \in Seq(Transactions) /\ \A i \in 1 .. Len(txs) : Justified(txs[i])
<1>1. HasDeal(d) => deals[d].terms.collateral \in Nat
  BY AgreedCollateral
<1>2. HasVault(d) => vaults[d].atoms \in Nat /\ vaults[d].atoms \div 2 \in Nat
  <2>1. HasVault(d) => vaults[d].atoms \in Nat
    BY BaseAssumption DEF LendingInv, ProgramsInv, VaultInv, VaultTypeOK, HasVault, Vault, U64
  <2> QED
    BY <2>1
<1>3. CASE txs \in LockPlan(d)
  <2>1. txs = <<LockTx(d)>> /\ HasDeal(d)
    BY <1>3 DEF LockPlan, When, InDealState
  <2>2. LockTx(d) \in Transactions /\ Justified(LockTx(d))
    BY <1>1, <2>1 DEF LockTx, Tx, Transactions, Justified
  <2> QED
    BY <2>1, <2>2, ShortLists
<1>4. CASE txs \in BeginPlan(d)
  <2>1. txs = <<Tx("begin", d)>> /\ Committed(d)
    BY <1>4 DEF BeginPlan, When, CollateralSeen, Committed, InVaultState
  <2>2. Tx("begin", d) \in Transactions /\ Justified(Tx("begin", d))
    BY <2>1 DEF Tx, Transactions, Justified
  <2> QED
    BY <2>1, <2>2, ShortLists
<1>5. CASE txs \in ActivatePlan(d)
  <2>1. txs = <<Tx("activate", d)>>
    BY <1>5 DEF ActivatePlan, When
  <2>2. Tx("activate", d) \in Transactions /\ Justified(Tx("activate", d))
    BY DEF Tx, Transactions, Justified
  <2> QED
    BY <2>1, <2>2, ShortLists
<1>6. CASE txs \in ClosePlan(d)
  <2> DEFINE f == Tx("release", d)
             c == Tx("closeCompleted", d)
  <2>1. txs = <<f, c>> /\ RepaidInFull(d)
    BY <1>6 DEF ClosePlan, When, Repaid, RepaidInFull
  <2>2. f \in Transactions /\ Justified(f) /\ c \in Transactions /\ Justified(c)
    BY <2>1 DEF Tx, Transactions, Justified
  <2> HIDE DEF f, c
  <2>3. /\ <<f, c>> \in Seq(Transactions)
        /\ \A i \in 1 .. Len(<<f, c>>) : <<f, c>>[i] \in {f, c}
    BY <2>2, ShortLists
  <2> QED
    BY <2>1, <2>2, <2>3
<1>7. CASE txs \in SeizeAllPlan(d)
  <2> DEFINE s == SeizeTx(d, vaults[d].atoms)
             f == Tx("markFully", d)
             c == Tx("closeFully", d)
  <2>1. txs = <<s, f, c>> /\ HasLoan(d) /\ HasVault(d)
    BY <1>7 DEF SeizeAllPlan, When, Distressed
  <2>2. /\ s \in Transactions /\ Justified(s)
        /\ f \in Transactions /\ Justified(f) /\ c \in Transactions /\ Justified(c)
    BY <1>2, <2>1 DEF SeizeTx, Tx, Transactions, Justified
  <2> HIDE DEF s, f, c
  <2>3. /\ <<s, f, c>> \in Seq(Transactions)
        /\ \A i \in 1 .. Len(<<s, f, c>>) : <<s, f, c>>[i] \in {s, f, c}
    BY <2>2, ShortLists
  <2> QED
    BY <2>1, <2>2, <2>3
<1>8. CASE txs \in SeizeHalfPlan(d)
  <2> DEFINE s == SeizeTx(d, vaults[d].atoms \div 2)
             h == Tx("markPartly", d)
  <2>1. txs = <<s, h>> /\ HasLoan(d) /\ HasVault(d)
    BY <1>8 DEF SeizeHalfPlan, When, Distressed
  <2>2. s \in Transactions /\ Justified(s) /\ h \in Transactions /\ Justified(h)
    BY <1>2, <2>1 DEF SeizeTx, Tx, Transactions, Justified
  <2> HIDE DEF s, h
  <2>3. <<s, h>> \in Seq(Transactions) /\ \A i \in 1 .. Len(<<s, h>>) : <<s, h>>[i] \in {s, h}
    BY <2>2, ShortLists
  <2> QED
    BY <2>1, <2>2, <2>3
<1> QED
  BY <1>3, <1>4, <1>5, <1>6, <1>7, <1>8 DEF ProgressPlans

(* A load leaves only justified lists.                                     *)
LEMMA LoadedIsJustified ==
  ASSUME LendingInv, NEW e \in Deals, Loaded(e)
  PROVE  /\ plans' \in [Deals -> SUBSET Seq(Transactions)]
         /\ \A d \in Deals : \A txs \in plans'[d] :
              \A i \in 1 .. Len(txs) : Justified(txs[i])
<1> DEFINE seen == ProgressPlans(e) \union SeizeAllPlan(e) \union SeizeHalfPlan(e)
<1>1. /\ plans \in [Deals -> SUBSET Seq(Transactions)]
      /\ plans' = [plans EXCEPT ![e] = seen]
      /\ \A d \in Deals : \A txs \in plans[d] : \A i \in 1 .. Len(txs) : Justified(txs[i])
  BY DEF Loaded, LendingInv, SendingOK
<1>2. /\ seen \subseteq Seq(Transactions)
      /\ \A txs \in seen : \A i \in 1 .. Len(txs) : Justified(txs[i])
  BY PlansAreJustified
<1> HIDE DEF seen
<1> QED
  BY <1>1, <1>2

LEMMA ButtonsAreJustified ==
  ASSUME LendingInv, NEW d \in Deals,
         NEW tx \in ProgressButtons(d) \union LiquidationButtons(d)
                      \union SimulationButtons(d)
  PROVE  tx \in Transactions /\ Justified(tx)
<1>2. HasLoan(d) => HasVault(d)
  BY DEF LendingInv, Tied, Committed, InVaultState
<1>3. HasVault(d) => vaults[d].atoms \in Nat /\ vaults[d].atoms \div 2 \in Nat
  <2>1. HasVault(d) => vaults[d].atoms \in Nat
    BY BaseAssumption DEF LendingInv, ProgramsInv, VaultInv, VaultTypeOK, HasVault, Vault, U64
  <2> QED
    BY <2>1
<1>4. ASSUME HasLoan(d), NEW s \in SeizeButtons(d)
      PROVE  s \in Transactions /\ Justified(s)
  BY <1>2, <1>3, <1>4 DEF SeizeButtons, SeizeTx, Tx, Transactions, Justified
<1>5. ASSUME NEW s \in MarkButtons(d) \union
                       {Tx("closePartly", d), Tx("closeFully", d)}
      PROVE  s \in Transactions /\ Justified(s)
  BY <1>5 DEF MarkButtons, Tx, Transactions, Justified
<1>6. CASE tx \in ProgressButtons(d)
  <2>1. PICK txs \in ProgressPlans(d) : tx \in {txs[i] : i \in DOMAIN txs}
    BY <1>6 DEF ProgressButtons
  <2>2. txs \in Seq(Transactions) /\ \A i \in 1 .. Len(txs) : Justified(txs[i])
    BY PlansAreJustified
  <2>3. PICK i \in 1 .. Len(txs) : tx = txs[i]
    BY <2>1, <2>2
  <2> QED
    BY <2>2, <2>3
<1>7. CASE tx \in LiquidationButtons(d)
  <2>1. /\ HasLoan(d)
        /\ \/ tx \in SeizeButtons(d) \/ tx \in MarkButtons(d)
           \/ tx \in {Tx("closePartly", d), Tx("closeFully", d)}
    BY <1>7 DEF LiquidationButtons
  <2> QED
    BY <1>4, <1>5, <2>1
<1>8. CASE tx \in SimulationButtons(d)
  <2>1. /\ HasLoan(d)
        /\ tx \in SeizeButtons(d) \/ tx \in MarkButtons(d) \/ tx = Tx("closeFully", d)
    BY <1>8 DEF SimulationButtons
  <2> QED
    BY <1>4, <1>5, <2>1
<1> QED
  BY <1>6, <1>7, <1>8

LEMMA SendingKept ==
  ASSUME LendingInv, LendingNext
  PROVE  SendingOK'
<1>1. \A tx \in Transactions : Justified(tx) => Justified(tx)'
  BY JustifiedStays
<1>2. /\ plans \in [Deals -> SUBSET Seq(Transactions)]
      /\ sending \in [Senders -> Seq(Transactions)] /\ late \subseteq Transactions
      /\ \A d \in Deals : \A txs \in plans[d] : \A i \in 1 .. Len(txs) : Justified(txs[i])
      /\ \A k \in Senders : \A i \in 1 .. Len(sending[k]) : Justified(sending[k][i])
      /\ \A tx \in late : Justified(tx)
  BY DEF LendingInv, SendingOK
<1>3. ASSUME NEW txs \in Seq(Transactions), \A i \in 1 .. Len(txs) : Justified(txs[i])
      PROVE  \A i \in 1 .. Len(txs) : Justified(txs[i])'
  <2> SUFFICES ASSUME NEW i \in 1 .. Len(txs)
               PROVE  Justified(txs[i])'
    OBVIOUS
  <2> DEFINE tx == txs[i]
  <2>1. tx \in Transactions /\ Justified(tx)
    BY <1>3
  <2> HIDE DEF tx
  <2>2. Justified(tx)'
    BY <1>1, <2>1
  <2> QED
    BY <2>2 DEF tx
<1>4. ASSUME plans' \in [Deals -> SUBSET Seq(Transactions)],
             sending' \in [Senders -> Seq(Transactions)], late' \subseteq Transactions,
             \A d \in Deals : \A txs \in plans'[d] :
               \A i \in 1 .. Len(txs) : Justified(txs[i]),
             \A j \in Senders : \A i \in 1 .. Len(sending'[j]) : Justified(sending'[j][i]),
             \A tx \in late' : Justified(tx)
      PROVE  SendingOK'
  <2>1. ASSUME NEW d \in Deals, NEW txs \in plans'[d]
        PROVE  \A i \in 1 .. Len(txs) : Justified(txs[i])'
    BY <1>3, <1>4, <2>1
  <2>2. ASSUME NEW j \in Senders
        PROVE  (\A i \in 1 .. Len(sending[j]) : Justified(sending[j][i]))'
    <3> DEFINE txs == sending'[j]
    <3>1. txs \in Seq(Transactions) /\ \A i \in 1 .. Len(txs) : Justified(txs[i])
      BY <1>4, <2>2
    <3> QED
      BY <1>3, <3>1
  <2>3. \A tx \in late' : Justified(tx)'
    BY <1>1, <1>4
  <2> QED
    BY <1>4, <2>1, <2>2, <2>3 DEF SendingOK
<1>5. CASE PartyStep \/ TimePasses
  <2>1. UNCHANGED keeperVars
    BY <1>5 DEF PartyStep, RepaymentPage, TimePasses, Propose, Confirm, Cancel, CreateVault,
       Deposit, Fund, Pay, PayAll, ReportDefault, LoanStep, DealStep, VaultStep
  <2> QED
    BY <1>2, <1>4, <2>1 DEF keeperVars
<1>6. ASSUME NEW d \in Deals, Load(d)
      PROVE  SendingOK'
  <2>1. Loaded(d) /\ UNCHANGED <<sending, late>>
    BY <1>6 DEF Load
  <2> QED
    BY <1>2, <1>4, <2>1, LoadedIsJustified
<1>7. ASSUME NEW k \in Senders, NEW txs \in Seq(Transactions),
             \A i \in 1 .. Len(txs) : Justified(txs[i]), StartSending(k, txs)
      PROVE  SendingOK'
  BY <1>2, <1>4, <1>7, SentForReason
<1>8. ASSUME NEW k \in Ticks, Tick(k)
      PROVE  SendingOK'
  <2>1. PICK d \in Deals : \E txs \in plans[d] : StartSending(k, txs)
    BY <1>8 DEF Tick
  <2>2. PICK txs \in plans[d] : StartSending(k, txs)
    BY <2>1
  <2>3. txs \in Seq(Transactions) /\ \A i \in 1 .. Len(txs) : Justified(txs[i])
    BY <1>2
  <2> QED
    BY <1>7, <2>2, <2>3 DEF Senders
<1>9. ASSUME NEW c \in Consoles, Press(c)
      PROVE  SendingOK'
  <2>1. PICK d \in Deals :
          \E tx \in ProgressButtons(d) \union LiquidationButtons(d)
                      \union SimulationButtons(d) : StartSending(c, <<tx>>)
    BY <1>9 DEF Press
  <2>2. PICK tx \in ProgressButtons(d) \union LiquidationButtons(d)
                      \union SimulationButtons(d) : StartSending(c, <<tx>>)
    BY <2>1
  <2>3. tx \in Transactions /\ Justified(tx)
    BY ButtonsAreJustified
  <2>4. <<tx>> \in Seq(Transactions) /\ \A i \in 1 .. Len(<<tx>>) : Justified(<<tx>>[i])
    BY <2>3, ShortLists
  <2> QED
    BY <1>7, <2>2, <2>4 DEF Senders
<1>10. ASSUME NEW k \in Senders, PopFirst(k) \/ Reload(k) \/ ReloadFails(k)
       PROVE  /\ Head(sending[k]) \in Transactions /\ Justified(Head(sending[k]))
              /\ sending' \in [Senders -> Seq(Transactions)]
              /\ \A j \in Senders :
                   \A i \in 1 .. Len(sending'[j]) : Justified(sending'[j][i])
  BY <1>10, FirstOfList DEF LendingInv
<1>11. ASSUME NEW k \in Ticks, Reload(k)
       PROVE  SendingOK'
  <2>1. k \in Senders /\ Loaded(Head(sending[k]).deal) /\ late' = late
    BY <1>11 DEF Reload, Senders
  <2>2. Head(sending[k]).deal \in Deals
    BY <1>10, <1>11, <2>1 DEF Transactions
  <2>3. /\ plans' \in [Deals -> SUBSET Seq(Transactions)]
        /\ \A d \in Deals : \A txs \in plans'[d] :
             \A i \in 1 .. Len(txs) : Justified(txs[i])
    BY <2>1, <2>2, LoadedIsJustified
  <2> QED
    BY <1>2, <1>4, <1>10, <1>11, <2>1, <2>3
<1>12. ASSUME NEW k \in Ticks, ReloadFails(k)
       PROVE  SendingOK'
  <2>1. k \in Senders /\ plans' = plans /\ late' = late
    BY <1>12 DEF ReloadFails, Senders
  <2> QED
    BY <1>2, <1>4, <1>10, <1>12, <2>1
<1>13. ASSUME NEW k \in Senders, Land(k) \/ Fail(k) \/ TimeOut(k)
       PROVE  SendingOK'
  <2>1. /\ PopFirst(k) /\ plans' = plans
        /\ late' = late \/ late' = late \union {Head(sending[k])}
    BY <1>13 DEF Land, Fail, TimeOut
  <2>2. Head(sending[k]) \in Transactions /\ Justified(Head(sending[k]))
    BY <1>10, <2>1
  <2>3. late' \subseteq Transactions /\ \A tx \in late' : Justified(tx)
    BY <1>2, <2>1, <2>2
  <2> QED
    BY <1>2, <1>4, <1>10, <2>1, <2>3
<1>14. ASSUME NEW tx \in late, LandLate(tx) \/ Expire(tx)
       PROVE  SendingOK'
  <2>1. UNCHANGED <<plans, sending>> /\ late' \subseteq late
    BY <1>14 DEF LandLate, Expire
  <2> QED
    BY <1>2, <1>4, <2>1
<1> QED
  BY <1>5, <1>6, <1>8, <1>9, <1>11, <1>12, <1>13, <1>14 DEF LendingNext

(***************************************************************************)
(* The ties between the accounts of one deal.                              *)
(***************************************************************************)

(* A loan that changes only as a loan may keeps the ties.                  *)
LEMMA TiedByLoan ==
  ASSUME LendingInv, NEW d \in Deals, LoanProgress(d), HasLoan(d) <=> HasLoan(d)',
         UNCHANGED <<dealVars, vaultVars>>
  PROVE  Tied(d)'
<1>1. Tied(d)
  BY DEF LendingInv
<1>2. RepaidInFull(d) => RepaidInFull(d)'
  BY DEF RepaidInFull, LoanProgress, Repayable
<1>3. HasLoan(d) => LoanFits(d)'
  <2> SUFFICES ASSUME HasLoan(d)
               PROVE  LoanFits(d)'
    OBVIOUS
  <2>1. LoanFits(d) /\ loans[d] \in Loan
    BY <1>1 DEF Tied, LendingInv, ProgramsInv, LoanInv, GoodLoan
  <2>2. loans'[d] = [loans[d] EXCEPT !.paymentsMade = loans'[d].paymentsMade,
                       !.totalPaid = loans'[d].totalPaid, !.state = loans'[d].state]
    BY DEF LoanProgress
  <2>3. /\ loans'[d].borrower = loans[d].borrower /\ loans'[d].lender = loans[d].lender
        /\ loans'[d].principal = loans[d].principal /\ loans'[d].total = loans[d].total
    BY <2>1, <2>2 DEF Loan
  <2> QED
    BY <2>1, <2>3 DEF LoanFits, dealVars
<1> QED
  BY <1>1, <1>2, <1>3 DEF Tied, Committed, InVaultState, HasVault, InDealState, HasDeal,
     dealVars, vaultVars

(* So does a deal that moves on only when its vault and its loan allow it. *)
LEMMA TiedByDeal ==
  ASSUME LendingInv, NEW d \in Deals, StaysBound(d), UNCHANGED <<loanVars, vaultVars>>,
         InDealState(d, UnderWay) => InDealState(d, UnderWay)',
         InDealState(d, UnderWay)' => Committed(d),
         InDealState(d, {"Completed"})' => RepaidInFull(d)
  PROVE  Tied(d)'
<1>1. Tied(d)
  BY DEF LendingInv
<1>2. HasVault(d) => HasDeal(d)' /\ vaults[d].borrower = deals'[d].borrower
  <2> SUFFICES ASSUME HasVault(d)
               PROVE  HasDeal(d)' /\ vaults[d].borrower = deals'[d].borrower
    OBVIOUS
  <2>1. vaults[d] \in Vault
    BY DEF LendingInv, ProgramsInv, VaultInv, VaultTypeOK, HasVault
  <2>2. vaults[d].borrower # Default
    BY <2>1, BaseAssumption DEF Vault
  <2> QED
    BY <1>1, <2>2 DEF Tied, StaysBound
<1>3. HasLoan(d) => LoanFits(d)'
  <2> SUFFICES ASSUME HasLoan(d)
               PROVE  LoanFits(d)'
    OBVIOUS
  <2>1. LoanFits(d) /\ InDealState(d, UnderWay)
    BY <1>1 DEF Tied
  <2>2. deals[d].borrower # Default /\ deals[d].lender # Default
    BY <2>1 DEF LendingInv, ProgramsInv, DealInv, GoodDeal, InDealState, UnderWay
  <2> QED
    BY <2>1, <2>2 DEF LoanFits, StaysBound, InDealState, loanVars
<1>4. Committed(d) => HasDeal(d) /\ deals'[d].terms = deals[d].terms
  BY <1>1 DEF Tied, Committed, InVaultState, StaysBound
<1>5. /\ Committed(d)' = Committed(d) /\ RepaidInFull(d)' = RepaidInFull(d)
      /\ HasLoan(d)' = HasLoan(d) /\ HasVault(d)' = HasVault(d)
      /\ vaults' = vaults /\ flows' = flows
      /\ InVaultState(d, {"Closed"})' = InVaultState(d, {"Closed"})
  BY DEF Committed, InVaultState, HasVault, RepaidInFull, HasLoan, loanVars, vaultVars
<1> QED
  BY <1>1, <1>2, <1>3, <1>4, <1>5 DEF Tied

(* A vault that the step is not about keeps its ties. *)
LEMMA TiedAside ==
  ASSUME NEW d \in Deals, Tied(d), UNCHANGED <<loanVars, dealVars>>,
         vaults'[d] = vaults[d], flows'[d] = flows[d]
  PROVE  Tied(d)'
BY DEF Tied, Committed, InVaultState, HasVault, InDealState, HasDeal, HasLoan, RepaidInFull,
       LoanFits, loanVars, dealVars

(* A funded deal has a loan. *)
LEMMA FundMakesLoan ==
  ASSUME LendingInv, NEW e \in Deals, Fund(e)
  PROVE  HasLoan(e)'
<1> DEFINE t == deals[e].terms
           b == BuildSchedule(t.principal, t.rate, t.duration)
<1>1. /\ t.principal \in Nat /\ t.rate \in Nat /\ t.duration \in Nat \ {0}
      /\ deals[e].lender \in Wallets /\ deals[e].borrower \in Wallets
  <2>1. /\ t.principal \in Principals /\ t.rate \in Rates
        /\ t.duration \in AllowedDurations
        /\ deals[e].lender \in Wallets /\ deals[e].borrower \in Wallets
    BY FundStep, Zenon DEF LendingInv
  <2>2. /\ \A p \in Principals : p \in Nat
        /\ \A r \in Rates : r \in Nat
        /\ \A n \in AllowedDurations : n \in Nat \ {0}
    BY LoanAssumption, DurationAssumption, BaseAssumption DEF U64
  <2> QED
    BY <2>1, <2>2, Zenon
<1>2. b.total \in Nat /\ b.installment \in Nat /\ b.final \in Nat
  BY <1>1, ScheduleSums DEF BuildSchedule
<1>3. /\ now \in Nat
      /\ loans \in [Deals -> Loan \union {NoAccount}]
  BY LoanAssumption DEF LendingInv, ProgramsInv, LoanInv, LoanTypeOK
<1>4. ActivateLoan(e, deals[e].lender, deals[e].borrower, t.principal, t.rate, t.duration,
                   ClientFee(t.principal), Operator)
  BY FundStep, Zenon DEF LendingInv
<1> HIDE DEF b
<1>5. loans'[e] \in Loan
  BY <1>1, <1>2, <1>3, <1>4 DEF ActivateLoan, Loan, LoanState, b
<1> QED
  BY <1>5, NoAccountIsNoLoan DEF HasLoan

(* The lender pays against the locked collateral, on the signed numbers.   *)
LEMMA FundKeepsTies ==
  ASSUME LendingInv, NEW e \in Deals, Fund(e), NEW d \in Deals, LoanProgress(d)
  PROVE  Tied(d)'
<1>1. UNCHANGED <<dealVars, vaultVars>>
  BY DEF Fund, LoanStep
<1>2. /\ InDealState(e, {"Funding"}) /\ ~HasLoan(e)
      /\ ActivateLoan(e, deals[e].lender, deals[e].borrower, deals[e].terms.principal,
                      deals[e].terms.rate, deals[e].terms.duration,
                      ClientFee(deals[e].terms.principal), Operator)
  BY FundStep DEF LendingInv
<1> DEFINE t == deals[e].terms
           l == [borrower |-> deals[e].borrower, lender |-> deals[e].lender,
                 principal |-> t.principal, duration |-> t.duration,
                 total |-> TotalRepayment(t.principal, t.rate, t.duration),
                 installment |-> BuildSchedule(t.principal, t.rate, t.duration).installment,
                 final |-> BuildSchedule(t.principal, t.rate, t.duration).final,
                 paymentsMade |-> 0, totalPaid |-> 0,
                 activatedAt |-> now, state |-> "Active"]
<1>3. loans' = [loans EXCEPT ![e] = l]
  BY <1>2 DEF ActivateLoan, BuildSchedule
<1>4. loans \in [Deals -> Loan \union {NoAccount}]
  BY DEF LendingInv, ProgramsInv, LoanInv, LoanTypeOK
<1>5. CASE d # e
  BY <1>1, <1>3, <1>4, <1>5, TiedByLoan DEF HasLoan
<1>6. CASE d = e
  <2>1. /\ loans'[d] = l
        /\ l.borrower = deals[d].borrower /\ l.lender = deals[d].lender
        /\ l.principal = t.principal
        /\ l.total = TotalRepayment(t.principal, t.rate, t.duration)
    BY <1>3, <1>4, <1>6
  <2> HIDE DEF l
  <2>2. LoanFits(d)'
    BY <1>1, <1>6, <2>1 DEF LoanFits, dealVars
  <2>3. InDealState(d, {"Funding"}) /\ InDealState(d, UnderWay) /\ ~HasLoan(d)
    BY <1>2, <1>6 DEF InDealState, UnderWay, PastProposal, DealState
  <2>4. HasVault(d) => HasDeal(d) /\ vaults[d].borrower = deals[d].borrower
    BY DEF LendingInv, Tied
  <2>5. Committed(d) /\ flows[d].seized = 0 /\ ~(flows[d].released > 0)
    BY <2>3 DEF LendingInv, Tied, RepaidInFull
  <2>6. HasLoan(d)'
    BY <1>6, FundMakesLoan
  <2> QED
    BY <1>1, <2>2, <2>3, <2>4, <2>5, <2>6 DEF Tied, Committed, InVaultState, HasVault,
       InDealState, HasDeal, dealVars, vaultVars
<1> QED
  BY <1>5, <1>6

(* No other party's step, and not time, makes a loan.                      *)
LEMMA LoanMoves ==
  ASSUME LendingInv, NEW e \in Deals, HasLoan(e), NEW d \in Deals, LoanProgress(d),
         HasLoan(d) => HasLoan(d)', UNCHANGED <<dealVars, vaultVars>>,
         NEW l, loans' = [loans EXCEPT ![e] = l]
  PROVE  Tied(d)'
<1>1. loans \in [Deals -> Loan \union {NoAccount}]
  BY DEF LendingInv, ProgramsInv, LoanInv, LoanTypeOK
<1>2. HasLoan(d)' => HasLoan(d)
  BY <1>1 DEF HasLoan
<1> QED
  BY <1>2, TiedByLoan

(* A deal the step writes leaves the others, and those it writes move on   *)
(* one state at a time.                                                    *)
LEMMA DealMoves ==
  ASSUME LendingInv, NEW e \in Deals, NEW deal, deals' = [deals EXCEPT ![e] = deal],
         deal # NoAccount, NEW d \in Deals, StaysBound(d), UNCHANGED <<loanVars, vaultVars>>,
         InDealState(e, UnderWay) => deal.state \in UnderWay,
         deal.state \in UnderWay => Committed(e),
         deal.state = "Completed" => RepaidInFull(e)
  PROVE  Tied(d)'
<1>1. deals \in [Deals -> DealAccount \union {NoAccount}]
  BY DEF LendingInv, ProgramsInv, DealInv
<1>2. Tied(d)
  BY DEF LendingInv
<1>3. CASE d # e
  <2>1. deals'[d] = deals[d]
    BY <1>1, <1>3
  <2> QED
    BY <1>2, <2>1, TiedByDeal DEF Tied, InDealState, HasDeal
<1>4. CASE d = e
  <2>1. deals'[d] = deal
    BY <1>1, <1>4
  <2> QED
    BY <1>4, <2>1, TiedByDeal DEF InDealState, HasDeal
<1> QED
  BY <1>3, <1>4

(* The vault instructions, each with the reason it was sent for.           *)
LEMMA VaultMoves ==
  ASSUME LendingInv, NEW e \in Deals, UNCHANGED <<loanVars, dealVars>>, NEW d \in Deals,
         \/ CreateVault(e) \/ Deposit(e)
         \/ HasDeal(e) /\ LockVault(e, Operator, deals[e].terms.collateral)
         \/ RepaidInFull(e) /\ ReleaseCollateral(e, Operator, deals[e].borrower)
         \/ HasLoan(e) /\ \E a \in Nat : SeizeCollateral(e, Operator, deals[e].lender, a)
  PROVE  Tied(d)'
<1>1. /\ Tied(d) /\ Tied(e)
      /\ vaults \in [Deals -> Vault \union {NoAccount}] /\ flows \in [Deals -> Flow]
  BY DEF LendingInv, ProgramsInv, VaultInv, VaultTypeOK
<1>2. CASE d # e
  <2>1. vaults'[d] = vaults[d] /\ flows'[d] = flows[d]
    BY <1>1, <1>2 DEF CreateVault, InitializeVault, Deposit, DepositCollateral, LockVault,
       ReleaseCollateral, SeizeCollateral
  <2> QED
    BY <1>1, <2>1, TiedAside
<1> SUFFICES ASSUME d = e
             PROVE  Tied(d)'
  BY <1>2
<1>3. /\ HasLoan(d)' = HasLoan(d) /\ RepaidInFull(d)' = RepaidInFull(d)
      /\ LoanFits(d)' = LoanFits(d) /\ deals' = deals
      /\ HasDeal(d)' = HasDeal(d)
      /\ InDealState(d, UnderWay)' = InDealState(d, UnderWay)
      /\ InDealState(d, {"Completed"})' = InDealState(d, {"Completed"})
  BY DEF HasLoan, RepaidInFull, LoanFits, InDealState, HasDeal, loanVars, dealVars
<1>4. HasVault(d) => vaults[d] \in Vault /\ vaults[d].atoms \in Nat
  BY <1>1, BaseAssumption DEF HasVault, Vault, U64
<1>5. flows[d].released \in Nat /\ flows[d].seized \in Nat
  BY <1>1 DEF Flow
<1>6. CASE CreateVault(d)
  <2> DEFINE v == [borrower |-> deals[d].borrower, loanProgram |-> Operator,
                   liquidationProgram |-> Operator, atoms |-> 0, state |-> "Open"]
  <2>1. HasDeal(d) /\ ~HasVault(d) /\ vaults' = [vaults EXCEPT ![d] = v] /\ flows' = flows
    BY <1>6 DEF CreateVault, InitializeVault
  <2>2. vaults'[d] = v
    BY <1>1, <2>1
  <2>3. ~Committed(d)' /\ vaults'[d].borrower = deals[d].borrower
    BY <2>2 DEF Committed, InVaultState
  <2>4. ~Committed(d)
    BY <2>1 DEF Committed, InVaultState
  <2>5. /\ ~InDealState(d, UnderWay) /\ ~InDealState(d, {"Completed"}) /\ ~HasLoan(d)
        /\ ~(flows[d].released > 0) /\ flows[d].seized = 0
    BY <1>1, <2>4 DEF Tied, Committed, InVaultState, InDealState, UnderWay, PastProposal,
                      DealState
  <2> QED
    BY <1>3, <2>1, <2>3, <2>5 DEF Tied
<1>7. CASE Deposit(d)
  <2>1. /\ HasVault(d) /\ vaults[d].state = "Open"
        /\ vaults' = [vaults EXCEPT ![d].atoms = @ + deals[d].terms.collateral]
        /\ flows' = [flows EXCEPT ![d].deposited = @ + deals[d].terms.collateral]
    BY <1>7 DEF Deposit, DepositCollateral, Depositable
  <2>2. /\ vaults'[d].borrower = vaults[d].borrower /\ vaults'[d].state = "Open"
        /\ flows'[d].released = flows[d].released /\ flows'[d].seized = flows[d].seized
    BY <1>1, <1>4, <2>1 DEF Vault, Flow
  <2>3. ~Committed(d) /\ ~Committed(d)' /\ ~InVaultState(d, {"Closed"})
    BY <2>1, <2>2 DEF Committed, InVaultState
  <2> QED
    BY <1>1, <1>3, <2>1, <2>2, <2>3 DEF Tied
<1>8. CASE HasDeal(d) /\ LockVault(d, Operator, deals[d].terms.collateral)
  <2>1. /\ HasVault(d) /\ vaults[d].state = "Open"
        /\ vaults[d].atoms >= deals[d].terms.collateral
        /\ vaults' = [vaults EXCEPT ![d].state = "Locked"] /\ flows' = flows
    BY <1>8 DEF LockVault, InVaultState, Enough
  <2>2. /\ vaults'[d].borrower = vaults[d].borrower /\ vaults'[d].state = "Locked"
        /\ vaults'[d].atoms = vaults[d].atoms
    BY <1>1, <1>4, <2>1 DEF Vault
  <2>3. ~Committed(d) /\ ~InVaultState(d, {"Closed"})
    BY <2>1 DEF Committed, InVaultState
  <2>4. vaults'[d] # NoAccount
    BY <1>1, <1>4, <2>1, NoAccountIsNoVault DEF Vault, VaultState
  <2>5. Committed(d)'
    BY <2>2, <2>4 DEF Committed, InVaultState, HasVault
  <2> QED
    BY <1>1, <1>3, <2>1, <2>2, <2>3, <2>5 DEF Tied
<1>9. CASE RepaidInFull(d) /\ ReleaseCollateral(d, Operator, deals[d].borrower)
  <2>1. /\ HasVault(d) /\ vaults[d].state = "Locked"
        /\ vaults' = [vaults EXCEPT ![d].atoms = 0, ![d].state = "Closed"]
        /\ flows' = [flows EXCEPT ![d].released = @ + Releasable(d)]
    BY <1>9 DEF ReleaseCollateral, InVaultState
  <2>2. /\ vaults'[d].borrower = vaults[d].borrower /\ vaults'[d].state = "Closed"
        /\ flows'[d].seized = flows[d].seized
    BY <1>1, <1>4, <2>1 DEF Vault, Flow
  <2>3. Committed(d) /\ HasLoan(d)
    BY <1>9, <2>1 DEF Committed, InVaultState, RepaidInFull
  <2>4. vaults'[d] # NoAccount
    BY <1>1, <1>4, <2>1, NoAccountIsNoVault, BaseAssumption DEF Vault, VaultState, U64
  <2>5. Committed(d)' /\ InVaultState(d, {"Closed"})'
    BY <2>2, <2>4 DEF Committed, InVaultState, HasVault
  <2> QED
    BY <1>1, <1>3, <1>9, <2>1, <2>2, <2>3, <2>5 DEF Tied
<1>10. CASE HasLoan(d) /\ \E a \in Nat : SeizeCollateral(d, Operator, deals[d].lender, a)
  <2>1. PICK a \in Nat : SeizeCollateral(d, Operator, deals[d].lender, a)
    BY <1>10
  <2> DEFINE left == vaults[d].atoms - a
  <2>2. /\ HasVault(d) /\ vaults[d].state = "Locked"
        /\ a <= vaults[d].atoms
        /\ vaults' = [vaults EXCEPT ![d].atoms = @ - a, ![d].state = AfterSeizure(left)]
        /\ flows' = [flows EXCEPT ![d].seized = @ + a]
    BY <2>1 DEF SeizeCollateral, InVaultState, Seizable
  <2>3. AfterSeizure(left) \in {"Locked", "Closed"}
    BY DEF AfterSeizure
  <2>4. /\ vaults'[d].borrower = vaults[d].borrower /\ vaults'[d].state \in {"Locked", "Closed"}
        /\ flows'[d].released = flows[d].released
    BY <1>1, <1>4, <2>2, <2>3 DEF Vault, Flow
  <2>5. Committed(d) /\ ~InVaultState(d, {"Closed"})
    BY <2>2 DEF Committed, InVaultState
  <2>6. vaults'[d] # NoAccount
    <3>1. left \in U64
      BY <1>4, <2>1, <2>2, BaseAssumption DEF HasVault, Vault, U64
    <3>2. vaults'[d] \in Vault
      BY <1>1, <1>4, <2>2, <2>3, <3>1 DEF Vault, VaultState
    <3> QED
      BY <3>2, NoAccountIsNoVault
  <2>7. Committed(d)'
    BY <2>4, <2>6 DEF Committed, InVaultState, HasVault
  <2> QED
    BY <1>1, <1>3, <1>10, <2>2, <2>4, <2>5, <2>7 DEF Tied
<1> QED
  BY <1>6, <1>7, <1>8, <1>9, <1>10

LEMMA TiesKept ==
  ASSUME LendingInv, LendingNext
  PROVE  \A d \in Deals : Tied(d)'
<1> SUFFICES ASSUME NEW d \in Deals
             PROVE  Tied(d)'
  OBVIOUS
<1>1. StaysBound(d) /\ LoanProgress(d) /\ (HasLoan(d) => HasLoan(d)')
  BY Lasting
<1>2. \A e \in Deals : HasDeal(e) => GoodDeal(e)
  BY DEF LendingInv, ProgramsInv, DealInv
<1>3. ASSUME UNCHANGED <<dealVars, vaultVars>>, loans' = loans
      PROVE  Tied(d)'
  BY <1>1, <1>3, TiedByLoan DEF HasLoan
<1>4. CASE KeeperStep \/ TimePasses
  BY <1>3, <1>4 DEF KeeperStep, TimePasses, LoanStep, AdvanceClock, loanVars
<1>5. ASSUME NEW e \in Deals, Propose(e)
      PROVE  Tied(d)'
  <2>1. PICK w \in Clients, t \in TermSheets, v \in {"Private", "Public"},
             s \in {"Borrower", "Lender"}, c \in Clients \union {Default} :
          ProposeDeal(e, w, t, v, s, c)
    BY <1>5 DEF Propose
  <2> DEFINE deal == [creator |-> w, borrower |-> IF s = "Borrower" THEN w ELSE c,
                      lender |-> IF s = "Lender" THEN w ELSE c, creatorSide |-> s,
                      visibility |-> v, terms |-> t, state |-> "Proposed"]
  <2>2. ~HasDeal(e) /\ deals' = [deals EXCEPT ![e] = deal]
    BY <2>1 DEF ProposeDeal
  <2>3. /\ ~InDealState(e, UnderWay) /\ deal.state = "Proposed"
        /\ "Proposed" \notin UnderWay
    BY <2>2 DEF InDealState, UnderWay, PastProposal
  <2>4. deal # NoAccount
    <3>1. deal \in DealAccount
      BY <2>1, OperatorSigns DEF DealAccount, DealState, Parties
    <3> QED
      BY <3>1, NoAccountIsNoDeal
  <2>5. UNCHANGED <<loanVars, vaultVars>>
    BY <1>5 DEF Propose, DealStep
  <2> HIDE DEF deal
  <2> QED
    BY <1>1, <2>2, <2>3, <2>4, <2>5, DealMoves
<1>6. ASSUME NEW e \in Deals, HasDeal(e), NEW deal \in DealAccount,
             deals' = [deals EXCEPT ![e] = deal], UNCHANGED <<loanVars, vaultVars>>,
             InDealState(e, UnderWay) => deal.state \in UnderWay,
             deal.state \in UnderWay => Committed(e),
             deal.state = "Completed" => RepaidInFull(e)
      PROVE  Tied(d)'
  BY <1>1, <1>6, DealMoves, NoAccountIsNoDeal
<1>7. ASSUME NEW e \in Deals, Confirm(e)
      PROVE  Tied(d)'
  <2>1. PICK w \in Clients : ConfirmDeal(e, w, deals[e].terms)
    BY <1>7 DEF Confirm
  <2> DEFINE deal == [WithCounterparty(deals[e], w) EXCEPT !.state = "Confirmed"]
  <2>2. /\ HasDeal(e) /\ deals[e].state = "Proposed"
        /\ deals' = [deals EXCEPT ![e] = deal]
    BY <2>1 DEF ConfirmDeal, InDealState
  <2>3. deals[e] \in DealAccount /\ w \in Wallets
    BY <1>2, <2>2, OperatorSigns DEF GoodDeal
  <2>4. deal \in DealAccount /\ deal.state = "Confirmed"
    BY <2>3 DEF DealAccount, DealState, Parties, WithCounterparty
  <2>5. ~InDealState(e, UnderWay) /\ "Confirmed" \notin UnderWay
    BY <2>2 DEF InDealState, UnderWay, PastProposal
  <2>6. UNCHANGED <<loanVars, vaultVars>>
    BY <1>7 DEF Confirm, DealStep
  <2> HIDE DEF deal
  <2> QED
    BY <1>6, <2>2, <2>4, <2>5, <2>6
<1>8. ASSUME NEW e \in Deals, HasDeal(e), NEW s \in DealState,
             deals' = [deals EXCEPT ![e].state = s], UNCHANGED <<loanVars, vaultVars>>,
             InDealState(e, UnderWay) => s \in UnderWay,
             s \in UnderWay => Committed(e), s = "Completed" => RepaidInFull(e)
      PROVE  Tied(d)'
  <2> DEFINE deal == [deals[e] EXCEPT !.state = s]
  <2>1. deals[e] \in DealAccount
    BY <1>2, <1>8 DEF GoodDeal
  <2>2. deal \in DealAccount /\ deal.state = s /\ deals' = [deals EXCEPT ![e] = deal]
    BY <1>8, <2>1 DEF DealAccount
  <2> HIDE DEF deal
  <2> QED
    BY <1>6, <1>8, <2>2
<1>9. ASSUME NEW e \in Deals, Cancel(e)
      PROVE  Tied(d)'
  <2>1. /\ InDealState(e, {"Proposed", "Confirmed"})
        /\ deals' = [deals EXCEPT ![e].state = "Cancelled"]
        /\ UNCHANGED <<loanVars, vaultVars>>
    BY <1>9 DEF Cancel, CancelDeal, DealStep
  <2>2. /\ HasDeal(e) /\ ~InDealState(e, UnderWay) /\ "Cancelled" \notin UnderWay
        /\ "Cancelled" \in DealState
    BY <2>1 DEF InDealState, UnderWay, PastProposal, DealState
  <2> QED
    BY <1>8, <2>1, <2>2
<1>10. ASSUME NEW e \in Deals, CreateVault(e) \/ Deposit(e)
       PROVE  Tied(d)'
  <2>1. UNCHANGED <<loanVars, dealVars>>
    BY <1>10 DEF CreateVault, Deposit, VaultStep
  <2> QED
    BY <1>10, <2>1, VaultMoves
<1>11. ASSUME NEW e \in Deals, Fund(e)
       PROVE  Tied(d)'
  BY <1>1, <1>11, FundKeepsTies
<1>12. ASSUME NEW e \in Deals, HasLoan(e), NEW l, loans' = [loans EXCEPT ![e] = l],
              UNCHANGED <<dealVars, vaultVars>>
       PROVE  Tied(d)'
  BY <1>1, <1>12, LoanMoves
<1>13. ASSUME NEW e \in Deals, Pay(e) \/ PayAll(e) \/ ReportDefault(e)
       PROVE  Tied(d)'
  BY <1>12, <1>13 DEF Pay, PayAll, ReportDefault, MakePayment, RepayInFull, FlagDefault,
     LoanStep
<1>14. ASSUME NEW tx \in Transactions, Justified(tx), Execute(tx)
       PROVE  Tied(d)'
  <2> DEFINE e == tx.deal
  <2>1. e \in Deals /\ tx.amount \in Nat /\ Tied(e)
    BY DEF Transactions, LendingInv
  <2>2. CASE UNCHANGED <<loanVars, dealVars>>
    <3>1. \/ HasDeal(e) /\ LockVault(e, Operator, deals[e].terms.collateral)
          \/ RepaidInFull(e) /\ ReleaseCollateral(e, Operator, deals[e].borrower)
          \/ HasLoan(e) /\ SeizeCollateral(e, Operator, deals[e].lender, tx.amount)
          \/ UNCHANGED vaultVars
      BY <1>14 DEF Execute, OnVault, OnDeal, OnLoan, Justified
    <3>2. CASE UNCHANGED vaultVars
      BY <1>3, <2>2, <3>2 DEF loanVars
    <3> QED
      BY <2>1, <2>2, <3>1, <3>2, VaultMoves
  <2>3. CASE OnLoan(MarkLiquidated(e, Operator, FALSE))
             \/ OnLoan(MarkLiquidated(e, Operator, TRUE))
    BY <1>12, <2>1, <2>3 DEF OnLoan, MarkLiquidated
  <2>4. CASE tx.op = "begin" /\ OnDeal(BeginFunding(e, Operator))
    <3>1. /\ InDealState(e, {"Confirmed"}) /\ Committed(e)
          /\ deals' = [deals EXCEPT ![e].state = "Funding"]
          /\ UNCHANGED <<loanVars, vaultVars>>
      BY <1>14, <2>4 DEF OnDeal, BeginFunding, Advance, Justified
    <3>2. HasDeal(e) /\ ~InDealState(e, UnderWay) /\ "Funding" \in DealState
      BY <3>1 DEF InDealState, UnderWay, DealState
    <3> QED
      BY <1>8, <2>1, <3>1, <3>2
  <2>5. CASE OnDeal(MarkActive(e, Operator))
    <3>1. /\ InDealState(e, {"Funding"})
          /\ deals' = [deals EXCEPT ![e].state = "Active"]
          /\ UNCHANGED <<loanVars, vaultVars>>
      BY <2>5 DEF OnDeal, MarkActive, Advance
    <3>2. /\ HasDeal(e) /\ InDealState(e, UnderWay)
          /\ "Active" \in DealState /\ "Active" \in UnderWay
      BY <3>1 DEF InDealState, UnderWay, PastProposal, DealState
    <3> QED
      BY <1>8, <2>1, <3>1, <3>2 DEF Tied
  <2>6. ASSUME NEW o \in CloseOutcome, OnDeal(CloseDeal(e, Operator, o)),
               o = "Completed" => RepaidInFull(e)
        PROVE  Tied(d)'
    <3>1. /\ HasDeal(e) /\ Closable(deals[e].state)
          /\ deals' = [deals EXCEPT ![e].state = o]
          /\ UNCHANGED <<loanVars, vaultVars>>
      BY <2>6 DEF OnDeal, CloseDeal, Advance
    <3>2. /\ InDealState(e, UnderWay)
          /\ o \in DealState /\ o \in UnderWay
      BY <3>1 DEF InDealState, UnderWay, PastProposal, DealState, CloseOutcome, Closable
    <3> QED
      BY <1>8, <2>1, <2>6, <3>1, <3>2 DEF Tied
  <2>7. CASE \/ tx.op = "closePartly" /\ OnDeal(CloseDeal(e, Operator, "PartiallyLiquidated"))
             \/ tx.op = "closeFully" /\ OnDeal(CloseDeal(e, Operator, "FullyLiquidated"))
             \/ tx.op = "closeCompleted" /\ OnDeal(CloseDeal(e, Operator, "Completed"))
    BY <1>14, <2>6, <2>7 DEF CloseOutcome, Justified
  <2> QED
    BY <1>14, <2>2, <2>3, <2>4, <2>5, <2>7 DEF Execute, OnVault
<1>15. CASE PartyStep
  BY <1>5, <1>7, <1>9, <1>10, <1>11, <1>13, <1>15 DEF PartyStep, RepaymentPage
<1> QED
  BY <1>4, <1>14, <1>15, StepKinds

(***************************************************************************)
(* The invariant, and what follows from it.                                *)
(***************************************************************************)

(* A deployed protocol without deals. *)
LEMMA LendingInitInv == LendingInit => LendingInv
<1> SUFFICES ASSUME LendingInit
             PROVE  LendingInv
  OBVIOUS
<1>1. LoanInv
  BY LoanAssumption, LendingAssumption DEF LendingInit, BooksOpen, LoanInv, LoanTypeOK,
     HasLoan, CashAccounts
<1>2. DealInv
  BY LendingAssumption DEF LendingInit, DealInv, HasDeal, RegistryConfig
<1>3. VaultInv
  BY VaultInitInv DEF LendingInit
<1>4. SendingOK
  BY DEF LendingInit, SendingOK
<1>5. ASSUME NEW d \in Deals
      PROVE  Tied(d)
  BY VaultAssumption DEF LendingInit, BooksOpen, VaultInit, Tied, HasVault, HasDeal, HasLoan,
     Committed, InVaultState, InDealState, RepaidInFull
<1> QED
  BY <1>1, <1>2, <1>3, <1>4, <1>5 DEF LendingInv, ProgramsInv

LEMMA LendingInvInductive == LendingInv /\ [LendingNext]_lendingVars => LendingInv'
<1> SUFFICES ASSUME LendingInv, [LendingNext]_lendingVars
             PROVE  LendingInv'
  OBVIOUS
<1>1. CASE LendingNext
  BY <1>1, ProgramsKept, SendingKept, TiesKept DEF LendingInv
<1>2. CASE UNCHANGED lendingVars
  <2>1. LoanInv'
    BY <1>2, LoanInvInductive DEF LendingInv, ProgramsInv, lendingVars
  <2>2. DealInv' /\ VaultInv'
    BY <1>2, DealInvInductive, VaultInvInductive DEF LendingInv, ProgramsInv, lendingVars
  <2>3. SendingOK'
    BY <1>2 DEF LendingInv, SendingOK, Justified, Committed, RepaidInFull, HasLoan, HasDeal,
       InVaultState, HasVault, lendingVars, loanVars, dealVars, vaultVars, keeperVars
  <2>4. ASSUME NEW d \in Deals
        PROVE  Tied(d)'
    <3>1. Tied(d) /\ vaults' = vaults /\ flows' = flows /\ UNCHANGED <<loanVars, dealVars>>
      BY <1>2 DEF LendingInv, lendingVars, vaultVars
    <3> QED
      BY <3>1, TiedAside
  <2> QED
    BY <2>1, <2>2, <2>3, <2>4 DEF LendingInv, ProgramsInv
<1> QED
  BY <1>1, <1>2

(* The invariant holds of every reachable state, whatever the keeper sends *)
(* and however late it lands.                                              *)
THEOREM LendingInvariant == LendingSpec => []LendingInv
BY LendingInitInv, LendingInvInductive, PTL DEF LendingSpec

(* Accounts, balances and transactions under way are well formed.          *)
THEOREM LendingTypeCorrect == LendingSpec => []LendingTypeOK
<1>1. LendingInv => LendingTypeOK
  BY DEF LendingInv, ProgramsInv, LoanInv, DealInv, DealTypeOK, GoodDeal, CreatorSits, VaultInv,
     SendingOK, LendingTypeOK
<1> QED
  BY <1>1, LendingInvariant, PTL

(* What each program promises on its own holds of them together, however   *)
(* late transactions land: payments follow the schedule, default flags are *)
(* never stale, wallets are out what they lent less what came back, vaults *)
(* are backed and accounted for, and both parties signed for the terms.    *)
THEOREM TogetherAsAlone ==
  LendingSpec => [](/\ PaidIsScheduled /\ DefaultedIsOverdue /\ LenderIsOutPrincipal
                    /\ VaultBacked /\ CollateralAccounted /\ MutualConsent)
<1> DEFINE Inv == LendingInv /\ LenderIsOutPrincipal
           Kept == /\ PaidIsScheduled /\ DefaultedIsOverdue /\ LenderIsOutPrincipal
                   /\ VaultBacked /\ CollateralAccounted /\ MutualConsent
<1>1. LendingInit => Inv
  BY LendingInitInv, CashInitially DEF LendingInit
<1>2. Inv /\ [LendingNext]_lendingVars => Inv'
  <2> SUFFICES ASSUME Inv, [LendingNext]_lendingVars
               PROVE  Inv'
    OBVIOUS
  <2>1. LendingInv'
    BY LendingInvInductive
  <2>2. [LoanNext]_loanVars
    BY LoanSteps DEF lendingVars
  <2>3. CashInv
    BY DEF CashInv, LendingInv, ProgramsInv
  <2>4. CashInv'
    BY <2>2, <2>3, CashInvInductive
  <2> QED
    BY <2>1, <2>4 DEF CashInv
<1>3. Inv => Kept
  <2> SUFFICES ASSUME Inv PROVE  Kept
    OBVIOUS
  <2>1. LoanInv /\ DealInv /\ VaultInv
    BY DEF LendingInv, ProgramsInv
  <2>2. PaidIsScheduled
    BY <2>1 DEF LoanInv, GoodLoan, PaidIsScheduled, PaidUpTo
  <2>3. DefaultedIsOverdue
    BY <2>1 DEF LoanInv, GoodLoan, DefaultedIsOverdue
  <2>4. VaultBacked /\ CollateralAccounted
    BY <2>1 DEF VaultInv, GoodVault, VaultBacked, CollateralAccounted
  <2>5. MutualConsent
    BY <2>1 DEF DealInv, GoodDeal, MutualConsent, InDealState, IsFullyBound
  <2> QED
    BY <2>2, <2>3, <2>4, <2>5
<1> QED
  BY <1>1, <1>2, <1>3, PTL DEF LendingSpec

(* While a deal waits for its lender the agreed collateral is locked.      *)
THEOREM FundingsAreBacked == LendingSpec => []FundingIsBacked
<1>1. LendingInv => FundingIsBacked
  <2> SUFFICES ASSUME LendingInv, NEW d \in Deals, InDealState(d, {"Funding"})
               PROVE  /\ flows[d].seized > 0 => HasLoan(d)
                      /\ ~HasLoan(d) => /\ InVaultState(d, {"Locked"})
                                        /\ vaults[d].atoms >= deals[d].terms.collateral
    BY DEF FundingIsBacked
  <2>1. InDealState(d, UnderWay) /\ Tied(d)
    BY DEF LendingInv, InDealState, UnderWay, PastProposal, DealState
  <2> QED
    BY <2>1 DEF Tied, Committed, InVaultState
<1> QED
  BY <1>1, LendingInvariant, PTL

(* Nobody gets collateral back without having paid the last atom first.    *)
THEOREM ReleasesFollowRepayment == LendingSpec => []ReleasedOnlyWhenRepaid
<1>1. LendingInv => ReleasedOnlyWhenRepaid
  BY DEF LendingInv, Tied, ReleasedOnlyWhenRepaid, RepaidInFull
<1> QED
  BY <1>1, LendingInvariant, PTL

(* A loan is the one both parties signed for, although no program checks.  *)
THEOREM LoansMatchDeals == LendingSpec => []LoanMatchesDeal
<1>1. LendingInv => LoanMatchesDeal
  <2> SUFFICES ASSUME LendingInv, NEW d \in Deals, HasLoan(d)
               PROVE  LET l == loans[d]
                          t == deals[d].terms
                      IN  /\ HasDeal(d) /\ HasVault(d)
                          /\ deals[d].state \in PastProposal \ {"Confirmed"}
                          /\ <<l.borrower, l.lender>> = <<deals[d].borrower, deals[d].lender>>
                          /\ <<d, l.lender, t>> \in signed /\ <<d, l.borrower, t>> \in signed
                          /\ l.principal = t.principal
                          /\ l.total = TotalRepayment(t.principal, t.rate, t.duration)
                          /\ vaults[d].borrower = l.borrower
    BY Zenon DEF LoanMatchesDeal
  <2>1. Tied(d)
    BY DEF LendingInv
  <2>2. /\ InDealState(d, UnderWay) /\ Committed(d) /\ LoanFits(d)
        /\ HasVault(d) /\ vaults[d].borrower = deals[d].borrower
    BY <2>1 DEF Tied, Committed, InVaultState
  <2>3. /\ HasDeal(d) /\ deals[d].state \in UnderWay
        /\ <<d, deals[d].borrower, deals[d].terms>> \in signed
        /\ <<d, deals[d].lender, deals[d].terms>> \in signed
    BY <2>2 DEF InDealState, UnderWay, LendingInv, ProgramsInv, DealInv, GoodDeal
  <2> QED
    BY <2>2, <2>3 DEF LoanFits, UnderWay
<1> QED
  BY <1>1, LendingInvariant, PTL

(* Completed, the reputation signal, means repaid to the last atom.        *)
THEOREM CompletedDealsAreRepaid == LendingSpec => []CompletedIsRepaid
<1>1. LendingInv => CompletedIsRepaid
  <2> SUFFICES ASSUME LendingInv, NEW d \in Deals, InDealState(d, {"Completed"})
               PROVE  HasLoan(d) /\ loans[d].totalPaid = loans[d].total
    BY DEF CompletedIsRepaid
  <2>1. HasLoan(d) /\ loans[d].state = "Completed"
    BY DEF LendingInv, Tied, RepaidInFull
  <2>2. GoodLoan(loans[d], now)
    BY <2>1 DEF LendingInv, ProgramsInv, LoanInv
  <2> QED
    BY <2>1, <2>2 DEF GoodLoan, PaidUpTo
<1> QED
  BY <1>1, LendingInvariant, PTL


(***************************************************************************)
(* The composition keeps the promise.                                      *)
(***************************************************************************)

(* One deal's collateral moves as the promise allows. *)
LEMMA CollateralStep ==
  ASSUME NEW e \in Deals, \A d \in Deals : DebtOf(d)' = DebtOf(d),
         \A d \in Deals \ {e} : CollateralOf(d)' = CollateralOf(d),
         \/ CollateralOf(e)' = CollateralOf(e)
         \/ CollateralOf(e) = "none" /\ CollateralOf(e)' = "committed"
         \/ /\ CollateralOf(e) = "committed" /\ DebtOf(e) = "settled"
            /\ CollateralOf(e)' = "returned"
         \/ /\ CollateralOf(e) = "committed" /\ DebtOf(e) # "none"
            /\ CollateralOf(e)' = "forfeited"
  PROVE  [Promise!Next]_(Promise!vars)
<1> DEFINE coll == [d \in Deals |-> CollateralOf(d)]
           owes == [d \in Deals |-> DebtOf(d)]
<1>1. owes' = owes
  OBVIOUS
<1>2. coll' = [coll EXCEPT ![e] = CollateralOf(e)']
  OBVIOUS
<1>3. coll[e] = CollateralOf(e) /\ owes[e] = DebtOf(e)
  OBVIOUS
<1>4. CASE CollateralOf(e)' = CollateralOf(e)
  <2>1. coll' = coll
    BY <1>4
  <2> QED
    BY <1>1, <2>1 DEF Promise!vars
<1> HIDE DEF coll, owes
<1>5. CASE CollateralOf(e) = "none" /\ CollateralOf(e)' = "committed"
  <2>1. Promise!Commit(e)
    BY <1>1, <1>2, <1>3, <1>5 DEF Promise!Commit, coll, owes
  <2> QED
    BY <2>1 DEF Promise!Next
<1>6. CASE /\ CollateralOf(e) = "committed" /\ DebtOf(e) = "settled"
           /\ CollateralOf(e)' = "returned"
  <2>1. Promise!Return(e)
    BY <1>1, <1>2, <1>3, <1>6 DEF Promise!Return, coll, owes
  <2> QED
    BY <2>1 DEF Promise!Next
<1>7. CASE /\ CollateralOf(e) = "committed" /\ DebtOf(e) # "none"
           /\ CollateralOf(e)' = "forfeited"
  <2>1. Promise!Forfeit(e)
    BY <1>1, <1>2, <1>3, <1>7 DEF Promise!Forfeit, coll, owes
  <2> QED
    BY <2>1 DEF Promise!Next
<1> QED
  BY <1>4, <1>5, <1>6, <1>7

(* One deal's debt moves as the promise allows. *)
LEMMA DebtStep ==
  ASSUME NEW e \in Deals, \A d \in Deals : CollateralOf(d)' = CollateralOf(d),
         \A d \in Deals \ {e} : DebtOf(d)' = DebtOf(d),
         \/ DebtOf(e)' = DebtOf(e)
         \/ DebtOf(e) = "none" /\ CollateralOf(e) = "committed" /\ DebtOf(e)' = "owed"
         \/ DebtOf(e) = "owed" /\ DebtOf(e)' \in {"settled", "writtenOff"}
  PROVE  [Promise!Next]_(Promise!vars)
<1> DEFINE coll == [d \in Deals |-> CollateralOf(d)]
           owes == [d \in Deals |-> DebtOf(d)]
<1>1. coll' = coll
  OBVIOUS
<1>2. owes' = [owes EXCEPT ![e] = DebtOf(e)']
  OBVIOUS
<1>3. coll[e] = CollateralOf(e) /\ owes[e] = DebtOf(e)
  OBVIOUS
<1>4. CASE DebtOf(e)' = DebtOf(e)
  <2>1. owes' = owes
    BY <1>4
  <2> QED
    BY <1>1, <2>1 DEF Promise!vars
<1> HIDE DEF coll, owes
<1>5. CASE DebtOf(e) = "none" /\ CollateralOf(e) = "committed" /\ DebtOf(e)' = "owed"
  <2>1. Promise!Lend(e)
    BY <1>1, <1>2, <1>3, <1>5 DEF Promise!Lend, coll, owes
  <2> QED
    BY <2>1 DEF Promise!Next
<1>6. CASE DebtOf(e) = "owed" /\ DebtOf(e)' \in {"settled", "writtenOff"}
  <2>1. Promise!Discharge(e, DebtOf(e)')
    BY <1>1, <1>2, <1>3, <1>6 DEF Promise!Discharge, coll, owes
  <2> QED
    BY <1>6, <2>1 DEF Promise!Next
<1> QED
  BY <1>4, <1>5, <1>6

(* What a loan does with its deal's debt. *)
LEMMA LoanKeepsPromise ==
  ASSUME LendingInv, NEW e \in Deals, \E l : loans' = [loans EXCEPT ![e] = l],
         UNCHANGED vaultVars, LoanProgress(e), HasLoan(e)',
         ~HasLoan(e) => Committed(e) /\ loans'[e].state = "Active"
  PROVE  [Promise!Next]_(Promise!vars)
<1>1. loans \in [Deals -> Loan \union {NoAccount}]
  BY DEF LendingInv, ProgramsInv, LoanInv, LoanTypeOK
<1>2. \A d \in Deals : CollateralOf(d)' = CollateralOf(d)
  BY DEF CollateralOf, InVaultState, HasVault, vaultVars
<1>3. \A d \in Deals \ {e} : DebtOf(d)' = DebtOf(d)
  BY <1>1 DEF DebtOf, HasLoan
<1>4. CASE HasLoan(e)
  <2>1. CASE Repayable(loans[e].state)
    <3>1. DebtOf(e) = "owed"
      BY <1>4, <2>1 DEF DebtOf, Repayable
    <3>2. DebtOf(e)' \in {"owed", "settled", "writtenOff"}
      BY DEF DebtOf, HasLoan
    <3> QED
      BY <1>2, <1>3, <3>1, <3>2, DebtStep
  <2>2. CASE ~Repayable(loans[e].state)
    <3>1. loans'[e] = loans[e]
      BY <1>4, <2>2 DEF LoanProgress
    <3>2. DebtOf(e)' = DebtOf(e)
      BY <3>1 DEF DebtOf, HasLoan
    <3> QED
      BY <1>2, <1>3, <3>2, DebtStep
  <2> QED
    BY <2>1, <2>2
<1>5. CASE ~HasLoan(e)
  <2>1. DebtOf(e) = "none"
    BY <1>5 DEF DebtOf
  <2>2. DebtOf(e)' = "owed"
    BY <1>5 DEF DebtOf, HasLoan, Repayable
  <2>3. Committed(e) /\ Tied(e) /\ flows[e].released \in Nat
    BY <1>5 DEF LendingInv, ProgramsInv, VaultInv, VaultTypeOK, Flow
  <2>4. CollateralOf(e) = "committed"
    BY <1>5, <2>3 DEF Tied, Committed, CollateralOf, RepaidInFull
  <2> QED
    BY <1>2, <1>3, <2>1, <2>2, <2>4, DebtStep
<1> QED
  BY <1>4, <1>5

(* What a vault instruction, sent for its reason, does with the collateral.*)
LEMMA VaultKeepsPromise ==
  ASSUME LendingInv, NEW e \in Deals, UNCHANGED <<loanVars, dealVars>>,
         Committed(e) => Committed(e)',
         \/ CreateVault(e) \/ Deposit(e)
         \/ HasDeal(e) /\ LockVault(e, Operator, deals[e].terms.collateral)
         \/ RepaidInFull(e) /\ ReleaseCollateral(e, Operator, deals[e].borrower)
         \/ HasLoan(e) /\ \E a \in Nat : SeizeCollateral(e, Operator, deals[e].lender, a)
  PROVE  [Promise!Next]_(Promise!vars)
<1>1. /\ vaults \in [Deals -> Vault \union {NoAccount}] /\ flows \in [Deals -> Flow]
      /\ Tied(e) /\ flows[e] \in Flow
  BY DEF LendingInv, ProgramsInv, VaultInv, VaultTypeOK
<1>2. \A d \in Deals : DebtOf(d)' = DebtOf(d)
  BY DEF DebtOf, HasLoan, loanVars
<1>3. \A d \in Deals \ {e} : CollateralOf(d)' = CollateralOf(d)
  BY <1>1 DEF CollateralOf, InVaultState, HasVault, CreateVault, InitializeVault, Deposit,
     DepositCollateral, LockVault, ReleaseCollateral, SeizeCollateral
<1>4. ASSUME \/ CollateralOf(e)' = CollateralOf(e)
             \/ CollateralOf(e) = "none" /\ CollateralOf(e)' = "committed"
             \/ /\ CollateralOf(e) = "committed" /\ DebtOf(e) = "settled"
                /\ CollateralOf(e)' = "returned"
             \/ /\ CollateralOf(e) = "committed" /\ DebtOf(e) # "none"
                /\ CollateralOf(e)' = "forfeited"
      PROVE  [Promise!Next]_(Promise!vars)
  BY <1>2, <1>3, <1>4, CollateralStep
<1>5. HasVault(e) => vaults[e] \in Vault /\ vaults[e].atoms \in Nat
  BY <1>1, BaseAssumption DEF HasVault, Vault, U64
<1>6. CASE CreateVault(e) \/ Deposit(e)
  <2>1. ~Committed(e) /\ ~Committed(e)'
    BY <1>1, <1>5, <1>6 DEF Committed, InVaultState, HasVault, CreateVault, InitializeVault,
       Deposit, DepositCollateral, Depositable, Vault
  <2>2. CollateralOf(e) = "none" /\ CollateralOf(e)' = "none"
    BY <2>1 DEF CollateralOf, Committed
  <2> QED
    BY <1>4, <2>2
<1>7. CASE HasDeal(e) /\ LockVault(e, Operator, deals[e].terms.collateral)
  <2>1. /\ vaults[e].state = "Open" /\ HasVault(e) /\ flows' = flows
        /\ vaults' = [vaults EXCEPT ![e].state = "Locked"]
    BY <1>7 DEF LockVault, InVaultState
  <2>2. ~Committed(e) /\ flows[e].seized = 0 /\ ~(flows[e].released > 0)
    BY <1>1, <2>1 DEF Committed, InVaultState, Tied
  <2>3. vaults'[e] \in Vault /\ vaults'[e].state = "Locked"
    BY <1>1, <1>5, <2>1 DEF Vault, VaultState
  <2>4. Committed(e)'
    BY <2>3, NoAccountIsNoVault DEF Committed, InVaultState, HasVault
  <2>5. CollateralOf(e) = "none" /\ CollateralOf(e)' = "committed"
    BY <2>1, <2>2, <2>4 DEF CollateralOf, Committed
  <2> QED
    BY <1>4, <2>5
<1>8. CASE RepaidInFull(e) /\ ReleaseCollateral(e, Operator, deals[e].borrower)
  <2>1. /\ HasVault(e) /\ vaults[e].state = "Locked" /\ vaults[e].atoms > 0
        /\ flows' = [flows EXCEPT ![e].released = @ + vaults[e].atoms]
    BY <1>8 DEF ReleaseCollateral, InVaultState, Releasable
  <2>2. Committed(e) /\ Committed(e)' /\ ~(flows[e].released > 0)
    BY <1>1, <2>1 DEF Committed, InVaultState, Tied
  <2>3. DebtOf(e) = "settled"
    BY <1>8 DEF DebtOf, RepaidInFull, Repayable
  <2>4. /\ flows'[e].seized = flows[e].seized
        /\ flows'[e].released = flows[e].released + vaults[e].atoms
        /\ flows[e].released \in Nat
    BY <1>1, <2>1 DEF Flow
  <2>5. flows'[e].released > 0
    BY <1>5, <2>1, <2>4
  <2>6. CollateralOf(e) = IF flows[e].seized > 0 THEN "forfeited" ELSE "committed"
    BY <2>2 DEF CollateralOf, Committed
  <2>7. CollateralOf(e)' = IF flows[e].seized > 0 THEN "forfeited" ELSE "returned"
    BY <2>2, <2>4, <2>5 DEF CollateralOf, Committed
  <2> QED
    BY <1>4, <2>3, <2>6, <2>7
<1>9. CASE HasLoan(e) /\ \E a \in Nat : SeizeCollateral(e, Operator, deals[e].lender, a)
  <2>1. PICK a \in Nat : /\ a > 0 /\ InVaultState(e, {"Locked"})
                         /\ flows' = [flows EXCEPT ![e].seized = @ + a]
    BY <1>9 DEF SeizeCollateral
  <2>2. Committed(e) /\ Committed(e)' /\ ~(flows[e].released > 0)
    BY <1>1, <2>1 DEF Committed, InVaultState, Tied
  <2>3. DebtOf(e) # "none"
    BY <1>9 DEF DebtOf
  <2>4. flows'[e].seized = flows[e].seized + a /\ flows[e].seized \in Nat
    BY <1>1, <2>1 DEF Flow
  <2>5. flows'[e].seized > 0
    BY <2>1, <2>4
  <2>6. CollateralOf(e) \in {"committed", "forfeited"}
    BY <2>2 DEF CollateralOf, Committed
  <2>7. CollateralOf(e)' = "forfeited"
    BY <2>2, <2>5 DEF CollateralOf, Committed
  <2> QED
    BY <1>4, <2>3, <2>6, <2>7
<1> QED
  BY <1>6, <1>7, <1>8, <1>9

LEMMA PromiseStep ==
  ASSUME LendingInv, LendingNext
  PROVE  [Promise!Next]_(Promise!vars)
<1>1. \A d \in Deals : LoanProgress(d) /\ (Committed(d) => Committed(d)')
                         /\ (HasLoan(d) => HasLoan(d)')
  BY Lasting
<1>2. ASSUME loans' = loans, UNCHANGED vaultVars
      PROVE  [Promise!Next]_(Promise!vars)
  BY <1>2 DEF Promise!vars, CollateralOf, DebtOf, InVaultState, HasVault, HasLoan, vaultVars
<1>3. CASE KeeperStep \/ TimePasses
  BY <1>2, <1>3 DEF KeeperStep, TimePasses, LoanStep, AdvanceClock, loanVars
<1>4. ASSUME NEW e \in Deals, Propose(e) \/ Confirm(e) \/ Cancel(e)
      PROVE  [Promise!Next]_(Promise!vars)
  BY <1>2, <1>4 DEF Propose, Confirm, Cancel, DealStep, loanVars
<1>5. ASSUME NEW e \in Deals, CreateVault(e) \/ Deposit(e)
      PROVE  [Promise!Next]_(Promise!vars)
  BY <1>1, <1>5, VaultKeepsPromise DEF CreateVault, Deposit, VaultStep
<1>6. ASSUME NEW e \in Deals, Fund(e)
      PROVE  [Promise!Next]_(Promise!vars)
  <2>1. InDealState(e, {"Funding"})
    BY <1>6 DEF Fund, FundingOpen
  <2>2. Committed(e)
    BY <2>1 DEF LendingInv, Tied, InDealState, UnderWay, PastProposal, DealState
  <2>3. UNCHANGED vaultVars
    BY <1>6 DEF Fund, LoanStep
  <2> DEFINE t == deals[e].terms
             b == BuildSchedule(t.principal, t.rate, t.duration)
             l == [borrower |-> deals[e].borrower, lender |-> deals[e].lender,
                   principal |-> t.principal, duration |-> t.duration, total |-> b.total,
                   installment |-> b.installment, final |-> b.final,
                   paymentsMade |-> 0, totalPaid |-> 0, activatedAt |-> now,
                   state |-> "Active"]
  <2>4. loans' = [loans EXCEPT ![e] = l] /\ l.state = "Active"
    <3>1. ActivateLoan(e, deals[e].lender, deals[e].borrower, t.principal, t.rate, t.duration,
                       ClientFee(t.principal), Operator)
      BY <1>6, FundStep, Zenon DEF LendingInv
    <3> HIDE DEF b
    <3> QED
      BY <3>1 DEF ActivateLoan, b
  <2> HIDE DEF l
  <2>5. HasLoan(e)'
    BY <1>6, FundMakesLoan
  <2>6. loans'[e].state = "Active"
    BY <2>4 DEF LendingInv, ProgramsInv, LoanInv, LoanTypeOK
  <2> QED
    BY <1>1, <2>2, <2>3, <2>4, <2>5, <2>6, LoanKeepsPromise
<1>7. ASSUME NEW e \in Deals, HasLoan(e), UNCHANGED vaultVars,
             \E l : loans' = [loans EXCEPT ![e] = l]
      PROVE  [Promise!Next]_(Promise!vars)
  <2>1. LoanProgress(e) /\ HasLoan(e)'
    BY <1>1, <1>7
  <2> QED
    BY <1>7, <2>1, LoanKeepsPromise
<1>8. ASSUME NEW e \in Deals, Pay(e) \/ PayAll(e) \/ ReportDefault(e)
      PROVE  [Promise!Next]_(Promise!vars)
  BY <1>7, <1>8 DEF Pay, PayAll, ReportDefault, MakePayment, RepayInFull, FlagDefault, LoanStep
<1>9. ASSUME NEW tx \in Transactions, Justified(tx), Execute(tx)
      PROVE  [Promise!Next]_(Promise!vars)
  <2> DEFINE e == tx.deal
  <2>1. e \in Deals /\ tx.amount \in Nat
    BY DEF Transactions
  <2>2. CASE UNCHANGED <<loanVars, dealVars>>
    <3>1. \/ HasDeal(e) /\ LockVault(e, Operator, deals[e].terms.collateral)
          \/ RepaidInFull(e) /\ ReleaseCollateral(e, Operator, deals[e].borrower)
          \/ HasLoan(e) /\ SeizeCollateral(e, Operator, deals[e].lender, tx.amount)
          \/ UNCHANGED vaultVars
      BY <1>9 DEF Execute, OnVault, OnDeal, OnLoan, Justified
    <3>2. CASE UNCHANGED vaultVars
      BY <1>2, <2>2, <3>2 DEF loanVars
    <3> QED
      BY <1>1, <2>1, <2>2, <3>1, <3>2, VaultKeepsPromise
  <2>3. CASE UNCHANGED <<loanVars, vaultVars>>
    BY <1>2, <2>3 DEF loanVars
  <2>4. CASE OnLoan(MarkLiquidated(e, Operator, FALSE))
             \/ OnLoan(MarkLiquidated(e, Operator, TRUE))
    BY <1>7, <2>1, <2>4 DEF OnLoan, MarkLiquidated
  <2> QED
    BY <1>9, <2>2, <2>3, <2>4 DEF Execute, OnVault, OnDeal
<1>10. CASE PartyStep
  BY <1>4, <1>5, <1>6, <1>8, <1>10 DEF PartyStep, RepaymentPage
<1> QED
  BY <1>3, <1>9, <1>10, StepKinds

(* Whatever the keeper sends and whenever it lands, the composition of the *)
(* three programs implements the promise made to the parties.              *)
THEOREM PromiseIsKept == LendingSpec => KeepsPromise
<1>1. LendingInit => Promise!Init
  BY DEF LendingInit, BooksOpen, VaultInit, Promise!Init, CollateralOf, DebtOf, HasLoan, InVaultState,
     HasVault
<1>2. LendingInv /\ [LendingNext]_lendingVars => [Promise!Next]_(Promise!vars)
  <2>1. CASE UNCHANGED lendingVars
    BY <2>1 DEF lendingVars, loanVars, vaultVars, Promise!vars, CollateralOf, DebtOf,
       InVaultState, HasVault, HasLoan
  <2> QED
    BY <2>1, PromiseStep
<1> QED
  BY <1>1, <1>2, LendingInvariant, PTL DEF LendingSpec, KeepsPromise, Promise!Spec
=============================================================================
