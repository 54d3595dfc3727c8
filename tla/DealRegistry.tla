---------------------------- MODULE DealRegistry ----------------------------
(***************************************************************************)
(* The deal_registry program: proposal, confirmation, cancellation and the *)
(* state machine the other programs' authorities advance.  One action per  *)
(* instruction.  Timestamps and mints are left out of the deal account (no *)
(* instruction reads them back); mints stay in the terms, which are hashed.*)
(*                                                                         *)
(* `signed` is a history variable: who signed for which deal while looking *)
(* at which terms.                                                         *)
(***************************************************************************)
EXTENDS PersatMath

CONSTANTS
  TermSheets,     \* terms the clients' forms may submit, valid or not
  Mints,          \* token mints a client may name
  NoMint,         \* Pubkey::default() in a mint field
  Operators       \* keys a deployment may record as a program authority

DealTerms ==
  [principal : U64, loanMint : Mints, collateralMint : Mints, collateral : U64,
   rate : Nat, duration : Nat, ltv : Nat]

ASSUME DealAssumption ==
  /\ TermSheets \subseteq DealTerms
  /\ Operators \subseteq Wallets

VARIABLES
  registry,   \* the RegistryConfig singleton
  deals,      \* the deal account of each deal id
  signed      \* <<d, wallet, terms>>: wallet signed d believing in terms

dealVars == <<registry, deals, signed>>

MaxRateBps        == 10000
MaxProtocolLtvBps == 5000

DealState ==
  {"Proposed", "Confirmed", "Funding", "Active", "Repaying", "Defaulted",
   "PartiallyLiquidated", "FullyLiquidated", "Completed", "Cancelled"}

CloseOutcome == {"Completed", "PartiallyLiquidated", "FullyLiquidated"}

Parties == Wallets \union {Default}

DealAccount ==
  [creator : Wallets, borrower : Parties, lender : Parties,
   creatorSide : {"Borrower", "Lender"}, visibility : {"Private", "Public"},
   terms : TermSheets, state : DealState]

RegistryConfig ==
  [escrow : Operators, loan : Operators, liquidation : Operators]

ASSUME NoAccountIsNoDeal ==
  /\ NoAccount \notin DealAccount
  /\ NoAccount \notin RegistryConfig

HasDeal(d) == deals[d] # NoAccount

InDealState(d, states) == HasDeal(d) /\ deals[d].state \in states

(***************************************************************************)
(* Terms.                                                                  *)
(***************************************************************************)
Validate(t) ==
  /\ t.collateral > 0
  /\ t.rate <= MaxRateBps
  /\ t.ltv > 0 /\ t.ltv <= MaxProtocolLtvBps
  /\ NoMint \notin {t.loanMint, t.collateralMint}
  /\ t.loanMint # t.collateralMint
  /\ ScheduleOk(t.principal, t.rate, t.duration)

HashMutant(t) ==
  <<t.principal, t.loanMint, t.collateralMint, t.rate, t.duration, t.ltv>>

(* SHA-256 over the fixed-width fields in a fixed order: equal digests are *)
(* equal field lists.                                                      *)
Hash(t) ==
  <<t.principal, t.loanMint, t.collateralMint, t.collateral, t.rate,
    t.duration, t.ltv>>

IsFullyBound(deal) ==
  /\ Default \notin {deal.borrower, deal.lender}
  /\ deal.borrower # deal.lender

DealTypeOK ==
  /\ registry \in RegistryConfig \union {NoAccount}
  /\ deals \in [Deals -> DealAccount \union {NoAccount}]
  /\ signed \subseteq Deals \X Wallets \X TermSheets
  /\ \A d \in Deals : HasDeal(d) =>
       deals[d].creator = IF deals[d].creatorSide = "Borrower"
                          THEN deals[d].borrower ELSE deals[d].lender

DealInit ==
  /\ registry = NoAccount
  /\ deals = [d \in Deals |-> NoAccount]
  /\ signed = {}

(***************************************************************************)
(* Instructions.                                                           *)
(***************************************************************************)
InitializeRegistry(escrow, loan, liquidation) ==
  /\ registry = NoAccount
  /\ registry' = [escrow |-> escrow, loan |-> loan, liquidation |-> liquidation]
  /\ UNCHANGED <<deals, signed>>

(* counterparty = Default stands for None.  A named counterparty is never  *)
(* the creator, and a public listing names nobody.                         *)
ProposeDeal(d, creator, terms, visibility, side, counterparty) ==
  /\ ~HasDeal(d)
  /\ Validate(terms)
  /\ counterparty # creator
  /\ visibility = "Public" => counterparty = Default
  /\ deals' = [deals EXCEPT ![d] =
       [creator     |-> creator,
        borrower    |-> IF side = "Borrower" THEN creator ELSE counterparty,
        lender      |-> IF side = "Lender" THEN creator ELSE counterparty,
        creatorSide |-> side,
        visibility  |-> visibility,
        terms       |-> terms,
        state       |-> "Proposed"]]
  /\ signed' = signed \union {<<d, creator, terms>>}
  /\ UNCHANGED registry

CounterpartyMutant(deal) == Default

(* The side the creator did not take. *)
Counterparty(deal) ==
  IF deal.creatorSide = "Borrower" THEN deal.lender ELSE deal.borrower

WithCounterparty(deal, wallet) ==
  IF deal.creatorSide = "Borrower" THEN [deal EXCEPT !.lender = wallet]
                                   ELSE [deal EXCEPT !.borrower = wallet]

(* seen: the terms on the confirmer's screen, whose hash the client sends. *)
ConfirmDeal(d, confirmer, seen) ==
  /\ InDealState(d, {"Proposed"})
  /\ LET deal == deals[d]
     IN  /\ Hash(deal.terms) = Hash(seen)
         /\ confirmer # deal.creator
         /\ Counterparty(deal) \in {Default, confirmer}
         /\ deals' = [deals EXCEPT ![d] =
              [WithCounterparty(deal, confirmer) EXCEPT !.state = "Confirmed"]]
  /\ signed' = signed \union {<<d, confirmer, seen>>}
  /\ UNCHANGED registry

CancelDeal(d, actor) ==
  /\ InDealState(d, {"Proposed", "Confirmed"})
  /\ actor \in {deals[d].creator, deals[d].borrower, deals[d].lender}
  /\ deals' = [deals EXCEPT ![d].state = "Cancelled"]
  /\ UNCHANGED <<registry, signed>>

(* Instructions signed by a program authority: AdvanceState's accounts.    *)
Advance(d, to) ==
  /\ registry # NoAccount
  /\ deals' = [deals EXCEPT ![d].state = to]
  /\ UNCHANGED <<registry, signed>>

BeginFunding(d, signer) ==
  /\ InDealState(d, {"Confirmed"})
  /\ IsFullyBound(deals[d])
  /\ Advance(d, "Funding")
  /\ signer = registry.escrow

MarkActive(d, signer) ==
  /\ InDealState(d, {"Funding"})
  /\ Advance(d, "Active")
  /\ signer = registry.loan

Closable(s) == s \in {"Active", "Repaying", "Defaulted", "PartiallyLiquidated"}

CloserOf(outcome) ==
  IF outcome = "Completed" THEN registry.loan ELSE registry.liquidation

CloseDeal(d, signer, outcome) ==
  /\ HasDeal(d)
  /\ Closable(deals[d].state)
  /\ Advance(d, outcome)
  /\ signer = CloserOf(outcome)

DealNext ==
  \/ \E e, l, q \in Operators : InitializeRegistry(e, l, q)
  \/ \E d \in Deals, w \in Wallets, t \in TermSheets,
        v \in {"Private", "Public"}, s \in {"Borrower", "Lender"}, c \in Parties :
       ProposeDeal(d, w, t, v, s, c)
  \/ \E d \in Deals, w \in Wallets, t \in TermSheets : ConfirmDeal(d, w, t)
  \/ \E d \in Deals, w \in Wallets : CancelDeal(d, w)
  \/ \E d \in Deals, w \in Wallets : BeginFunding(d, w)
  \/ \E d \in Deals, w \in Wallets : MarkActive(d, w)
  \/ \E d \in Deals, w \in Wallets, o \in CloseOutcome : CloseDeal(d, w, o)

DealSpec == DealInit /\ [][DealNext]_dealVars

(***************************************************************************)
(* Properties.                                                             *)
(***************************************************************************)
PastProposal == DealState \ {"Proposed", "Cancelled"}

(* From confirmation on, a deal binds two distinct wallets and each of     *)
(* them signed for exactly the terms the program stores, in every field:   *)
(* confirm_deal's hash comparison and its counterparty match.              *)
MutualConsent ==
  \A d \in Deals : InDealState(d, PastProposal) =>
    /\ IsFullyBound(deals[d])
    /\ <<d, deals[d].borrower, deals[d].terms>> \in signed
    /\ <<d, deals[d].lender, deals[d].terms>> \in signed

(* A wallet named in a proposal stays in its place: nobody else takes a    *)
(* side that was bound, and no instruction touches the agreed terms.       *)
StaysBound(d) ==
  HasDeal(d) =>
    /\ HasDeal(d)'
    /\ deals'[d].terms = deals[d].terms
    /\ deals[d].borrower # Default => deals'[d].borrower = deals[d].borrower
    /\ deals[d].lender # Default => deals'[d].lender = deals[d].lender

BoundForGood == [][\A d \in Deals : StaysBound(d)]_dealVars

(* The outcomes the reputation signal is built from are written once: a    *)
(* deal that is completed, fully liquidated or cancelled never changes     *)
(* again, whoever signs what afterwards.                                   *)
StaysDecided(d) ==
  InDealState(d, {"Completed", "FullyLiquidated", "Cancelled"}) =>
    deals'[d] = deals[d]

OutcomeIsFinal == [][\A d \in Deals : StaysDecided(d)]_dealVars
=============================================================================
