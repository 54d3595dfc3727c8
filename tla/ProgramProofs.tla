---------------------------- MODULE ProgramProofs ---------------------------
(***************************************************************************)
(* Proofs about the three programs a loan runs on, each on its own: the    *)
(* registry, the loan and the vault, for all wallets, deals, term sheets,  *)
(* amounts and clocks.                                                     *)
(***************************************************************************)
EXTENDS DealRegistry, LoanLifecycle, EscrowVault, FiniteSetTheorems, WellFoundedInduction, TLAPS

(***************************************************************************)
(* DealRegistry.                                                           *)
(***************************************************************************)

(***************************************************************************)
(* The inductive invariant, deal by deal.  MutualConsent speaks of deals   *)
(* past confirmation only; to get there it needs that a proposal carries   *)
(* its creator's signature, on the side the creator declared, and names no *)
(* wallet twice, and that sheets are told apart by their hash.             *)
(***************************************************************************)
CreatorSits(deal) ==
  deal.creator = IF deal.creatorSide = "Borrower" THEN deal.borrower ELSE deal.lender

GoodDeal(d) ==
  LET deal == deals[d]
  IN  /\ deal \in DealAccount
      /\ CreatorSits(deal)
      /\ <<d, deal.creator, deal.terms>> \in signed
      /\ deal.borrower # deal.lender
      /\ deal.state \in PastProposal =>
           /\ Default \notin {deal.borrower, deal.lender}
           /\ <<d, deal.borrower, deal.terms>> \in signed
           /\ <<d, deal.lender, deal.terms>> \in signed

DealInv ==
  /\ registry \in RegistryConfig \union {NoAccount}
  /\ deals \in [Deals -> DealAccount \union {NoAccount}]
  /\ signed \subseteq Deals \X Wallets \X TermSheets
  /\ \A d \in Deals : HasDeal(d) => GoodDeal(d)

(* Equal hashes are equal terms: no field is left out of the digest. *)
THEOREM HashIsFaithful ==
  ASSUME NEW t \in TermSheets, NEW u \in TermSheets, Hash(t) = Hash(u)
  PROVE  t = u
<1>1. t \in DealTerms /\ u \in DealTerms
  BY DealAssumption
<1>2. /\ t.principal = u.principal /\ t.loanMint = u.loanMint
      /\ t.collateralMint = u.collateralMint /\ t.collateral = u.collateral
      /\ t.rate = u.rate /\ t.duration = u.duration /\ t.ltv = u.ltv
  BY DEF Hash
<1> QED
  BY <1>1, <1>2 DEF DealTerms

(* A registry without deals. *)
LEMMA DealInitInv == DealInit => DealInv
BY DEF DealInit, DealInv, HasDeal

(* Writing one good deal, with signatures only added, keeps the others.    *)
LEMMA GoodDealUpdate ==
  ASSUME DealInv, NEW d \in Deals, NEW deal \in DealAccount, registry' = registry,
         deals' = [deals EXCEPT ![d] = deal],
         signed \subseteq signed', signed' \subseteq Deals \X Wallets \X TermSheets,
         GoodDeal(d)'
  PROVE  DealInv'
<1>1. deals' \in [Deals -> DealAccount \union {NoAccount}]
  BY DEF DealInv
<1>2. ASSUME NEW e \in Deals, HasDeal(e)'
      PROVE  GoodDeal(e)'
  <2>1. CASE e = d
    BY <2>1
  <2>2. CASE e # d
    <3>1. deals'[e] = deals[e] /\ GoodDeal(e)
      BY <1>2, <2>2 DEF DealInv, HasDeal
    <3> QED
      BY <3>1 DEF GoodDeal
  <2> QED
    BY <2>1, <2>2
<1> QED
  BY <1>1, <1>2 DEF DealInv

(* A proposal seats and signs for its creator (propose_deal). *)
LEMMA ProposeKeepsInv ==
  ASSUME DealInv, NEW d \in Deals, NEW w \in Wallets, NEW t \in TermSheets,
         NEW v \in {"Private", "Public"}, NEW s \in {"Borrower", "Lender"},
         NEW c \in Parties, ProposeDeal(d, w, t, v, s, c)
  PROVE  DealInv'
<1> DEFINE deal == [creator     |-> w,
                    borrower    |-> IF s = "Borrower" THEN w ELSE c,
                    lender      |-> IF s = "Lender" THEN w ELSE c,
                    creatorSide |-> s, visibility |-> v, terms |-> t,
                    state       |-> "Proposed"]
<1>1. deal \in DealAccount
  BY DEF DealAccount, DealState, Parties
<1>2. /\ deals' = [deals EXCEPT ![d] = deal] /\ registry' = registry
      /\ signed' = signed \union {<<d, w, t>>} /\ c # w
  BY DEF ProposeDeal
<1>3. deals'[d] = deal
  BY <1>2 DEF DealInv
<1>4. GoodDeal(d)'
  BY <1>1, <1>2, <1>3 DEF GoodDeal, CreatorSits, PastProposal
<1>5. signed' \subseteq Deals \X Wallets \X TermSheets
  BY <1>2 DEF DealInv
<1> HIDE DEF deal
<1> QED
  BY <1>1, <1>2, <1>4, <1>5, GoodDealUpdate

(* A confirmation adds the second signature (confirm_deal's hash check). *)
LEMMA ConfirmKeepsInv ==
  ASSUME DealInv, NEW d \in Deals, NEW w \in Wallets, NEW t \in TermSheets,
         ConfirmDeal(d, w, t)
  PROVE  DealInv'
<1> DEFINE old == deals[d]
           deal == [WithCounterparty(old, w) EXCEPT !.state = "Confirmed"]
<1>1. /\ HasDeal(d) /\ old.state = "Proposed" /\ Hash(old.terms) = Hash(t)
      /\ w # old.creator /\ Counterparty(old) \in {Default, w}
      /\ deals' = [deals EXCEPT ![d] = deal] /\ registry' = registry
      /\ signed' = signed \union {<<d, w, t>>}
  BY DEF ConfirmDeal, InDealState
<1>2. GoodDeal(d) /\ old \in DealAccount
  BY <1>1 DEF DealInv, GoodDeal
<1>3. old.terms = t
  BY <1>1, <1>2, HashIsFaithful DEF DealAccount
<1>4. /\ deal \in DealAccount /\ deal.state = "Confirmed" /\ deal.terms = t
      /\ deal.creator = old.creator /\ deal.creatorSide = old.creatorSide
      /\ old.creatorSide = "Borrower" =>
           deal.borrower = old.creator /\ deal.lender = w
      /\ old.creatorSide # "Borrower" =>
           deal.lender = old.creator /\ deal.borrower = w
  BY <1>2, <1>3 DEF GoodDeal, CreatorSits, DealAccount, DealState, Parties,
                    WithCounterparty
<1>5. deals'[d] = deal
  BY <1>1 DEF DealInv
<1>6. /\ <<d, w, t>> \in signed' /\ <<d, old.creator, t>> \in signed'
      /\ old.creator \in Wallets
  BY <1>1, <1>2, <1>3 DEF GoodDeal, DealAccount
<1> HIDE DEF deal, old
<1>7. GoodDeal(d)'
  BY <1>1, <1>4, <1>5, <1>6, BaseAssumption DEF GoodDeal, CreatorSits
<1>8. signed' \subseteq Deals \X Wallets \X TermSheets
  BY <1>1 DEF DealInv
<1> QED
  BY <1>1, <1>4, <1>7, <1>8, GoodDealUpdate

(* Cancellation and the authorities' instructions change the state only;   *)
(* the ones that lead past the proposal start past it.                     *)
LEMMA StateChangeKeepsDealInv ==
  ASSUME DealInv, NEW d \in Deals, HasDeal(d), NEW s \in DealState,
         s \in PastProposal => deals[d].state \in PastProposal,
         deals' = [deals EXCEPT ![d].state = s], UNCHANGED <<registry, signed>>
  PROVE  DealInv'
<1> DEFINE deal == [deals[d] EXCEPT !.state = s]
<1>1. GoodDeal(d) /\ deals[d] \in DealAccount
  BY DEF DealInv, GoodDeal
<1>2. deal \in DealAccount
  BY <1>1 DEF DealAccount
<1>3. deals' = [deals EXCEPT ![d] = deal] /\ deals'[d] = deal
  BY DEF DealInv
<1>4. GoodDeal(d)'
  BY <1>1, <1>2, <1>3 DEF GoodDeal, CreatorSits, DealAccount
<1>5. signed' \subseteq Deals \X Wallets \X TermSheets
  BY DEF DealInv
<1> HIDE DEF deal
<1> QED
  BY <1>2, <1>3, <1>4, <1>5, GoodDealUpdate

(* The invariant is inductive: one case per instruction. *)
LEMMA DealInvInductive == DealInv /\ [DealNext]_dealVars => DealInv'
<1> SUFFICES ASSUME DealInv, [DealNext]_dealVars
             PROVE  DealInv'
  OBVIOUS
<1> USE DEF DealState, PastProposal
<1>1. ASSUME NEW e \in Operators, NEW l \in Operators, NEW q \in Operators,
             InitializeRegistry(e, l, q)
      PROVE  DealInv'
  BY <1>1 DEF InitializeRegistry, RegistryConfig, DealInv, HasDeal, GoodDeal
<1>2. ASSUME NEW d \in Deals, NEW w \in Wallets, CancelDeal(d, w)
      PROVE  DealInv'
  BY <1>2, StateChangeKeepsDealInv DEF CancelDeal, InDealState
<1>3. ASSUME NEW d \in Deals, NEW w \in Wallets, BeginFunding(d, w)
      PROVE  DealInv'
  BY <1>3, StateChangeKeepsDealInv DEF BeginFunding, InDealState, Advance
<1>4. ASSUME NEW d \in Deals, NEW w \in Wallets, MarkActive(d, w)
      PROVE  DealInv'
  BY <1>4, StateChangeKeepsDealInv DEF MarkActive, InDealState, Advance
<1>5. ASSUME NEW d \in Deals, NEW w \in Wallets, NEW o \in CloseOutcome,
             CloseDeal(d, w, o)
      PROVE  DealInv'
  BY <1>5, StateChangeKeepsDealInv DEF CloseDeal, Closable, Advance, CloseOutcome
<1>6. CASE UNCHANGED dealVars
  BY <1>6 DEF dealVars, DealInv, HasDeal, GoodDeal
<1> QED
  BY <1>1, <1>2, <1>3, <1>4, <1>5, <1>6, ProposeKeepsInv, ConfirmKeepsInv DEF DealNext

(* The invariant holds of every reachable state. *)
THEOREM DealInvariant == DealSpec => []DealInv
BY DealInitInv, DealInvInductive, PTL DEF DealSpec

(* Every deal is well formed and its creator sits on the declared side.    *)
THEOREM DealTypeCorrect == DealSpec => []DealTypeOK
<1>1. DealInv => DealTypeOK
  BY DEF DealInv, DealTypeOK, GoodDeal, CreatorSits
<1> QED
  BY <1>1, DealInvariant, PTL

(* Nobody is ever bound to numbers they did not sign for. *)
THEOREM ConsentIsMutual == DealSpec => []MutualConsent
<1>1. DealInv => MutualConsent
  BY DEF DealInv, GoodDeal, MutualConsent, InDealState, IsFullyBound
<1> QED
  BY <1>1, DealInvariant, PTL

(* One step neither rebinds a side nor touches agreed terms.               *)
LEMMA StaysBoundStep ==
  ASSUME DealInv, DealNext, NEW d \in Deals
  PROVE  StaysBound(d)
<1> SUFFICES ASSUME HasDeal(d)
             PROVE  StaysBound(d)
  BY DEF StaysBound
<1>1. /\ deals \in [Deals -> DealAccount \union {NoAccount}] /\ GoodDeal(d)
      /\ deals[d] \in DealAccount
  BY DEF DealInv, GoodDeal
<1>2. CASE deals'[d] = deals[d]
  BY <1>2 DEF StaysBound, HasDeal
<1>3. ASSUME NEW e \in Deals, NEW s \in DealState,
             deals' = [deals EXCEPT ![e].state = s]
      PROVE  StaysBound(d)
  <2>1. CASE e # d
    BY <1>1, <1>2, <1>3, <2>1
  <2>2. CASE e = d
    <3>1. deals'[d] = [deals[d] EXCEPT !.state = s]
      BY <1>1, <1>3, <2>2
    <3>2. deals'[d] \in DealAccount
      BY <1>1, <3>1 DEF DealAccount
    <3> QED
      BY <1>1, <3>1, <3>2, NoAccountIsNoDeal DEF StaysBound, HasDeal, DealAccount
  <2> QED
    BY <2>1, <2>2
<1>4. ASSUME NEW e \in Deals, NEW w \in Wallets, NEW t \in TermSheets,
             NEW v \in {"Private", "Public"}, NEW s \in {"Borrower", "Lender"},
             NEW c \in Parties, ProposeDeal(e, w, t, v, s, c)
      PROVE  StaysBound(d)
  <2>1. e # d
    BY <1>4 DEF ProposeDeal
  <2> QED
    BY <1>1, <1>2, <1>4, <2>1 DEF ProposeDeal
<1>5. ASSUME NEW e \in Deals, NEW w \in Wallets, NEW t \in TermSheets,
             ConfirmDeal(e, w, t)
      PROVE  StaysBound(d)
  <2>1. CASE e # d
    BY <1>1, <1>2, <1>5, <2>1 DEF ConfirmDeal
  <2>2. CASE e = d
    <3>1. /\ deals'[d] = [WithCounterparty(deals[d], w) EXCEPT !.state = "Confirmed"]
          /\ Counterparty(deals[d]) \in {Default, w}
      BY <1>1, <1>5, <2>2 DEF ConfirmDeal
    <3>2. deals'[d] \in DealAccount
      BY <1>1, <3>1 DEF DealAccount, DealState, Parties, WithCounterparty
    <3>3. deals'[d] # NoAccount
      BY <3>2, NoAccountIsNoDeal
    <3> QED
      BY <1>1, <3>1, <3>3
         DEF StaysBound, HasDeal, DealAccount, WithCounterparty, Counterparty
  <2> QED
    BY <2>1, <2>2
<1>6. DealNext =>
        \/ deals' = deals
        \/ \E e \in Deals, s \in DealState : deals' = [deals EXCEPT ![e].state = s]
        \/ \E e \in Deals, w \in Wallets, t \in TermSheets,
              v \in {"Private", "Public"}, s \in {"Borrower", "Lender"}, c \in Parties :
             ProposeDeal(e, w, t, v, s, c)
        \/ \E e \in Deals, w \in Wallets, t \in TermSheets : ConfirmDeal(e, w, t)
  BY DEF DealNext, InitializeRegistry, CancelDeal, BeginFunding, MarkActive, CloseDeal,
         Advance, DealState, CloseOutcome
<1> QED
  BY <1>2, <1>3, <1>4, <1>5, <1>6

(* A side that was bound and the agreed terms are never rewritten.         *)
THEOREM BindingIsForGood == DealSpec => BoundForGood
<1>1. DealInv /\ [DealNext]_dealVars => [\A d \in Deals : StaysBound(d)]_dealVars
  BY StaysBoundStep
<1> QED
  BY <1>1, DealInvariant, PTL DEF DealSpec, BoundForGood

(* Completed, fully liquidated and cancelled deals never change again.     *)
THEOREM OutcomesAreFinal == DealSpec => OutcomeIsFinal
<1>1. ASSUME DealInv, DealNext, NEW d \in Deals,
             InDealState(d, {"Completed", "FullyLiquidated", "Cancelled"})
      PROVE  deals'[d] = deals[d]
  <2>1. deals \in [Deals -> DealAccount \union {NoAccount}] /\ HasDeal(d)
    BY <1>1 DEF DealInv, InDealState
  <2>2. ASSUME NEW e \in Deals, NEW x, deals' = [deals EXCEPT ![e] = x], e # d
        PROVE  deals'[d] = deals[d]
    BY <2>1, <2>2
  <2>3. ASSUME NEW e \in Deals, NEW s, deals' = [deals EXCEPT ![e].state = s], e # d
        PROVE  deals'[d] = deals[d]
    BY <2>1, <2>3
  <2>4. DealNext =>
          \/ deals' = deals
          \/ \E e \in Deals, s \in DealState :
               /\ deals' = [deals EXCEPT ![e].state = s]
               /\ deals[e].state \notin {"Completed", "FullyLiquidated", "Cancelled"}
          \/ \E e \in Deals : \E x :
               /\ deals' = [deals EXCEPT ![e] = x]
               /\ ~InDealState(e, {"Completed", "FullyLiquidated", "Cancelled"})
    BY DEF DealNext, InitializeRegistry, ProposeDeal, ConfirmDeal, CancelDeal, BeginFunding,
           MarkActive, CloseDeal, Closable, Advance, InDealState, DealState, CloseOutcome
  <2> QED
    BY <1>1, <2>2, <2>3, <2>4 DEF InDealState
<1>2. DealInv /\ [DealNext]_dealVars => [\A d \in Deals : StaysDecided(d)]_dealVars
  BY <1>1 DEF StaysDecided
<1> QED
  BY <1>2, DealInvariant, PTL DEF DealSpec, OutcomeIsFinal

(***************************************************************************)
(* Sums over the cells of a function, as the library folds them.           *)
(***************************************************************************)
LEMMA SmallestExists ==
  ASSUME NEW T \in SUBSET Nat, T # {}
  PROVE  \E x \in T : \A y \in T : x <= y
<1> DEFINE Below == {ss \in Nat \X Nat : ss[1] < ss[2]}
<1>1. IsWellFoundedOn(Below, Nat)
  BY NatLessThanWellFounded DEF OpToRel
<1>2. \A x, y \in Nat : x < y => <<x, y>> \in Below
  OBVIOUS
<1> HIDE DEF Below
<1>3. PICK x \in T : \A y \in T : ~ (<<y, x>> \in Below)
  BY <1>1, WFMin
<1>4. \A y \in T : ~ (y < x)
  BY <1>2, <1>3
<1> QED
  BY <1>4

First(s) == CHOOSE x \in s : TRUE

(* The sums over the parts of S with at most n cells. *)
Parts(S, n) == {s \in SUBSET S : Cardinality(s) <= n}

FirstPlus(f, g, s) == IF s = {} THEN 0 ELSE f[First(s)] + g[s \ {First(s)}]

Adds(g, f, D) == g = [s \in D |-> FirstPlus(f, g, s)]

LEMMA Smaller ==
  ASSUME NEW S, IsFiniteSet(S), NEW s \in SUBSET S, s # {}, NEW x \in s
  PROVE  /\ IsFiniteSet(s) /\ Cardinality(s) \in Nat /\ Cardinality(s) <= Cardinality(S)
         /\ s \ {x} \in SUBSET S /\ IsFiniteSet(s \ {x})
         /\ Cardinality(s \ {x}) = Cardinality(s) - 1 /\ Cardinality(s \ {x}) \in Nat
BY FS_Subset, FS_RemoveElement, FS_CardinalityType

LEMMA FirstIn == ASSUME NEW s, s # {} PROVE First(s) \in s
BY DEF First

LEMMA PartsSumUp ==
  ASSUME NEW S, IsFiniteSet(S), NEW f, NEW n \in Nat
  PROVE  \E g : Adds(g, f, Parts(S, n))
<1> DEFINE T == {k \in Nat : ~ \E g : Adds(g, f, Parts(S, k))}
<1> SUFFICES ASSUME T # {}
             PROVE  FALSE
  OBVIOUS
<1>1. PICK m \in T : \A k \in T : m <= k
  BY SmallestExists
<1>2. \A s \in SUBSET S : IsFiniteSet(s) /\ Cardinality(s) \in Nat
  BY FS_Subset, FS_CardinalityType
<1>3. CASE m = 0
  <2> DEFINE g == [s \in Parts(S, 0) |-> 0]
  <2>1. \A s \in Parts(S, 0) : s = {}
    BY <1>2, FS_EmptySet DEF Parts
  <2>2. Adds(g, f, Parts(S, 0))
    BY <2>1 DEF Adds, FirstPlus
  <2> QED
    BY <1>1, <1>3, <2>2
<1>4. CASE m # 0
  <2>1. m \in Nat /\ m - 1 \in Nat /\ m - 1 \notin T
    BY <1>1, <1>4
  <2>2. PICK g : Adds(g, f, Parts(S, m - 1))
    BY <2>1
  <2> DEFINE h == [s \in Parts(S, m) |-> FirstPlus(f, g, s)]
  <2>3. \A s \in Parts(S, m - 1) : g[s] = FirstPlus(f, g, s)
    BY <2>2 DEF Adds
  <2>4. Parts(S, m - 1) \subseteq Parts(S, m)
    BY <1>2, <2>1 DEF Parts
  <2>5. \A s \in Parts(S, m - 1) : h[s] = g[s]
    BY <2>3, <2>4
  <2>6. \A s \in Parts(S, m) : s # {} => s \ {First(s)} \in Parts(S, m - 1)
    BY <1>2, <2>1, Smaller, FirstIn DEF Parts
  <2>7. \A s \in Parts(S, m) : FirstPlus(f, g, s) = FirstPlus(f, h, s)
    BY <2>5, <2>6 DEF FirstPlus
  <2>8. Adds(h, f, Parts(S, m))
    BY <2>7 DEF Adds
  <2> QED
    BY <1>1, <2>8
<1> QED
  BY <1>3, <1>4

(* SumFunction unfolded: all sums over parts of the domain at once.        *)
LEMMA SumUnfolds ==
  ASSUME NEW f, IsFiniteSet(DOMAIN f)
  PROVE  \E g : /\ SumFunction(f) = g[DOMAIN f]
                /\ \A s \in SUBSET DOMAIN f : g[s] = FirstPlus(f, g, s)
<1> DEFINE S == DOMAIN f
<1> DEFINE g == CHOOSE g : Adds(g, f, SUBSET S)
<1>1. SumFunction(f) = g[S]
  BY DEF SumFunction, SumFunctionOnSet, FoldFunctionOnSet, MapThenFoldSet, Adds, FirstPlus, First
<1>2. Cardinality(S) \in Nat /\ Parts(S, Cardinality(S)) = SUBSET S
  BY FS_Subset, FS_CardinalityType DEF Parts
<1>3. \E h : Adds(h, f, SUBSET S)
  <2>1. \E h : Adds(h, f, Parts(S, Cardinality(S)))
    BY <1>2, PartsSumUp
  <2> QED
    BY <1>2, <2>1
<1>4. Adds(g, f, SUBSET S)
  BY <1>3
<1>5. \A s \in SUBSET S : g[s] = FirstPlus(f, g, s)
  BY <1>4 DEF Adds
<1> QED
  BY <1>1, <1>5
(* A set of parts that holds each part all smaller parts of which it holds *)
(* holds them all.                                                         *)
LEMMA BySize ==
  ASSUME NEW S, IsFiniteSet(S), NEW P \in SUBSET SUBSET S,
         \A s \in SUBSET S :
           (\A t \in SUBSET S : Cardinality(t) < Cardinality(s) => t \in P) => s \in P
  PROVE  P = SUBSET S
<1> DEFINE T == {Cardinality(s) : s \in (SUBSET S) \ P}
<1> SUFFICES ASSUME (SUBSET S) \ P # {}
             PROVE  FALSE
  OBVIOUS
<1>1. \A s \in SUBSET S : Cardinality(s) \in Nat
  BY FS_Subset, FS_CardinalityType
<1>a. T \in SUBSET Nat /\ T # {}
  BY <1>1
<1>b. /\ \A k \in T : \E s \in (SUBSET S) \ P : k = Cardinality(s)
      /\ \A s \in (SUBSET S) \ P : Cardinality(s) \in T
  OBVIOUS
<1> HIDE DEF T
<1>2. PICK m \in T : \A k \in T : m <= k
  BY <1>a, SmallestExists
<1>3. PICK s \in (SUBSET S) \ P : m = Cardinality(s)
  BY <1>b, <1>2
<1>4. \A t \in SUBSET S : Cardinality(t) < Cardinality(s) => t \in P
  BY <1>1, <1>2, <1>3, <1>a, <1>b
<1> QED
  BY <1>3, <1>4

SumOf(g, f, S) == \A s \in SUBSET S : g[s] = FirstPlus(f, g, s)

(* A sum is a number, and any cell may be taken out of it first.           *)
LEMMA SumIsInt ==
  ASSUME NEW S, IsFiniteSet(S), NEW f \in [S -> Int], NEW g, SumOf(g, f, S),
         NEW s \in SUBSET S
  PROVE  g[s] \in Int
<1> DEFINE P == {t \in SUBSET S : g[t] \in Int}
<1>1. SUFFICES ASSUME NEW t \in SUBSET S,
                      \A u \in SUBSET S : Cardinality(u) < Cardinality(t) => u \in P
               PROVE  t \in P
  <2>1. P \in SUBSET SUBSET S
    OBVIOUS
  <2>2. s \in P => g[s] \in Int
    OBVIOUS
  <2> HIDE DEF P
  <2>3. P = SUBSET S
    BY <1>1, <2>1, BySize
  <2> QED
    BY <2>2, <2>3
<1>2. g[t] = FirstPlus(f, g, t)
  BY DEF SumOf
<1>3. CASE t = {}
  BY <1>2, <1>3 DEF FirstPlus
<1>4. CASE t # {}
  <2>1. First(t) \in t
    BY <1>4, FirstIn
  <2>2. t \ {First(t)} \in P
    BY <1>1, <1>4, <2>1, Smaller
  <2> QED
    BY <1>2, <1>4, <2>1, <2>2 DEF FirstPlus
<1> QED
  BY <1>3, <1>4

LEMMA AnyFirst ==
  ASSUME NEW S, IsFiniteSet(S), NEW f \in [S -> Int], NEW g, SumOf(g, f, S),
         NEW s \in SUBSET S, NEW x \in s
  PROVE  g[s] = f[x] + g[s \ {x}]
<1> DEFINE P == {t \in SUBSET S : \A y \in t : g[t] = f[y] + g[t \ {y}]}
<1>1. ASSUME NEW t \in SUBSET S,
             \A u \in SUBSET S : Cardinality(u) < Cardinality(t) => u \in P
      PROVE  t \in P
  <2> SUFFICES ASSUME NEW y \in t
               PROVE  g[t] = f[y] + g[t \ {y}]
    OBVIOUS
  <2>1. PICK c \in t : c = First(t)
    BY FirstIn
  <2>2. g[t] = f[c] + g[t \ {c}]
    BY <2>1 DEF SumOf, FirstPlus
  <2>3. CASE y = c
    BY <2>2, <2>3
  <2>4. CASE y # c
    <3> DEFINE A == g[(t \ {c}) \ {y}]
    <3>1. Cardinality(t \ {c}) < Cardinality(t) /\ Cardinality(t \ {y}) < Cardinality(t)
      BY <1>1, Smaller
    <3>2. t \ {c} \in P /\ t \ {y} \in P
      BY <1>1, <3>1
    <3>3. (t \ {y}) \ {c} = (t \ {c}) \ {y}
      OBVIOUS
    <3>4. g[t \ {c}] = f[y] + A
      BY <2>4, <3>2
    <3>5. g[t \ {y}] = f[c] + g[(t \ {y}) \ {c}]
      BY <2>4, <3>2
    <3>6. g[t \ {y}] = f[c] + A
      BY <3>3, <3>5
    <3>7. A \in Int /\ f[c] \in Int /\ f[y] \in Int
      BY SumIsInt
    <3> HIDE DEF A
    <3> QED
      BY <2>2, <3>4, <3>6, <3>7
  <2> QED
    BY <2>3, <2>4
<1>2. P = SUBSET S
  <2>1. P \in SUBSET SUBSET S
    OBVIOUS
  <2> HIDE DEF P
  <2> QED
    BY <1>1, <2>1, BySize
<1> QED
  BY <1>2

LEMMA SumType ==
  ASSUME NEW S, IsFiniteSet(S), NEW f \in [S -> Int]
  PROVE  SumFunction(f) \in Int
<1>1. PICK g : SumFunction(f) = g[S] /\ SumOf(g, f, S)
  BY SumUnfolds DEF SumOf
<1> QED
  BY <1>1, SumIsInt

(* Writing one cell changes the sum by the difference. *)
LEMMA SumExcept ==
  ASSUME NEW S, IsFiniteSet(S), NEW f \in [S -> Int], NEW x \in S, NEW v \in Int
  PROVE  SumFunction([f EXCEPT ![x] = v]) = SumFunction(f) - f[x] + v
<1> DEFINE e == [f EXCEPT ![x] = v]
<1>1. e \in [S -> Int] /\ e[x] = v /\ \A y \in S : y # x => e[y] = f[y]
  OBVIOUS
<1>0. DOMAIN e = S
  OBVIOUS
<1> HIDE DEF e
<1>2. PICK g : SumFunction(f) = g[S] /\ SumOf(g, f, S)
  BY SumUnfolds DEF SumOf
<1>3. PICK h : SumFunction(e) = h[S] /\ SumOf(h, e, S)
  BY <1>0, SumUnfolds DEF SumOf
<1> DEFINE P == {t \in SUBSET S : x \notin t => g[t] = h[t]}
<1>4. ASSUME NEW t \in SUBSET S,
             \A u \in SUBSET S : Cardinality(u) < Cardinality(t) => u \in P
      PROVE  t \in P
  <2>1. g[t] = FirstPlus(f, g, t) /\ h[t] = FirstPlus(e, h, t)
    BY <1>2, <1>3 DEF SumOf
  <2>2. CASE t = {}
    BY <2>1, <2>2 DEF FirstPlus
  <2>3. CASE t # {}
    <3>1. First(t) \in t
      BY <2>3, FirstIn
    <3>2. t \ {First(t)} \in P
      BY <1>4, <2>3, <3>1, Smaller
    <3> QED
      BY <1>1, <2>1, <2>3, <3>1, <3>2 DEF FirstPlus
  <2> QED
    BY <2>2, <2>3
<1>5. P = SUBSET S
  <2>1. P \in SUBSET SUBSET S
    OBVIOUS
  <2> HIDE DEF P
  <2> QED
    BY <1>4, <2>1, BySize
<1>6. g[S \ {x}] = h[S \ {x}]
  BY <1>5
<1>7. g[S] = f[x] + g[S \ {x}] /\ h[S] = e[x] + h[S \ {x}]
  BY <1>1, <1>2, <1>3, AnyFirst
<1>8. g[S \ {x}] \in Int /\ f[x] \in Int
  BY <1>2, SumIsInt
<1>9. SumFunction(e) = SumFunction(f) - f[x] + v
  BY <1>1, <1>2, <1>3, <1>6, <1>7, <1>8
<1> QED
  BY <1>9 DEF e

(* Equal cells. *)
LEMMA SumConstant ==
  ASSUME NEW S, IsFiniteSet(S), NEW c \in Int, NEW f \in [S -> Int], \A y \in S : f[y] = c
  PROVE  SumFunction(f) = c * Cardinality(S)
<1>2. PICK g : SumFunction(f) = g[S] /\ SumOf(g, f, S)
  BY SumUnfolds DEF SumOf
<1> DEFINE P == {t \in SUBSET S : g[t] = c * Cardinality(t)}
<1>3. ASSUME NEW t \in SUBSET S,
             \A u \in SUBSET S : Cardinality(u) < Cardinality(t) => u \in P
      PROVE  t \in P
  <2>1. g[t] = FirstPlus(f, g, t)
    BY <1>2 DEF SumOf
  <2>2. CASE t = {}
    BY <2>1, <2>2, FS_EmptySet DEF FirstPlus
  <2>3. CASE t # {}
    <3>1. First(t) \in t
      BY <2>3, FirstIn
    <3> DEFINE k == Cardinality(t)
    <3>a. k \in Nat /\ Cardinality(t \ {First(t)}) = k - 1
      BY <2>3, <3>1, Smaller
    <3>2. k \in Nat /\ Cardinality(t \ {First(t)}) = k - 1 /\ t \ {First(t)} \in P
      BY <1>3, <3>a
    <3>3. g[t] = c + c * (k - 1)
      BY <2>1, <2>3, <3>1, <3>2 DEF FirstPlus
    <3> HIDE DEF k
    <3>4. c + c * (k - 1) = c * k
      BY <3>2
    <3> QED
      BY <3>3, <3>4 DEF k
  <2> QED
    BY <2>2, <2>3
<1>4. P = SUBSET S
  <2>1. P \in SUBSET SUBSET S
    OBVIOUS
  <2> HIDE DEF P
  <2> QED
    BY <1>3, <2>1, BySize
<1>5. g[S] = c * Cardinality(S)
  BY <1>4
<1> QED
  BY <1>2, <1>5

(***************************************************************************)
(* LoanLifecycle.                                                          *)
(***************************************************************************)

(***************************************************************************)
(* The inductive invariant, loan by loan.  PaidIsScheduled alone is not    *)
(* inductive: that the last payment reaches the total needs the stored     *)
(* installments to add up, and that a default stays overdue needs the      *)
(* clock.                                                                  *)
(***************************************************************************)
GoodLoan(l, t) ==
  /\ l \in Loan
  /\ l.duration > 0
  /\ l.total = (l.duration - 1) * l.installment + l.final
  /\ l.paymentsMade <= l.duration
  /\ l.totalPaid = PaidUpTo(l, l.paymentsMade)
  /\ l.state = "Completed" <=> l.paymentsMade = l.duration
  /\ l.state = "Defaulted" => IsOverdue(l, t)

LoanInv ==
  /\ LoanTypeOK
  /\ \A d \in Deals : HasLoan(d) => GoodLoan(loans[d], now)

(***************************************************************************)
(* Arithmetic and transfers.                                               *)
(***************************************************************************)

(* The identity build_schedule's documentation claims: the installments    *)
(* of a schedule sum to its total, for every principal, rate and term.     *)
THEOREM ScheduleSums ==
  ASSUME NEW p \in Nat, NEW r \in Nat, NEW n \in Nat \ {0}
  PROVE  LET s == BuildSchedule(p, r, n)
         IN  /\ s.total \in Nat /\ s.installment \in Nat /\ s.final \in Nat
             /\ s.total = (n - 1) * s.installment + s.final
             /\ s.total >= p
<1> DEFINE owed == p * r * n
           total == TotalRepayment(p, r, n)
<1>1. owed \in Nat
  OBVIOUS
<1> HIDE DEF owed
<1>2. CeilDiv(owed, 120000) \in Nat
  BY <1>1 DEF CeilDiv
<1>3. total \in Nat /\ total >= p
  BY <1>2 DEF owed, TotalRepayment, TotalInterest, BpsDenominator, MonthsPerYear
<1> HIDE DEF total
<1>4. /\ total \div n \in Nat /\ total % n \in Nat
      /\ total = n * (total \div n) + (total % n)
  BY <1>3
<1>5. n * (total \div n) = (n - 1) * (total \div n) + (total \div n)
  BY <1>4
<1>6. BuildSchedule(p, r, n) =
        [total |-> total, installment |-> total \div n,
         final |-> (total \div n) + (total % n)]
  BY DEF BuildSchedule, total
<1> DEFINE inst == total \div n
           last == (total \div n) + (total % n)
           s == BuildSchedule(p, r, n)
<1>7. /\ inst \in Nat /\ last \in Nat
      /\ total = (n - 1) * inst + last
  BY <1>3, <1>4, <1>5
<1>8. s.total = total /\ s.installment = inst /\ s.final = last
  BY <1>6
<1> HIDE DEF inst, last, s
<1> QED
  BY <1>3, <1>7, <1>8 DEF s

(* A transfer the source can pay leaves no negative balance. *)
LEMMA TransferType ==
  ASSUME NEW S, NEW b \in [S -> Nat], NEW from \in S, NEW to \in S,
         NEW amount \in Nat, CanPay(b, from, amount)
  PROVE  Transfer(b, from, to, amount) \in [S -> Nat]
BY DEF CanPay, Transfer

(* Replacing one loan by a good one keeps the others as they were.         *)
LEMMA GoodUpdate ==
  ASSUME LoanInv, NEW d \in Deals, NEW l, GoodLoan(l, now),
         loans' = [loans EXCEPT ![d] = l], cash' \in [CashAccounts -> Nat],
         charged' \in [Wallets -> Nat], collected' \in [CashAccounts -> Nat],
         UNCHANGED <<loanConfig, now>>
  PROVE  LoanInv'
<1>1. LoanTypeOK'
  BY DEF LoanInv, LoanTypeOK, GoodLoan
<1>2. ASSUME NEW e \in Deals, HasLoan(e)'
      PROVE  GoodLoan(loans'[e], now')
  BY <1>2 DEF LoanInv, LoanTypeOK, HasLoan
<1> QED
  BY <1>1, <1>2 DEF LoanInv

(* No loans, no payments. *)
LEMMA LoanInitInv == LoanInit => LoanInv
BY LoanAssumption
   DEF LoanInit, BooksOpen, LoanInv, LoanTypeOK, HasLoan, CashAccounts

(* A new loan owes its whole schedule (activate_loan). *)
LEMMA ActivateKeepsInv ==
  ASSUME LoanInv, NEW d \in Deals, NEW lender \in Wallets, NEW borrower \in Wallets,
         NEW p \in Principals, NEW r \in Rates, NEW n \in AllowedDurations,
         NEW f \in Fees, NEW x \in CashAccounts,
         ActivateLoan(d, lender, borrower, p, r, n, f, x)
  PROVE  LoanInv'
<1> DEFINE s == BuildSchedule(p, r, n)
           l == [borrower |-> borrower, lender |-> lender,
                 principal |-> p, duration |-> n, total |-> s.total,
                 installment |-> s.installment, final |-> s.final,
                 paymentsMade |-> 0, totalPaid |-> 0,
                 activatedAt |-> now, state |-> "Active"]
           mid == Transfer(cash, lender, borrower, Disbursed(p, f))
<1>1. p \in Nat /\ r \in Nat /\ n \in Nat \ {0} /\ f \in Nat
  BY LoanAssumption, DurationAssumption, BaseAssumption DEF U64
<1>2. /\ s.total \in Nat /\ s.installment \in Nat /\ s.final \in Nat
      /\ s.total = (n - 1) * s.installment + s.final
  BY <1>1, ScheduleSums
<1>3. now \in Nat
  BY LoanAssumption DEF LoanInv, LoanTypeOK
<1>4. loans' = [loans EXCEPT ![d] = l] /\ UNCHANGED <<loanConfig, now>>
  BY DEF ActivateLoan
<1>5. cash' \in [CashAccounts -> Nat]
  <2>1. Disbursed(p, f) \in Nat
    BY <1>1 DEF ActivateLoan, FeeAllowed, Disbursed
  <2>2. cash \in [CashAccounts -> Nat] /\ lender \in CashAccounts
        /\ borrower \in CashAccounts
    BY DEF LoanInv, LoanTypeOK, CashAccounts
  <2>3. mid \in [CashAccounts -> Nat]
    BY <2>1, <2>2, TransferType DEF ActivateLoan
  <2>4. CanPay(mid, lender, f) /\ cash' = Transfer(mid, lender, x, f)
    BY DEF ActivateLoan
  <2> QED
    BY <1>1, <2>2, <2>3, <2>4, TransferType
<1>6. GoodLoan(l, now)
  <2> HIDE DEF s
  <2>1. l \in Loan
    BY <1>1, <1>2, <1>3 DEF Loan, LoanState
  <2>2. l.totalPaid = PaidUpTo(l, l.paymentsMade)
    BY <1>1, <1>2 DEF PaidUpTo
  <2> QED
    BY <1>1, <1>2, <2>1, <2>2 DEF GoodLoan
<1>7. charged' \in [Wallets -> Nat] /\ collected' \in [CashAccounts -> Nat]
  BY <1>1 DEF ActivateLoan, LoanInv, LoanTypeOK
<1> HIDE DEF l
<1> QED
  BY <1>4, <1>5, <1>6, <1>7, GoodUpdate

(* A payment advances along the schedule (make_payment). *)
LEMMA PaymentKeepsInv ==
  ASSUME LoanInv, NEW d \in Deals, NEW w \in Wallets, NEW a \in U64,
         MakePayment(d, w, a)
  PROVE  LoanInv'
<1> DEFINE l == loans[d]
           m == [l EXCEPT !.paymentsMade = @ + 1, !.totalPaid = @ + a,
                          !.state = AfterPayment(l)]
<1>1. GoodLoan(l, now) /\ a \in Nat
  BY BaseAssumption DEF LoanInv, MakePayment, U64
<1>2. /\ l.paymentsMade < l.duration /\ a = AmountDue(l)
      /\ CanPay(cash, l.borrower, a)
      /\ cash' = Transfer(cash, l.borrower, l.lender, a)
      /\ loans' = [loans EXCEPT ![d] = m]
      /\ UNCHANGED <<loanConfig, now, charged, collected>>
  BY DEF MakePayment, feeVars
<1>3. cash' \in [CashAccounts -> Nat]
  BY <1>1, <1>2, TransferType DEF GoodLoan, Loan, LoanInv, LoanTypeOK, CashAccounts
<1>4. GoodLoan(m, now)
  <2> HIDE DEF l
  <2>1. l \in Loan /\ l.duration \in Nat /\ l.paymentsMade \in Nat
        /\ l.installment \in Nat /\ l.final \in Nat /\ l.total \in Nat
        /\ l.totalPaid \in Nat
    BY <1>1 DEF GoodLoan, Loan
  <2>2. AfterPayment(l) \in LoanState
    BY DEF AfterPayment, LoanState
  <2>3. m \in Loan
    <3>1. l.paymentsMade + 1 \in Nat /\ l.totalPaid + a \in Nat
      BY <1>1, <2>1
    <3> QED
      BY <2>1, <2>2, <3>1 DEF Loan
  <2>4. /\ m.paymentsMade = l.paymentsMade + 1 /\ m.totalPaid = l.totalPaid + a
        /\ m.duration = l.duration /\ m.total = l.total
        /\ m.installment = l.installment /\ m.final = l.final
        /\ m.state = AfterPayment(l)
    BY <2>1 DEF Loan
  <2>5. l.totalPaid = l.paymentsMade * l.installment
    BY <1>1, <1>2, <2>1 DEF GoodLoan, PaidUpTo
  <2>6. CASE l.paymentsMade + 1 = l.duration
    <3>1. a = l.final /\ l.paymentsMade = l.duration - 1
      BY <1>2, <2>1, <2>6 DEF AmountDue
    <3>2. m.totalPaid = l.total
      BY <1>1, <2>4, <2>5, <3>1 DEF GoodLoan
    <3> QED
      BY <1>1, <2>1, <2>3, <2>4, <2>6, <3>2 DEF GoodLoan, PaidUpTo, AfterPayment
  <2>7. CASE l.paymentsMade + 1 # l.duration
    <3>1. a = l.installment
      BY <1>2, <2>1, <2>7 DEF AmountDue
    <3>2. m.totalPaid = (l.paymentsMade + 1) * l.installment
      BY <2>1, <2>4, <2>5, <3>1
    <3> QED
      BY <1>1, <1>2, <2>1, <2>3, <2>4, <2>7, <3>2 DEF GoodLoan, PaidUpTo, AfterPayment
  <2> QED
    BY <2>6, <2>7
<1>5. charged' \in [Wallets -> Nat] /\ collected' \in [CashAccounts -> Nat]
  BY <1>2 DEF LoanInv, LoanTypeOK
<1> HIDE DEF m
<1> QED
  BY <1>2, <1>3, <1>4, <1>5, GoodUpdate

(* An early repayment pays the rest of it (repay_in_full). *)
LEMMA RepayKeepsInv ==
  ASSUME LoanInv, NEW d \in Deals, NEW w \in Wallets, RepayInFull(d, w)
  PROVE  LoanInv'
<1> DEFINE l == loans[d]
           a == Outstanding(l)
           m == [l EXCEPT !.paymentsMade = l.duration, !.totalPaid = @ + a,
                          !.state = "Completed"]
<1>1. GoodLoan(l, now)
  BY DEF LoanInv, RepayInFull
<1>2. /\ a > 0 /\ CanPay(cash, l.borrower, a)
      /\ cash' = Transfer(cash, l.borrower, l.lender, a)
      /\ loans' = [loans EXCEPT ![d] = m]
      /\ UNCHANGED <<loanConfig, now, charged, collected>>
  BY DEF RepayInFull, feeVars
<1>3. a \in Nat /\ l.totalPaid + a = l.total /\ l \in Loan
  BY <1>1, <1>2 DEF GoodLoan, Loan, Outstanding
<1>4. cash' \in [CashAccounts -> Nat]
  BY <1>2, <1>3, TransferType DEF Loan, LoanInv, LoanTypeOK, CashAccounts
<1>5. GoodLoan(m, now)
  <2> HIDE DEF l, a
  <2>1. m \in Loan
    BY <1>3 DEF Loan, LoanState
  <2>2. /\ m.paymentsMade = l.duration /\ m.totalPaid = l.total
        /\ m.duration = l.duration /\ m.total = l.total
        /\ m.installment = l.installment /\ m.final = l.final
        /\ m.state = "Completed"
    BY <1>3 DEF Loan
  <2>3. l.duration \in Nat
    BY <1>3 DEF Loan
  <2> QED
    BY <1>1, <2>1, <2>2, <2>3 DEF GoodLoan, PaidUpTo
<1>6. charged' \in [Wallets -> Nat] /\ collected' \in [CashAccounts -> Nat]
  BY <1>2 DEF LoanInv, LoanTypeOK
<1> HIDE DEF m, a
<1> QED
  BY <1>2, <1>4, <1>5, <1>6, GoodUpdate

(* flag_default and mark_liquidated change the state of one loan only.     *)
LEMMA StateChangeKeepsInv ==
  ASSUME LoanInv, NEW d \in Deals, HasLoan(d), NEW s \in LoanState,
         Repayable(loans[d].state), s # "Completed",
         s = "Defaulted" => IsOverdue(loans[d], now),
         loans' = [loans EXCEPT ![d].state = s],
         UNCHANGED <<loanConfig, cash, now, feeVars>>
  PROVE  LoanInv'
<1> DEFINE l == loans[d]
           m == [l EXCEPT !.state = s]
<1>1. GoodLoan(l, now) /\ l \in Loan
  BY DEF LoanInv, GoodLoan
<1>2. loans' = [loans EXCEPT ![d] = m]
  OBVIOUS
<1>3. /\ cash' \in [CashAccounts -> Nat]
      /\ charged' \in [Wallets -> Nat] /\ collected' \in [CashAccounts -> Nat]
  BY DEF LoanInv, LoanTypeOK, feeVars
<1>4. GoodLoan(m, now)
  <2>1. m \in Loan
    BY <1>1 DEF Loan
  <2>2. /\ m.paymentsMade = l.paymentsMade /\ m.totalPaid = l.totalPaid
        /\ m.duration = l.duration /\ m.total = l.total
        /\ m.installment = l.installment /\ m.final = l.final
        /\ m.activatedAt = l.activatedAt /\ m.state = s
    BY <1>1 DEF Loan
  <2> HIDE DEF l, m
  <2>3. l.state # "Completed"
    BY DEF Repayable, l
  <2>4. s = "Defaulted" => IsOverdue(m, now)
    BY <2>2 DEF IsOverdue, NextDueAt, l
  <2> QED
    BY <1>1, <2>1, <2>2, <2>3, <2>4 DEF GoodLoan, PaidUpTo
<1> HIDE DEF m
<1> QED
  BY <1>2, <1>3, <1>4, GoodUpdate

(* A default stays overdue as time passes. *)
LEMMA ClockKeepsInv == LoanInv /\ AdvanceClock => LoanInv'
<1> SUFFICES ASSUME LoanInv, AdvanceClock
             PROVE  LoanInv'
  OBVIOUS
<1>1. now \in Nat /\ now' = now + 1 /\ LoanTypeOK'
  BY LoanAssumption DEF LoanInv, LoanTypeOK, AdvanceClock, feeVars
<1>2. ASSUME NEW d \in Deals, HasLoan(d)'
      PROVE  GoodLoan(loans'[d], now')
  <2>1. loans'[d] = loans[d] /\ GoodLoan(loans[d], now) /\ loans[d] \in Loan
    BY <1>2 DEF AdvanceClock, LoanInv, HasLoan, GoodLoan
  <2>2. IsOverdue(loans[d], now) => IsOverdue(loans[d], now')
    <3>1. loans[d].activatedAt \in Nat /\ loans[d].paymentsMade \in Nat
      BY <2>1 DEF Loan
    <3>2. NextDueAt(loans[d]) \in Int
      BY <3>1, LoanAssumption DEF NextDueAt
    <3> QED
      BY <1>1, <3>2, LoanAssumption DEF IsOverdue
  <2> QED
    BY <2>1, <2>2 DEF GoodLoan
<1> QED
  BY <1>1, <1>2 DEF LoanInv

(***************************************************************************)
(* The invariant, and the properties it implies.                           *)
(***************************************************************************)
LEMMA LoanInvInductive == LoanInv /\ [LoanNext]_loanVars => LoanInv'
<1> SUFFICES ASSUME LoanInv, [LoanNext]_loanVars
             PROVE  LoanInv'
  OBVIOUS
<1>1. ASSUME NEW a \in Authorities, InitializeLoanConfig(a)
      PROVE  LoanInv'
  BY <1>1 DEF InitializeLoanConfig, LoanInv, LoanTypeOK, HasLoan, feeVars
<1>2. ASSUME NEW d \in Deals, NEW lender \in Wallets, NEW borrower \in Wallets,
             NEW p \in Principals, NEW r \in Rates, NEW n \in AllowedDurations,
             NEW f \in Fees, NEW x \in CashAccounts,
             ActivateLoan(d, lender, borrower, p, r, n, f, x)
      PROVE  LoanInv'
  BY <1>2, ActivateKeepsInv
<1>3. ASSUME NEW d \in Deals, NEW w \in Wallets, NEW a \in U64, MakePayment(d, w, a)
      PROVE  LoanInv'
  BY <1>3, PaymentKeepsInv
<1>4. ASSUME NEW d \in Deals, NEW w \in Wallets, RepayInFull(d, w)
      PROVE  LoanInv'
  BY <1>4, RepayKeepsInv
<1>5. ASSUME NEW d \in Deals, FlagDefault(d)
      PROVE  LoanInv'
  BY <1>5, StateChangeKeepsInv DEF FlagDefault, LoanState, Repayable
<1>6. ASSUME NEW d \in Deals, NEW w \in Wallets, NEW fully \in BOOLEAN,
             MarkLiquidated(d, w, fully)
      PROVE  LoanInv'
  <2> DEFINE s == IF fully THEN "FullyLiquidated" ELSE "PartiallyLiquidated"
  <2>1. s \in LoanState /\ s # "Completed" /\ s # "Defaulted"
    BY DEF LoanState
  <2>2. /\ HasLoan(d) /\ Repayable(loans[d].state)
        /\ loans' = [loans EXCEPT ![d].state = s]
        /\ UNCHANGED <<loanConfig, cash, now, feeVars>>
    BY <1>6 DEF MarkLiquidated, Liquidatable
  <2> HIDE DEF s
  <2> QED
    BY <2>1, <2>2, StateChangeKeepsInv
<1>7. CASE AdvanceClock
  BY <1>7, ClockKeepsInv
<1>8. CASE UNCHANGED loanVars
  BY <1>8 DEF loanVars, feeVars, LoanInv, LoanTypeOK, HasLoan
<1> QED
  BY <1>1, <1>2, <1>3, <1>4, <1>5, <1>6, <1>7, <1>8 DEF LoanNext

(* The invariant holds of every reachable state. *)
THEOREM LoanInvariant == LoanSpec => []LoanInv
BY LoanInitInv, LoanInvInductive, PTL DEF LoanSpec

(* Every loan account is well formed, every balance is non-negative.       *)
THEOREM LoanTypeCorrect == LoanSpec => []LoanTypeOK
<1>1. LoanInv => LoanTypeOK
  BY DEF LoanInv
<1> QED
  BY <1>1, LoanInvariant, PTL

(* What is paid is what was scheduled, to the atom, on every path.         *)
THEOREM PaymentsFollowSchedule == LoanSpec => []PaidIsScheduled
<1>1. LoanInv => PaidIsScheduled
  BY DEF LoanInv, GoodLoan, PaidIsScheduled, PaidUpTo
<1> QED
  BY <1>1, LoanInvariant, PTL

(* A default flag is never wrong and never goes stale.                     *)
THEOREM DefaultsAreOverdue == LoanSpec => []DefaultedIsOverdue
<1>1. LoanInv => DefaultedIsOverdue
  BY DEF LoanInv, GoodLoan, DefaultedIsOverdue
<1> QED
  BY <1>1, LoanInvariant, PTL

(***************************************************************************)
(* The token accounts and the loans, summed.                               *)
(***************************************************************************)
CashInv == LoanInv /\ LenderIsOutPrincipal

(* A transfer moves tokens and makes none. *)
LEMMA TransferSum ==
  ASSUME NEW S, IsFiniteSet(S), NEW b \in [S -> Int], NEW from \in S, NEW to \in S,
         NEW amount \in Int
  PROVE  /\ Transfer(b, from, to, amount) \in [S -> Int]
         /\ SumFunction(Transfer(b, from, to, amount)) = SumFunction(b)
<1> DEFINE v == b[from] - amount
           mid == [b EXCEPT ![from] = v]
           u == mid[to] + amount
           end == [mid EXCEPT ![to] = u]
           t == Transfer(b, from, to, amount)
<1>1. mid \in [S -> Int] /\ v \in Int /\ b[from] \in Int /\ mid[to] \in Int /\ u \in Int
  OBVIOUS
<1>2. t = end
  BY DEF Transfer
<1>3. SumFunction(b) \in Int
  BY SumType
<1>4. SumFunction(mid) = SumFunction(b) - b[from] + v
  <2>1. b \in [S -> Int] /\ from \in S /\ v \in Int /\ IsFiniteSet(S)
    BY <1>1
  <2> HIDE DEF v, end, t, u
  <2>2. SumFunction([b EXCEPT ![from] = v]) = SumFunction(b) - b[from] + v
    BY <2>1, SumExcept
  <2> QED
    BY <2>2
<1>5. SumFunction(end) = SumFunction(mid) - mid[to] + u
  <2> HIDE DEF mid, u
  <2> QED
    BY <1>1, SumExcept
<1>6. SumFunction(end) = SumFunction(b)
  <2>1. u = mid[to] + amount /\ v = b[from] - amount
    OBVIOUS
  <2> HIDE DEF mid, end, u, v
  <2> QED
    BY <1>1, <1>3, <1>4, <1>5, <2>1
<1>7. end \in [S -> Int]
  BY <1>1
<1> HIDE DEF t, end
<1>8. t \in [S -> Int] /\ SumFunction(t) = SumFunction(b)
  BY <1>2, <1>6, <1>7
<1> QED
  BY <1>8 DEF t

LEMMA AccountsFinite == IsFiniteSet(CashAccounts)
                        /\ Cardinality(CashAccounts) = Cardinality(Wallets) + 1
BY LoanAssumption, FS_AddElement DEF CashAccounts

(* What a step that writes one loan does to the sums of a wallet. *)
LEMMA SumsMove ==
  ASSUME LoanTypeOK, NEW d \in Deals, NEW l \in Loan, loans' = [loans EXCEPT ![d] = l],
         NEW w \in Wallets
  PROVE  /\ SumFunction(OutBy(w)) \in Int /\ SumFunction(InBy(w)) \in Int
         /\ OutBy(w)[d] \in Int /\ InBy(w)[d] \in Int
         /\ SumFunction(OutBy(w)') = SumFunction(OutBy(w)) - OutBy(w)[d]
              + (IF l.lender = w THEN Unreturned(l) ELSE 0)
         /\ SumFunction(InBy(w)') = SumFunction(InBy(w)) - InBy(w)[d]
              + (IF l.borrower = w THEN Unreturned(l) ELSE 0)
<1> DEFINE out == IF l.lender = w THEN Unreturned(l) ELSE 0
           in == IF l.borrower = w THEN Unreturned(l) ELSE 0
<1>1. Unreturned(l) \in Int
  BY DEF Loan, Unreturned
<1>2. \A e \in Deals : HasLoan(e) => Unreturned(loans[e]) \in Int
  BY DEF LoanTypeOK, HasLoan, Loan, Unreturned
<1>3. OutBy(w) \in [Deals -> Int] /\ InBy(w) \in [Deals -> Int]
  BY <1>2 DEF OutBy, InBy
<1>4. \A e \in Deals : /\ e = d => loans'[e] = l /\ HasLoan(e)'
                       /\ e # d => loans'[e] = loans[e] /\ (HasLoan(e)' <=> HasLoan(e))
  BY NoAccountIsNoLoan DEF LoanTypeOK, HasLoan
<1>a. /\ DOMAIN OutBy(w)' = Deals /\ DOMAIN InBy(w)' = Deals
      /\ \A e \in Deals : OutBy(w)'[e] = [OutBy(w) EXCEPT ![d] = out][e]
      /\ \A e \in Deals : InBy(w)'[e] = [InBy(w) EXCEPT ![d] = in][e]
  BY <1>4 DEF OutBy, InBy
<1>b. OutBy(w)' = [e \in Deals |-> OutBy(w)'[e]] /\ InBy(w)' = [e \in Deals |-> InBy(w)'[e]]
  BY DEF OutBy, InBy
<1>5. OutBy(w)' = [OutBy(w) EXCEPT ![d] = out]
  BY <1>3, <1>a, <1>b
<1>6. InBy(w)' = [InBy(w) EXCEPT ![d] = in]
  BY <1>3, <1>a, <1>b
<1>7. out \in Int /\ in \in Int
  BY <1>1
<1> HIDE DEF out, in
<1>c. IsFiniteSet(Deals)
  BY LoanAssumption
<1>d. SumFunction([OutBy(w) EXCEPT ![d] = out]) = SumFunction(OutBy(w)) - OutBy(w)[d] + out
  BY <1>3, <1>7, <1>c, SumExcept
<1>e. SumFunction([InBy(w) EXCEPT ![d] = in]) = SumFunction(InBy(w)) - InBy(w)[d] + in
  BY <1>3, <1>7, <1>c, SumExcept
<1>8. /\ SumFunction(OutBy(w)') = SumFunction(OutBy(w)) - OutBy(w)[d] + out
      /\ SumFunction(InBy(w)') = SumFunction(InBy(w)) - InBy(w)[d] + in
  BY <1>5, <1>6, <1>d, <1>e
<1>9. SumFunction(OutBy(w)) \in Int /\ SumFunction(InBy(w)) \in Int
  BY <1>3, SumType, LoanAssumption
<1> QED
  BY <1>3, <1>8, <1>9 DEF out, in

(* A loan on which `amount` more was paid, out of its borrower's account.  *)
LEMMA PaidKeepsCash ==
  ASSUME LoanTypeOK, LenderIsOutPrincipal, NEW d \in Deals, HasLoan(d), NEW l \in Loan,
         NEW amount \in Nat, loans' = [loans EXCEPT ![d] = l],
         l.lender = loans[d].lender, l.borrower = loans[d].borrower,
         Unreturned(l) = Unreturned(loans[d]) - amount,
         SumFunction(cash') = SumFunction(cash), UNCHANGED feeVars,
         \A w \in Wallets :
           cash'[w] = cash[w] - (IF w = l.borrower THEN amount ELSE 0)
                              + (IF w = l.lender THEN amount ELSE 0)
  PROVE  LenderIsOutPrincipal'
<1>1. SumFunction(cash)' = InitialCash * Cardinality(Wallets)
  BY DEF LenderIsOutPrincipal
<1>2. loans[d] \in Loan /\ Unreturned(loans[d]) \in Int
  BY DEF LoanTypeOK, HasLoan, Loan, Unreturned
<1>4. ASSUME NEW w \in Wallets
      PROVE  cash'[w] = InitialCash - SumFunction(OutBy(w)') + SumFunction(InBy(w)')
                          - charged'[w] + collected'[w]
  <2> DEFINE out == SumFunction(OutBy(w))
             in == SumFunction(InBy(w))
             new == SumFunction(OutBy(w)')
             low == SumFunction(InBy(w)')
             u == Unreturned(loans[d])
  <2>1. /\ out \in Int /\ in \in Int
        /\ new = out - OutBy(w)[d] + (IF l.lender = w THEN Unreturned(l) ELSE 0)
        /\ low = in - InBy(w)[d] + (IF l.borrower = w THEN Unreturned(l) ELSE 0)
    BY SumsMove
  <2>2. /\ OutBy(w)[d] = IF l.lender = w THEN u ELSE 0
        /\ InBy(w)[d] = IF l.borrower = w THEN u ELSE 0
    BY DEF OutBy, InBy
  <2>3. /\ cash[w] \in Int /\ InitialCash \in Int /\ u \in Int
        /\ charged[w] \in Int /\ collected[w] \in Int
        /\ charged'[w] = charged[w] /\ collected'[w] = collected[w]
    BY <1>2, LoanAssumption DEF LoanTypeOK, CashAccounts, feeVars
  <2>4. cash[w] = InitialCash - out + in - charged[w] + collected[w]
    BY DEF LenderIsOutPrincipal
  <2>6. new = out - (IF l.lender = w THEN amount ELSE 0)
    BY <2>1, <2>2, <2>3
  <2>7. low = in - (IF l.borrower = w THEN amount ELSE 0)
    BY <2>1, <2>2, <2>3
  <2> HIDE DEF out, in, new, low
  <2>8. cash'[w] = InitialCash - new + low - charged'[w] + collected'[w]
    BY <2>1, <2>3, <2>4, <2>6, <2>7
  <2> QED
    BY <2>8 DEF new, low
<1> QED
  BY <1>1, <1>4 DEF LenderIsOutPrincipal

(* Both transfers of an activation, wallet by wallet. *)
LEMMA ActivateKeepsCash ==
  ASSUME LoanInv, LenderIsOutPrincipal, LoanInv', NEW d \in Deals, NEW lender \in Wallets,
         NEW borrower \in Wallets, NEW p \in Principals, NEW r \in Rates,
         NEW n \in AllowedDurations, NEW f \in Fees,
         NEW x \in CashAccounts, ActivateLoan(d, lender, borrower, p, r, n, f, x)
  PROVE  LenderIsOutPrincipal'
<1> DEFINE l == loans'[d]
           sent == Disbursed(p, f)
           mid == Transfer(cash, lender, borrower, sent)
<1>1. p \in Nat /\ f \in Nat /\ f < p /\ sent = p - f
  BY LoanAssumption, BaseAssumption DEF ActivateLoan, FeeAllowed, Disbursed, U64
<1>2. /\ ~HasLoan(d) /\ loans' = [loans EXCEPT ![d] = l] /\ HasLoan(d)'
      /\ l.lender = lender /\ l.borrower = borrower /\ Unreturned(l) = p
      /\ \A e \in Deals : e # d => loans'[e] = loans[e]
  <2>1. \E made : /\ loans' = [loans EXCEPT ![d] = made] /\ made # NoAccount
                  /\ made.lender = lender /\ made.borrower = borrower
                  /\ made.principal = p /\ made.totalPaid = 0
    <3> DEFINE s == BuildSchedule(p, r, n)
               made == [borrower |-> borrower, lender |-> lender, principal |-> p,
                        duration |-> n, total |-> s.total, installment |-> s.installment,
                        final |-> s.final, paymentsMade |-> 0, totalPaid |-> 0,
                        activatedAt |-> now, state |-> "Active"]
    <3>1. n \in Nat \ {0} /\ r \in Nat /\ now \in Nat
      BY LoanAssumption, DurationAssumption DEF LoanInv, LoanTypeOK
    <3>2. s.total \in Nat /\ s.installment \in Nat /\ s.final \in Nat
      BY <1>1, <3>1, ScheduleSums
    <3>3. loans' = [loans EXCEPT ![d] = made]
      BY DEF ActivateLoan
    <3> HIDE DEF s
    <3>4. made \in Loan
      BY <1>1, <3>1, <3>2 DEF Loan, LoanState
    <3>5. /\ made.lender = lender /\ made.borrower = borrower /\ made.principal = p
          /\ made.totalPaid = 0 /\ made # NoAccount
      BY <3>4, NoAccountIsNoLoan
    <3> HIDE DEF made
    <3> QED
      BY <3>3, <3>5
  <2> QED
    BY <1>1, <2>1 DEF LoanInv, LoanTypeOK, ActivateLoan, HasLoan, Unreturned
<1>3. l \in Loan
  BY <1>2 DEF LoanInv, GoodLoan
<1>4. /\ cash \in [CashAccounts -> Int] /\ lender \in CashAccounts
      /\ borrower \in CashAccounts
      /\ charged \in [Wallets -> Int] /\ collected \in [CashAccounts -> Int]
  BY DEF LoanInv, LoanTypeOK, CashAccounts
<1>5. /\ cash' = Transfer(mid, lender, x, f)
      /\ charged' = [charged EXCEPT ![borrower] = @ + f]
      /\ collected' = [collected EXCEPT ![x] = @ + f]
  BY DEF ActivateLoan
<1>6. mid \in [CashAccounts -> Int] /\ SumFunction(mid) = SumFunction(cash)
  BY <1>1, <1>4, AccountsFinite, TransferSum
<1>7. SumFunction(cash') = SumFunction(cash)
  <2> HIDE DEF mid
  <2> QED
    BY <1>1, <1>4, <1>5, <1>6, AccountsFinite, TransferSum
<1>8. ASSUME NEW w \in Wallets
      PROVE  cash'[w] = cash[w] + (IF w = borrower THEN p - f ELSE 0)
                                - (IF w = lender THEN p ELSE 0)
                                + (IF w = x THEN f ELSE 0)
  <2>1. w \in CashAccounts /\ cash[w] \in Int
    BY <1>4 DEF CashAccounts
  <2>2. mid[w] = cash[w] - (IF w = lender THEN p - f ELSE 0)
                         + (IF w = borrower THEN p - f ELSE 0)
    BY <1>1, <1>4, <2>1 DEF Transfer
  <2>3. cash'[w] = mid[w] - (IF w = lender THEN f ELSE 0) + (IF w = x THEN f ELSE 0)
    <3> HIDE DEF mid
    <3> QED
      BY <1>1, <1>4, <1>5, <1>6, <2>1 DEF Transfer
  <2> HIDE DEF mid
  <2> QED
    BY <1>1, <2>1, <2>2, <2>3
<1>9. ASSUME NEW w \in Wallets
      PROVE  cash'[w] = InitialCash - SumFunction(OutBy(w)') + SumFunction(InBy(w)')
                          - charged'[w] + collected'[w]
  <2> DEFINE out == SumFunction(OutBy(w))
             in == SumFunction(InBy(w))
             new == SumFunction(OutBy(w)')
             low == SumFunction(InBy(w)')
  <2> HIDE DEF l
  <2>1. /\ out \in Int /\ in \in Int
        /\ new = out - OutBy(w)[d] + (IF l.lender = w THEN Unreturned(l) ELSE 0)
        /\ low = in - InBy(w)[d] + (IF l.borrower = w THEN Unreturned(l) ELSE 0)
    <3>1. LoanTypeOK /\ loans' = [loans EXCEPT ![d] = l]
      BY <1>2 DEF LoanInv
    <3> QED
      BY <1>3, <3>1, SumsMove
  <2>2. OutBy(w)[d] = 0 /\ InBy(w)[d] = 0
    BY <1>2 DEF OutBy, InBy
  <2>3. /\ cash[w] \in Int /\ InitialCash \in Int
        /\ charged[w] \in Int /\ collected[w] \in Int
    BY <1>4, LoanAssumption DEF CashAccounts
  <2>4. cash[w] = InitialCash - out + in - charged[w] + collected[w]
    BY DEF LenderIsOutPrincipal
  <2>5. /\ charged'[w] = charged[w] + (IF w = borrower THEN f ELSE 0)
        /\ collected'[w] = collected[w] + (IF w = x THEN f ELSE 0)
    BY <1>1, <1>4, <1>5, <2>3 DEF CashAccounts
  <2>6. new = out + (IF lender = w THEN p ELSE 0)
    BY <1>1, <1>2, <2>1, <2>2
  <2>7. low = in + (IF borrower = w THEN p ELSE 0)
    BY <1>1, <1>2, <2>1, <2>2
  <2> HIDE DEF out, in, new, low
  <2>8. cash'[w] = InitialCash - new + low - charged'[w] + collected'[w]
    BY <1>1, <1>8, <2>1, <2>3, <2>4, <2>5, <2>6, <2>7
  <2> QED
    BY <2>8 DEF new, low
<1> QED
  BY <1>7, <1>9 DEF LenderIsOutPrincipal

(* Who pays what he owes pays his lender. *)
LEMMA PaymentKeepsCash ==
  ASSUME LoanInv, LenderIsOutPrincipal, NEW d \in Deals, HasLoan(d), NEW l \in Loan,
         NEW amount \in Nat, loans' = [loans EXCEPT ![d] = l],
         l.lender = loans[d].lender, l.borrower = loans[d].borrower,
         l.principal = loans[d].principal, l.totalPaid = loans[d].totalPaid + amount,
         cash' = Transfer(cash, l.borrower, l.lender, amount), UNCHANGED feeVars
  PROVE  LenderIsOutPrincipal'
<1>1. /\ cash \in [CashAccounts -> Int] /\ l.lender \in Wallets /\ l.borrower \in Wallets
      /\ l.lender \in CashAccounts /\ l.borrower \in CashAccounts /\ LoanTypeOK
      /\ loans[d] \in Loan
  BY DEF LoanInv, LoanTypeOK, CashAccounts, Loan, HasLoan
<1>2. SumFunction(cash') = SumFunction(cash)
  BY <1>1, AccountsFinite, TransferSum
<1>3. \A w \in Wallets :
        cash'[w] = cash[w] - (IF w = l.borrower THEN amount ELSE 0)
                           + (IF w = l.lender THEN amount ELSE 0)
  <2> SUFFICES ASSUME NEW w \in Wallets
               PROVE  cash'[w] = cash[w] - (IF w = l.borrower THEN amount ELSE 0)
                                         + (IF w = l.lender THEN amount ELSE 0)
    OBVIOUS
  <2>1. w \in CashAccounts /\ cash[w] \in Int
    BY <1>1 DEF CashAccounts
  <2> QED
    BY <1>1, <2>1 DEF Transfer
<1>4. Unreturned(l) = Unreturned(loans[d]) - amount
  <2>1. loans[d].principal \in Int /\ loans[d].totalPaid \in Int
    BY <1>1 DEF Loan
  <2> QED
    BY <2>1 DEF Unreturned
<1> QED
  BY <1>1, <1>2, <1>3, <1>4, PaidKeepsCash

(* A loan whose state alone changes. *)
LEMMA StateKeepsCash ==
  ASSUME LoanInv, LenderIsOutPrincipal, NEW d \in Deals, HasLoan(d), NEW s \in LoanState,
         loans' = [loans EXCEPT ![d].state = s], UNCHANGED <<cash, feeVars>>
  PROVE  LenderIsOutPrincipal'
<1> DEFINE l == [loans[d] EXCEPT !.state = s]
<1>1. loans[d] \in Loan /\ LoanTypeOK
  BY DEF LoanInv, LoanTypeOK, HasLoan
<1>2. /\ loans' = [loans EXCEPT ![d] = l]
      /\ l.lender = loans[d].lender /\ l.borrower = loans[d].borrower
      /\ Unreturned(l) = Unreturned(loans[d])
  BY <1>1 DEF LoanTypeOK, Loan, Unreturned
<1>3. Unreturned(loans[d]) \in Int
  BY <1>1 DEF Loan, Unreturned
<1>5. l \in Loan
  BY <1>1 DEF Loan
<1>6. \A w \in Wallets : cash[w] \in Int
  BY <1>1 DEF LoanTypeOK, CashAccounts
<1> HIDE DEF l
<1>7. \A z \in Nat : z = 0 => LenderIsOutPrincipal'
  <2> SUFFICES ASSUME NEW z \in Nat, z = 0
               PROVE  LenderIsOutPrincipal'
    OBVIOUS
  <2>1. Unreturned(l) = Unreturned(loans[d]) - z
    BY <1>2, <1>3
  <2>2. \A w \in Wallets : cash'[w] = cash[w] - (IF w = l.borrower THEN z ELSE 0)
                                             + (IF w = l.lender THEN z ELSE 0)
    BY <1>6
  <2> QED
    BY <1>1, <1>2, <1>5, <2>1, <2>2, PaidKeepsCash
<1> QED
  BY <1>7

(* Nothing lent, nothing charged: everybody has what he began with.        *)
LEMMA CashInitially == BooksOpen => LenderIsOutPrincipal
<1> SUFFICES ASSUME BooksOpen
             PROVE  LenderIsOutPrincipal
  OBVIOUS
<1> DEFINE full == [a \in CashAccounts |-> InitialCash]
           k == Cardinality(Wallets)
<1>1. InitialCash \in Nat /\ k \in Nat /\ Treasury \in CashAccounts /\ Treasury \notin Wallets
      /\ IsFiniteSet(Deals) /\ IsFiniteSet(CashAccounts) /\ Cardinality(CashAccounts) = k + 1
  BY LoanAssumption, AccountsFinite, FS_CardinalityType DEF CashAccounts
<1>3. full \in [CashAccounts -> Int] /\ \A a \in CashAccounts : full[a] = InitialCash
  BY <1>1
<1>4. cash = [full EXCEPT ![Treasury] = 0]
  BY <1>1 DEF BooksOpen
<1> HIDE DEF full, k
<1>2. SumFunction(full) = InitialCash * (k + 1)
  BY <1>1, <1>3, SumConstant
<1>a. \A v \in Int : SumFunction([full EXCEPT ![Treasury] = v])
                      = SumFunction(full) - full[Treasury] + v
  <2> TAKE v \in Int
  <2>1. IsFiniteSet(CashAccounts) /\ Treasury \in CashAccounts
    BY <1>1
  <2> QED
    BY <1>3, <2>1, SumExcept
<1>5. SumFunction([full EXCEPT ![Treasury] = 0]) = SumFunction(full) - full[Treasury] + 0
  BY <1>a
<1>6. InitialCash * (k + 1) - InitialCash + 0 = InitialCash * k
  BY <1>1
<1>7. SumFunction(cash) = InitialCash * k
  <2>1. InitialCash * (k + 1) \in Int /\ full[Treasury] = InitialCash
    BY <1>1, <1>3
  <2> QED
    BY <1>1, <1>2, <1>4, <1>5, <1>6, <2>1
<1>8. ASSUME NEW w \in Wallets
      PROVE  /\ SumFunction(OutBy(w)) = 0 /\ SumFunction(InBy(w)) = 0
             /\ cash[w] = InitialCash /\ charged[w] = 0 /\ collected[w] = 0
  <2>1. /\ OutBy(w) \in [Deals -> Int] /\ \A d \in Deals : OutBy(w)[d] = 0
        /\ InBy(w) \in [Deals -> Int] /\ \A d \in Deals : InBy(w)[d] = 0
    BY DEF BooksOpen, OutBy, InBy, HasLoan
  <2>2. \A f \in [Deals -> Int] : (\A d \in Deals : f[d] = 0) => SumFunction(f) = 0
    <3>1. Cardinality(Deals) \in Nat /\ 0 * Cardinality(Deals) = 0
      BY <1>1, FS_CardinalityType
    <3> QED
      BY <1>1, <3>1, SumConstant
  <2>3. cash[w] = InitialCash /\ charged[w] = 0 /\ collected[w] = 0
    BY <1>1 DEF BooksOpen, CashAccounts
  <2> QED
    BY <2>1, <2>2, <2>3
<1> QED
  BY <1>1, <1>7, <1>8 DEF LenderIsOutPrincipal, k

LEMMA CashInvInductive == CashInv /\ [LoanNext]_loanVars => CashInv'
<1> SUFFICES ASSUME LoanInv, LenderIsOutPrincipal, [LoanNext]_loanVars
             PROVE  LoanInv' /\ LenderIsOutPrincipal'
  BY DEF CashInv
<1>0. LoanInv'
  BY LoanInvInductive
<1>1. ASSUME UNCHANGED <<loans, cash, feeVars>>
      PROVE  LenderIsOutPrincipal'
  BY <1>1 DEF LenderIsOutPrincipal, OutBy, InBy, HasLoan, feeVars
<1>2. ASSUME NEW d \in Deals, NEW lender \in Wallets, NEW borrower \in Wallets,
             NEW p \in Principals, NEW r \in Rates, NEW n \in AllowedDurations,
             NEW f \in Fees, NEW x \in CashAccounts,
             ActivateLoan(d, lender, borrower, p, r, n, f, x)
      PROVE  LenderIsOutPrincipal'
  BY <1>0, <1>2, ActivateKeepsCash
<1>3. ASSUME NEW d \in Deals, NEW w \in Wallets, NEW a \in U64, MakePayment(d, w, a)
      PROVE  LenderIsOutPrincipal'
  <2> DEFINE l == [loans[d] EXCEPT !.paymentsMade = @ + 1, !.totalPaid = @ + a,
                                   !.state = AfterPayment(loans[d])]
  <2>1. HasLoan(d) /\ loans[d] \in Loan /\ a \in Nat
    BY <1>3, BaseAssumption DEF MakePayment, LoanInv, LoanTypeOK, HasLoan, U64
  <2>2. loans' = [loans EXCEPT ![d] = l]
        /\ cash' = Transfer(cash, loans[d].borrower, loans[d].lender, a)
        /\ UNCHANGED feeVars
    BY <1>3 DEF MakePayment
  <2>3. /\ l.lender = loans[d].lender /\ l.borrower = loans[d].borrower
        /\ l.principal = loans[d].principal /\ l.totalPaid = loans[d].totalPaid + a
    BY <2>1 DEF Loan
  <2>4. l \in Loan
    <3>1. AfterPayment(loans[d]) \in LoanState
      BY DEF AfterPayment, LoanState
    <3>2. loans[d].paymentsMade + 1 \in Nat /\ loans[d].totalPaid + a \in Nat
      BY <2>1 DEF Loan
    <3> QED
      BY <2>1, <3>1, <3>2 DEF Loan
  <2> HIDE DEF l
  <2> QED
    BY <2>1, <2>2, <2>3, <2>4, PaymentKeepsCash
<1>4. ASSUME NEW d \in Deals, NEW w \in Wallets, RepayInFull(d, w)
      PROVE  LenderIsOutPrincipal'
  <2> DEFINE a == Outstanding(loans[d])
             l == [loans[d] EXCEPT !.paymentsMade = loans[d].duration, !.totalPaid = @ + a,
                                   !.state = "Completed"]
  <2>1. HasLoan(d) /\ loans[d] \in Loan
    BY <1>4 DEF RepayInFull, LoanInv, LoanTypeOK, HasLoan
  <2>2. a \in Nat
    BY <1>4, <2>1 DEF RepayInFull, Outstanding, Loan
  <2>3. loans' = [loans EXCEPT ![d] = l]
        /\ cash' = Transfer(cash, loans[d].borrower, loans[d].lender, a)
        /\ UNCHANGED feeVars
    BY <1>4 DEF RepayInFull
  <2> HIDE DEF a
  <2>4. /\ l.lender = loans[d].lender /\ l.borrower = loans[d].borrower
        /\ l.principal = loans[d].principal /\ l.totalPaid = loans[d].totalPaid + a
    BY <2>1 DEF Loan
  <2>5. l \in Loan
    <3>1. loans[d].duration \in Nat /\ loans[d].totalPaid + a \in Nat
      BY <2>1, <2>2 DEF Loan
    <3> QED
      BY <2>1, <3>1 DEF Loan, LoanState
  <2> HIDE DEF l
  <2> QED
    BY <2>1, <2>2, <2>3, <2>4, <2>5, PaymentKeepsCash
<1>5. ASSUME NEW d \in Deals, FlagDefault(d)
      PROVE  LenderIsOutPrincipal'
  BY <1>5, StateKeepsCash DEF FlagDefault, LoanState
<1>6. ASSUME NEW d \in Deals, NEW w \in Wallets, NEW fully \in BOOLEAN,
             MarkLiquidated(d, w, fully)
      PROVE  LenderIsOutPrincipal'
  BY <1>6, StateKeepsCash DEF MarkLiquidated, LoanState
<1> QED
  BY <1>0, <1>1, <1>2, <1>3, <1>4, <1>5, <1>6
     DEF LoanNext, loanVars, InitializeLoanConfig, AdvanceClock

(* No token of the loan currency is made or lost, and every wallet's       *)
(* balance is explained by its loans and the fees on them, however many it *)
(* has on either side and wherever the lenders sent the fees.              *)
THEOREM LendersAreOutPrincipal == LoanSpec => []LenderIsOutPrincipal
<1>1. LoanInit => CashInv
  BY LoanInitInv, CashInitially DEF CashInv, LoanInit, BooksOpen
<1>2. CashInv => LenderIsOutPrincipal
  BY DEF CashInv
<1> QED
  BY <1>1, <1>2, CashInvInductive, PTL DEF LoanSpec

(* One step of the program leaves a loan alone or lets it progress.        *)
LEMMA LoanProgressStep ==
  ASSUME LoanInv, LoanNext, NEW d \in Deals
  PROVE  LoanProgress(d)
<1> SUFFICES ASSUME HasLoan(d)
             PROVE  LoanProgress(d)
  BY DEF LoanProgress
<1>1. loans[d] \in Loan /\ loans \in [Deals -> Loan \union {NoAccount}]
  BY DEF LoanInv, GoodLoan, LoanTypeOK
<1>2. CASE loans'[d] = loans[d]
  BY <1>1, <1>2 DEF LoanProgress, Loan
<1>3. ASSUME NEW lender \in Wallets, NEW borrower \in Wallets, NEW e \in Deals,
             NEW p \in Principals, NEW r \in Rates, NEW n \in AllowedDurations,
             NEW f \in Fees, NEW x \in CashAccounts,
             ActivateLoan(e, lender, borrower, p, r, n, f, x)
      PROVE  loans'[d] = loans[d]
  BY <1>1, <1>3 DEF ActivateLoan
<1>4. ASSUME NEW e \in Deals, NEW w \in Wallets, NEW a \in U64, MakePayment(e, w, a)
      PROVE  LoanProgress(d)
  <2>1. CASE e = d
    BY <1>1, <1>4, <2>1 DEF LoanProgress, MakePayment, Loan
  <2>2. CASE e # d
    BY <1>1, <1>2, <1>4, <2>2 DEF MakePayment
  <2> QED
    BY <2>1, <2>2
<1>5. ASSUME NEW e \in Deals, NEW w \in Wallets, RepayInFull(e, w)
      PROVE  LoanProgress(d)
  <2>1. CASE e = d
    BY <1>1, <1>5, <2>1 DEF LoanProgress, RepayInFull, Loan
  <2>2. CASE e # d
    BY <1>1, <1>2, <1>5, <2>2 DEF RepayInFull
  <2> QED
    BY <2>1, <2>2
<1>6. ASSUME NEW e \in Deals, FlagDefault(e)
      PROVE  LoanProgress(d)
  <2>1. CASE e = d
    BY <1>1, <1>6, <2>1 DEF LoanProgress, FlagDefault, Loan, Repayable
  <2>2. CASE e # d
    BY <1>1, <1>2, <1>6, <2>2 DEF FlagDefault
  <2> QED
    BY <2>1, <2>2
<1>7. ASSUME NEW e \in Deals, NEW w \in Wallets, NEW fully \in BOOLEAN,
             MarkLiquidated(e, w, fully)
      PROVE  LoanProgress(d)
  <2>1. CASE e = d
    BY <1>1, <1>7, <2>1 DEF LoanProgress, MarkLiquidated, Liquidatable, Loan
  <2>2. CASE e # d
    BY <1>1, <1>2, <1>7, <2>2 DEF MarkLiquidated
  <2> QED
    BY <2>1, <2>2
<1>8. ASSUME NEW a \in Authorities, InitializeLoanConfig(a)
      PROVE  loans'[d] = loans[d]
  BY <1>8 DEF InitializeLoanConfig
<1>9. CASE AdvanceClock
  BY <1>2, <1>9 DEF AdvanceClock
<1> QED
  BY <1>2, <1>3, <1>4, <1>5, <1>6, <1>7, <1>8, <1>9 DEF LoanNext
(* No instruction closes the account of a loan.                            *)
LEMMA LoanStays ==
  ASSUME LoanInv, LoanNext, NEW d \in Deals, HasLoan(d)
  PROVE  HasLoan(d)'
<1>1. /\ loans \in [Deals -> Loan \union {NoAccount}] /\ loans[d] \in Loan
      /\ \A e \in Deals : HasLoan(e) => loans[e] \in Loan
  BY DEF LoanInv, GoodLoan, LoanTypeOK
<1>2. CASE loans'[d] = loans[d]
  BY <1>2 DEF HasLoan
<1>3. ASSUME NEW e \in Deals, NEW n \in Nat, NEW p \in Nat, NEW s \in LoanState, HasLoan(e),
             loans' = [loans EXCEPT ![e] =
               [loans[e] EXCEPT !.paymentsMade = n, !.totalPaid = p, !.state = s]]
      PROVE  HasLoan(d)'
  <2>1. CASE e = d
    <3>1. loans'[d] = [loans[d] EXCEPT !.paymentsMade = n, !.totalPaid = p, !.state = s]
      BY <1>1, <1>3, <2>1
    <3>2. loans'[d] \in Loan
      BY <1>1, <3>1 DEF Loan
    <3> QED
      BY <3>2, NoAccountIsNoLoan DEF HasLoan
  <2>2. CASE e # d
    BY <1>1, <1>2, <1>3, <2>2
  <2> QED
    BY <2>1, <2>2
<1>4. ASSUME NEW lender \in Wallets, NEW borrower \in Wallets, NEW e \in Deals,
             NEW p \in Principals, NEW r \in Rates, NEW n \in AllowedDurations,
             NEW f \in Fees, NEW x \in CashAccounts,
             ActivateLoan(e, lender, borrower, p, r, n, f, x)
      PROVE  HasLoan(d)'
  BY <1>1, <1>2, <1>4 DEF ActivateLoan
<1>5. ASSUME NEW e \in Deals, NEW w \in Wallets, NEW a \in U64, MakePayment(e, w, a)
      PROVE  HasLoan(d)'
  <2> DEFINE n == loans[e].paymentsMade + 1
             p == loans[e].totalPaid + a
             s == AfterPayment(loans[e])
  <2>1. /\ HasLoan(e) /\ loans[e] \in Loan /\ a \in Nat
        /\ loans' = [loans EXCEPT ![e] =
             [loans[e] EXCEPT !.paymentsMade = n, !.totalPaid = p, !.state = s]]
    BY <1>1, <1>5, BaseAssumption DEF MakePayment, U64
  <2>2. n \in Nat /\ p \in Nat /\ s \in LoanState
    BY <2>1 DEF Loan, AfterPayment, LoanState
  <2> HIDE DEF n, p, s
  <2> QED
    BY <1>3, <2>1, <2>2
<1>6. ASSUME NEW e \in Deals, NEW w \in Wallets, RepayInFull(e, w)
      PROVE  HasLoan(d)'
  <2> DEFINE n == loans[e].duration
             p == loans[e].totalPaid + Outstanding(loans[e])
             s == "Completed"
  <2>1. /\ HasLoan(e) /\ loans[e] \in Loan /\ Outstanding(loans[e]) > 0
        /\ loans' = [loans EXCEPT ![e] =
             [loans[e] EXCEPT !.paymentsMade = n, !.totalPaid = p, !.state = s]]
    BY <1>1, <1>6 DEF RepayInFull
  <2>2. n \in Nat /\ p \in Nat /\ s \in LoanState
    BY <2>1 DEF Loan, Outstanding, LoanState
  <2> HIDE DEF n, p, s
  <2> QED
    BY <1>3, <2>1, <2>2
<1>7. ASSUME NEW e \in Deals, NEW s \in LoanState, HasLoan(e),
             loans' = [loans EXCEPT ![e].state = s]
      PROVE  HasLoan(d)'
  <2> DEFINE n == loans[e].paymentsMade
             p == loans[e].totalPaid
  <2>1. loans[e] \in Loan /\ HasLoan(e)
    BY <1>1, <1>7
  <2>2. /\ n \in Nat /\ p \in Nat
        /\ [loans[e] EXCEPT !.state = s] =
             [loans[e] EXCEPT !.paymentsMade = n, !.totalPaid = p, !.state = s]
    BY <2>1 DEF Loan
  <2>3. loans' = [loans EXCEPT ![e] =
          [loans[e] EXCEPT !.paymentsMade = n, !.totalPaid = p, !.state = s]]
    BY <1>7, <2>2
  <2> HIDE DEF n, p
  <2> QED
    BY <1>3, <2>1, <2>2, <2>3
<1>8. LoanNext =>
        \/ loans' = loans
        \/ \E lender, borrower \in Wallets, e \in Deals, p \in Principals, r \in Rates,
              n \in AllowedDurations, f \in Fees, x \in CashAccounts :
             ActivateLoan(e, lender, borrower, p, r, n, f, x)
        \/ \E e \in Deals, w \in Wallets, a \in U64 : MakePayment(e, w, a)
        \/ \E e \in Deals, w \in Wallets : RepayInFull(e, w)
        \/ \E e \in Deals, s \in LoanState :
             HasLoan(e) /\ loans' = [loans EXCEPT ![e].state = s]
  BY DEF LoanNext, InitializeLoanConfig, FlagDefault, MarkLiquidated, AdvanceClock, LoanState
<1> QED
  BY <1>2, <1>4, <1>5, <1>6, <1>7, <1>8

(* No instruction reaches a settled loan or rewrites an agreed number.     *)
THEOREM LoansOnlyProgress == LoanSpec => LoanOnlyProgresses
<1>1. LoanInv /\ [LoanNext]_loanVars => [\A d \in Deals : LoanProgress(d)]_loanVars
  BY LoanProgressStep
<1> QED
  BY <1>1, LoanInvariant, PTL DEF LoanSpec, LoanOnlyProgresses

(***************************************************************************)
(* EscrowVault.                                                            *)
(***************************************************************************)

(* Per deal: the conservation laws, which are inductive together with the  *)
(* types (a vault nobody created has had no flows).                        *)
GoodVault(d) ==
  IF HasVault(d)
  THEN /\ btc[d] = vaults[d].atoms + flows[d].stray
       /\ flows[d].deposited = vaults[d].atoms + flows[d].released + flows[d].seized
       /\ vaults[d].state = "Closed" => vaults[d].atoms = 0
  ELSE btc[d] = 0 /\ flows[d] =
         [deposited |-> 0, released |-> 0, seized |-> 0, stray |-> 0]

VaultInv == VaultTypeOK /\ \A d \in Deals : GoodVault(d)

Accounts == Wallets \union Deals

(* A transfer between two accounts moves the amount and nothing else. *)
LEMMA TokensMove ==
  ASSUME NEW b \in [Accounts -> Nat], NEW from \in Accounts, NEW to \in Accounts,
         from # to, NEW amount \in Nat, CanPay(b, from, amount)
  PROVE  LET c == Transfer(b, from, to, amount)
         IN  /\ c \in [Accounts -> Nat]
             /\ c[from] = b[from] - amount /\ c[to] = b[to] + amount
             /\ \A a \in Accounts \ {from, to} : c[a] = b[a]
BY DEF CanPay, Transfer

(* No vaults, no flows. *)
LEMMA VaultInitInv == VaultInit => VaultInv
BY VaultAssumption
   DEF VaultInit, VaultInv, VaultTypeOK, GoodVault, HasVault, Flow

(* A new vault is empty (initialize_vault). *)
LEMMA CreateKeepsInv ==
  ASSUME VaultInv, NEW d \in Deals, NEW w \in Wallets, NEW p \in Programs,
         NEW q \in Programs, InitializeVault(d, w, p, q)
  PROVE  VaultInv'
<1> DEFINE v == [borrower |-> w, loanProgram |-> p, liquidationProgram |-> q,
                 atoms |-> 0, state |-> "Open"]
<1>1. v \in Vault
  BY BaseAssumption DEF Vault, VaultState, U64
<1>2. vaults' = [vaults EXCEPT ![d] = v] /\ UNCHANGED <<btc, flows>> /\ ~HasVault(d)
  BY DEF InitializeVault
<1>3. VaultTypeOK'
  BY <1>1, <1>2 DEF VaultInv, VaultTypeOK
<1>4. ASSUME NEW e \in Deals PROVE GoodVault(e)'
  <2>1. CASE e = d
    BY <1>2, <2>1 DEF VaultInv, VaultTypeOK, GoodVault, HasVault
  <2>2. CASE e # d
    BY <1>2, <2>2 DEF VaultInv, VaultTypeOK, GoodVault, HasVault
  <2> QED
    BY <2>1, <2>2
<1> QED
  BY <1>3, <1>4 DEF VaultInv

(* Every other vault is untouched by a transfer into or out of vault d.    *)
LEMMA OthersKeep ==
  ASSUME VaultInv, NEW d \in Deals, NEW w \in Wallets, NEW e \in Deals, e # d,
         NEW v, NEW f, NEW amount \in Nat,
         \/ btc' = Transfer(btc, w, d, amount) /\ CanPay(btc, w, amount)
         \/ btc' = Transfer(btc, d, w, amount) /\ CanPay(btc, d, amount),
         vaults' = [vaults EXCEPT ![d] = v], flows' = [flows EXCEPT ![d] = f]
  PROVE  GoodVault(e)'
<1>1. /\ vaults'[e] = vaults[e] /\ flows'[e] = flows[e]
      /\ GoodVault(e)
  BY DEF VaultInv, VaultTypeOK
<1>2. btc'[e] = btc[e]
  <2>1. w # d /\ e # w /\ {w, d, e} \subseteq Accounts /\ btc \in [Accounts -> Nat]
    BY VaultAssumption DEF Accounts, VaultInv, VaultTypeOK
  <2> QED
    BY <2>1 DEF Transfer
<1> QED
  BY <1>1, <1>2 DEF GoodVault, HasVault

(* A deposit enters balance, record and history alike (deposit_collateral). *)
LEMMA DepositKeepsInv ==
  ASSUME VaultInv, NEW d \in Deals, NEW w \in Wallets, NEW a \in DepositAmounts,
         DepositCollateral(d, w, a)
  PROVE  VaultInv'
<1> DEFINE v == [vaults[d] EXCEPT !.atoms = @ + a]
           f == [flows[d] EXCEPT !.deposited = @ + a]
<1>1. /\ a \in Nat /\ w # d /\ w \in Accounts /\ d \in Accounts
      /\ btc \in [Accounts -> Nat] /\ vaults[d] \in Vault /\ flows[d] \in Flow
  BY VaultAssumption, BaseAssumption
     DEF Accounts, U64, VaultInv, VaultTypeOK, DepositCollateral, HasVault
<1>2. /\ CanPay(btc, w, a) /\ btc' = Transfer(btc, w, d, a)
      /\ vaults' = [vaults EXCEPT ![d] = v] /\ flows' = [flows EXCEPT ![d] = f]
      /\ vaults[d].atoms + a <= MaxU64 /\ vaults[d].state = "Open"
  BY DEF DepositCollateral, Depositable
<1>3. btc' \in [Accounts -> Nat] /\ btc'[d] = btc[d] + a
  BY <1>1, <1>2, TokensMove
<1>4. v \in Vault /\ f \in Flow
  BY <1>1, <1>2, BaseAssumption DEF Vault, Flow, U64
<1>5. VaultTypeOK'
  BY <1>2, <1>3, <1>4 DEF VaultInv, VaultTypeOK, Accounts
<1>6. GoodVault(d)'
  <2>1. vaults'[d] = v /\ flows'[d] = f /\ HasVault(d)' /\ HasVault(d)
    BY <1>2, <1>4, NoAccountIsNoVault
       DEF VaultInv, VaultTypeOK, HasVault, DepositCollateral
  <2> QED
    BY <1>1, <1>2, <1>3, <2>1 DEF VaultInv, GoodVault, Vault, Flow, U64
<1>7. ASSUME NEW e \in Deals, e # d PROVE GoodVault(e)'
  BY <1>1, <1>2, <1>7, OthersKeep
<1> QED
  BY <1>5, <1>6, <1>7 DEF VaultInv

(* Locking moves nothing (lock_vault). *)
LEMMA LockKeepsInv ==
  ASSUME VaultInv, NEW d \in Deals, NEW w \in Wallets, NEW a \in DepositAmounts,
         LockVault(d, w, a)
  PROVE  VaultInv'
<1> DEFINE v == [vaults[d] EXCEPT !.state = "Locked"]
<1>1. /\ vaults' = [vaults EXCEPT ![d] = v] /\ UNCHANGED <<btc, flows>>
      /\ vaults[d] \in Vault /\ vaults[d].state = "Open" /\ HasVault(d)
  BY DEF LockVault, InVaultState, VaultInv, VaultTypeOK, HasVault
<1>2. v \in Vault /\ v.atoms = vaults[d].atoms /\ v.state = "Locked"
  BY <1>1 DEF Vault, VaultState
<1>3. VaultTypeOK'
  BY <1>1, <1>2 DEF VaultInv, VaultTypeOK
<1>4. ASSUME NEW e \in Deals PROVE GoodVault(e)'
  <2>1. CASE e = d
    BY <1>1, <1>2, <2>1, NoAccountIsNoVault
       DEF VaultInv, VaultTypeOK, GoodVault, HasVault
  <2>2. CASE e # d
    BY <1>1, <2>2 DEF VaultInv, VaultTypeOK, GoodVault, HasVault
  <2> QED
    BY <2>1, <2>2
<1> QED
  BY <1>3, <1>4 DEF VaultInv

(* A release pays out all that is recorded (release_collateral). *)
LEMMA ReleaseKeepsInv ==
  ASSUME VaultInv, NEW d \in Deals, NEW w \in Wallets, NEW r \in Wallets,
         ReleaseCollateral(d, w, r)
  PROVE  VaultInv'
<1> DEFINE a == vaults[d].atoms
           v == [vaults[d] EXCEPT !.atoms = 0, !.state = "Closed"]
           f == [flows[d] EXCEPT !.released = @ + a]
<1>1. /\ HasVault(d) /\ vaults[d] \in Vault /\ flows[d] \in Flow /\ a \in Nat
      /\ r # d /\ r \in Accounts /\ d \in Accounts /\ btc \in [Accounts -> Nat]
  BY VaultAssumption, BaseAssumption
     DEF Accounts, U64, VaultInv, VaultTypeOK, ReleaseCollateral, InVaultState,
         HasVault, Vault
<1>2. /\ CanPay(btc, d, a) /\ btc' = Transfer(btc, d, r, a)
      /\ vaults' = [vaults EXCEPT ![d] = v] /\ flows' = [flows EXCEPT ![d] = f]
  BY DEF ReleaseCollateral, Releasable
<1>3. btc' \in [Accounts -> Nat] /\ btc'[d] = btc[d] - a
  BY <1>1, <1>2, TokensMove
<1>4. v \in Vault /\ f \in Flow
  <2>1. 0 \in U64 /\ "Closed" \in VaultState
    BY BaseAssumption DEF U64, VaultState
  <2>2. v \in Vault
    BY <1>1, <2>1 DEF Vault
  <2>3. flows[d].released + a \in Nat
    BY <1>1 DEF Flow
  <2>4. f \in Flow
    <3> HIDE DEF a
    <3> QED
      BY <1>1, <2>3 DEF Flow
  <2> QED
    BY <2>2, <2>4
<1>5. VaultTypeOK'
  BY <1>2, <1>3, <1>4 DEF VaultInv, VaultTypeOK, Accounts
<1>6. GoodVault(d)'
  <2>1. vaults'[d] = v /\ flows'[d] = f /\ HasVault(d)'
    BY <1>2, <1>4, NoAccountIsNoVault DEF VaultInv, VaultTypeOK, HasVault
  <2>2. /\ v.atoms = 0 /\ v.state = "Closed"
        /\ f.seized = flows[d].seized /\ f.released = flows[d].released + a
        /\ f.deposited = flows[d].deposited /\ f.stray = flows[d].stray
    BY <1>1 DEF Vault, Flow
  <2>3. GoodVault(d)
    BY DEF VaultInv
  <2> HIDE DEF v, f
  <2> QED
    BY <1>1, <1>3, <2>1, <2>2, <2>3 DEF GoodVault, Flow
<1>7. ASSUME NEW e \in Deals, e # d PROVE GoodVault(e)'
  BY <1>1, <1>2, <1>7, OthersKeep
<1> QED
  BY <1>5, <1>6, <1>7 DEF VaultInv

(* A seizure closes the vault only when it empties it (seize_collateral). *)
LEMMA SeizeKeepsInv ==
  ASSUME VaultInv, NEW d \in Deals, NEW w \in Wallets, NEW r \in Wallets,
         NEW a \in DepositAmounts, SeizeCollateral(d, w, r, a)
  PROVE  VaultInv'
<1> DEFINE left == vaults[d].atoms - a
           v == [vaults[d] EXCEPT !.atoms = @ - a, !.state = AfterSeizure(left)]
           f == [flows[d] EXCEPT !.seized = @ + a]
<1>1. /\ HasVault(d) /\ vaults[d] \in Vault /\ flows[d] \in Flow /\ a \in Nat
      /\ r # d /\ r \in Accounts /\ d \in Accounts /\ btc \in [Accounts -> Nat]
  BY VaultAssumption, BaseAssumption
     DEF Accounts, U64, VaultInv, VaultTypeOK, SeizeCollateral, InVaultState,
         HasVault
<1>2. /\ CanPay(btc, d, a) /\ btc' = Transfer(btc, d, r, a) /\ a <= vaults[d].atoms
      /\ vaults' = [vaults EXCEPT ![d] = v] /\ flows' = [flows EXCEPT ![d] = f]
  BY DEF SeizeCollateral, Seizable
<1>3. btc' \in [Accounts -> Nat] /\ btc'[d] = btc[d] - a
  BY <1>1, <1>2, TokensMove
<1>4. v \in Vault /\ f \in Flow
  <2>1. AfterSeizure(left) \in VaultState
    BY DEF AfterSeizure, VaultState
  <2>2. left \in U64
    BY <1>1, <1>2, BaseAssumption DEF Vault, U64
  <2>3. v \in Vault
    BY <1>1, <2>1, <2>2 DEF Vault
  <2>4. f \in Flow
    BY <1>1 DEF Flow
  <2> QED
    BY <2>3, <2>4
<1>5. VaultTypeOK'
  BY <1>2, <1>3, <1>4 DEF VaultInv, VaultTypeOK, Accounts
<1>6. GoodVault(d)'
  <2>1. vaults'[d] = v /\ flows'[d] = f /\ HasVault(d)'
    BY <1>2, <1>4, NoAccountIsNoVault DEF VaultInv, VaultTypeOK, HasVault
  <2>2. /\ v.atoms = left /\ v.state = AfterSeizure(left)
        /\ f.seized = flows[d].seized + a /\ f.released = flows[d].released
        /\ f.deposited = flows[d].deposited /\ f.stray = flows[d].stray
    BY <1>1 DEF Vault, Flow
  <2>3. v.state = "Closed" => v.atoms = 0
    BY <2>2 DEF AfterSeizure
  <2>4. GoodVault(d) /\ vaults[d].atoms \in Nat
    BY <1>1, BaseAssumption DEF VaultInv, Vault, U64
  <2> HIDE DEF v, f
  <2> QED
    BY <1>1, <1>3, <2>1, <2>2, <2>3, <2>4 DEF GoodVault, Flow
<1>7. ASSUME NEW e \in Deals, e # d PROVE GoodVault(e)'
  BY <1>1, <1>2, <1>7, OthersKeep
<1> QED
  BY <1>5, <1>6, <1>7 DEF VaultInv

(* An unasked transfer raises the balance and not the record. *)
LEMMA StrayKeepsInv ==
  ASSUME VaultInv, NEW d \in Deals, NEW w \in Wallets, NEW a \in DepositAmounts,
         StrayTransfer(d, w, a)
  PROVE  VaultInv'
<1> DEFINE f == [flows[d] EXCEPT !.stray = @ + a]
<1>1. /\ HasVault(d) /\ vaults[d] \in Vault /\ flows[d] \in Flow /\ a \in Nat
      /\ w # d /\ w \in Accounts /\ d \in Accounts /\ btc \in [Accounts -> Nat]
  BY VaultAssumption, BaseAssumption
     DEF Accounts, U64, VaultInv, VaultTypeOK, StrayTransfer, HasVault
<1>2. /\ CanPay(btc, w, a) /\ btc' = Transfer(btc, w, d, a)
      /\ vaults' = vaults /\ flows' = [flows EXCEPT ![d] = f]
  BY DEF StrayTransfer
<1>3. btc' \in [Accounts -> Nat] /\ btc'[d] = btc[d] + a
  BY <1>1, <1>2, TokensMove
<1>4. VaultTypeOK'
  <2>1. f \in Flow
    BY <1>1 DEF Flow
  <2> QED
    BY <1>2, <1>3, <2>1 DEF VaultInv, VaultTypeOK, Accounts
<1>5. GoodVault(d)'
  BY <1>1, <1>2, <1>3, BaseAssumption
     DEF VaultInv, VaultTypeOK, GoodVault, HasVault, Vault, Flow, U64
<1>6. ASSUME NEW e \in Deals, e # d PROVE GoodVault(e)'
  <2>1. vaults' = [vaults EXCEPT ![d] = vaults[d]]
    BY <1>2 DEF VaultInv, VaultTypeOK
  <2> QED
    BY <1>1, <1>2, <1>6, <2>1, OthersKeep
<1> QED
  BY <1>4, <1>5, <1>6 DEF VaultInv

(* The invariant is inductive: one case per instruction. *)
LEMMA VaultInvInductive == VaultInv /\ [VaultNext]_vaultVars => VaultInv'
<1> SUFFICES ASSUME VaultInv, [VaultNext]_vaultVars
             PROVE  VaultInv'
  OBVIOUS
<1>1. CASE UNCHANGED vaultVars
  BY <1>1 DEF vaultVars, VaultInv, VaultTypeOK, GoodVault, HasVault
<1> QED
  BY <1>1, CreateKeepsInv, DepositKeepsInv, LockKeepsInv, ReleaseKeepsInv,
     SeizeKeepsInv, StrayKeepsInv DEF VaultNext

(* The invariant holds of every reachable state. *)
THEOREM VaultInvariant == VaultSpec => []VaultInv
BY VaultInitInv, VaultInvInductive, PTL DEF VaultSpec

(* Every vault is well formed, 64-bit amounts stay in range, and no token  *)
(* balance goes negative.                                                  *)
THEOREM VaultTypeCorrect == VaultSpec => []VaultTypeOK
<1>1. VaultInv => VaultTypeOK
  BY DEF VaultInv
<1> QED
  BY <1>1, VaultInvariant, PTL

(* No history of deposits, seizures, releases and stray transfers leaves   *)
(* the recorded collateral uncovered or a stray atom spent.                *)
THEOREM VaultsAreBacked == VaultSpec => []VaultBacked
<1>1. VaultInv => VaultBacked
  BY DEF VaultInv, GoodVault, VaultBacked
<1> QED
  BY <1>1, VaultInvariant, PTL

(* Collateral is conserved from deposit to exit. *)
THEOREM CollateralIsConserved == VaultSpec => []CollateralAccounted
<1>1. VaultInv => CollateralAccounted
  BY DEF VaultInv, GoodVault, CollateralAccounted
<1> QED
  BY <1>1, VaultInvariant, PTL

(* Collateral leaves a vault only by the documented exits. *)
THEOREM CollateralLeavesByDesign == VaultSpec => LeavesOnlyByDesign
<1>1. ASSUME VaultInv, VaultNext, NEW d \in Deals
      PROVE  LeavesByDesign(d)
  <2>1. /\ vaults \in [Deals -> Vault \union {NoAccount}]
        /\ btc \in [Accounts -> Nat] /\ flows \in [Deals -> Flow]
        /\ d \in Accounts /\ btc[d] \in Nat
    BY <1>1 DEF VaultInv, VaultTypeOK, Accounts
  <2>2. CASE btc'[d] = btc[d]
    BY <2>1, <2>2 DEF LeavesByDesign
  <2>3. ASSUME NEW e \in Deals, NEW w \in Wallets, NEW p \in Programs,
               NEW q \in Programs, InitializeVault(e, w, p, q)
        PROVE  LeavesByDesign(d)
    BY <2>2, <2>3 DEF InitializeVault
  <2>4. ASSUME NEW e \in Deals, NEW w \in Wallets, NEW a \in DepositAmounts,
               btc' = Transfer(btc, w, e, a)
        PROVE  LeavesByDesign(d)
    <3>1. w # d /\ a \in Nat
      BY VaultAssumption, BaseAssumption DEF U64
    <3>2. btc'[d] >= btc[d]
      BY <2>1, <2>4, <3>1 DEF Transfer
    <3> QED
      BY <2>1, <3>1, <3>2, <2>4 DEF LeavesByDesign, Transfer
  <2>5. ASSUME NEW e \in Deals, NEW w \in Wallets, NEW a \in DepositAmounts,
               LockVault(e, w, a)
        PROVE  LeavesByDesign(d)
    BY <2>2, <2>5 DEF LockVault
  <2>6. ASSUME NEW e \in Deals, NEW w \in Wallets, NEW r \in Wallets,
               ReleaseCollateral(e, w, r)
        PROVE  LeavesByDesign(d)
    <3>1. r # d /\ r # e /\ r \in Accounts /\ e \in Accounts
      BY VaultAssumption DEF Accounts
    <3>2. CASE e = d
      <4>1. /\ InVaultState(d, {"Locked"}) /\ r = vaults[d].borrower
            /\ btc' = Transfer(btc, d, r, vaults[d].atoms)
            /\ vaults' = [vaults EXCEPT ![d].atoms = 0, ![d].state = "Closed"]
        BY <2>6, <3>2 DEF ReleaseCollateral, Releasable, MayReceive
      <4>2. vaults[d] \in Vault
        BY <2>1, <4>1 DEF InVaultState, HasVault
      <4>3. vaults'[d].state = "Closed"
        BY <2>1, <4>1, <4>2 DEF Vault
      <4>4. btc'[r] = btc[r] + vaults[d].atoms
        BY <2>1, <3>1, <4>1 DEF Transfer
      <4> QED
        BY <4>1, <4>3, <4>4 DEF LeavesByDesign
    <3>3. CASE e # d
      BY <2>1, <2>2, <2>6, <3>1, <3>3 DEF ReleaseCollateral, Transfer
    <3> QED
      BY <3>2, <3>3
  <2>7. ASSUME NEW e \in Deals, NEW w \in Wallets, NEW r \in Wallets,
               NEW a \in DepositAmounts, SeizeCollateral(e, w, r, a)
        PROVE  LeavesByDesign(d)
    <3>1. r # d /\ r \in Accounts /\ e \in Accounts /\ a \in Nat
      BY VaultAssumption, BaseAssumption DEF Accounts, U64
    <3>2. CASE e = d
      <4>1. InVaultState(d, {"Locked"}) /\ a > 0
            /\ flows' = [flows EXCEPT ![d].seized = @ + a]
        BY <2>7, <3>2 DEF SeizeCollateral
      <4>2. flows'[d].seized > flows[d].seized
        BY <2>1, <3>1, <4>1 DEF Flow
      <4> QED
        BY <4>1, <4>2 DEF LeavesByDesign
    <3>3. CASE e # d
      BY <2>1, <2>2, <2>7, <3>1, <3>3 DEF SeizeCollateral, Transfer
    <3> QED
      BY <3>2, <3>3
  <2> QED
    BY <1>1, <2>3, <2>4, <2>5, <2>6, <2>7
       DEF VaultNext, DepositCollateral, StrayTransfer
<1>2. VaultInv /\ [VaultNext]_vaultVars => [\A d \in Deals : LeavesByDesign(d)]_vaultVars
  BY <1>1
<1> QED
  BY <1>2, VaultInvariant, PTL DEF VaultSpec, LeavesOnlyByDesign

(* One step of a locked vault keeps it locked or closes it, keeps its      *)
(* parties, and lets nothing more in.                                      *)
LEMMA StaysCommittedStep ==
  ASSUME VaultInv, VaultNext, NEW d \in Deals
  PROVE  StaysCommitted(d)
<1> SUFFICES ASSUME InVaultState(d, {"Locked", "Closed"})
             PROVE  StaysCommitted(d)
  BY DEF StaysCommitted
<1>1. /\ vaults \in [Deals -> Vault \union {NoAccount}] /\ flows \in [Deals -> Flow]
      /\ vaults[d] \in Vault /\ flows[d] \in Flow /\ HasVault(d)
  BY DEF VaultInv, VaultTypeOK, InVaultState, HasVault
<1>2. CASE vaults'[d] = vaults[d] /\ flows'[d].deposited = flows[d].deposited
  BY <1>1, <1>2, BaseAssumption DEF StaysCommitted, InVaultState, HasVault, Vault, U64
<1>3. ASSUME NEW e \in Deals, NEW w \in Wallets, NEW p \in Programs,
             NEW q \in Programs, InitializeVault(e, w, p, q)
      PROVE  StaysCommitted(d)
  BY <1>1, <1>2, <1>3 DEF InitializeVault
<1>4. ASSUME NEW e \in Deals, NEW w \in Wallets, NEW a \in DepositAmounts,
             DepositCollateral(e, w, a)
      PROVE  StaysCommitted(d)
  <2>1. e # d
    BY <1>4 DEF DepositCollateral, Depositable, InVaultState
  <2> QED
    BY <1>1, <1>2, <1>4, <2>1 DEF DepositCollateral
<1>5. ASSUME NEW e \in Deals, NEW w \in Wallets, NEW a \in DepositAmounts,
             LockVault(e, w, a)
      PROVE  StaysCommitted(d)
  <2>1. e # d
    BY <1>5 DEF LockVault, InVaultState
  <2> QED
    BY <1>1, <1>2, <1>5, <2>1 DEF LockVault
<1>6. ASSUME NEW e \in Deals, NEW w \in Wallets, NEW a \in DepositAmounts,
             StrayTransfer(e, w, a)
      PROVE  StaysCommitted(d)
  BY <1>1, <1>2, <1>6 DEF StrayTransfer, Flow
<1>7. ASSUME NEW e \in Deals, NEW atoms \in U64, NEW to \in {"Locked", "Closed"}, NEW f \in Flow,
             vaults' = [vaults EXCEPT ![e].atoms = atoms, ![e].state = to],
             flows' = [flows EXCEPT ![e] = f], f.deposited = flows[e].deposited,
             InVaultState(e, {"Locked"}), atoms <= vaults[e].atoms
      PROVE  StaysCommitted(d)
  <2>1. CASE e # d
    BY <1>1, <1>2, <1>7, <2>1
  <2>2. CASE e = d
    <3>1. vaults'[d] = [vaults[d] EXCEPT !.atoms = atoms, !.state = to]
      BY <1>1, <1>7, <2>2
    <3>2. vaults'[d] \in Vault
      BY <1>1, <3>1 DEF Vault, VaultState
    <3>3. /\ vaults'[d].state = to /\ vaults'[d].atoms = atoms
          /\ vaults'[d].borrower = vaults[d].borrower
          /\ vaults'[d].loanProgram = vaults[d].loanProgram
          /\ vaults'[d].liquidationProgram = vaults[d].liquidationProgram
      BY <1>1, <3>1 DEF Vault
    <3> QED
      BY <1>1, <1>7, <2>2, <3>2, <3>3, NoAccountIsNoVault
         DEF StaysCommitted, InVaultState, HasVault
  <2> QED
    BY <2>1, <2>2
<1>8. ASSUME NEW e \in Deals, NEW w \in Wallets, NEW r \in Wallets,
             ReleaseCollateral(e, w, r)
      PROVE  StaysCommitted(d)
  <2> DEFINE f == [flows[e] EXCEPT !.released = @ + vaults[e].atoms]
  <2>1. /\ InVaultState(e, {"Locked"}) /\ vaults[e] \in Vault /\ flows[e] \in Flow
        /\ vaults' = [vaults EXCEPT ![e].atoms = 0, ![e].state = "Closed"]
        /\ flows' = [flows EXCEPT ![e] = f]
    BY <1>1, <1>8 DEF ReleaseCollateral, Releasable, InVaultState, HasVault
  <2>2. f \in Flow /\ f.deposited = flows[e].deposited /\ 0 \in U64 /\ 0 <= vaults[e].atoms
    BY <2>1, BaseAssumption DEF Flow, Vault, U64
  <2> QED
    BY <1>7, <2>1, <2>2
<1>9. ASSUME NEW e \in Deals, NEW w \in Wallets, NEW r \in Wallets,
             NEW a \in DepositAmounts, SeizeCollateral(e, w, r, a)
      PROVE  StaysCommitted(d)
  <2> DEFINE f == [flows[e] EXCEPT !.seized = @ + a]
             left == vaults[e].atoms - a
  <2>1. /\ InVaultState(e, {"Locked"}) /\ vaults[e] \in Vault /\ flows[e] \in Flow
        /\ vaults' = [vaults EXCEPT ![e].atoms = left, ![e].state = AfterSeizure(left)]
        /\ flows' = [flows EXCEPT ![e] = f] /\ a <= vaults[e].atoms
    BY <1>1, <1>9 DEF SeizeCollateral, Seizable, InVaultState, HasVault
  <2>2. /\ f \in Flow /\ f.deposited = flows[e].deposited
        /\ left \in U64 /\ left <= vaults[e].atoms
    BY <2>1, BaseAssumption, VaultAssumption DEF Flow, Vault, U64
  <2>3. AfterSeizure(left) \in {"Locked", "Closed"}
    BY DEF AfterSeizure
  <2> QED
    BY <1>7, <2>1, <2>2, <2>3
<1> QED
  BY <1>3, <1>4, <1>5, <1>6, <1>8, <1>9 DEF VaultNext

(* A locked vault takes nothing more in, keeps its parties and records no  *)
(* more than it did, and never reopens; a closed one no longer changes.    *)
THEOREM CommitmentIsForGood == VaultSpec => CommittedForGood
<1>1. VaultInv /\ [VaultNext]_vaultVars => [\A d \in Deals : StaysCommitted(d)]_vaultVars
  BY StaysCommittedStep
<1> QED
  BY <1>1, VaultInvariant, PTL DEF VaultSpec, CommittedForGood
=============================================================================
