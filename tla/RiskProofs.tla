----------------------------- MODULE RiskProofs -----------------------------
(***************************************************************************)
(* Proofs about the programs that judge risk and the one that rules them,  *)
(* for any prices, positions, parameters, rates and callers: the           *)
(* liquidation engine with the oracle it reads, the asset whitelist, the   *)
(* fee treasury, and governance for any wallets, any finite set of         *)
(* proposals and any timelock and expiry.                                  *)
(***************************************************************************)
EXTENDS LiquidationEngine, AssetWhitelist, FeeTreasury, Governance, WellFoundedInduction,
        FiniteSetTheorems, TLAPS

(***************************************************************************)
(* Arithmetic.                                                             *)
(***************************************************************************)

(* Division rounds down, to within one divisor. *)
LEMMA FloorBounds ==
  ASSUME NEW a \in Nat, NEW b \in Nat \ {0}
  PROVE  /\ a \div b \in Nat
         /\ (a \div b) * b <= a
         /\ a < ((a \div b) + 1) * b
<1> DEFINE q == a \div b
           r == a % b
<1>1. q \in Int /\ r \in 0 .. b - 1 /\ a = b * q + r
  OBVIOUS
<1>2. q \in Nat
  OBVIOUS
<1> HIDE DEF q, r
<1>3. b * q = q * b /\ (q + 1) * b = q * b + b
  BY <1>1
<1>4. q * b <= a /\ a < (q + 1) * b
  BY <1>1, <1>3
<1> QED
  BY <1>2, <1>4 DEF q

(* CeilDiv rounds up, to within one divisor. *)
LEMMA CeilBounds ==
  ASSUME NEW a \in Nat, NEW b \in Nat \ {0}
  PROVE  /\ CeilDiv(a, b) \in Nat
         /\ a <= CeilDiv(a, b) * b
         /\ (CeilDiv(a, b) - 1) * b < a
<1> DEFINE q == (a + b - 1) \div b
<1>1. a + b - 1 \in Nat
  OBVIOUS
<1>2. q \in Nat /\ q * b <= a + b - 1 /\ a + b - 1 < (q + 1) * b
  BY <1>1, FloorBounds
<1>3. (q + 1) * b = q * b + b /\ (q - 1) * b = q * b - b /\ q * b \in Int
  BY <1>2
<1>4. a <= q * b /\ (q - 1) * b < a
  BY <1>2, <1>3
<1> QED
  BY <1>2, <1>4 DEF CeilDiv

(* Products keep order. *)
LEMMA ProductsOrder ==
  ASSUME NEW a \in Int, NEW b \in Int, a <= b, NEW c \in Nat
  PROVE  a * c <= b * c
<1>1. (b - a) \in Nat
  OBVIOUS
<1>2. (b - a) * c \in Nat
  BY <1>1
<1>3. b * c = a * c + (b - a) * c
  OBVIOUS
<1> QED
  BY <1>2, <1>3

(* Of two products by one positive factor the smaller has the smaller.     *)
LEMMA FactorsOrder ==
  ASSUME NEW a \in Int, NEW b \in Int, NEW c \in Nat, a * c < b * c
  PROVE  a < b
<1> SUFFICES ASSUME b <= a
             PROVE  FALSE
  OBVIOUS
<1>1. b * c <= a * c
  BY ProductsOrder
<1>2. a * c \in Int /\ b * c \in Int
  OBVIOUS
<1> QED
  BY <1>1, <1>2

(* A non-empty set of natural numbers has a smallest one. *)
LEMMA SmallestExists ==
  ASSUME NEW T \in SUBSET Nat, T # {}
  PROVE  \E x \in T : \A y \in T : x <= y
<1> DEFINE Below == {ss \in Nat \X Nat : ss[1] < ss[2]}
<1>1. IsWellFoundedOn(Below, Nat)
  BY NatLessThanWellFounded DEF OpToRel
<1>2. \A x, y \in Nat : x < y => <<x, y>> \in Below
  OBVIOUS
<1> HIDE DEF Below
<1>3. PICK x \in T : \A y \in T : ~ (<<y, x>> \in Below)
  BY <1>1, WFMin
<1>4. \A y \in T : ~ (y < x)
  BY <1>2, <1>3
<1> QED
  BY <1>4

(***************************************************************************)
(* Powers of ten.  The provers see a recursive function as whatever solves *)
(* its equation; Powers(n) are the solutions up to n.                      *)
(***************************************************************************)
Powers(n) ==
  {g \in [0 .. n -> Nat \ {0}] :
     \A i \in 0 .. n : g[i] = IF i = 0 THEN 1 ELSE 10 * g[i - 1]}

LEMMA PowersExist ==
  ASSUME NEW n \in Nat
  PROVE  Powers(n) # {}
<1> DEFINE T == {k \in Nat : Powers(k) = {}}
<1> SUFFICES ASSUME T # {}
             PROVE  FALSE
  OBVIOUS
<1>1. PICK m \in T : \A k \in T : m <= k
  BY SmallestExists
<1>2. CASE m = 0
  <2> DEFINE g == [i \in 0 .. 0 |-> 1]
  <2>1. g \in Powers(0)
    BY DEF Powers
  <2> QED
    BY <1>1, <1>2, <2>1
<1>3. CASE m # 0
  <2>1. m \in Nat /\ m - 1 \in Nat /\ m - 1 \notin T
    BY <1>1, <1>3
  <2>2. PICK g : g \in Powers(m - 1)
    BY <2>1
  <2> DEFINE h == [i \in 0 .. m |-> IF i = m THEN 10 * g[m - 1] ELSE g[i]]
  <2>3. /\ g \in [0 .. m - 1 -> Nat \ {0}]
        /\ \A i \in 0 .. m - 1 : g[i] = IF i = 0 THEN 1 ELSE 10 * g[i - 1]
    BY <2>2 DEF Powers
  <2>4. \A i \in 0 .. m : h[i] \in Nat \ {0}
    BY <2>1, <2>3
  <2>5. \A i \in 0 .. m : h[i] = IF i = 0 THEN 1 ELSE 10 * h[i - 1]
    BY <1>3, <2>1, <2>3
  <2>6. h \in [0 .. m -> Nat \ {0}]
    BY <2>4
  <2>7. h \in Powers(m)
    BY <2>5, <2>6 DEF Powers
  <2> QED
    BY <1>1, <2>7
<1> QED
  BY <1>2, <1>3

(* Two solutions agree where both are defined. *)
LEMMA PowersAgree ==
  ASSUME NEW n \in Nat, NEW m \in Nat, NEW g \in Powers(n), NEW h \in Powers(m),
         NEW i \in 0 .. n, i <= m
  PROVE  g[i] = h[i]
<1> DEFINE T == {k \in 0 .. n : k <= m /\ g[k] # h[k]}
<1> SUFFICES ASSUME T # {}
             PROVE  FALSE
  OBVIOUS
<1>1. T \in SUBSET Nat
  OBVIOUS
<1>2. PICK k \in T : \A j \in T : k <= j
  BY <1>1, SmallestExists
<1>3. k \in 0 .. n /\ k \in 0 .. m /\ g[k] # h[k]
  BY <1>2
<1>4. k # 0 => k - 1 \in 0 .. n /\ k - 1 <= m /\ k - 1 \notin T
  BY <1>2, <1>3
<1>5. g[k] = IF k = 0 THEN 1 ELSE 10 * g[k - 1]
  BY <1>3 DEF Powers
<1>6. h[k] = IF k = 0 THEN 1 ELSE 10 * h[k - 1]
  BY <1>3 DEF Powers
<1> QED
  BY <1>3, <1>4, <1>5, <1>6

LEMMA Pow10Positive ==
  ASSUME NEW k \in Nat
  PROVE  Pow10[k] \in Nat \ {0} /\ (k = 0 => Pow10[k] = 1)
<1> DEFINE G(n) == CHOOSE g : g \in Powers(n)
           f    == [n \in Nat |-> G(n)[n]]
           Equation(p) == p = [n \in Nat |-> IF n = 0 THEN 1 ELSE 10 * p[n - 1]]
<1>1. \A n \in Nat : G(n) \in Powers(n)
  BY PowersExist
<1> HIDE DEF G
<1>2. \A n \in Nat : f[n] = IF n = 0 THEN 1 ELSE 10 * f[n - 1]
  <2> SUFFICES ASSUME NEW n \in Nat
               PROVE  G(n)[n] = IF n = 0 THEN 1 ELSE 10 * f[n - 1]
    OBVIOUS
  <2>1. G(n)[n] = IF n = 0 THEN 1 ELSE 10 * G(n)[n - 1]
    BY <1>1 DEF Powers
  <2>2. ASSUME n # 0
        PROVE  G(n)[n - 1] = G(n - 1)[n - 1]
    <3>1. n - 1 \in Nat /\ n - 1 \in 0 .. n /\ n - 1 <= n - 1
      BY <2>2
    <3>2. G(n) \in Powers(n) /\ G(n - 1) \in Powers(n - 1)
      BY <1>1, <3>1
    <3> QED
      BY <3>1, <3>2, PowersAgree
  <2>3. n # 0 => f[n - 1] = G(n - 1)[n - 1]
    OBVIOUS
  <2> QED
    BY <2>1, <2>2, <2>3
<1>3. Equation(f)
  BY <1>2
<1>4. Pow10 = CHOOSE p : Equation(p)
  BY DEF Pow10
<1> HIDE DEF f
<1>5. Equation(Pow10)
  <2> HIDE DEF Equation
  <2> QED
    BY <1>3, <1>4
<1>6. \A n \in Nat : Pow10[n] = IF n = 0 THEN 1 ELSE 10 * Pow10[n - 1]
  BY <1>5
<1> DEFINE T == {n \in Nat : Pow10[n] \notin Nat \ {0}}
<1> SUFFICES ASSUME T # {}
             PROVE  FALSE
  BY <1>6
<1>7. PICK m \in T : \A n \in T : m <= n
  BY SmallestExists
<1>8. m # 0 => m - 1 \in Nat /\ m - 1 \notin T
  BY <1>7
<1> QED
  BY <1>6, <1>7, <1>8

(***************************************************************************)
(* The risk arithmetic of persat-core, on any amounts.                     *)
(***************************************************************************)

(* Sharing out: a number of units worth an amount, rounded up, is worth    *)
(* the amount and would not be with one unit less.                         *)
LEMMA ShareBounds ==
  ASSUME NEW collateral \in Nat, NEW amount \in Nat, NEW value \in Nat \ {0}
  PROVE  LET s == ShareWorth(collateral, amount, value)
         IN  /\ s \in Nat
             /\ amount * collateral <= s * value
             /\ (s - 1) * value < amount * collateral
<1>1. collateral * amount \in Nat /\ collateral * amount = amount * collateral
  OBVIOUS
<1> QED
  BY <1>1, CeilBounds DEF ShareWorth

(* The loan-to-value ratio of current_ltv, rounded up in basis points, is  *)
(* at a threshold exactly when the debt exceeds the share of the value     *)
(* just below it: no healthy position reads as liquidatable, and none past *)
(* the threshold reads as healthy.                                         *)
THEOREM HealthIsExact ==
  ASSUME NEW debt \in Nat, NEW value \in Nat, NEW t \in Nat \ {0}, t <= MaxU64
  PROVE  CurrentLtv(debt, value) >= t <=> debt * BpsDenominator > (t - 1) * value
<1> USE BaseAssumption
<1>0. t - 1 \in Nat /\ debt * BpsDenominator \in Nat
  BY DEF BpsDenominator
<1>1. CASE debt = 0
  <2>1. (t - 1) * value \in Nat
    BY <1>0
  <2> QED
    BY <1>1, <2>1 DEF CurrentLtv, BpsDenominator
<1>2. CASE debt # 0 /\ value = 0
  BY <1>2 DEF CurrentLtv, BpsDenominator
<1>3. CASE debt # 0 /\ value # 0
  <2> DEFINE a == debt * BpsDenominator
             c == CeilDiv(a, value)
  <2>1. c \in Nat /\ a <= c * value /\ (c - 1) * value < a
    BY <1>0, <1>3, CeilBounds
  <2>2. CurrentLtv(debt, value) = AtMost(c, MaxU64)
    BY <1>3 DEF CurrentLtv
  <2> HIDE DEF c, a
  <2>3. CurrentLtv(debt, value) >= t <=> c >= t
    BY <2>1, <2>2 DEF AtMost
  <2>4. a \in Nat
    BY <1>0 DEF a
  <2>5. ASSUME c >= t PROVE a > (t - 1) * value
    <3>1. (t - 1) * value <= (c - 1) * value
      BY <2>1, <2>5, ProductsOrder
    <3>2. (t - 1) * value \in Int /\ (c - 1) * value \in Int
      BY <2>1
    <3> QED
      BY <2>1, <2>4, <3>1, <3>2
  <2>6. ASSUME ~(c >= t) PROVE ~(a > (t - 1) * value)
    <3>1. c <= t - 1
      BY <2>1, <2>6
    <3>2. c * value <= (t - 1) * value
      BY <2>1, <3>1, ProductsOrder
    <3>3. (t - 1) * value \in Int /\ c * value \in Int
      BY <2>1
    <3> QED
      BY <2>1, <2>4, <3>2, <3>3
  <2> QED
    BY <2>3, <2>5, <2>6 DEF a
<1> QED
  BY <1>1, <1>2, <1>3

(* Whatever a position owes, losing value never lowers its loan-to-value   *)
(* ratio: truncation and the ceilings cannot make a fall look like a rise. *)
THEOREM LossNeverHelps ==
  ASSUME NEW debt \in Nat, NEW high \in Nat, NEW low \in Nat, low <= high
  PROVE  CurrentLtv(debt, high) <= CurrentLtv(debt, low)
<1> USE BaseAssumption
<1> DEFINE a == debt * BpsDenominator
<1>0. a \in Nat
  BY DEF BpsDenominator
<1>1. CASE debt = 0
  BY <1>1 DEF CurrentLtv
<1>2. CASE debt # 0 /\ low = 0
  <2>1. CurrentLtv(debt, low) = MaxU64
    BY <1>2 DEF CurrentLtv
  <2>2. ASSUME high # 0 PROVE CeilDiv(a, high) \in Nat
    BY <1>0, <2>2, CeilBounds
  <2> HIDE DEF a
  <2>3. CurrentLtv(debt, high) <= MaxU64
    BY <1>2, <2>2 DEF CurrentLtv, AtMost, a
  <2> QED
    BY <2>1, <2>3
<1>3. CASE debt # 0 /\ low # 0
  <2> DEFINE h == CeilDiv(a, high)
             l == CeilDiv(a, low)
  <2>1. high # 0
    BY <1>3
  <2>2. h \in Nat /\ (h - 1) * high < a
    BY <1>0, <2>1, CeilBounds
  <2>3. l \in Nat /\ a <= l * low
    BY <1>0, <1>3, CeilBounds
  <2>4. CurrentLtv(debt, high) = AtMost(h, MaxU64) /\ CurrentLtv(debt, low) = AtMost(l, MaxU64)
    BY <1>3, <2>1 DEF CurrentLtv
  <2> HIDE DEF h, l, a
  <2>5. low * l <= high * l
    BY <2>3, ProductsOrder
  <2>6. low * l = l * low /\ high * l = l * high /\ l * low \in Int /\ l * high \in Int
    BY <2>3
  <2>7. (h - 1) * high \in Int
    BY <2>2
  <2>8. (h - 1) * high < l * high
    BY <1>0, <2>2, <2>3, <2>5, <2>6, <2>7
  <2>9. h - 1 < l
    BY <2>2, <2>3, <2>8, FactorsOrder
  <2> QED
    BY <2>2, <2>3, <2>4, <2>9 DEF AtMost
<1> QED
  BY <1>1, <1>2, <1>3

LEMMA LtvIsNat ==
  ASSUME NEW debt \in Nat, NEW value \in Nat
  PROVE  CurrentLtv(debt, value) \in Nat
<1> DEFINE a == debt * BpsDenominator
<1>1. a \in Nat
  BY DEF BpsDenominator
<1>2. value # 0 => CeilDiv(a, value) \in Nat
  BY <1>1, CeilBounds
<1> HIDE DEF a
<1> QED
  BY <1>2, BaseAssumption DEF CurrentLtv, AtMost, a

(* full_liquidation divides the collateral without remainder: the lender's *)
(* share covers the debt by less than one atom too much, or the lender     *)
(* takes all and the shortfall is exact, or worthless collateral stays     *)
(* with the borrower and the whole debt is the shortfall.                  *)
THEOREM FullLiquidationSettles ==
  ASSUME NEW debt \in Nat, NEW collateral \in Nat, NEW value \in Nat,
         collateral = 0 => value = 0
  PROVE  LET o == FullLiquidation(debt, collateral, value)
         IN  /\ o.seized + o.surplus = collateral
             /\ value > debt =>
                  /\ o.shortfall = 0
                  /\ o.seized * value >= debt * collateral
                  /\ (o.seized - 1) * value < debt * collateral
             /\ value <= debt =>
                  /\ o.shortfall = debt - value
                  /\ IF value = 0 THEN o.seized = 0 ELSE o.surplus = 0
<1>1. CASE collateral = 0
  BY <1>1 DEF FullLiquidation, Outcome
<1>2. CASE collateral # 0 /\ value = 0
  BY <1>2 DEF FullLiquidation, Outcome
<1>3. CASE collateral # 0 /\ value # 0 /\ value <= debt
  BY <1>3 DEF FullLiquidation, Outcome
<1>4. CASE collateral # 0 /\ value # 0 /\ value > debt
  <2> DEFINE s == ShareWorth(collateral, debt, value)
  <2>1. s \in Nat /\ debt * collateral <= s * value /\ (s - 1) * value < debt * collateral
    BY <1>4, ShareBounds
  <2>2. FullLiquidation(debt, collateral, value) =
          Outcome(AtMost(s, collateral), collateral - AtMost(s, collateral), 0)
    BY <1>4 DEF FullLiquidation
  <2> HIDE DEF s
  <2>3. debt * collateral <= value * collateral
    BY <1>4, ProductsOrder
  <2>4. value * collateral = collateral * value /\ value * collateral \in Int
        /\ debt * collateral \in Int /\ (s - 1) * value \in Int
    BY <2>1
  <2>5. (s - 1) * value < collateral * value
    BY <2>1, <2>3, <2>4
  <2>6. s - 1 < collateral
    BY <2>1, <2>5, FactorsOrder
  <2>7. AtMost(s, collateral) = s
    BY <2>1, <2>6 DEF AtMost
  <2>8. FullLiquidation(debt, collateral, value) = Outcome(s, collateral - s, 0)
    BY <2>2, <2>7
  <2>9. s + (collateral - s) = collateral
    BY <2>1
  <2>10. s * value >= debt * collateral
    BY <2>1, <2>4
  <2> QED
    BY <1>4, <2>1, <2>8, <2>9, <2>10 DEF Outcome
<1> QED
  BY <1>1, <1>2, <1>3, <1>4

(* partial_liquidation_amount never takes more than its cap or than the    *)
(* collateral, takes the installment and penalty by less than one atom too *)
(* much, falls short only where a limit stops it, and under a cap the      *)
(* asset registry accepts leaves the borrower at least half.               *)
THEOREM PartialLiquidationIsBounded ==
  ASSUME NEW missed \in Nat, NEW penalty \in Nat, NEW collateral \in Nat \ {0},
         NEW value \in Nat \ {0}, NEW maxPartial \in Nat
  PROVE  LET seized == PartialAmount(missed, penalty, collateral, value, maxPartial)
             owed   == Owed(missed, penalty)
             capped == collateral * maxPartial
         IN  /\ seized * BpsDenominator <= capped /\ seized <= collateral
             /\ (seized - 1) * value < owed * collateral
             /\ \/ seized * value >= owed * collateral
                \/ (seized + 1) * BpsDenominator > capped
                \/ seized = collateral
             /\ 2 * maxPartial <= BpsDenominator => 2 * seized <= collateral
<1> DEFINE owed == Owed(missed, penalty)
           s    == ShareWorth(collateral, owed, value)
           q    == PartialCap(collateral, maxPartial)
           got  == PartialAmount(missed, penalty, collateral, value, maxPartial)
<1>1. owed \in Nat
  <2>1. missed * penalty \in Nat
    OBVIOUS
  <2>2. CeilDiv(missed * penalty, BpsDenominator) \in Nat
    BY <2>1, CeilBounds DEF BpsDenominator
  <2> QED
    BY <2>2 DEF Owed
<1> HIDE DEF owed
<1>2. s \in Nat /\ owed * collateral <= s * value /\ (s - 1) * value < owed * collateral
  BY <1>1, ShareBounds
<1>3. collateral * maxPartial \in Nat
  OBVIOUS
<1>4. /\ q \in Nat /\ q * BpsDenominator <= collateral * maxPartial
      /\ collateral * maxPartial < (q + 1) * BpsDenominator
  BY <1>3, FloorBounds DEF PartialCap, BpsDenominator
<1>5. got = AtMost(AtMost(s, q), collateral)
  BY DEF PartialAmount, owed
<1> HIDE DEF s, q, got
<1>6. /\ got \in Nat /\ got <= s /\ got <= q /\ got <= collateral
      /\ got = s \/ got = q \/ got = collateral
  BY <1>2, <1>4, <1>5 DEF AtMost
<1>7. got * BpsDenominator <= collateral * maxPartial
  BY <1>3, <1>4, <1>6 DEF BpsDenominator
<1>8. (got - 1) * value < owed * collateral
  <2>1. (got - 1) * value <= (s - 1) * value
    BY <1>2, <1>6, ProductsOrder
  <2>2. (got - 1) * value \in Int /\ (s - 1) * value \in Int /\ owed * collateral \in Int
    BY <1>1, <1>2, <1>6
  <2> QED
    BY <1>2, <2>1, <2>2
<1>9. \/ got * value >= owed * collateral
      \/ (got + 1) * BpsDenominator > collateral * maxPartial
      \/ got = collateral
  <2>1. CASE got = s
    <3>1. s * value \in Int /\ owed * collateral \in Int
      BY <1>1, <1>2
    <3> QED
      BY <1>2, <2>1, <3>1
  <2>2. CASE got = q
    BY <1>3, <1>4, <2>2 DEF BpsDenominator
  <2> QED
    BY <1>6, <2>1, <2>2
<1>10. ASSUME 2 * maxPartial <= BpsDenominator PROVE 2 * got <= collateral
  <2>1. (2 * maxPartial) * collateral <= BpsDenominator * collateral
    BY <1>10, ProductsOrder DEF BpsDenominator
  <2>2. (2 * maxPartial) * collateral = 2 * (collateral * maxPartial)
    OBVIOUS
  <2> QED
    BY <1>3, <1>6, <1>7, <2>1, <2>2 DEF BpsDenominator
<1> QED
  BY <1>6, <1>7, <1>8, <1>9, <1>10 DEF got, owed

(***************************************************************************)
(* fee_treasury.                                                           *)
(***************************************************************************)
TreasuryInv ==
  /\ TreasuryTypeOK
  /\ HasTreasury => RatesAllowed(treasury.rates)
  /\ TotalWithinCap

(* A fee at an allowed rate is within the cap. *)
LEMMA FeeWithinCap ==
  ASSUME NEW p \in Nat, NEW r \in Nat, r <= MaxOriginationFee
  PROVE  Fee(p, r) \in Nat /\ Fee(p, r) * BpsDenominator <= p * MaxOriginationFee
<1>1. p * r \in Nat
  OBVIOUS
<1>2. Fee(p, r) \in Nat /\ Fee(p, r) * BpsDenominator <= p * r
  BY <1>1, FloorBounds DEF Fee, BpsDenominator
<1>3. r * p <= MaxOriginationFee * p
  BY ProductsOrder DEF MaxOriginationFee
<1>4. r * p = p * r /\ MaxOriginationFee * p = p * MaxOriginationFee
  BY DEF MaxOriginationFee
<1> QED
  BY <1>1, <1>2, <1>3, <1>4 DEF BpsDenominator, MaxOriginationFee

LEMMA TreasuryInvInductive == TreasuryInv /\ [TreasuryNext]_treasuryVars => TreasuryInv'
<1> SUFFICES ASSUME TreasuryInv, [TreasuryNext]_treasuryVars
             PROVE  TreasuryInv'
  OBVIOUS
<1>1. ASSUME NEW g \in Wallets, NEW d \in Wallets, NEW l \in Wallets,
             NEW r \in [Origins -> FeeRates], InitializeTreasury(g, d, l, r)
      PROVE  TreasuryInv'
  <2> DEFINE t == [governance |-> g, destination |-> d, loan |-> l, rates |-> r,
                   collected |-> 0]
  <2>1. treasury' = t /\ volume' = volume /\ RatesAllowed(r)
    BY <1>1 DEF InitializeTreasury
  <2>2. r \in [Origins -> Nat]
    BY TreasuryAssumption
  <2>0. 0 \in U64
    BY BaseAssumption DEF U64
  <2>3. t \in TreasuryConfig
    BY <2>0, <2>2 DEF TreasuryConfig
  <2>4. volume \in Nat
    BY DEF TreasuryInv, TreasuryTypeOK
  <2> QED
    BY <2>1, <2>3, <2>4 DEF TreasuryInv, TreasuryTypeOK, HasTreasury, TotalWithinCap,
       BpsDenominator, MaxOriginationFee, RatesAllowed
<1>2. ASSUME NEW t \in TreasuryConfig, HasTreasury, treasury' = t, volume' = volume,
             t.collected = treasury.collected, RatesAllowed(t.rates)
      PROVE  TreasuryInv'
  BY <1>2, NoAccountIsNoTreasury DEF TreasuryInv, TreasuryTypeOK, HasTreasury, TotalWithinCap,
     RatesAllowed
<1>3. HasTreasury => treasury \in TreasuryConfig /\ RatesAllowed(treasury.rates)
  BY DEF TreasuryInv, TreasuryTypeOK, HasTreasury
<1>4. ASSUME NEW g \in Wallets, NEW r \in [Origins -> FeeRates], SetFeeParameters(g, r)
      PROVE  TreasuryInv'
  <2> DEFINE t == [treasury EXCEPT !.rates = r]
  <2>1. HasTreasury /\ treasury' = t /\ volume' = volume /\ RatesAllowed(r)
    BY <1>4 DEF SetFeeParameters
  <2>2. r \in [Origins -> Nat]
    BY TreasuryAssumption
  <2>3. t \in TreasuryConfig /\ t.collected = treasury.collected /\ t.rates = r
    BY <1>3, <2>1, <2>2 DEF TreasuryConfig
  <2> QED
    BY <1>2, <2>1, <2>3
<1>5. ASSUME NEW g \in Wallets, NEW d \in Wallets, SetTreasury(g, d)
      PROVE  TreasuryInv'
  <2> DEFINE t == [treasury EXCEPT !.destination = d]
  <2>1. HasTreasury /\ treasury' = t /\ volume' = volume
    BY <1>5 DEF SetTreasury
  <2>2. /\ t \in TreasuryConfig /\ t.collected = treasury.collected
        /\ t.rates = treasury.rates
    BY <1>3, <2>1 DEF TreasuryConfig
  <2> QED
    BY <1>2, <1>3, <2>1, <2>2
<1>6. ASSUME NEW l \in Wallets, NEW p \in Volumes, NEW o \in Origins, NEW f \in U64,
             RecordOriginationFee(l, p, o, f)
      PROVE  TreasuryInv'
  <2> DEFINE t == [treasury EXCEPT !.collected = @ + f]
             rate == treasury.rates[o]
  <2>1. /\ HasTreasury /\ treasury' = t /\ volume' = volume + p
        /\ f = Fee(p, rate) /\ treasury.collected + f <= MaxU64
        /\ RatesAllowed(treasury.rates)
    BY <1>6 DEF RecordOriginationFee
  <2>2. p \in Nat /\ volume \in Nat /\ treasury \in TreasuryConfig
    BY <1>3, <2>1, TreasuryAssumption, BaseAssumption
       DEF U64, TreasuryInv, TreasuryTypeOK
  <2>3. rate \in Nat /\ rate <= MaxOriginationFee /\ treasury.collected \in Nat
    BY <2>1, <2>2, BaseAssumption DEF TreasuryConfig, RatesAllowed, U64
  <2>4. f \in Nat /\ f * BpsDenominator <= p * MaxOriginationFee
    BY <2>1, <2>2, <2>3, FeeWithinCap
  <2>5. treasury.collected * BpsDenominator <= volume * MaxOriginationFee
    BY <2>1 DEF TreasuryInv, TotalWithinCap
  <2>6. /\ t \in TreasuryConfig /\ t.collected = treasury.collected + f
        /\ t.rates = treasury.rates
    BY <2>1, <2>2, <2>3, <2>4, BaseAssumption DEF TreasuryConfig, U64
  <2> HIDE DEF t, rate
  <2>7. t.collected * BpsDenominator <= (volume + p) * MaxOriginationFee
    BY <2>2, <2>3, <2>4, <2>5, <2>6 DEF BpsDenominator, MaxOriginationFee
  <2>8. volume + p \in Nat
    BY <2>2
  <2> QED
    BY <2>1, <2>6, <2>7, <2>8, NoAccountIsNoTreasury
       DEF TreasuryInv, TreasuryTypeOK, HasTreasury, TotalWithinCap, RatesAllowed
<1>7. CASE UNCHANGED treasuryVars
  BY <1>7 DEF treasuryVars, TreasuryInv, TreasuryTypeOK, HasTreasury, TotalWithinCap,
     RatesAllowed
<1> QED
  BY <1>1, <1>4, <1>5, <1>6, <1>7 DEF TreasuryNext

(* Whatever governance sets and the loan program reports, the published    *)
(* total is within five percent of the principal reported for.             *)
THEOREM FeesStayWithinCap == TreasurySpec => [](TreasuryTypeOK /\ TotalWithinCap)
<1>1. TreasuryInit => TreasuryInv
  BY DEF TreasuryInit, TreasuryInv, TreasuryTypeOK, HasTreasury, TotalWithinCap
<1>2. TreasuryInv => TreasuryTypeOK /\ TotalWithinCap
  BY DEF TreasuryInv
<1> QED
  BY <1>1, <1>2, TreasuryInvInductive, PTL DEF TreasurySpec

(***************************************************************************)
(* asset_whitelist.                                                        *)
(***************************************************************************)

(* Every record satisfies the policy it was written under, for the         *)
(* decimals its mint has.                                                  *)
WhitelistInv ==
  /\ WhitelistTypeOK
  /\ \A m \in Listable : IsListed(m) =>
       /\ assets[m].decimals = DecimalsOf[m]
       /\ PolicyAllows(assets[m].category, assets[m].feed, assets[m].risk,
                       assets[m].decimals)

(* Replacing one record by another that satisfies the policy keeps both.   *)
LEMMA RecordWritten ==
  ASSUME WhitelistInv, NEW m \in Listable, NEW a \in AssetRecord,
         a.decimals = DecimalsOf[m],
         PolicyAllows(a.category, a.feed, a.risk, a.decimals),
         assets' = [assets EXCEPT ![m] = a],
         assetRegistry' \in AssetRegistry \union {NoAccount}
  PROVE  WhitelistInv'
<1>1. assets \in [Listable -> AssetRecord \union {NoAccount}]
  BY DEF WhitelistInv, WhitelistTypeOK
<1>2. assets' \in [Listable -> AssetRecord \union {NoAccount}]
  BY <1>1
<1>3. ASSUME NEW n \in Listable, IsListed(n)'
      PROVE  /\ assets'[n].decimals = DecimalsOf[n]
             /\ PolicyAllows(assets'[n].category, assets'[n].feed, assets'[n].risk,
                             assets'[n].decimals)
  <2>1. CASE n = m
    <3>1. assets'[n] = a
      BY <1>1, <2>1
    <3> QED
      BY <2>1, <3>1
  <2>2. CASE n # m
    <3>1. assets'[n] = assets[n]
      BY <1>1, <2>2
    <3> QED
      BY <1>3, <3>1 DEF WhitelistInv, IsListed
  <2> QED
    BY <2>1, <2>2
<1> QED
  BY <1>2, <1>3 DEF WhitelistInv, WhitelistTypeOK, IsListed

LEMMA WhitelistInvInductive == WhitelistInv /\ [WhitelistNext]_assetVars => WhitelistInv'
<1> SUFFICES ASSUME WhitelistInv, [WhitelistNext]_assetVars
             PROVE  WhitelistInv'
  OBVIOUS
<1>0. ASSUME NEW m \in Listable, IsListed(m)
      PROVE  /\ assets[m] \in AssetRecord /\ assets[m].decimals = DecimalsOf[m]
             /\ PolicyAllows(assets[m].category, assets[m].feed, assets[m].risk,
                             assets[m].decimals)
  BY <1>0 DEF WhitelistInv, WhitelistTypeOK, IsListed
<1>1. ASSUME NEW g \in Wallets, InitializeAssetRegistry(g)
      PROVE  WhitelistInv'
  BY <1>1 DEF InitializeAssetRegistry, WhitelistInv, WhitelistTypeOK, AssetRegistry, IsListed
<1>2. ASSUME NEW m \in Listable, NEW g \in Wallets, NEW c \in AssetCategory,
             NEW f \in OracleFeeds \union {Default}, NEW r \in RiskChoices,
             AddAssetType(m, g, c, f, r)
      PROVE  WhitelistInv'
  <2> DEFINE a == [category |-> c, feed |-> f, risk |-> r, decimals |-> DecimalsOf[m],
                   active |-> TRUE]
  <2>1. a \in AssetRecord
    BY WhitelistAssumption DEF AssetRecord
  <2>2. PolicyAllows(c, f, r, DecimalsOf[m]) /\ assets' = [assets EXCEPT ![m] = a]
    BY <1>2 DEF AddAssetType
  <2>3. assetRegistry \in AssetRegistry
    BY <1>2 DEF AddAssetType, Governs, WhitelistInv, WhitelistTypeOK
  <2>4. assetRegistry' \in AssetRegistry
    BY <1>2, <2>3 DEF AddAssetType, AssetRegistry
  <2>5. /\ a.category = c /\ a.feed = f /\ a.risk = r /\ a.decimals = DecimalsOf[m]
    OBVIOUS
  <2> HIDE DEF a
  <2>6. PolicyAllows(a.category, a.feed, a.risk, a.decimals)
    BY <2>2, <2>5
  <2> QED
    BY <2>1, <2>2, <2>4, <2>5, <2>6, RecordWritten
<1>3. ASSUME NEW m \in Listable, NEW g \in Wallets,
             NEW f \in OracleFeeds \union {Default}, NEW r \in RiskChoices,
             UpdateAssetType(m, g, f, r)
      PROVE  WhitelistInv'
  <2> DEFINE a == [assets[m] EXCEPT !.feed = f, !.risk = r]
  <2>1. IsListed(m) /\ PolicyAllows(assets[m].category, f, r, assets[m].decimals)
        /\ assetRegistry' = assetRegistry
    BY <1>3 DEF UpdateAssetType
  <2>2. assets[m] \in AssetRecord /\ assets[m].decimals = DecimalsOf[m]
    BY <1>0, <2>1
  <2>3. /\ a \in AssetRecord /\ a.category = assets[m].category /\ a.feed = f /\ a.risk = r
        /\ a.decimals = DecimalsOf[m]
    BY <2>2 DEF AssetRecord
  <2>4. assets \in [Listable -> AssetRecord \union {NoAccount}]
    BY DEF WhitelistInv, WhitelistTypeOK
  <2>5. assets' = [assets EXCEPT ![m] = a]
    BY <1>3, <2>4 DEF UpdateAssetType
  <2> HIDE DEF a
  <2>6. PolicyAllows(a.category, a.feed, a.risk, a.decimals)
    BY <2>1, <2>2, <2>3
  <2> QED
    BY <2>1, <2>3, <2>5, <2>6, RecordWritten DEF WhitelistInv, WhitelistTypeOK
<1>4. ASSUME NEW m \in Listable, NEW g \in Wallets, NEW b \in BOOLEAN, SetActive(m, g, b)
      PROVE  WhitelistInv'
  <2> DEFINE a == [assets[m] EXCEPT !.active = b]
  <2>1. IsListed(m) /\ assetRegistry' = assetRegistry
    BY <1>4 DEF SetActive
  <2>2. /\ assets[m] \in AssetRecord /\ assets[m].decimals = DecimalsOf[m]
        /\ PolicyAllows(assets[m].category, assets[m].feed, assets[m].risk,
                        assets[m].decimals)
    BY <1>0, <2>1
  <2>3. /\ a \in AssetRecord /\ a.category = assets[m].category
        /\ a.feed = assets[m].feed /\ a.risk = assets[m].risk
        /\ a.decimals = assets[m].decimals
    BY <2>2 DEF AssetRecord
  <2>4. assets \in [Listable -> AssetRecord \union {NoAccount}]
    BY DEF WhitelistInv, WhitelistTypeOK
  <2>5. assets' = [assets EXCEPT ![m] = a]
    BY <1>4, <2>4 DEF SetActive
  <2> HIDE DEF a
  <2>6. PolicyAllows(a.category, a.feed, a.risk, a.decimals)
    BY <2>2, <2>3
  <2> QED
    BY <2>1, <2>2, <2>3, <2>5, <2>6, RecordWritten DEF WhitelistInv, WhitelistTypeOK
<1>5. CASE UNCHANGED assetVars
  BY <1>5 DEF assetVars, WhitelistInv, WhitelistTypeOK, IsListed
<1> QED
  BY <1>1, <1>2, <1>3, <1>4, <1>5 DEF WhitelistNext, DeactivateAssetType, ReactivateAssetType

(* A cap of at most half, rounded down, leaves at least half.              *)
LEMMA CapLeavesHalf ==
  ASSUME NEW collateral \in U64, NEW maxPartial \in Nat, maxPartial <= MaxPartialLiquidation
  PROVE  2 * PartialCap(collateral, maxPartial) <= collateral
<1> DEFINE q == PartialCap(collateral, maxPartial)
<1>1. collateral \in Nat
  BY BaseAssumption DEF U64
<1>2. collateral * maxPartial \in Nat /\ collateral * maxPartial = maxPartial * collateral
  BY <1>1
<1>3. q \in Nat /\ q * BpsDenominator <= collateral * maxPartial
  BY <1>2, FloorBounds DEF PartialCap, BpsDenominator
<1>4. maxPartial * collateral <= MaxPartialLiquidation * collateral
  BY <1>1, ProductsOrder DEF MaxPartialLiquidation
<1> HIDE DEF q
<1>5. 2 * q <= collateral
  BY <1>1, <1>2, <1>3, <1>4 DEF BpsDenominator, MaxPartialLiquidation
<1> QED
  BY <1>5 DEF q

(* After any updates, deactivations and reactivations, every collateral    *)
(* mint's record is one the liquidation engine can work with.              *)
THEOREM ListedStaysEngineReady == WhitelistSpec => [](WhitelistTypeOK /\ ListedIsEngineReady)
<1>1. WhitelistInit => WhitelistInv
  BY DEF WhitelistInit, WhitelistInv, WhitelistTypeOK, IsListed
<1>2. WhitelistInv => WhitelistTypeOK /\ ListedIsEngineReady
  <2> SUFFICES ASSUME WhitelistInv, NEW m \in Listable, IsListed(m),
                      assets[m].category = "Collateral"
               PROVE  /\ ThresholdsValid(assets[m].risk)
                      /\ assets[m].feed # Default
                      /\ assets[m].decimals = BtcDecimals /\ DecimalsOf[m] = BtcDecimals
                      /\ \A collateral \in U64 :
                           2 * PartialCap(collateral, assets[m].risk.maxPartial) <= collateral
    BY DEF WhitelistInv, ListedIsEngineReady, ListedAs
  <2>1. /\ RiskAllowed(assets[m].risk) /\ assets[m].feed # Default
        /\ assets[m].decimals = BtcDecimals /\ assets[m].decimals = DecimalsOf[m]
    BY DEF WhitelistInv, PolicyAllows
  <2>2. assets[m].risk \in RiskParameters
    BY WhitelistAssumption DEF WhitelistInv, WhitelistTypeOK, IsListed, AssetRecord
  <2>3. assets[m].risk.maxPartial \in Nat
    BY <2>2 DEF RiskParameters
  <2>4. assets[m].risk.maxPartial <= MaxPartialLiquidation /\ ThresholdsValid(assets[m].risk)
    BY <2>1 DEF RiskAllowed
  <2>5. \A collateral \in U64 :
           2 * PartialCap(collateral, assets[m].risk.maxPartial) <= collateral
    BY <2>3, <2>4, CapLeavesHalf
  <2> QED
    BY <2>1, <2>4, <2>5
<1> QED
  BY <1>1, <1>2, WhitelistInvInductive, PTL DEF WhitelistSpec

(***************************************************************************)
(* liquidation_engine and the oracle it reads.                             *)
(***************************************************************************)

(* The configuration stays within the ranges its setters check, and every  *)
(* update ever published is well-formed.                                   *)
OracleInv ==
  /\ clock \in Nat
  /\ updates \subseteq Update
  /\ oracle # NoAccount =>
       /\ oracle \in OracleConfig
       /\ oracle.staleness <= MaxStaleness
       /\ oracle.maxConf <= MaxConfigurableConfidence

EngineInv == OracleInv /\ VerdictsAreTrusted

LEMMA OracleInvInductive == OracleInv /\ [OracleNext]_oracleVars => OracleInv'
<1> SUFFICES ASSUME OracleInv, [OracleNext]_oracleVars
             PROVE  OracleInv'
  OBVIOUS
<1> USE OracleAssumption
<1>0. ASSUME NEW o \in OracleConfig, oracle' = o, o.staleness <= MaxStaleness,
             o.maxConf <= MaxConfigurableConfidence, updates' = updates, clock' = clock
      PROVE  OracleInv'
  BY <1>0 DEF OracleInv
<1>1. ASSUME NEW g \in Governors, NEW s \in Thresholds, NEW c \in ConfBounds,
             InitializeOracle(g, s, c)
      PROVE  OracleInv'
  <2> DEFINE o == [governance |-> g, staleness |-> s, maxConf |-> c, paused |-> FALSE]
  <2>1. o \in OracleConfig
    BY DEF OracleConfig
  <2>2. s <= MaxStaleness /\ c <= MaxConfigurableConfidence
    BY <1>1 DEF InitializeOracle, StalenessAllowed, ConfBoundAllowed
  <2>3. oracle' = o /\ updates' = updates /\ clock' = clock
    BY <1>1 DEF InitializeOracle
  <2> QED
    BY <1>0, <2>1, <2>2, <2>3
<1>2. ASSUME NEW g \in Wallets, NEW s \in Thresholds, SetStalenessThreshold(g, s)
      PROVE  OracleInv'
  <2> DEFINE o == [oracle EXCEPT !.staleness = s]
  <2>1. oracle \in OracleConfig /\ oracle.maxConf <= MaxConfigurableConfidence
    BY <1>2 DEF SetStalenessThreshold, GovernsOracle, OracleInv
  <2>2. o \in OracleConfig /\ o.staleness = s /\ o.maxConf = oracle.maxConf
    BY <2>1 DEF OracleConfig
  <2>3. s <= MaxStaleness /\ oracle' = o /\ updates' = updates /\ clock' = clock
    BY <1>2 DEF SetStalenessThreshold, StalenessAllowed
  <2> HIDE DEF o
  <2> QED
    BY <1>0, <2>1, <2>2, <2>3
<1>3. ASSUME NEW g \in Wallets, NEW c \in ConfBounds, SetConfidenceBound(g, c)
      PROVE  OracleInv'
  <2> DEFINE o == [oracle EXCEPT !.maxConf = c]
  <2>1. oracle \in OracleConfig /\ oracle.staleness <= MaxStaleness
    BY <1>3 DEF SetConfidenceBound, GovernsOracle, OracleInv
  <2>2. o \in OracleConfig /\ o.staleness = oracle.staleness /\ o.maxConf = c
    BY <2>1 DEF OracleConfig
  <2>3. c <= MaxConfigurableConfidence /\ oracle' = o /\ updates' = updates /\ clock' = clock
    BY <1>3 DEF SetConfidenceBound, ConfBoundAllowed
  <2> HIDE DEF o
  <2> QED
    BY <1>0, <2>1, <2>2, <2>3
<1>4. ASSUME NEW g \in Wallets, NEW b \in BOOLEAN, SetOraclePaused(g, b)
      PROVE  OracleInv'
  <2> DEFINE o == [oracle EXCEPT !.paused = b]
  <2>1. /\ oracle \in OracleConfig /\ oracle.staleness <= MaxStaleness
        /\ oracle.maxConf <= MaxConfigurableConfidence
    BY <1>4 DEF SetOraclePaused, GovernsOracle, OracleInv
  <2>2. /\ o \in OracleConfig /\ o.staleness = oracle.staleness
        /\ o.maxConf = oracle.maxConf
    BY <2>1 DEF OracleConfig
  <2>3. oracle' = o /\ updates' = updates /\ clock' = clock
    BY <1>4 DEF SetOraclePaused
  <2> HIDE DEF o
  <2> QED
    BY <1>0, <2>1, <2>2, <2>3
<1>5. ASSUME NEW o \in Observations, Publish(o)
      PROVE  OracleInv'
  <2> DEFINE u == [price |-> o.price, exponent |-> o.exponent, conf |-> o.conf,
                   full |-> o.full, btc |-> o.btc, publishTime |-> clock]
  <2>1. u \in Update
    BY DEF Update, OracleInv
  <2>2. updates' = updates \union {u} /\ oracle' = oracle /\ clock' = clock
    BY <1>5 DEF Publish
  <2> HIDE DEF u
  <2> QED
    BY <2>1, <2>2 DEF OracleInv
<1>6. CASE AdvanceOracleClock
  BY <1>6 DEF AdvanceOracleClock, OracleInv
<1>7. CASE UNCHANGED oracleVars
  BY <1>7 DEF oracleVars, OracleInv
<1> QED
  BY <1>1, <1>2, <1>3, <1>4, <1>5, <1>6, <1>7 DEF OracleNext

(* What read_price accepts has a confidence band under the hard ceiling.   *)
LEMMA UsableIsTrusted ==
  ASSUME OracleInv, NEW u \in updates, Usable(u)
  PROVE  /\ u.btc /\ u.full /\ u.price > 0
         /\ clock - u.publishTime <= MaxStaleness
         /\ u.conf * BpsDenominator < (MaxConfigurableConfidence + 1) * u.price
<1>1. /\ u \in Update /\ oracle \in OracleConfig
      /\ oracle.staleness <= MaxStaleness /\ oracle.maxConf <= MaxConfigurableConfidence
      /\ clock \in Nat
  BY DEF OracleInv, Usable
<1>2. u.price \in Nat \ {0} /\ u.conf \in Nat /\ u.publishTime \in Nat
  BY <1>1 DEF Usable, Update
<1>3. oracle.staleness \in Nat /\ oracle.maxConf \in Nat /\ MaxStaleness \in Nat
  BY <1>1, OracleAssumption DEF OracleConfig
<1> DEFINE a == u.conf * BpsDenominator
           q == a \div u.price
<1>4. a \in Nat
  BY <1>2 DEF BpsDenominator
<1>5. q \in Nat /\ a < (q + 1) * u.price
  BY <1>2, <1>4, FloorBounds
<1>6. q <= oracle.maxConf
  BY DEF Usable
<1> HIDE DEF q, a
<1>7. q + 1 <= MaxConfigurableConfidence + 1
  BY <1>1, <1>3, <1>5, <1>6 DEF MaxConfigurableConfidence
<1>8. (q + 1) * u.price <= (MaxConfigurableConfidence + 1) * u.price
  BY <1>2, <1>5, <1>7, ProductsOrder DEF MaxConfigurableConfidence
<1>9. /\ (q + 1) * u.price \in Int /\ (MaxConfigurableConfidence + 1) * u.price \in Int
  BY <1>2, <1>5 DEF MaxConfigurableConfidence
<1>10. a < (MaxConfigurableConfidence + 1) * u.price
  BY <1>4, <1>5, <1>8, <1>9
<1>11. clock - u.publishTime <= MaxStaleness
  BY <1>1, <1>2, <1>3 DEF Usable
<1> QED
  BY <1>10, <1>11 DEF a, Usable

(* An event rests on an update the oracle accepts at that moment.          *)
LEMMA EmittedIsTrusted ==
  ASSUME OracleInv, NEW kind, NEW u, NEW p, NEW owed, NEW maxPartial, NEW terminal,
         NEW outcome, Priced(u, p),
         Emit(kind, u, p, owed, maxPartial, terminal, outcome)
  PROVE  EngineInv'
<1>1. u \in updates /\ Usable(u)
  BY DEF Priced
<1>2. /\ oracle' = oracle /\ updates' = updates /\ clock' = clock
      /\ event' = [kind |-> kind, at |-> clock, update |-> u, position |-> p,
                   owed |-> owed, maxPartial |-> maxPartial, terminal |-> terminal,
                   outcome |-> outcome]
  BY DEF Emit, oracleVars
<1>3. OracleInv'
  BY <1>2 DEF OracleInv
<1>4. event'.update = u /\ event'.at = clock
  BY <1>2
<1>5. /\ u.btc /\ u.full /\ u.price > 0
      /\ clock - u.publishTime <= MaxStaleness
      /\ u.conf * BpsDenominator < (MaxConfigurableConfidence + 1) * u.price
  BY <1>1, UsableIsTrusted
<1> QED
  BY <1>3, <1>4, <1>5 DEF EngineInv, VerdictsAreTrusted

LEMMA EngineInvInductive == EngineInv /\ [EngineNext]_engineVars => EngineInv'
<1> SUFFICES ASSUME EngineInv, [EngineNext]_engineVars
             PROVE  EngineInv'
  OBVIOUS
<1>0. OracleInv
  BY DEF EngineInv
<1>1. ASSUME event' = event, [OracleNext]_oracleVars
      PROVE  EngineInv'
  BY <1>0, <1>1, OracleInvInductive DEF EngineInv, VerdictsAreTrusted
<1>2. ASSUME NEW g \in Governors, NEW o \in Oracles, InitializeEngine(g, o)
      PROVE  EngineInv'
  BY <1>1, <1>2 DEF InitializeEngine
<1>3. ASSUME NEW g \in Wallets, NEW b \in BOOLEAN, SetEnginePaused(g, b)
      PROVE  EngineInv'
  BY <1>1, <1>3 DEF SetEnginePaused
<1>4. ASSUME NEW u \in updates, NEW p \in Positions, Evaluate(u, p)
      PROVE  EngineInv'
  BY <1>0, <1>4, EmittedIsTrusted DEF Evaluate
<1>5. ASSUME NEW u \in updates, NEW p \in Positions, NEW m \in Missed, NEW n \in Penalties,
             NEW c \in PartialCaps, ExecutePartial(u, p, m, n, c)
      PROVE  EngineInv'
  BY <1>0, <1>5, EmittedIsTrusted DEF ExecutePartial
<1>6. ASSUME NEW u \in updates, NEW p \in Positions, NEW t \in BOOLEAN, ExecuteFull(u, p, t)
      PROVE  EngineInv'
  BY <1>0, <1>6, EmittedIsTrusted DEF ExecuteFull
<1>7. CASE UNCHANGED engineVars
  BY <1>1, <1>7 DEF engineVars
<1> QED
  BY <1>1, <1>2, <1>3, <1>4, <1>5, <1>6, <1>7 DEF EngineNext

(* Whatever governance does between updates and verdicts, every event of   *)
(* the engine rests on a trusted price.                                    *)
THEOREM VerdictsRestOnTrustedPrices == EngineSpec => []VerdictsAreTrusted
<1>1. EngineInit => EngineInv
  BY OracleAssumption DEF EngineInit, OracleInit, EngineInv, OracleInv, VerdictsAreTrusted
<1>2. EngineInv => VerdictsAreTrusted
  BY DEF EngineInv
<1> QED
  BY <1>1, <1>2, EngineInvInductive, PTL DEF EngineSpec

(***************************************************************************)
(* What the engine lets be taken.                                          *)
(***************************************************************************)
LEMMA RescaleFacts ==
  ASSUME NEW v \in Nat, NEW w \in Nat, v <= w, NEW from \in Nat, NEW to \in Nat
  PROVE  /\ Rescale(v, from, to) \in Nat
         /\ v = 0 => Rescale(v, from, to) = 0
         /\ Rescale(v, from, to) <= Rescale(w, from, to)
<1>1. CASE from >= to
  <2> DEFINE s == Pow10[from - to]
             a == v \div s
             b == w \div s
  <2>1. s \in Nat \ {0}
    BY <1>1, Pow10Positive
  <2> HIDE DEF s
  <2>2. a \in Nat /\ a * s <= v
    BY <2>1, FloorBounds
  <2>3. b \in Nat /\ w < (b + 1) * s
    BY <2>1, FloorBounds
  <2>4. Rescale(v, from, to) = a /\ Rescale(w, from, to) = b
    BY <1>1 DEF Rescale, s
  <2> HIDE DEF a, b
  <2>5. a * s \in Int /\ (b + 1) * s \in Int
    BY <2>1, <2>2, <2>3
  <2>6. a * s < (b + 1) * s
    BY <2>2, <2>3, <2>5
  <2>7. a < b + 1
    BY <2>1, <2>2, <2>3, <2>6, FactorsOrder
  <2>8. ASSUME v = 0 PROVE a = 0
    <3>1. a * s < 1 * s
      BY <2>1, <2>2, <2>5, <2>8
    <3>2. a < 1
      BY <2>1, <2>2, <3>1, FactorsOrder
    <3> QED
      BY <2>2, <3>2
  <2> QED
    BY <2>2, <2>3, <2>4, <2>7, <2>8
<1>2. CASE ~(from >= to)
  <2> DEFINE s == Pow10[to - from]
  <2>1. s \in Nat
    BY <1>2, Pow10Positive
  <2> HIDE DEF s
  <2>2. Rescale(v, from, to) = v * s /\ Rescale(w, from, to) = w * s
    BY <1>2 DEF Rescale, s
  <2>3. v * s <= w * s
    BY <2>1, ProductsOrder
  <2>4. v * s \in Nat /\ (v = 0 => v * s = 0)
    BY <2>1
  <2> QED
    BY <2>2, <2>3, <2>4
<1> QED
  BY <1>1, <1>2

(* The value of a position at a usable price.                              *)
LEMMA ValueFacts ==
  ASSUME NEW u \in Update, NEW p \in Positions, Usable(u)
  PROVE  /\ p.debt \in Nat /\ p.collateral \in Nat
         /\ p.collateralDecimals \in Nat /\ p.loanDecimals \in Nat
         /\ p.maxLtv \in Nat /\ p.partialLtv \in Nat /\ p.fullLtv \in Nat
         /\ u.price \in Nat \ {0} /\ -u.exponent \in Nat
         /\ Value(u, p) \in Nat
         /\ p.collateral = 0 => Value(u, p) = 0
<1>1. p \in Position
  BY EngineAssumption
<1>2. /\ p.debt \in Nat /\ p.collateral \in Nat
      /\ p.collateralDecimals \in Nat /\ p.loanDecimals \in Nat
      /\ p.maxLtv \in Nat /\ p.partialLtv \in Nat /\ p.fullLtv \in Nat
  BY <1>1, BaseAssumption DEF Position, U64
<1>3. u.price \in Nat \ {0} /\ -u.exponent \in Nat
  BY DEF Update, Usable
<1> DEFINE v == p.collateral * u.price
           from == p.collateralDecimals + (-u.exponent)
<1>4. v \in Nat /\ from \in Nat /\ (p.collateral = 0 => v = 0)
  BY <1>2, <1>3
<1>5. Value(u, p) = Rescale(v, from, p.loanDecimals)
  BY DEF Value, CollateralValue, PriceOf
<1> HIDE DEF v, from
<1>6. Value(u, p) \in Nat /\ (v = 0 => Value(u, p) = 0)
  <2>1. v <= v
    BY <1>4
  <2>2. /\ Rescale(v, from, p.loanDecimals) \in Nat
        /\ v = 0 => Rescale(v, from, p.loanDecimals) = 0
    BY <1>2, <1>4, <2>1, RescaleFacts
  <2> QED
    BY <1>5, <2>2
<1> QED
  BY <1>2, <1>3, <1>4, <1>6

LEMMA ThresholdFacts ==
  ASSUME NEW u \in Update, NEW p \in Positions, Usable(u), PositionValid(p)
  PROVE  /\ p.maxLtv \in Nat \ {0} /\ p.maxLtv + 1 <= MaxU64 /\ p.maxLtv < p.partialLtv
         /\ p.partialLtv \in Nat \ {0} /\ p.partialLtv <= MaxU64
         /\ p.fullLtv \in Nat \ {0} /\ p.fullLtv <= MaxU64
         /\ Ltv(u, p) >= p.partialLtv <=> p.debt * BpsDenominator > (p.partialLtv - 1) * Value(u, p)
         /\ Ltv(u, p) >= p.fullLtv <=> p.debt * BpsDenominator > (p.fullLtv - 1) * Value(u, p)
<1>1. /\ p.debt \in Nat /\ Value(u, p) \in Nat
      /\ p.maxLtv \in Nat /\ p.partialLtv \in Nat /\ p.fullLtv \in Nat
  BY ValueFacts
<1>2. MaxU64 \in Nat /\ BpsDenominator <= MaxU64
  BY BaseAssumption, EngineAssumption
<1>3. /\ p.maxLtv \in Nat \ {0} /\ p.maxLtv + 1 <= MaxU64 /\ p.maxLtv < p.partialLtv
      /\ p.partialLtv \in Nat \ {0} /\ p.partialLtv <= MaxU64
      /\ p.fullLtv \in Nat \ {0} /\ p.fullLtv <= MaxU64
  BY <1>1, <1>2 DEF PositionValid, ThresholdsValid, BpsDenominator, MaxProtocolLtv
<1> QED
  BY <1>1, <1>3, HealthIsExact DEF Ltv

(* The two instructions that authorise a seizure, with what they emit.     *)
LEMMA PartialIsExact ==
  ASSUME OracleInv, NEW u \in updates, NEW p \in Positions, NEW missed \in Missed,
         NEW penalty \in Penalties, NEW maxPartial \in PartialCaps,
         ExecutePartial(u, p, missed, penalty, maxPartial)
  PROVE  SeizureIsExact' /\ OnlyUnhealthySeized'
<1> DEFINE v == Value(u, p)
           seize == PartialAmount(missed, penalty, p.collateral, v, maxPartial)
           owed == Owed(missed, penalty)
<1>1. /\ u \in Update /\ Usable(u) /\ PositionValid(p)
      /\ Ltv(u, p) >= p.partialLtv /\ ~(Ltv(u, p) >= p.fullLtv)
      /\ seize > 0
  BY DEF ExecutePartial, Priced, OracleInv, PartlyLiquidatable, FullyLiquidatable
<1>2. event' = [kind |-> "partial", at |-> clock, update |-> u, position |-> p,
                owed |-> owed, maxPartial |-> maxPartial, terminal |-> FALSE,
                outcome |-> Outcome(seize, p.collateral - seize, 0)]
  BY DEF ExecutePartial, Emit
<1>3. /\ missed \in Nat /\ penalty \in Nat /\ maxPartial \in Nat
  BY BaseAssumption, EngineAssumption DEF U64
<1>4. /\ p.debt \in Nat /\ p.collateral \in Nat /\ v \in Nat
      /\ p.partialLtv \in Nat /\ p.fullLtv \in Nat
  BY <1>1, ValueFacts
<1>5. p.collateral \in Nat \ {0} /\ v \in Nat \ {0}
  BY <1>1, <1>4 DEF PartialAmount
<1>6. /\ p.debt * BpsDenominator > (p.partialLtv - 1) * v
      /\ p.debt * BpsDenominator <= (p.fullLtv - 1) * v
  <2>1. /\ p.debt * BpsDenominator > (p.partialLtv - 1) * v
        /\ ~(p.debt * BpsDenominator > (p.fullLtv - 1) * v)
    BY <1>1, ThresholdFacts
  <2>2. p.debt * BpsDenominator \in Int /\ (p.fullLtv - 1) * v \in Int
    BY <1>4 DEF BpsDenominator
  <2> QED
    BY <2>1, <2>2
<1>7. /\ seize * BpsDenominator <= p.collateral * maxPartial /\ seize <= p.collateral
      /\ (seize - 1) * v < owed * p.collateral
      /\ \/ seize * v >= owed * p.collateral
         \/ (seize + 1) * BpsDenominator > p.collateral * maxPartial
         \/ seize = p.collateral
      /\ 2 * maxPartial <= BpsDenominator => 2 * seize <= p.collateral
  BY <1>3, <1>5, PartialLiquidationIsBounded
<1>8. seize \in Nat
  <2>1. owed \in Nat
    <3>1. missed * penalty \in Nat
      BY <1>3
    <3> QED
      BY <1>3, <3>1, CeilBounds DEF Owed, BpsDenominator
  <2>2. ShareWorth(p.collateral, owed, v) \in Nat
    BY <1>5, <2>1, ShareBounds
  <2>3. PartialCap(p.collateral, maxPartial) \in Nat
    <3>1. p.collateral * maxPartial \in Nat
      BY <1>3, <1>5
    <3> QED
      BY <3>1, FloorBounds DEF PartialCap, BpsDenominator
  <2> QED
    BY <1>5, <2>2, <2>3 DEF PartialAmount, AtMost
<1> HIDE DEF v, seize, owed
<1>9. 2 * maxPartial <= BpsDenominator => p.collateral - seize > 0
  BY <1>1, <1>4, <1>7, <1>8
<1>10. /\ event'.kind = "partial" /\ event'.position = p /\ event'.update = u
       /\ event'.owed = owed /\ event'.maxPartial = maxPartial /\ event'.terminal = FALSE
       /\ event'.outcome.seized = seize /\ event'.outcome.surplus = p.collateral - seize
  BY <1>2 DEF Outcome
<1>11. FullSettles'
  BY <1>10 DEF FullSettles
<1>12. PartialIsBounded'
  BY <1>7, <1>9, <1>10 DEF PartialIsBounded, v
<1>13. OnlyUnhealthySeized'
  BY <1>6, <1>10 DEF OnlyUnhealthySeized, v
<1> QED
  BY <1>11, <1>12, <1>13 DEF SeizureIsExact

LEMMA FullIsExact ==
  ASSUME OracleInv, NEW u \in updates, NEW p \in Positions, NEW terminal \in BOOLEAN,
         ExecuteFull(u, p, terminal)
  PROVE  SeizureIsExact' /\ OnlyUnhealthySeized'
<1> DEFINE v == Value(u, p)
           o == FullLiquidation(p.debt, p.collateral, v)
<1>1. /\ u \in Update /\ Usable(u) /\ PositionValid(p)
      /\ Ltv(u, p) >= p.fullLtv \/ terminal
  BY DEF ExecuteFull, Priced, OracleInv, FullyLiquidatable
<1>2. event' = [kind |-> "full", at |-> clock, update |-> u, position |-> p,
                owed |-> p.debt, maxPartial |-> BpsDenominator, terminal |-> terminal,
                outcome |-> o]
  BY DEF ExecuteFull, Emit
<1>3. /\ p.debt \in Nat /\ p.collateral \in Nat /\ v \in Nat
      /\ p.collateral = 0 => v = 0
  BY <1>1, ValueFacts
<1>4. terminal \/ p.debt * BpsDenominator > (p.fullLtv - 1) * v
  BY <1>1, ThresholdFacts
<1> HIDE DEF v
<1>5. /\ o.seized + o.surplus = p.collateral
      /\ v > p.debt =>
           /\ o.shortfall = 0
           /\ o.seized * v >= p.debt * p.collateral
           /\ (o.seized - 1) * v < p.debt * p.collateral
      /\ v <= p.debt =>
           /\ o.shortfall = p.debt - v
           /\ IF v = 0 THEN o.seized = 0 ELSE o.surplus = 0
  <2>1. PICK debt \in Nat, collateral \in Nat, value \in Nat :
           debt = p.debt /\ collateral = p.collateral /\ value = v
    BY <1>3
  <2>2. o = FullLiquidation(debt, collateral, value) /\ (collateral = 0 => value = 0)
    BY <1>3, <2>1
  <2> HIDE DEF o
  <2>3. /\ o.seized + o.surplus = collateral
        /\ value > debt =>
             /\ o.shortfall = 0
             /\ o.seized * value >= debt * collateral
             /\ (o.seized - 1) * value < debt * collateral
        /\ value <= debt =>
             /\ o.shortfall = debt - value
             /\ IF value = 0 THEN o.seized = 0 ELSE o.surplus = 0
    <3>1. o.seized + o.surplus = collateral
      BY <2>2, FullLiquidationSettles
    <3>2. value > debt => o.shortfall = 0
      BY <2>2, FullLiquidationSettles
    <3>3. value > debt => o.seized * value >= debt * collateral
      BY <2>2, FullLiquidationSettles
    <3>4. value > debt => (o.seized - 1) * value < debt * collateral
      BY <2>2, FullLiquidationSettles
    <3>5. value <= debt => o.shortfall = debt - value
      BY <2>2, FullLiquidationSettles
    <3>6. value <= debt => IF value = 0 THEN o.seized = 0 ELSE o.surplus = 0
      BY <2>2, FullLiquidationSettles
    <3> QED
      BY <3>1, <3>2, <3>3, <3>4, <3>5, <3>6
  <2> QED
    BY <2>1, <2>3
<1> HIDE DEF o
<1>6. /\ event'.kind = "full" /\ event'.position = p /\ event'.update = u
      /\ event'.terminal = terminal /\ event'.outcome = o
  BY <1>2
<1>7. v > p.debt \/ v <= p.debt
  BY <1>3
<1>8. FullSettles'
  BY <1>5, <1>6, <1>7 DEF FullSettles, v
<1>9. PartialIsBounded'
  BY <1>6 DEF PartialIsBounded
<1>10. OnlyUnhealthySeized'
  BY <1>4, <1>6 DEF OnlyUnhealthySeized, v
<1> QED
  BY <1>8, <1>9, <1>10 DEF SeizureIsExact

LEMMA SeizuresKeep ==
  ASSUME EngineInv, SeizureIsExact, OnlyUnhealthySeized, [EngineNext]_engineVars
  PROVE  SeizureIsExact' /\ OnlyUnhealthySeized'
<1>0. OracleInv
  BY DEF EngineInv
<1>1. CASE event' = event
  BY <1>1 DEF SeizureIsExact, FullSettles, PartialIsBounded, OnlyUnhealthySeized, Authorised
<1>2. ASSUME NEW u \in updates, NEW p \in Positions, Evaluate(u, p)
      PROVE  SeizureIsExact' /\ OnlyUnhealthySeized'
  <2>1. event'.kind = "evaluated"
    BY <1>2 DEF Evaluate, Emit
  <2> QED
    BY <2>1 DEF SeizureIsExact, FullSettles, PartialIsBounded, OnlyUnhealthySeized, Authorised
<1>3. ASSUME NEW u \in updates, NEW p \in Positions, NEW m \in Missed, NEW n \in Penalties,
             NEW c \in PartialCaps, ExecutePartial(u, p, m, n, c)
      PROVE  SeizureIsExact' /\ OnlyUnhealthySeized'
  BY <1>0, <1>3, PartialIsExact
<1>4. ASSUME NEW u \in updates, NEW p \in Positions, NEW t \in BOOLEAN, ExecuteFull(u, p, t)
      PROVE  SeizureIsExact' /\ OnlyUnhealthySeized'
  BY <1>0, <1>4, FullIsExact
<1>5. \/ event' = event
      \/ \E u \in updates, p \in Positions : Evaluate(u, p)
      \/ \E u \in updates, p \in Positions, m \in Missed, n \in Penalties, c \in PartialCaps :
           ExecutePartial(u, p, m, n, c)
      \/ \E u \in updates, p \in Positions, t \in BOOLEAN : ExecuteFull(u, p, t)
  BY DEF EngineNext, InitializeEngine, SetEnginePaused, engineVars
<1> QED
  BY <1>1, <1>2, <1>3, <1>4, <1>5

LEMMA EngineStarts ==
  EngineInit => EngineInv /\ SeizureIsExact /\ OnlyUnhealthySeized
BY OracleAssumption
   DEF EngineInit, OracleInit, EngineInv, OracleInv, VerdictsAreTrusted, SeizureIsExact,
       FullSettles, PartialIsBounded, OnlyUnhealthySeized, Authorised, Nothing

(* Every seizure the engine authorises is exact to the atom, at any price, *)
(* for mints and prices with any decimals the engine accepts: a full one   *)
(* settles, a partial one keeps to what is owed and to its cap.            *)
THEOREM SeizuresAreExact == EngineSpec => []SeizureIsExact
<1> QED
  BY EngineStarts, EngineInvInductive, SeizuresKeep, PTL DEF EngineSpec

(* No seizure is authorised from a position that is healthy in exact       *)
(* arithmetic, however its value was truncated and its ratio rounded.      *)
THEOREM HealthyIsSpared == EngineSpec => []OnlyUnhealthySeized
<1> QED
  BY EngineStarts, EngineInvInductive, SeizuresKeep, PTL DEF EngineSpec

(* Collateral of the size required_collateral_atoms asks for is worth, as  *)
(* collateral_value_atoms truncates it, at least the debt at maxLtv.       *)
LEMMA RequiredIsEnough ==
  ASSUME NEW u \in Update, NEW p \in Positions, Usable(u), PositionValid(p),
         p.collateralDecimals - u.exponent >= p.loanDecimals
  PROVE  LET opened == [p EXCEPT !.collateral =
                          RequiredCollateral(p.debt, p.maxLtv, p.collateralDecimals,
                                             PriceOf(u), p.loanDecimals)]
         IN  Ltv(u, opened) <= p.maxLtv /\ ~PartlyLiquidatable(Ltv(u, opened), p)
<1> DEFINE from == p.collateralDecimals + (-u.exponent)
           s == Pow10[from - p.loanDecimals]
           q == CeilDiv(p.debt * BpsDenominator, p.maxLtv)
           r == CeilDiv(q * s, u.price)
           v == (r * u.price) \div s
           opened == [p EXCEPT !.collateral = r]
<1>1. /\ p.debt \in Nat /\ p.collateralDecimals \in Nat /\ p.loanDecimals \in Nat
      /\ u.price \in Nat \ {0} /\ -u.exponent \in Nat /\ u.exponent \in Int
  BY ValueFacts DEF Update
<1>2. /\ p.maxLtv \in Nat \ {0} /\ p.maxLtv + 1 <= MaxU64
      /\ p.partialLtv \in Nat /\ p.maxLtv < p.partialLtv
  BY ThresholdFacts
<1>3. from - p.loanDecimals \in Nat /\ from \in Nat /\ from >= p.loanDecimals
  BY <1>1
<1>4. s \in Nat \ {0} /\ (from - p.loanDecimals = 0 => s = 1)
  BY <1>3, Pow10Positive
<1>5. p.debt * BpsDenominator \in Nat
  BY <1>1 DEF BpsDenominator
<1>6. q \in Nat /\ p.debt * BpsDenominator <= q * p.maxLtv
  BY <1>2, <1>5, CeilBounds
<1>7. q * s \in Nat
  BY <1>4, <1>6
<1>8. r \in Nat /\ q * s <= r * u.price
  BY <1>1, <1>7, CeilBounds
<1>9. r * u.price \in Nat
  BY <1>1, <1>8
<1>10. v \in Nat /\ r * u.price < (v + 1) * s
  BY <1>4, <1>9, FloorBounds
<1>11. Rescale(q, p.loanDecimals, from) = q * s
  <2>1. CASE from = p.loanDecimals
    <3>1. p.loanDecimals - from = 0 /\ Rescale(q, p.loanDecimals, from) = q \div Pow10[0]
      BY <1>1, <1>3, <2>1 DEF Rescale
    <3>2. s = 1 /\ Pow10[0] = 1
      BY <1>4, <2>1, <1>1, Pow10Positive
    <3> QED
      BY <1>6, <3>1, <3>2
  <2>2. CASE from # p.loanDecimals
    BY <1>1, <1>3, <2>2 DEF Rescale
  <2> QED
    BY <2>1, <2>2
<1>12. RequiredCollateral(p.debt, p.maxLtv, p.collateralDecimals, PriceOf(u), p.loanDecimals) = r
  BY <1>11 DEF RequiredCollateral, PriceOf
<1>13. /\ opened.collateral = r /\ opened.debt = p.debt
       /\ opened.collateralDecimals = p.collateralDecimals
       /\ opened.loanDecimals = p.loanDecimals
  <2>1. p \in Position
    BY EngineAssumption
  <2> QED
    BY <2>1 DEF Position
<1>14. Value(u, opened) = v
  BY <1>3, <1>13 DEF Value, CollateralValue, PriceOf, Rescale
<1> HIDE DEF opened, v, r, q, s, from
<1>15. q < v + 1
  <2>1. q * s < (v + 1) * s
    <3>1. (v + 1) * s \in Int
      BY <1>4, <1>10
    <3> QED
      BY <1>7, <1>8, <1>9, <1>10, <3>1
  <2> QED
    BY <1>4, <1>6, <1>10, <2>1, FactorsOrder
<1>16. p.debt * BpsDenominator <= p.maxLtv * v
  <2>1. q * p.maxLtv <= v * p.maxLtv
    BY <1>2, <1>6, <1>10, <1>15, ProductsOrder
  <2>2. q * p.maxLtv \in Int /\ v * p.maxLtv \in Int /\ v * p.maxLtv = p.maxLtv * v
    BY <1>2, <1>6, <1>10
  <2> QED
    BY <1>5, <1>6, <2>1, <2>2
<1>17. ~(CurrentLtv(p.debt, v) >= p.maxLtv + 1)
  <2>1. CurrentLtv(p.debt, v) >= p.maxLtv + 1
          <=> p.debt * BpsDenominator > ((p.maxLtv + 1) - 1) * v
    <3>1. p.maxLtv + 1 \in Nat \ {0}
      BY <1>2
    <3> QED
      BY <1>1, <1>2, <1>10, <3>1, HealthIsExact
  <2>2. (p.maxLtv + 1) - 1 = p.maxLtv /\ p.maxLtv * v \in Int
    BY <1>2, <1>10
  <2> QED
    BY <1>5, <1>16, <2>1, <2>2
<1>18. CurrentLtv(p.debt, v) \in Nat
  BY <1>1, <1>10, LtvIsNat
<1>19. Ltv(u, opened) = CurrentLtv(p.debt, v)
  BY <1>13, <1>14 DEF Ltv
<1>20. Ltv(u, opened) <= p.maxLtv /\ ~(Ltv(u, opened) >= p.partialLtv)
  BY <1>2, <1>17, <1>18, <1>19
<1> QED
  BY <1>12, <1>20 DEF opened, PartlyLiquidatable

LEMMA FallIsSeen ==
  ASSUME NEW u \in Update, NEW w \in Update, NEW p \in Positions, Usable(u), Usable(w),
         u.exponent = w.exponent, w.price <= u.price
  PROVE  Ltv(u, p) \in Nat /\ Ltv(w, p) \in Nat /\ Ltv(u, p) <= Ltv(w, p)
<1> DEFINE from == p.collateralDecimals + (-u.exponent)
           a == p.collateral * w.price
           b == p.collateral * u.price
<1>1. /\ p.debt \in Nat /\ p.collateral \in Nat
      /\ p.collateralDecimals \in Nat /\ p.loanDecimals \in Nat
      /\ u.price \in Nat /\ -u.exponent \in Nat /\ Value(u, p) \in Nat
  BY ValueFacts
<1>2. w.price \in Nat /\ Value(w, p) \in Nat
  BY ValueFacts
<1>3. a \in Nat /\ b \in Nat /\ from \in Nat
  BY <1>1, <1>2
<1>4. a <= b
  <2>1. w.price * p.collateral <= u.price * p.collateral
    BY <1>1, <1>2, ProductsOrder
  <2> QED
    BY <1>1, <1>2, <2>1
<1>5. /\ Value(w, p) = Rescale(a, from, p.loanDecimals)
      /\ Value(u, p) = Rescale(b, from, p.loanDecimals)
  BY DEF Value, CollateralValue, PriceOf
<1> HIDE DEF a, b, from
<1>6. Value(w, p) <= Value(u, p)
  <2>1. Rescale(a, from, p.loanDecimals) <= Rescale(b, from, p.loanDecimals)
    BY <1>1, <1>3, <1>4, RescaleFacts
  <2> QED
    BY <1>5, <2>1
<1> QED
  BY <1>1, <1>2, <1>6, LossNeverHelps, LtvIsNat DEF Ltv

(* Truncating the value and rounding the ratio and the required collateral *)
(* up never works against the lender: what opens is within its maximum     *)
(* ratio, and a falling price makes no position look healthier.            *)
THEOREM RoundingIsForTheLender == EngineSpec => []RoundsForTheLender
<1>1. ASSUME EngineInv PROVE RoundsForTheLender
  <2>1. updates \subseteq Update
    BY <1>1 DEF EngineInv, OracleInv
  <2>2. OpensWithinMaxLtv
    BY <2>1, RequiredIsEnough DEF OpensWithinMaxLtv
  <2>3. FallingPriceNeverHelps
    <3> SUFFICES ASSUME NEW u \in updates, NEW w \in updates, NEW p \in Positions,
                        Usable(u), Usable(w), PositionValid(p),
                        u.exponent = w.exponent, w.price <= u.price
                 PROVE  /\ Ltv(u, p) >= p.partialLtv => Ltv(w, p) >= p.partialLtv
                        /\ Ltv(u, p) >= p.fullLtv => Ltv(w, p) >= p.fullLtv
      BY DEF FallingPriceNeverHelps, PartlyLiquidatable, FullyLiquidatable
    <3>1. Ltv(u, p) \in Nat /\ Ltv(w, p) \in Nat /\ Ltv(u, p) <= Ltv(w, p)
      BY <2>1, FallIsSeen
    <3>2. p.partialLtv \in Nat /\ p.fullLtv \in Nat
      BY <2>1, ValueFacts
    <3> QED
      BY <3>1, <3>2
  <2> QED
    BY <2>2, <2>3 DEF RoundsForTheLender
<1> QED
  BY <1>1, EngineStarts, EngineInvInductive, PTL DEF EngineSpec

(***************************************************************************)
(* Governance.  The inductive invariant: the seats are held by three       *)
(* different keys, and every approval recorded on a proposal is backed by  *)
(* a signature in `acts`, made by the key of that seat while the proposal  *)
(* was live.  The first of them, the proposer's, dates from the proposal's *)
(* creation.                                                               *)
(***************************************************************************)
SeatsDistinct ==
  governance # NoRecord =>
    \A s, t \in Seats : s # t => governance.signers[s] # governance.signers[t]

SignedBy(i, s, when) ==
  [proposal |-> i, key |-> governance.signers[s], at |-> when] \in acts

WellSigned(i) ==
  /\ governance # NoRecord
  /\ proposals[i].executableAt = proposals[i].createdAt + Timelock
  /\ proposals[i].expiresAt = proposals[i].createdAt + Expiry
  /\ proposals[i].createdAt <= tick
  /\ \E s \in Seats :
       proposals[i].approvals[s] /\ SignedBy(i, s, proposals[i].createdAt)
  /\ \A s \in Seats : proposals[i].approvals[s] =>
       \E when \in Nat : SignedBy(i, s, when)

InLife(act) ==
  Exists(act.proposal) /\ act.at >= proposals[act.proposal].createdAt

GovernanceInv ==
  /\ GovernanceTypeOK
  /\ SeatsDistinct
  /\ \A i \in Proposals : Exists(i) => WellSigned(i)
  /\ \A act \in acts : InLife(act)

(* Nothing is set up and nothing signed. *)
LEMMA GovernanceStarts == GovernanceInit => GovernanceInv
  BY GovernanceAssumption
     DEF GovernanceInit, GovernanceInv, GovernanceTypeOK, SeatsDistinct, Exists

(* Nothing exists before the singleton does. *)
LEMMA SetUpKeepsInv ==
  ASSUME GovernanceInv, NEW signers \in [Seats -> Keys \union {DefaultKey}],
         InitializeGovernance(signers)
  PROVE  GovernanceInv'
<1>1. signers \in [Seats -> Keys]
  BY DEF InitializeGovernance, SignersAllowed
<1>2. /\ governance' = [signers |-> signers, paused |-> FALSE, executed |-> 0]
      /\ UNCHANGED <<proposals, tick, acts>>
      /\ \A s, t \in Seats : s # t => signers[s] # signers[t]
  BY DEF InitializeGovernance, SignersAllowed
<1>3. governance' \in GovernanceRecord
  BY <1>1, <1>2 DEF GovernanceRecord
<1>4. GovernanceTypeOK'
  BY <1>2, <1>3 DEF GovernanceInv, GovernanceTypeOK
<1>5. SeatsDistinct'
  BY <1>2 DEF SeatsDistinct
<1>6. \A i \in Proposals : ~Exists(i)
  BY DEF GovernanceInv, WellSigned, InitializeGovernance
<1>7. acts = {}
  BY <1>6 DEF GovernanceInv, InLife, GovernanceTypeOK, Act
<1>8. (\A i \in Proposals : Exists(i) => WellSigned(i))'
  BY <1>2, <1>6 DEF Exists
<1>9. (\A act \in acts : InLife(act))'
  BY <1>2, <1>7
<1>. QED
  BY <1>4, <1>5, <1>8, <1>9 DEF GovernanceInv

(* A proposal nobody touches stays well signed: the seats do not move and  *)
(* signatures are only added.                                              *)
LEMMA OthersStaySigned ==
  ASSUME NEW i \in Proposals, WellSigned(i), governance' # NoRecord,
         governance'.signers = governance.signers, acts \subseteq acts',
         proposals'[i] = proposals[i], tick \in Nat, tick' \in Nat, tick <= tick',
         proposals[i].createdAt \in Nat
  PROVE  WellSigned(i)'
  BY DEF WellSigned, SignedBy

(* The proposer's approval is signed at creation (propose_parameter_change). *)
LEMMA ProposeKeepsInv ==
  ASSUME GovernanceInv, NEW i \in Proposals, NEW key \in Keys,
         ProposeParameterChange(i, key)
  PROVE  GovernanceInv'
<1>. DEFINE Fresh(s) == [createdAt |-> tick, executableAt |-> tick + Timelock,
                         expiresAt |-> tick + Expiry,
                         approvals |-> [t \in Seats |-> t = s], executed |-> FALSE]
            mark == [proposal |-> i, key |-> key, at |-> tick]
<1>1. PICK s \in Seats : /\ HoldsSeat(key, s)
                         /\ proposals' = [proposals EXCEPT ![i] = Fresh(s)]
  BY DEF ProposeParameterChange
<1>2. /\ governance # NoRecord /\ governance' = governance /\ tick' = tick
      /\ tick \in Nat /\ ~Exists(i) /\ acts' = acts \union {mark}
  BY DEF ProposeParameterChange, Record, GovernanceInv, GovernanceTypeOK
<1>3. Fresh(s) \in Proposal /\ Fresh(s) # NoRecord
  <2>1. Fresh(s) \in Proposal
    BY <1>2, GovernanceAssumption DEF Proposal
  <2>. QED
    BY <2>1, NoRecordIsNone DEF NoRecordIsNone
<1>4. proposals \in [Proposals -> Proposal \union {NoRecord}] /\ acts \subseteq Act
  BY DEF GovernanceInv, GovernanceTypeOK
<1>5. proposals'[i] = Fresh(s) /\ \A j \in Proposals \ {i} : proposals'[j] = proposals[j]
  BY <1>1, <1>4
<1>6. GovernanceTypeOK'
  <2>1. mark \in Act
    BY <1>2 DEF Act
  <2>2. proposals' \in [Proposals -> Proposal \union {NoRecord}]
    BY <1>1, <1>3, <1>4
  <2>. QED
    BY <1>2, <2>1, <2>2 DEF GovernanceInv, GovernanceTypeOK
<1>7. SeatsDistinct'
  BY <1>2 DEF GovernanceInv, SeatsDistinct
<1>8. ASSUME NEW j \in Proposals, Exists(j)' PROVE WellSigned(j)'
  <2>1. CASE j = i
    <3>1. Fresh(s).approvals = [t \in Seats |-> t = s] /\ Fresh(s).createdAt = tick
      OBVIOUS
    <3>2. governance'.signers[s] = key
      BY <1>1, <1>2 DEF HoldsSeat
    <3>3. [proposal |-> i, key |-> governance'.signers[s], at |-> tick] \in acts'
      BY <1>2, <3>2
    <3>4. /\ proposals'[i].createdAt = tick
          /\ proposals'[i].executableAt = tick + Timelock
          /\ proposals'[i].expiresAt = tick + Expiry
          /\ proposals'[i].approvals[s]
          /\ \A t \in Seats : proposals'[i].approvals[t] => t = s
      <4>1. proposals'[i].approvals = [t \in Seats |-> t = s]
        BY <1>5, <3>1
      <4>2. /\ proposals'[i].createdAt = tick
            /\ proposals'[i].executableAt = tick + Timelock
            /\ proposals'[i].expiresAt = tick + Expiry
        BY <1>5
      <4>. QED
        BY <4>1, <4>2
    <3>5. \E t \in Seats :
            /\ proposals'[i].approvals[t]
            /\ [proposal |-> i, key |-> governance'.signers[t],
                at |-> proposals'[i].createdAt] \in acts'
      BY <3>3, <3>4
    <3>6. \A t \in Seats : proposals'[i].approvals[t] => \E when \in Nat :
            [proposal |-> i, key |-> governance'.signers[t], at |-> when] \in acts'
      BY <1>2, <3>3, <3>4
    <3>. QED
      BY <1>2, <2>1, <3>4, <3>5, <3>6 DEF WellSigned, SignedBy
  <2>2. CASE j # i
    <3>1. Exists(j) /\ proposals'[j] = proposals[j]
      BY <1>5, <1>8, <2>2 DEF Exists
    <3>2. proposals[j].createdAt \in Nat
      BY <1>4, <3>1 DEF Exists, Proposal
    <3>. QED
      BY <1>2, <3>1, <3>2, OthersStaySigned DEF GovernanceInv
  <2>. QED  BY <2>1, <2>2
<1>9. ASSUME NEW act \in acts' PROVE InLife(act)'
  <2>1. CASE act = mark
    <3>1. act.proposal = i /\ act.at = tick
      BY <2>1
    <3>. QED
      BY <1>2, <1>3, <1>5, <3>1 DEF InLife, Exists
  <2>2. CASE act \in acts
    <3>1. act.proposal \in Proposals /\ InLife(act)
      BY <1>4, <2>2 DEF GovernanceInv, Act
    <3>2. act.proposal # i
      BY <1>2, <3>1 DEF InLife
    <3>. QED
      BY <1>5, <3>1, <3>2 DEF InLife, Exists
  <2>. QED  BY <1>2, <1>9, <2>1, <2>2
<1>. QED
  BY <1>6, <1>7, <1>8, <1>9 DEF GovernanceInv

(* An approval is signed by the key of its seat (approve_proposal). *)
LEMMA ApproveKeepsInv ==
  ASSUME GovernanceInv, NEW i \in Proposals, NEW key \in Keys,
         ApproveProposal(i, key)
  PROVE  GovernanceInv'
<1>. DEFINE mark == [proposal |-> i, key |-> key, at |-> tick]
<1>1. PICK s \in Seats :
        /\ HoldsSeat(key, s)
        /\ proposals' = [proposals EXCEPT ![i].approvals[s] = TRUE]
  BY DEF ApproveProposal
<1>2. /\ governance # NoRecord /\ governance' = governance /\ tick' = tick
      /\ tick \in Nat /\ Exists(i) /\ acts' = acts \union {mark}
  BY DEF ApproveProposal, Record, GovernanceInv, GovernanceTypeOK
<1>3. /\ proposals \in [Proposals -> Proposal \union {NoRecord}] /\ acts \subseteq Act
      /\ proposals[i] \in Proposal
  BY <1>2 DEF GovernanceInv, GovernanceTypeOK, Exists
<1>. DEFINE p == [proposals[i] EXCEPT !.approvals[s] = TRUE]
<1>4. proposals' = [proposals EXCEPT ![i] = p]
  BY <1>1, <1>3 DEF Proposal
<1>5. /\ p \in Proposal /\ p # NoRecord
      /\ p.createdAt = proposals[i].createdAt /\ p.executableAt = proposals[i].executableAt
      /\ p.expiresAt = proposals[i].expiresAt
      /\ p.approvals[s]
      /\ \A t \in Seats : p.approvals[t] => t = s \/ proposals[i].approvals[t]
      /\ \A t \in Seats : proposals[i].approvals[t] => p.approvals[t]
  <2>1. p \in Proposal
    BY <1>3 DEF Proposal
  <2>2. p # NoRecord
    BY <2>1, NoRecordIsNone DEF NoRecordIsNone
  <2>3. proposals[i].approvals \in [Seats -> BOOLEAN]
    BY <1>3 DEF Proposal
  <2>4. p.approvals = [proposals[i].approvals EXCEPT ![s] = TRUE]
    BY <1>3 DEF Proposal
  <2>. QED
    BY <1>3, <2>1, <2>2, <2>3, <2>4 DEF Proposal
<1>6. proposals'[i] = p /\ \A j \in Proposals \ {i} : proposals'[j] = proposals[j]
  BY <1>3, <1>4
<1>7. GovernanceTypeOK'
  <2>1. mark \in Act
    BY <1>2 DEF Act
  <2>2. proposals' \in [Proposals -> Proposal \union {NoRecord}]
    BY <1>3, <1>4, <1>5
  <2>. QED
    BY <1>2, <2>1, <2>2 DEF GovernanceInv, GovernanceTypeOK
<1>8. SeatsDistinct'
  BY <1>2 DEF GovernanceInv, SeatsDistinct
<1>9. ASSUME NEW j \in Proposals, Exists(j)' PROVE WellSigned(j)'
  <2>1. CASE j = i
    <3>1. WellSigned(i)
      BY <1>2 DEF GovernanceInv
    <3>2. SignedBy(i, s, tick)'
      BY <1>1, <1>2 DEF SignedBy, HoldsSeat
    <3>3. \A t \in Seats : \A when \in Nat : SignedBy(i, t, when) =>
            [proposal |-> i, key |-> governance'.signers[t], at |-> when] \in acts'
      BY <1>2 DEF SignedBy
    <3>4. \A t \in Seats : p.approvals[t] => \E when \in Nat :
            [proposal |-> i, key |-> governance'.signers[t], at |-> when] \in acts'
      BY <1>2, <1>5, <3>1, <3>2, <3>3 DEF WellSigned, SignedBy
    <3>5. \E t \in Seats : p.approvals[t] /\
            [proposal |-> i, key |-> governance'.signers[t], at |-> p.createdAt] \in acts'
      BY <1>3, <1>5, <3>1, <3>3 DEF WellSigned, Proposal
    <3>6. /\ p.executableAt = p.createdAt + Timelock
          /\ p.expiresAt = p.createdAt + Expiry
          /\ p.createdAt <= tick' /\ governance' # NoRecord
      BY <1>2, <1>5, <3>1 DEF WellSigned
    <3>. HIDE DEF p
    <3>. QED
      BY <1>6, <2>1, <3>4, <3>5, <3>6 DEF WellSigned, SignedBy
  <2>2. CASE j # i
    <3>1. Exists(j) /\ proposals'[j] = proposals[j]
      BY <1>6, <1>9, <2>2 DEF Exists
    <3>2. proposals[j].createdAt \in Nat
      BY <1>3, <3>1 DEF Exists, Proposal
    <3>. QED
      BY <1>2, <3>1, <3>2, OthersStaySigned DEF GovernanceInv
  <2>. QED  BY <2>1, <2>2
<1>10. ASSUME NEW act \in acts' PROVE InLife(act)'
  <2>1. p.createdAt <= tick
    BY <1>2, <1>5 DEF GovernanceInv, WellSigned
  <2>2. CASE act = mark
    <3>1. act.proposal = i /\ act.at = tick
      BY <2>2
    <3>2. p.createdAt \in Nat
      BY <1>5 DEF Proposal
    <3>. HIDE DEF p
    <3>. QED
      BY <1>2, <1>5, <1>6, <2>1, <3>1, <3>2 DEF InLife, Exists
  <2>3. CASE act \in acts
    <3>1. act.proposal \in Proposals /\ InLife(act)
      BY <1>3, <2>3 DEF GovernanceInv, Act
    <3>2. CASE act.proposal = i
      BY <1>5, <1>6, <3>1, <3>2 DEF InLife, Exists
    <3>3. CASE act.proposal # i
      BY <1>6, <3>1, <3>3 DEF InLife, Exists
    <3>. QED  BY <3>2, <3>3
  <2>. QED  BY <1>2, <1>10, <2>2, <2>3
<1>. QED
  BY <1>7, <1>8, <1>9, <1>10 DEF GovernanceInv

(* A step that leaves seats, signatures and proposal times alone. *)
LEMMA QuietStepKeepsSigned ==
  ASSUME GovernanceInv, GovernanceTypeOK', acts' = acts, governance # NoRecord,
         governance' # NoRecord, governance'.signers = governance.signers,
         tick <= tick', proposals' = proposals
  PROVE  GovernanceInv'
<1>1. SeatsDistinct'
  BY DEF GovernanceInv, SeatsDistinct
<1>2. ASSUME NEW j \in Proposals, Exists(j)' PROVE WellSigned(j)'
  <2>1. Exists(j) /\ proposals[j] \in Proposal /\ tick \in Nat /\ tick' \in Nat
    BY <1>2 DEF GovernanceInv, GovernanceTypeOK, Exists
  <2>2. proposals[j].createdAt \in Nat
    BY <2>1 DEF Proposal
  <2>. QED
    BY <2>1, <2>2, OthersStaySigned DEF GovernanceInv
<1>3. ASSUME NEW act \in acts' PROVE InLife(act)'
  BY <1>3 DEF GovernanceInv, InLife, Exists
<1>. QED
  BY <1>1, <1>2, <1>3 DEF GovernanceInv

(* Executing touches no approval (execute_proposal). *)
LEMMA ExecuteKeepsInv ==
  ASSUME GovernanceInv, NEW i \in Proposals, ExecuteProposal(i)
  PROVE  GovernanceInv'
<1>. DEFINE p == [proposals[i] EXCEPT !.executed = TRUE]
            g == [governance EXCEPT !.executed = @ + 1]
<1>1. /\ governance # NoRecord /\ Exists(i) /\ UNCHANGED <<tick, acts>>
      /\ governance' = g /\ governance \in GovernanceRecord
      /\ proposals \in [Proposals -> Proposal \union {NoRecord}]
      /\ proposals[i] \in Proposal /\ tick \in Nat /\ acts \subseteq Act
  BY DEF ExecuteProposal, Exists, GovernanceInv, GovernanceTypeOK
<1>2. proposals' = [proposals EXCEPT ![i] = p]
  BY <1>1 DEF ExecuteProposal, Proposal
<1>3. /\ p \in Proposal /\ p # NoRecord
      /\ p.createdAt = proposals[i].createdAt /\ p.executableAt = proposals[i].executableAt
      /\ p.expiresAt = proposals[i].expiresAt /\ p.approvals = proposals[i].approvals
      /\ p.createdAt \in Nat
  <2>1. p \in Proposal
    BY <1>1 DEF Proposal
  <2>2. p # NoRecord
    BY <2>1, NoRecordIsNone DEF NoRecordIsNone
  <2>. QED
    BY <1>1, <2>1, <2>2 DEF Proposal
<1>4. g \in GovernanceRecord /\ g # NoRecord /\ g.signers = governance.signers
  <2>1. g \in GovernanceRecord
    BY <1>1 DEF GovernanceRecord
  <2>2. g # NoRecord
    BY <2>1, NoRecordIsNone DEF NoRecordIsNone
  <2>. QED
    BY <1>1, <2>1, <2>2 DEF GovernanceRecord
<1>5. proposals'[i] = p /\ \A j \in Proposals \ {i} : proposals'[j] = proposals[j]
  BY <1>1, <1>2
<1>6. GovernanceTypeOK'
  BY <1>1, <1>2, <1>3, <1>4 DEF GovernanceInv, GovernanceTypeOK
<1>. HIDE DEF p, g
<1>7. SeatsDistinct'
  BY <1>1, <1>4 DEF GovernanceInv, SeatsDistinct
<1>8. ASSUME NEW j \in Proposals, Exists(j)' PROVE WellSigned(j)'
  <2>1. CASE j = i
    <3>1. WellSigned(i)
      BY <1>1 DEF GovernanceInv
    <3>. QED
      BY <1>1, <1>3, <1>4, <1>5, <2>1, <3>1 DEF WellSigned, SignedBy
  <2>2. CASE j # i
    <3>1. Exists(j) /\ proposals'[j] = proposals[j]
      BY <1>5, <1>8, <2>2 DEF Exists
    <3>2. proposals[j].createdAt \in Nat
      BY <1>1, <3>1 DEF Exists, Proposal
    <3>. QED
      BY <1>1, <1>4, <3>1, <3>2, OthersStaySigned DEF GovernanceInv
  <2>. QED  BY <2>1, <2>2
<1>9. ASSUME NEW act \in acts' PROVE InLife(act)'
  <2>1. act.proposal \in Proposals /\ InLife(act)
    BY <1>1, <1>9 DEF GovernanceInv, Act
  <2>. QED
    BY <1>3, <1>5, <2>1 DEF InLife, Exists
<1>. QED
  BY <1>6, <1>7, <1>8, <1>9 DEF GovernanceInv

(* Pausing leaves the signers (emergency_pause). *)
LEMMA PauseKeepsInv ==
  ASSUME GovernanceInv, NEW key \in Keys, EmergencyPause(key)
  PROVE  GovernanceInv'
<1>. DEFINE g == [governance EXCEPT !.paused = TRUE]
<1>1. /\ governance # NoRecord /\ UNCHANGED <<proposals, tick, acts>>
      /\ governance' = g /\ governance \in GovernanceRecord /\ tick \in Nat
  BY DEF EmergencyPause, IsSigner, GovernanceInv, GovernanceTypeOK
<1>2. g \in GovernanceRecord /\ g.signers = governance.signers
  BY <1>1 DEF GovernanceRecord
<1>3. governance' # NoRecord
  BY <1>1, <1>2, NoRecordIsNone DEF NoRecordIsNone
<1>4. GovernanceTypeOK'
  BY <1>1, <1>2 DEF GovernanceInv, GovernanceTypeOK
<1>. QED
  BY <1>1, <1>2, <1>3, <1>4, QuietStepKeepsSigned

(* Resuming leaves the signers (emergency_unpause). *)
LEMMA UnpauseKeepsInv ==
  ASSUME GovernanceInv, NEW first \in Keys, NEW second \in Keys,
         EmergencyUnpause(first, second)
  PROVE  GovernanceInv'
<1>. DEFINE g == [governance EXCEPT !.paused = FALSE]
<1>1. /\ governance # NoRecord /\ UNCHANGED <<proposals, tick, acts>>
      /\ governance' = g /\ governance \in GovernanceRecord /\ tick \in Nat
  BY DEF EmergencyUnpause, IsSigner, GovernanceInv, GovernanceTypeOK
<1>2. g \in GovernanceRecord /\ g.signers = governance.signers
  BY <1>1 DEF GovernanceRecord
<1>3. governance' # NoRecord
  BY <1>1, <1>2, NoRecordIsNone DEF NoRecordIsNone
<1>4. GovernanceTypeOK'
  BY <1>1, <1>2 DEF GovernanceInv, GovernanceTypeOK
<1>. QED
  BY <1>1, <1>2, <1>3, <1>4, QuietStepKeepsSigned

(* Later, every creation time is still past. *)
LEMMA TickKeepsInv == GovernanceInv /\ AdvanceTick => GovernanceInv'
<1>. SUFFICES ASSUME GovernanceInv, AdvanceTick PROVE GovernanceInv'
  OBVIOUS
<1>1. /\ UNCHANGED <<governance, proposals, acts>> /\ tick' = tick + 1
      /\ tick \in Nat /\ tick' \in 0 .. LastTick
  BY GovernanceAssumption DEF AdvanceTick, GovernanceInv, GovernanceTypeOK
<1>2. GovernanceTypeOK'
  BY <1>1 DEF GovernanceInv, GovernanceTypeOK
<1>3. CASE governance # NoRecord
  BY <1>1, <1>2, <1>3, QuietStepKeepsSigned
<1>4. CASE governance = NoRecord
  <2>1. \A j \in Proposals : ~Exists(j)
    BY <1>4 DEF GovernanceInv, WellSigned
  <2>2. \A j \in Proposals : ~Exists(j)'
    BY <1>1, <2>1 DEF Exists
  <2>3. acts' = {}
    BY <1>1, <2>1 DEF GovernanceInv, InLife, GovernanceTypeOK, Act
  <2>. QED
    BY <1>1, <1>2, <1>4, <2>2, <2>3 DEF GovernanceInv, SeatsDistinct
<1>. QED  BY <1>3, <1>4

(* The invariant is inductive: one case per instruction. *)
LEMMA GovernanceStep == GovernanceInv /\ [GovernanceNext]_govVars => GovernanceInv'
<1>. SUFFICES ASSUME GovernanceInv, [GovernanceNext]_govVars PROVE GovernanceInv'
  OBVIOUS
<1>1. ASSUME NEW signers \in [Seats -> Keys \union {DefaultKey}],
             InitializeGovernance(signers)
      PROVE GovernanceInv'
  BY <1>1, SetUpKeepsInv
<1>2. ASSUME NEW i \in Proposals, NEW key \in Keys, ProposeParameterChange(i, key)
      PROVE GovernanceInv'
  BY <1>2, ProposeKeepsInv
<1>3. ASSUME NEW i \in Proposals, NEW key \in Keys, ApproveProposal(i, key)
      PROVE GovernanceInv'
  BY <1>3, ApproveKeepsInv
<1>4. ASSUME NEW i \in Proposals, ExecuteProposal(i) PROVE GovernanceInv'
  BY <1>4, ExecuteKeepsInv
<1>5. ASSUME NEW key \in Keys, EmergencyPause(key) PROVE GovernanceInv'
  BY <1>5, PauseKeepsInv
<1>6. ASSUME NEW first \in Keys, NEW second \in Keys, EmergencyUnpause(first, second)
      PROVE GovernanceInv'
  BY <1>6, UnpauseKeepsInv
<1>7. CASE AdvanceTick
  BY <1>7, TickKeepsInv
<1>8. CASE UNCHANGED govVars
  BY <1>8 DEF govVars, GovernanceInv, GovernanceTypeOK, SeatsDistinct, WellSigned,
              SignedBy, InLife, Exists
<1>. QED
  BY <1>1, <1>2, <1>3, <1>4, <1>5, <1>6, <1>7, <1>8 DEF GovernanceNext

(* The invariant holds in every reachable state of the program. *)
THEOREM GovernanceInvariant == GovernanceSpec => []GovernanceInv
  BY GovernanceStarts, GovernanceStep, PTL DEF GovernanceSpec

(* The singleton, the proposal accounts and the clock keep their types. *)
THEOREM GovernanceTypeCorrect == GovernanceSpec => []GovernanceTypeOK
<1>1. GovernanceInv => GovernanceTypeOK
  BY DEF GovernanceInv
<1>. QED
  BY <1>1, GovernanceInvariant, PTL

(* Two approvals are two seats, and each seat's key has signed. *)
LEMMA TwoSigned ==
  ASSUME GovernanceInv, NEW i \in Proposals, Exists(i),
         ApprovalCount(proposals[i]) >= ApprovalThreshold
  PROVE  \E s, t \in Seats, when \in Nat :
           s # t /\ SignedBy(i, s, proposals[i].createdAt) /\ SignedBy(i, t, when)
<1>1. WellSigned(i)
  BY DEF GovernanceInv
<1>2. PICK s \in Seats : proposals[i].approvals[s]
                          /\ SignedBy(i, s, proposals[i].createdAt)
  BY <1>1 DEF WellSigned
<1>3. \E t \in Seats : t # s /\ proposals[i].approvals[t]
  BY DEF ApprovalCount, Approved, ApprovalThreshold, Seats
<1>4. PICK t \in Seats : t # s /\ proposals[i].approvals[t]
  BY <1>3
<1>5. PICK when \in Nat : SignedBy(i, t, when)
  BY <1>1, <1>4 DEF WellSigned
<1>. QED
  BY <1>2, <1>4, <1>5

(* A seat's key is found by signer_index. *)
LEMMA SeatHolderSigns ==
  ASSUME GovernanceInv, governance # NoRecord, NEW s \in Seats
  PROVE  IsSigner(governance.signers[s])
  BY DEF GovernanceInv, SeatsDistinct, IsSigner, HoldsSeat, Seats

(* What execute_proposal's guards mean for the signatures behind it. *)
LEMMA ExecutionIsOpen ==
  ASSUME GovernanceInv, NEW i \in Proposals, ExecuteProposal(i)
  PROVE  OpenlyEnacted(i)
<1>1. /\ Exists(i) /\ governance # NoRecord /\ tick >= proposals[i].executableAt
      /\ tick < proposals[i].expiresAt
      /\ ApprovalCount(proposals[i]) >= ApprovalThreshold
  BY DEF ExecuteProposal, Executable
<1>2. /\ proposals[i] \in Proposal /\ tick \in Nat /\ acts \subseteq Act
      /\ WellSigned(i)
  BY <1>1 DEF GovernanceInv, GovernanceTypeOK, Exists
<1>3. PICK s \in Seats, t \in Seats, when \in Nat :
        s # t /\ SignedBy(i, s, proposals[i].createdAt) /\ SignedBy(i, t, when)
  BY <1>1, TwoSigned
<1>. DEFINE a == [proposal |-> i, key |-> governance.signers[s],
                  at |-> proposals[i].createdAt]
            b == [proposal |-> i, key |-> governance.signers[t], at |-> when]
<1>4. /\ a \in acts /\ b \in acts /\ a.proposal = i /\ b.proposal = i
      /\ a.key = governance.signers[s] /\ b.key = governance.signers[t]
      /\ a.at = proposals[i].createdAt
  BY <1>3 DEF SignedBy
<1>. HIDE DEF a, b
<1>5. a.key # b.key
  BY <1>1, <1>3, <1>4 DEF GovernanceInv, SeatsDistinct
<1>6. IsSigner(a.key) /\ IsSigner(b.key)
  BY <1>1, <1>4, SeatHolderSigns
<1>7. a.at + Timelock <= tick
  BY <1>1, <1>2, <1>4 DEF WellSigned
<1>8. ASSUME NEW c \in acts, c.proposal = i PROVE tick < c.at + Expiry
  <2>1. InLife(c) /\ c.at \in Nat /\ proposals[i].createdAt \in Nat
    BY <1>2 DEF GovernanceInv, Act, Proposal
  <2>. QED
    BY <1>1, <1>2, <1>8, <2>1, GovernanceAssumption DEF InLife, WellSigned
<1>. QED
  BY <1>4, <1>5, <1>6, <1>7, <1>8 DEF OpenlyEnacted

(* Only execution marks a proposal executed, and what is executed is kept. *)
LEMMA OnlyExecutionEnacts ==
  ASSUME GovernanceInv, [GovernanceNext]_govVars, NEW i \in Proposals, Exists(i),
         ~ExecuteProposal(i)
  PROVE  /\ proposals'[i].executed = proposals[i].executed
         /\ proposals[i].executed => proposals'[i] = proposals[i]
<1>1. /\ proposals \in [Proposals -> Proposal \union {NoRecord}]
      /\ proposals[i] \in Proposal
  BY DEF GovernanceInv, GovernanceTypeOK, Exists
<1>2. CASE proposals' = proposals
  BY <1>2
<1>3. ASSUME NEW j \in Proposals, NEW key \in Keys, ProposeParameterChange(j, key)
      PROVE proposals'[i] = proposals[i]
  BY <1>1, <1>3 DEF ProposeParameterChange
<1>4. ASSUME NEW j \in Proposals, NEW key \in Keys, ApproveProposal(j, key)
      PROVE /\ proposals'[i].executed = proposals[i].executed
            /\ proposals[i].executed => proposals'[i] = proposals[i]
  <2>1. PICK s \in Seats : /\ Approvable(proposals[j], s)
                           /\ proposals' = [proposals EXCEPT ![j].approvals[s] = TRUE]
    BY <1>4 DEF ApproveProposal
  <2>2. CASE i = j
    <3>1. proposals'[i] = [proposals[i] EXCEPT !.approvals[s] = TRUE]
      BY <1>1, <2>1, <2>2
    <3>. QED
      BY <1>1, <2>1, <2>2, <3>1 DEF Approvable, Proposal
  <2>3. CASE i # j
    BY <1>1, <2>1, <2>3
  <2>. QED  BY <2>2, <2>3
<1>5. ASSUME NEW j \in Proposals, ExecuteProposal(j)
      PROVE proposals'[i] = proposals[i]
  BY <1>1, <1>5 DEF ExecuteProposal
<1>. QED
  BY <1>2, <1>3, <1>4, <1>5
     DEF GovernanceNext, govVars, InitializeGovernance, EmergencyPause,
         EmergencyUnpause, AdvanceTick

(* Whatever is enacted was signed by two different signers, the first of   *)
(* them a timelock ago, and no signature is past its expiry.               *)
THEOREM EnactmentIsOpen == GovernanceSpec => EnactedInTheOpen
<1>1. ASSUME GovernanceInv, [GovernanceNext]_govVars
      PROVE \A i \in Proposals : OpenlyEnacted(i)
  <2>. TAKE i \in Proposals
  <2>1. CASE ExecuteProposal(i)
    BY <1>1, <2>1, ExecutionIsOpen
  <2>2. CASE ~ExecuteProposal(i)
    BY <1>1, <2>2, OnlyExecutionEnacts DEF OpenlyEnacted
  <2>. QED  BY <2>1, <2>2
<1>. QED
  BY <1>1, GovernanceInvariant, PTL DEF GovernanceSpec, EnactedInTheOpen

(* An enacted proposal never changes again, nor does the signer set. *)
THEOREM EnactmentIsFinal == GovernanceSpec => EnactedIsFrozen
<1>1. ASSUME GovernanceInv, [GovernanceNext]_govVars
      PROVE /\ \A i \in Proposals : StaysEnacted(i)
            /\ governance # NoRecord => governance'.signers = governance.signers
  <2>1. ASSUME NEW i \in Proposals PROVE StaysEnacted(i)
    <3>1. CASE ExecuteProposal(i)
      BY <3>1 DEF ExecuteProposal, Executable, StaysEnacted
    <3>2. CASE ~ExecuteProposal(i)
      BY <1>1, <3>2, OnlyExecutionEnacts DEF StaysEnacted
    <3>. QED  BY <3>1, <3>2
  <2>2. ASSUME governance # NoRecord
        PROVE  governance'.signers = governance.signers
    <3>1. governance \in GovernanceRecord
      BY <1>1, <2>2 DEF GovernanceInv, GovernanceTypeOK
    <3>. QED
      BY <1>1, <2>2, <3>1
         DEF GovernanceRecord, GovernanceNext, govVars, InitializeGovernance,
             ProposeParameterChange, ApproveProposal, ExecuteProposal, EmergencyPause,
             EmergencyUnpause, AdvanceTick
  <2>. QED  BY <2>1, <2>2
<1>. QED
  BY <1>1, GovernanceInvariant, PTL DEF GovernanceSpec, EnactedIsFrozen

(***************************************************************************)
(* The auditors' counter.  It needs the executed proposals to be a finite  *)
(* set, which grows by one exactly when ExecuteProposal fires.             *)
(***************************************************************************)
Enacted == {i \in Proposals : Exists(i) /\ proposals[i].executed}

(* An account stays initialised, and a new proposal is not yet executed. *)
LEMMA AccountsAppearUnexecuted ==
  ASSUME GovernanceInv, [GovernanceNext]_govVars, NEW i \in Proposals,
         \A j \in Proposals : ~ExecuteProposal(j)
  PROVE  /\ Exists(i) => Exists(i)'
         /\ ~Exists(i) /\ Exists(i)' => ~proposals'[i].executed
<1>1. proposals \in [Proposals -> Proposal \union {NoRecord}]
  BY DEF GovernanceInv, GovernanceTypeOK
<1>2. CASE proposals' = proposals
  BY <1>2 DEF Exists
<1>3. ASSUME NEW j \in Proposals, NEW key \in Keys, ProposeParameterChange(j, key)
      PROVE /\ Exists(i) => Exists(i)'
            /\ ~Exists(i) /\ Exists(i)' => ~proposals'[i].executed
  <2>1. CASE i = j
    BY <1>1, <1>3, <2>1 DEF ProposeParameterChange
  <2>2. CASE i # j
    BY <1>1, <1>3, <2>2 DEF ProposeParameterChange, Exists
  <2>. QED  BY <2>1, <2>2
<1>4. ASSUME NEW j \in Proposals, NEW key \in Keys, ApproveProposal(j, key)
      PROVE /\ Exists(i) => Exists(i)'
            /\ ~Exists(i) /\ Exists(i)' => ~proposals'[i].executed
  <2>1. PICK s \in Seats : proposals' = [proposals EXCEPT ![j].approvals[s] = TRUE]
    BY <1>4 DEF ApproveProposal
  <2>2. CASE i # j
    BY <1>1, <2>1, <2>2 DEF Exists
  <2>3. CASE i = j
    <3>1. Exists(i) /\ proposals[i] \in Proposal
      BY <1>1, <1>4, <2>3 DEF ApproveProposal, Exists
    <3>2. proposals'[i] \in Proposal
      <4>1. proposals'[i] = [proposals[i] EXCEPT !.approvals[s] = TRUE]
        BY <1>1, <2>1, <2>3
      <4>. QED
        BY <3>1, <4>1 DEF Proposal
    <3>. QED
      BY <3>1, <3>2, NoRecordIsNone DEF NoRecordIsNone, Exists
  <2>. QED  BY <2>2, <2>3
<1>. QED
  BY <1>2, <1>3, <1>4
     DEF GovernanceNext, govVars, InitializeGovernance, EmergencyPause,
         EmergencyUnpause, AdvanceTick

(* Each step changes counter and executed set together, or neither. *)
LEMMA CountingStep ==
  ASSUME GovernanceInv, ExecutionsCounted, [GovernanceNext]_govVars
  PROVE  ExecutionsCounted'
<1>. SUFFICES ASSUME governance' # NoRecord
              PROVE  governance'.executed = Cardinality(Enacted')
  BY DEF ExecutionsCounted, Enacted, Exists
<1>1. governance # NoRecord => governance.executed = Cardinality(Enacted)
  BY DEF ExecutionsCounted, Enacted
<1>2. /\ proposals \in [Proposals -> Proposal \union {NoRecord}]
      /\ governance # NoRecord => governance \in GovernanceRecord
  BY DEF GovernanceInv, GovernanceTypeOK
<1>3. ASSUME NEW i \in Proposals, ExecuteProposal(i)
      PROVE  governance'.executed = Cardinality(Enacted')
  <2>1. /\ governance # NoRecord /\ Exists(i) /\ ~proposals[i].executed
        /\ proposals' = [proposals EXCEPT ![i].executed = TRUE]
        /\ governance' = [governance EXCEPT !.executed = @ + 1]
    BY <1>3 DEF ExecuteProposal, Executable
  <2>2. proposals[i] \in Proposal
    BY <1>2, <2>1 DEF Exists
  <2>3. /\ proposals'[i] = [proposals[i] EXCEPT !.executed = TRUE]
        /\ \A j \in Proposals \ {i} : proposals'[j] = proposals[j]
    BY <1>2, <2>1
  <2>4. proposals'[i].executed /\ proposals'[i] # NoRecord
    <3>1. proposals'[i] \in Proposal /\ proposals'[i].executed
      BY <2>2, <2>3 DEF Proposal
    <3>. QED
      BY <3>1, NoRecordIsNone DEF NoRecordIsNone
  <2>5. Enacted' = Enacted \union {i} /\ i \notin Enacted
    BY <2>1, <2>3, <2>4 DEF Enacted, Exists
  <2>6. IsFiniteSet(Enacted)
    BY GovernanceAssumption, FS_Subset DEF Enacted
  <2>7. Cardinality(Enacted') = Cardinality(Enacted) + 1
    BY <2>5, <2>6, FS_AddElement
  <2>. QED
    BY <1>1, <1>2, <2>1, <2>7 DEF GovernanceRecord
<1>4. CASE \A i \in Proposals : ~ExecuteProposal(i)
  <2>1. Enacted' = Enacted
    <3>1. ASSUME NEW i \in Proposals, Exists(i)
          PROVE  Exists(i)' /\ proposals'[i].executed = proposals[i].executed
      BY <1>4, <3>1, AccountsAppearUnexecuted, OnlyExecutionEnacts
    <3>2. ASSUME NEW i \in Proposals, ~Exists(i), Exists(i)'
          PROVE  ~proposals'[i].executed
      BY <1>4, <3>2, AccountsAppearUnexecuted
    <3>. QED
      BY <3>1, <3>2 DEF Enacted
  <2>2. CASE governance # NoRecord
    <3>1. governance'.executed = governance.executed
      BY <1>2, <1>4, <2>2
         DEF GovernanceRecord, GovernanceNext, govVars, InitializeGovernance,
             ProposeParameterChange, ApproveProposal, EmergencyPause,
             EmergencyUnpause, AdvanceTick
    <3>. QED
      BY <1>1, <2>1, <2>2, <3>1
  <2>3. CASE governance = NoRecord
    <3>1. governance'.executed = 0
      BY <2>3 DEF GovernanceNext, govVars, InitializeGovernance,
             ProposeParameterChange, ApproveProposal, ExecuteProposal,
             EmergencyPause, EmergencyUnpause, IsSigner, AdvanceTick
    <3>2. Enacted = {}
      BY <2>3 DEF GovernanceInv, WellSigned, Enacted
    <3>. QED
      BY <2>1, <3>1, <3>2, FS_EmptySet
  <2>. QED  BY <2>2, <2>3
<1>. QED
  BY <1>3, <1>4

(* The counter is the number of proposals enacted, each once. *)
THEOREM CounterIsExact == GovernanceSpec => []ExecutionsCounted
<1>1. GovernanceInit => ExecutionsCounted
  BY DEF GovernanceInit, ExecutionsCounted
<1>2. ExecutionsCounted /\ GovernanceInv /\ [GovernanceNext]_govVars
        => ExecutionsCounted'
  BY CountingStep
<1>. QED
  BY <1>1, <1>2, GovernanceInvariant, PTL DEF GovernanceSpec
=============================================================================
