-------------------------- MODULE LiquidationEngine -------------------------
(***************************************************************************)
(* The liquidation_engine program, which reads prices through the oracle   *)
(* program's validation and computes what may be seized.  It moves nothing *)
(* and stores no verdict: a successful instruction emits an event, and     *)
(* `event` is a history variable holding the last one with the inputs it   *)
(* was computed from.                                                      *)
(***************************************************************************)
EXTENDS PriceOracle

CONSTANTS
  Oracles,      \* accounts a deployment may record as the engine's oracle
  OraclePda,    \* the address of the oracle configuration
  Positions,    \* position snapshots callers supply
  Missed,       \* missed installments callers report
  Penalties,    \* penalties callers pass, in basis points
  PartialCaps   \* caps callers pass, in basis points of the collateral

Position ==
  [debt : U64, collateral : U64, collateralDecimals : Nat, loanDecimals : Nat,
   maxLtv : Nat, partialLtv : Nat, fullLtv : Nat]

ASSUME EngineAssumption ==
  /\ Positions \subseteq Position
  /\ Missed \subseteq U64 /\ Penalties \subseteq Nat /\ PartialCaps \subseteq Nat
  /\ BpsDenominator <= MaxU64

VARIABLES
  engine,   \* the Engine singleton
  event     \* the last event emitted

engineVars == <<engine, event, oracleVars>>

Engine == [governance : Wallets, oracle : Oracles, paused : BOOLEAN]

ASSUME NoAccountIsNoEngine == NoAccount \notin Engine

Nothing == [kind |-> "none"]

Event ==
  [kind : {"evaluated", "partial", "full"}, at : Nat, update : Update,
   position : Positions, owed : U64, maxPartial : Nat, terminal : BOOLEAN,
   outcome : [seized : U64, surplus : U64, shortfall : U64]]

LiquidationTypeOK ==
  /\ OracleTypeOK
  /\ engine \in Engine \union {NoAccount}
  /\ event \in Event \union {Nothing}

EngineInit == OracleInit /\ engine = NoAccount /\ event = Nothing

InitializeEngine(governance, oracleKey) ==
  /\ engine = NoAccount
  /\ engine' = [governance |-> governance, oracle |-> oracleKey, paused |-> FALSE]
  /\ UNCHANGED <<event, oracleVars>>

SetEnginePaused(signer, paused) ==
  /\ engine # NoAccount /\ engine.governance = signer
  /\ engine' = [engine EXCEPT !.paused = paused]
  /\ UNCHANGED <<event, oracleVars>>

MaxDecimals == 18

PositionValid(p) ==
  /\ ThresholdsValid(p)
  /\ p.collateralDecimals <= MaxDecimals /\ p.loanDecimals <= MaxDecimals

(* What the collateral of position p is worth by update u, and the LTV.    *)
Value(u, p) ==
  CollateralValue(p.collateral, p.collateralDecimals, PriceOf(u), p.loanDecimals)

Ltv(u, p) == CurrentLtv(p.debt, Value(u, p))

(* Common to the three instructions: the engine runs, the configured       *)
(* oracle accepts the update, the snapshot is well-formed, it has a value. *)
Priced(u, p) ==
  /\ engine # NoAccount /\ ~engine.paused
  /\ engine.oracle = OraclePda
  /\ u \in updates /\ Usable(u)
  /\ PositionValid(p)
  /\ Value(u, p) <= MaxU64

Emit(kind, u, p, owed, maxPartial, terminal, outcome) ==
  /\ event' = [kind |-> kind, at |-> clock, update |-> u, position |-> p,
               owed |-> owed, maxPartial |-> maxPartial, terminal |-> terminal,
               outcome |-> outcome]
  /\ UNCHANGED <<engine, oracleVars>>

Evaluate(u, p) ==
  /\ Priced(u, p)
  /\ Emit("evaluated", u, p, 0, 0, FALSE, Outcome(0, 0, 0))

ExecutePartial(u, p, missed, penalty, maxPartial) ==
  /\ Priced(u, p)
  /\ missed > 0
  /\ PartlyLiquidatable(Ltv(u, p), p)
  /\ ~FullyLiquidatable(Ltv(u, p), p)
  /\ PartialOk(missed, penalty, p.collateral, Value(u, p), maxPartial)
  /\ LET seize == PartialAmount(missed, penalty, p.collateral, Value(u, p), maxPartial)
     IN  /\ seize > 0
         /\ Emit("partial", u, p, Owed(missed, penalty), maxPartial, FALSE,
                 Outcome(seize, p.collateral - seize, 0))

ExecuteFull(u, p, terminal) ==
  /\ Priced(u, p)
  /\ FullyLiquidatable(Ltv(u, p), p) \/ terminal
  /\ LET outcome == FullLiquidation(p.debt, p.collateral, Value(u, p))
     IN  /\ outcome.seized + outcome.surplus = p.collateral
         /\ Emit("full", u, p, p.debt, BpsDenominator, terminal, outcome)

EngineNext ==
  \/ OracleNext /\ UNCHANGED <<engine, event>>
  \/ \E g \in Governors, o \in Oracles : InitializeEngine(g, o)
  \/ \E g \in Wallets, b \in BOOLEAN : SetEnginePaused(g, b)
  \/ \E u \in updates, p \in Positions : Evaluate(u, p)
  \/ \E u \in updates, p \in Positions, m \in Missed, n \in Penalties, c \in PartialCaps :
       ExecutePartial(u, p, m, n, c)
  \/ \E u \in updates, p \in Positions, t \in BOOLEAN : ExecuteFull(u, p, t)

EngineSpec == EngineInit /\ [][EngineNext]_engineVars

(***************************************************************************)
(* Properties.                                                             *)
(***************************************************************************)
Authorised == event.kind \in {"partial", "full"}

(* Whatever governance did to the window and the bound in between, every   *)
(* verdict rested on a fully verified, positive BTC price published at     *)
(* most MaxStaleness before it, whose confidence band was under the hard   *)
(* ceiling (read_price and the range checks of the oracle's setters).      *)
VerdictsAreTrusted ==
  event # Nothing =>
    LET u == event.update
    IN  /\ u.btc /\ u.full /\ u.price > 0
        /\ event.at - u.publishTime <= MaxStaleness
        /\ u.conf * BpsDenominator < (MaxConfigurableConfidence + 1) * u.price

(* A full liquidation divides the collateral between lender and borrower   *)
(* with nothing left over: either the lender's share covers the debt, by   *)
(* less than one atom too much, or the lender gets everything and the      *)
(* shortfall is exact; worthless collateral stays with the borrower.       *)
FullSettles ==
  event.kind = "full" =>
    LET p == event.position
        v == Value(event.update, p)
        o == event.outcome
    IN  /\ o.seized + o.surplus = p.collateral
        /\ \/ /\ v > p.debt /\ o.shortfall = 0
              /\ o.seized * v >= p.debt * p.collateral
              /\ o.seized > 0 => (o.seized - 1) * v < p.debt * p.collateral
           \/ /\ v <= p.debt /\ o.shortfall = p.debt - v
              /\ IF v = 0 THEN o.seized = 0 ELSE o.surplus = 0

(* A partial liquidation takes the installment and its penalty, by less    *)
(* than one atom too much, unless its cap stops it short; with a cap the   *)
(* asset registry would accept it leaves the borrower a position.          *)
PartialIsBounded ==
  event.kind = "partial" =>
    LET p == event.position
        v == Value(event.update, p)
        o == event.outcome
        capped == p.collateral * event.maxPartial   \* in basis points
    IN  /\ o.seized * BpsDenominator <= capped /\ o.seized <= p.collateral
        /\ (o.seized - 1) * v < event.owed * p.collateral
        /\ \/ o.seized * v >= event.owed * p.collateral
           \/ (o.seized + 1) * BpsDenominator > capped
           \/ o.seized = p.collateral
        /\ 2 * event.maxPartial <= BpsDenominator => o.surplus > 0

(* What a liquidation takes is exact to the atom: a full one settles, a    *)
(* partial one keeps to what is owed and to its cap.                       *)
SeizureIsExact == FullSettles /\ PartialIsBounded

(* Nothing is seized from a position that is healthy by exact arithmetic:  *)
(* without a terminal default the debt is more than the threshold's share  *)
(* of the value, less one basis point of rounding; and what is taken       *)
(* piecemeal is below the full threshold exactly.                          *)
OnlyUnhealthySeized ==
  Authorised /\ ~event.terminal =>
    LET p == event.position
        v == Value(event.update, p)
        threshold == IF event.kind = "full" THEN p.fullLtv ELSE p.partialLtv
    IN  /\ p.debt * BpsDenominator > (threshold - 1) * v
        /\ event.kind = "partial" => p.debt * BpsDenominator <= (p.fullLtv - 1) * v

(* At any usable price, collateral of the required size opens a position   *)
(* within its maximum loan-to-value, and so short of every liquidation     *)
(* threshold at that price, for mints with no fewer decimals in collateral *)
(* and price than in the loan currency.                                    *)
OpensWithinMaxLtv ==
  \A u \in updates, p \in Positions :
    LET required == RequiredCollateral(p.debt, p.maxLtv, p.collateralDecimals,
                                       PriceOf(u), p.loanDecimals)
        opened == [p EXCEPT !.collateral = required]
    IN  /\ Usable(u) /\ PositionValid(p)
        /\ p.collateralDecimals - u.exponent >= p.loanDecimals
        /\ required <= MaxU64
        => /\ Ltv(u, opened) <= p.maxLtv
           /\ ~PartlyLiquidatable(Ltv(u, opened), p)

(* A falling price never makes a position look healthier: a verdict that   *)
(* allows a liquidation stands at every lower price.                       *)
FallingPriceNeverHelps ==
  \A u, w \in updates, p \in Positions :
    /\ Usable(u) /\ Usable(w) /\ PositionValid(p)
    /\ u.exponent = w.exponent /\ w.price <= u.price
    => /\ PartlyLiquidatable(Ltv(u, p), p) => PartlyLiquidatable(Ltv(w, p), p)
       /\ FullyLiquidatable(Ltv(u, p), p) => FullyLiquidatable(Ltv(w, p), p)

(* Truncating the value, rounding the ratio up and rounding the required   *)
(* collateral up, each in its own place, never works against the lender.   *)
RoundsForTheLender == OpensWithinMaxLtv /\ FallingPriceNeverHelps
=============================================================================
