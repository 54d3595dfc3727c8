---------------------------- MODULE PriceOracle -----------------------------
(***************************************************************************)
(* The price_oracle program: which Pyth updates the protocol will act on.  *)
(* Updates live in accounts of the Pyth receiver; a caller presents any    *)
(* one that was ever published, so an old account stays presentable and    *)
(* only read_price decides whether it still counts.                        *)
(***************************************************************************)
EXTENDS RiskMath, FiniteSets

CONSTANTS
  Governors,        \* keys a deployment may choose to govern
  Observations,     \* what Pyth may publish: price, exponent, conf, full, btc
  Thresholds,       \* staleness windows governance may ask for
  ConfBounds,       \* confidence bounds governance may ask for
  MinStaleness,     \* MIN_STALENESS_SECONDS, in clock ticks
  MaxStaleness,     \* MAX_STALENESS_SECONDS, in clock ticks
  MaxUpdates,       \* bound on published updates
  MaxClock          \* bound on the clock

ASSUME OracleAssumption ==
  /\ Governors \subseteq Wallets
  /\ \A o \in Observations :
       /\ o.price \in Int /\ o.exponent \in Int /\ o.conf \in Nat
       /\ o.full \in BOOLEAN /\ o.btc \in BOOLEAN
  /\ Thresholds \subseteq Nat /\ ConfBounds \subseteq Nat
  /\ MinStaleness \in Nat /\ MaxStaleness \in Nat
  /\ MaxUpdates \in Nat /\ MaxClock \in Nat

VARIABLES
  oracle,    \* the OracleConfig singleton
  updates,   \* PriceUpdateV2 accounts
  clock      \* Clock::get()?.unix_timestamp

oracleVars == <<oracle, updates, clock>>

MaxConfigurableConfidence == 1000
MaxPriceExpo == 18

OracleConfig ==
  [governance : Wallets, staleness : Nat, maxConf : Nat, paused : BOOLEAN]

Update ==
  [price : Int, exponent : Int, conf : Nat, full : BOOLEAN, btc : BOOLEAN,
   publishTime : Nat]

ASSUME NoAccountIsNoOracle == NoAccount \notin OracleConfig

OracleTypeOK ==
  /\ oracle \in OracleConfig \union {NoAccount}
  /\ updates \subseteq Update
  /\ clock \in Nat

OracleInit ==
  /\ oracle = NoAccount
  /\ updates = {}
  /\ clock = 0

StalenessAllowedMutant(s) == s >= MinStaleness

StalenessAllowed(s) == s \in MinStaleness .. MaxStaleness

ConfBoundAllowed(b) == b > 0 /\ b <= MaxConfigurableConfidence

InitializeOracle(governance, staleness, maxConf) ==
  /\ oracle = NoAccount
  /\ StalenessAllowed(staleness)
  /\ ConfBoundAllowed(maxConf)
  /\ oracle' = [governance |-> governance, staleness |-> staleness,
                maxConf |-> maxConf, paused |-> FALSE]
  /\ UNCHANGED <<updates, clock>>

(* UpdateOracle's accounts: the configured governance key signs. *)
GovernsOracle(signer) == oracle # NoAccount /\ oracle.governance = signer

SetStalenessThreshold(signer, staleness) ==
  /\ GovernsOracle(signer)
  /\ StalenessAllowed(staleness)
  /\ oracle' = [oracle EXCEPT !.staleness = staleness]
  /\ UNCHANGED <<updates, clock>>

SetConfidenceBound(signer, maxConf) ==
  /\ GovernsOracle(signer)
  /\ ConfBoundAllowed(maxConf)
  /\ oracle' = [oracle EXCEPT !.maxConf = maxConf]
  /\ UNCHANGED <<updates, clock>>

SetOraclePaused(signer, paused) ==
  /\ GovernsOracle(signer)
  /\ oracle' = [oracle EXCEPT !.paused = paused]
  /\ UNCHANGED <<updates, clock>>

(* Pyth, external: an update carries its publish time for good. *)
Publish(o) ==
  LET u == [price |-> o.price, exponent |-> o.exponent, conf |-> o.conf,
            full |-> o.full, btc |-> o.btc, publishTime |-> clock]
  IN  /\ Cardinality(updates) < MaxUpdates
      /\ updates' = updates \union {u}
      /\ UNCHANGED <<oracle, clock>>

AdvanceOracleClock ==
  /\ clock < MaxClock
  /\ clock' = clock + 1
  /\ UNCHANGED <<oracle, updates>>

(* read_price succeeds.  The first three conditions are those of the SDK   *)
(* call: the right feed, young enough, full verification.                  *)
Usable(u) ==
  /\ oracle # NoAccount
  /\ ~oracle.paused
  /\ u.btc
  /\ u.publishTime + oracle.staleness >= clock
  /\ u.full
  /\ u.price > 0
  /\ u.exponent <= 0 /\ -u.exponent <= MaxPriceExpo
  /\ (u.conf * BpsDenominator) \div u.price <= oracle.maxConf

PriceOf(u) == [mantissa |-> u.price, decimals |-> -u.exponent]

OracleNext ==
  \/ \E g \in Governors, s \in Thresholds, c \in ConfBounds : InitializeOracle(g, s, c)
  \/ \E g \in Wallets, s \in Thresholds : SetStalenessThreshold(g, s)
  \/ \E g \in Wallets, c \in ConfBounds : SetConfidenceBound(g, c)
  \/ \E g \in Wallets, b \in BOOLEAN : SetOraclePaused(g, b)
  \/ \E o \in Observations : Publish(o)
  \/ AdvanceOracleClock
=============================================================================
