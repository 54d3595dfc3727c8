----------------------------- MODULE MCCustody ------------------------------
(***************************************************************************)
(* The programs that hold collateral, say what may be seized of it and     *)
(* which mints it may be, and the price on its way to the pages, for TLC.  *)
(* They share no account and no cache, so each is explored on its own:     *)
(* `focus` is chosen once, from the `Parts` of the run.  Callers may send  *)
(* any instruction with any signer.                                        *)
(*                                                                         *)
(* Two deals whose vaults share the wallets' tokens.  For the engine,      *)
(* collateral has one decimal, prices one, the loan currency one, so       *)
(* collateral of 10 at a price of 10 is worth 10.  For the feed, a page    *)
(* with two overlapping refreshes and room for a second fetch.             *)
(***************************************************************************)
EXTENDS LiquidationEngine, EscrowVault, AssetWhitelist, PriceFeed, TLC

CONSTANTS gov, keeper, pda, other, d1, d2, tbtc, tether, wei, feed,
          r1, r2, f1, f2, Parts

VARIABLE focus

Interchangeable ==
  Permutations(Deals) \union Permutations(Refreshes) \union Permutations(Fetches)

(* A fall from a comfortable price to a distressed one, one at which the   *)
(* collateral is worth nothing, and updates read_price must refuse.        *)
Obs(value, exponent, conf, full, btc1) ==
  [price |-> value, exponent |-> exponent, conf |-> conf, full |-> full, btc |-> btc1]

MCObservations ==
  {Obs(200, -1, 1, TRUE, TRUE), Obs(133, -1, 2, TRUE, TRUE),
   Obs(1, -1, 0, TRUE, TRUE), Obs(105, -1, 10, TRUE, TRUE), Obs(60, -1, 0, TRUE, TRUE),
   Obs(-5, -1, 0, TRUE, TRUE), Obs(200, 1, 0, TRUE, TRUE),
   Obs(200, -1, 0, FALSE, TRUE), Obs(200, -1, 0, TRUE, FALSE)}

Pos(debt, collateral, maxLtv) ==
  [debt |-> debt, collateral |-> collateral, collateralDecimals |-> 1,
   loanDecimals |-> 1, maxLtv |-> maxLtv, partialLtv |-> 7000, fullLtv |-> 8000]

(* Positions that pass through every band as the price falls, an empty one *)
(* and one whose thresholds cross.                                         *)
MCPositions ==
  {Pos(70, 7, 5000), Pos(0, 7, 5000), Pos(70, 0, 5000), Pos(47, 5, 3333),
   Pos(70, 7, 5001)}

Risk(maxLtv, partialLtv, maxPartial) ==
  [maxLtv |-> maxLtv, partialLtv |-> partialLtv, fullLtv |-> 8000,
   penalty |-> 500, maxPartial |-> maxPartial]

(* Two sheets of parameters governance may choose, and for each bound one  *)
(* that breaks it.                                                         *)
MCRisks ==
  {Risk(5000, 7000, 2000), Risk(3333, 6000, 5000), Risk(5001, 7000, 2000),
   Risk(5000, 5000, 2000), Risk(5000, 7000, 5001), Risk(5000, 7000, 0)}

(* A bitcoin token, a dollar and a mint with the wrong decimals.           *)
MCDecimals == (tbtc :> 8) @@ (tether :> 6) @@ (wei :> 18)

CustodyInit ==
  /\ focus \in Parts
  /\ VaultInit /\ EngineInit /\ WhitelistInit /\ FeedInit
  /\ focus # "feed" => host = "node"

CustodyNext ==
  /\ UNCHANGED focus
  /\ \/ /\ focus = "escrow_vault"
        /\ VaultNext /\ UNCHANGED <<engineVars, assetVars, feedVars>>
     \/ /\ focus = "liquidation_engine"
        /\ EngineNext /\ UNCHANGED <<vaultVars, assetVars, feedVars>>
     \/ /\ focus = "asset_whitelist"
        /\ WhitelistNext /\ UNCHANGED <<vaultVars, engineVars, feedVars>>
     \/ /\ focus = "feed"
        /\ FeedNext /\ UNCHANGED <<vaultVars, engineVars, assetVars>>

CustodySpec ==
  CustodyInit /\ [][CustodyNext]_<<focus, vaultVars, engineVars, assetVars, feedVars>>
=============================================================================
