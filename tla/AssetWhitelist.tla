--------------------------- MODULE AssetWhitelist ---------------------------
(***************************************************************************)
(* The asset_whitelist program: which mints are collateral or loan         *)
(* currency and under which risk parameters.  One record per mint; only    *)
(* governance writes, and no instruction removes a record.                 *)
(***************************************************************************)
EXTENDS RiskMath

CONSTANTS
  Listable,      \* mints that exist
  DecimalsOf,    \* their decimals, fixed when a mint is created
  OracleFeeds,   \* price feeds governance may name
  RiskChoices    \* risk parameters governance may ask for

RiskParameters ==
  [maxLtv : Nat, partialLtv : Nat, fullLtv : Nat, penalty : Nat, maxPartial : Nat]

ASSUME WhitelistAssumption ==
  /\ DecimalsOf \in [Listable -> Nat]
  /\ Default \notin OracleFeeds
  /\ RiskChoices \subseteq RiskParameters

VARIABLES
  assetRegistry,   \* the AssetRegistry singleton
  assets           \* the AssetRecord of each mint

assetVars == <<assetRegistry, assets>>

AssetCategory == {"Collateral", "LoanCurrency"}

AssetRecord ==
  [category : AssetCategory, feed : OracleFeeds \union {Default},
   risk : RiskChoices, decimals : Nat, active : BOOLEAN]

AssetRegistry == [governance : Wallets, count : Nat]

ASSUME NoAccountIsNoAsset ==
  NoAccount \notin AssetRecord \union AssetRegistry

IsListed(m) == assets[m] # NoAccount

WhitelistTypeOK ==
  /\ assetRegistry \in AssetRegistry \union {NoAccount}
  /\ assets \in [Listable -> AssetRecord \union {NoAccount}]

BtcDecimals == 8

MaxPartialLiquidation == 5000

RiskAllowedMutant(risk) ==
  /\ ThresholdsValid(risk)
  /\ risk.penalty <= BpsDenominator
  /\ risk.maxPartial > 0

RiskAllowed(risk) ==
  /\ ThresholdsValid(risk)
  /\ risk.penalty <= BpsDenominator
  /\ risk.maxPartial > 0 /\ risk.maxPartial <= MaxPartialLiquidation

PolicyAllows(category, feed, risk, decimals) ==
  /\ RiskAllowed(risk)
  /\ IF category = "Collateral"
     THEN feed # Default /\ decimals = BtcDecimals
     ELSE feed = Default

(* Only the recorded governance key may write, once there is a registry.   *)
Governs(signer) == assetRegistry # NoAccount /\ signer = assetRegistry.governance

WhitelistInit ==
  /\ assetRegistry = NoAccount
  /\ assets = [m \in Listable |-> NoAccount]

InitializeAssetRegistry(governance) ==
  /\ assetRegistry = NoAccount
  /\ assetRegistry' = [governance |-> governance, count |-> 0]
  /\ UNCHANGED assets

AddAssetType(m, signer, category, feed, risk) ==
  /\ Governs(signer)
  /\ ~IsListed(m)
  /\ PolicyAllows(category, feed, risk, DecimalsOf[m])
  /\ assets' = [assets EXCEPT ![m] =
       [category |-> category, feed |-> feed, risk |-> risk,
        decimals |-> DecimalsOf[m], active |-> TRUE]]
  /\ assetRegistry' = [assetRegistry EXCEPT !.count = @ + 1]

(* Category and decimals stay; what is written is judged under them.       *)
UpdateAssetType(m, signer, feed, risk) ==
  /\ Governs(signer)
  /\ IsListed(m)
  /\ PolicyAllows(assets[m].category, feed, risk, assets[m].decimals)
  /\ assets' = [assets EXCEPT ![m].feed = feed, ![m].risk = risk]
  /\ UNCHANGED assetRegistry

SetActive(m, signer, active) ==
  /\ Governs(signer)
  /\ IsListed(m) /\ assets[m].active # active
  /\ assets' = [assets EXCEPT ![m].active = active]
  /\ UNCHANGED assetRegistry

DeactivateAssetType(m, signer) == SetActive(m, signer, FALSE)

ReactivateAssetType(m, signer) == SetActive(m, signer, TRUE)

WhitelistNext ==
  \/ \E g \in Wallets : InitializeAssetRegistry(g)
  \/ \E m \in Listable, g \in Wallets, c \in AssetCategory,
        f \in OracleFeeds \union {Default}, r \in RiskChoices :
       AddAssetType(m, g, c, f, r)
  \/ \E m \in Listable, g \in Wallets, f \in OracleFeeds \union {Default},
        r \in RiskChoices : UpdateAssetType(m, g, f, r)
  \/ \E m \in Listable, g \in Wallets :
       DeactivateAssetType(m, g) \/ ReactivateAssetType(m, g)

WhitelistSpec == WhitelistInit /\ [][WhitelistNext]_assetVars

(***************************************************************************)
(* Properties.                                                             *)
(***************************************************************************)
ListedAs(category) == {m \in Listable : IsListed(m) /\ assets[m].category = category}

(* Whatever updates, deactivations and reactivations came before, the      *)
(* record of every collateral mint is one the liquidation engine can work  *)
(* with: its thresholds are ordered under the ceiling, its feed and the    *)
(* decimals its parameters were chosen for are those of the mint, and one  *)
(* partial liquidation under its cap leaves the borrower at least half of  *)
(* the collateral, whatever the amount.                                    *)
ListedIsEngineReady ==
  \A m \in ListedAs("Collateral") :
    LET asset == assets[m]
    IN  /\ ThresholdsValid(asset.risk)
        /\ asset.feed # Default
        /\ asset.decimals = BtcDecimals /\ DecimalsOf[m] = BtcDecimals
        /\ \A collateral \in U64 :
             2 * PartialCap(collateral, asset.risk.maxPartial) <= collateral
=============================================================================
