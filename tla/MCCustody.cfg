SPECIFICATION CustodySpec
CONSTANTS
  gov = gov
  keeper = keeper
  pda = pda
  other = other
  d1 = d1
  d2 = d2
  tbtc = tbtc
  tether = tether
  wei = wei
  feed = feed
  r1 = r1
  r2 = r2
  f1 = f1
  f2 = f2
  Parts = {"escrow_vault", "liquidation_engine", "asset_whitelist", "feed"}
  Refreshes = {r1, r2}
  Fetches = {f1, f2}
  Ttl = 2
  StaleAfter = 0
  MaxWait = 1
  MaxTime = 3
  None = None
  Listable = {tbtc, tether, wei}
  DecimalsOf <- MCDecimals
  OracleFeeds = {feed}
  RiskChoices <- MCRisks
  Deals = {d1, d2}
  Wallets = {gov, keeper}
  Programs = {keeper}
  DepositAmounts = {0, 1, 2}
  InitialBtc = 3
  Default = Default
  NoAccount = NoAccount
  MaxU64 = 20000
  AllowedDurations = {6}
  Governors = {gov}
  Observations <- MCObservations
  Thresholds = {0, 1, 2, 3}
  ConfBounds = {0, 1000, 1001}
  MinStaleness = 1
  MaxStaleness = 2
  MaxUpdates = 2
  MaxClock = 3
  Oracles = {pda, other}
  OraclePda = pda
  Positions <- MCPositions
  Missed = {0, 9}
  Penalties = {500}
  PartialCaps = {0, 2500, 5000}
SYMMETRY Interchangeable
INVARIANTS VaultBacked CollateralAccounted VerdictsAreTrusted SeizureIsExact OnlyUnhealthySeized RoundsForTheLender ListedIsEngineReady OneFetch
PROPERTY ShownInTime
CHECK_DEADLOCK FALSE
