\* The deployment scripts, the reading screens and the waitlist.
SPECIFICATION ServicesSpec
CONSTANTS
  Parts = {"deployment", "balances", "deal_page", "waitlist"}
  registry = registry
  treasury = treasury
  tBTC = tBTC
  USDC = USDC
  email = email
  EMAIL = EMAIL
  TopUp = topup
  Configs <- MCConfigs
  Registry = registry
  Assets <- MCAssets
  Mints = {m1, m2, m3, m4}
  Attempts = 2
  Checkouts = 1
  Faults = 3
  Nothing = Nothing
  Owners = {alice, bob}
  Nobody = Nobody
  Slots = {s1, s2}
  MaxTransfers = 1
  MaxOutages = 1
  Accounts = {deal, loan}
  Loads = {l1, l2}
  MaxUpdates = 2
  MaxRefusals = 2
  Written = {email, EMAIL}
  Lowered <- MCLowered
  g1 = g1
  g2 = g2
  lend = lend
  both = both
  Guests = {g1, g2}
  Offers <- MCOffers
  RoleTypes = {both}
  Posts = {p1, p2}
  NoPost = NoPost
  Unfilled = Unfilled
  MaxFailures = 1
INVARIANTS OneListing ToldIsListed
PROPERTIES DeploymentCompletes ScreensSettle
CHECK_DEADLOCK FALSE
