SPECIFICATION BrowserSpec
CONSTANTS
  d1 = d1
  d2 = d2
  alice = alice
  bob = bob
  user = user
  user1 = user1
  name = name
  t1 = t1
  t2 = t2
  usdc = usdc
  tbtc = tbtc
  Deals = {d1, d2}
  Wallets = {alice, bob}
  Tabs = {t1, t2}
  Default = Default
  NoAccount = NoAccount
  Mints = {usdc, tbtc}
  NoMint = NoMint
  MaxU64 = 127
  AllowedDurations = {6}
  Operators = {}
  TermSheets <- MCTermSheets
  Drafts <- MCDrafts
  Absent = Absent
  Handles = {user, user1, name}
  DefaultsOf <- MCDefaults
  Typed = {user}
  Answers = {"accepted"}
  MaxMessages = 2
  ListCap = 1
  StoreCap = 2
SYMMETRY Interchangeable
INVARIANTS HandlesAgree ListedWasProposed
PROPERTIES SettledIsKept DroppedOnlyWhenFull OnePressOneDeal
CHECK_DEADLOCK FALSE
