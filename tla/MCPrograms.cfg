SPECIFICATION ProgramsSpec
CONSTANTS
  d1 = d1
  d2 = d2
  alice = alice
  bob = bob
  carol = carol
  usdc = usdc
  tbtc = tbtc
  ana = ana
  ben = ben
  cyd = cyd
  dan = dan
  p1 = p1
  p2 = p2
  Deals = {d1, d2}
  Wallets = {alice, bob, carol}
  Default = Default
  NoAccount = NoAccount
  Mints = {usdc, tbtc}
  NoMint = NoMint
  Treasury = Treasury
  MaxU64 = 127
  AllowedDurations = {6}
  Operators = {bob, carol}
  TermSheets <- MCTermSheets
  Authorities = {bob}
  Principals = {0, 100, 125}
  Rates = {0, 1000}
  Fees = {2, 255}
  SecondsPerMonth = 1
  GracePeriod = 1
  InitialCash = 110
  MaxTime = 8
  Keys = {ana, ben, cyd, dan}
  DefaultKey = DefaultKey
  NoRecord = NoRecord
  Proposals = {p1, p2}
  Timelock = 2
  Expiry = 4
  LastTick = 5
  FeeRates = {200, 500, 600}
  Volumes = {19, 100}
  MaxVolume = 200
  Forms <- MCForms
  Shorts <- MCShorts
  NaN = NaN
  Empty = Empty
  Garbage = Garbage
SYMMETRY Interchangeable
INVARIANTS PaidIsScheduled DefaultedIsOverdue LenderIsOutPrincipal MutualConsent TotalWithinCap ArgumentsArrive ShownIsStored
PROPERTIES LoanOnlyProgresses EnactedInTheOpen
CHECK_DEADLOCK FALSE
