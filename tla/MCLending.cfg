SPECIFICATION LendingSpec
CONSTANTS
  d1 = d1
  alice = alice
  bob = bob
  oscar = oscar
  usdc = usdc
  tbtc = tbtc
  k1 = k1
  k2 = k2
  c1 = c1
  Deals = {d1}
  Wallets = {alice, bob, oscar}
  Default = Default
  NoAccount = NoAccount
  Mints = {usdc, tbtc}
  NoMint = NoMint
  Treasury = Treasury
  Operator = oscar
  MaxU64 = 127
  AllowedDurations = {2}
  Authorities = {oscar}
  Operators = {oscar}
  Programs = {oscar}
  Principals = {100}
  Rates = {0}
  Fees = {2}
  SecondsPerMonth = 1
  GracePeriod = 1
  InitialCash = 110
  MaxTime = 3
  DepositAmounts <- U64
  InitialBtc = 4
  TermSheets <- MCTermSheets
  Ticks = {k1, k2}
  Consoles = {c1}
  MaxLate = 1
CONSTRAINTS OneKind OneOverlap
SYMMETRY Interchangeable
INVARIANTS FundingIsBacked LoanMatchesDeal ReleasedOnlyWhenRepaid CompletedIsRepaid
PROPERTY KeepsPromise
CHECK_DEADLOCK FALSE
