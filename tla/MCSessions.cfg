SPECIFICATION SessionSpec
CONSTANTS
  Nothing = Nothing
  Wallets = {w1, w2}
  Challenges = {c1}
  Tokens = {k1}
  DealIds = {d1}
  Links = {l1}
  Tabs = {t1}
  Visitors = {v1}
  Callers = {t1, v1}
  Handlers = {h1, h2}
  PhpHandlers = {h2}
  Listings = {g1}
  ProposalIds = {p1}
  MaxRetries = 1
SYMMETRY Interchangeable
INVARIANTS ActsAreProved AuthenticatedIsOwner
PROPERTY ClaimSticks
CHECK_DEADLOCK FALSE
