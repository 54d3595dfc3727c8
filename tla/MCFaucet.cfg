\* One wallet funded from the page or the dialog of a tab.
SPECIFICATION Spec
CONSTANTS
  Callers = {tab}
  Handlers = {h1, h2}
  MaxRetries = 1
  Nothing = Nothing
  Wallets = {w}
INVARIANTS ServedIsCooling AnnouncedIsConfirmed
PROPERTY ClaimEnds
