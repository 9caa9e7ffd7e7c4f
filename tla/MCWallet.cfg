CONSTANTS
  Users = {u1, u2}
  Runs = {r1, r2}
  Recharges = {p1}
  Codes = {c1, c2}
  Amounts = {1, 2}
  MaxUnits = 3
  Batches = {b1}
  Fingerprints <- MCFingerprints
  Platforms = {web, app}
  Admins = {a1, a2}
  Attempts = {t1, t2}
  FailureLimit = 1
  MaxFaults = 1
  Books <- MCBooks
  Multipliers = {2, 3}
  MultiplierScale = 2
  Windows = {12}
  MaxOutput = 5
  Requests = {3, 5}
  Radix = 4
  Overruns = {1}
  MaxAttempts = 2
  MaxPrice = 60
  PlanRequests <- MCPlans
  Findings <- MCFindings
  MergeLimit = 4
  HistoryPage = 2
  PolicyTokens = 1
  SeparatorTokens = 1
SPECIFICATION MCSpec
SYMMETRY Symmetry
INVARIANTS
  WalletSolvent
  HoldTotalMatches
  ReplayValidates
  RedeemedOnce
  BillFitsHold
  PlanFits
  ToldOnce
PROPERTIES
  ImplementsEscrow
CHECK_DEADLOCK FALSE
