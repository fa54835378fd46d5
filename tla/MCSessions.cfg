\* Two accounts that approve, lock with and without a fee, and send deploys again.
SPECIFICATION SessionSpec
CONSTANTS
  a1 = a1
  a2 = a2
  t1 = t1
  self = self
  other = other
  NoHash = NoHash
  Accounts = {a1, a2}
  Tokens = {t1}
  Self = self
  PackageHashes = {self, other}
  U64 = 64
  Supply = 6
  MaxTime = 1
  MaxLocks = 2
  CliffAmounts = {3}
  Durations = {0}
  Gaps = {1}
  Counts = {2}
  NewReleases = {1}
  MinFee = 3
  Purse = 4
  Fees = {2, 3}
  Approvals = {3}
SYMMETRY AccountSymmetry
INVARIANTS
  NothingIsLost
PROPERTIES
  FeeBuysLock
