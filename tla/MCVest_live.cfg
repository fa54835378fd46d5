\* Claims that keep being sent while the contract is paused and locks change hands.
SPECIFICATION FairSpec
CONSTANTS
  a1 = a1
  a2 = a2
  t1 = t1
  self = self
  other = other
  NoHash = NoHash
  Accounts = {a1, a2}
  Tokens = {t1}
  Self = self
  PackageHashes = {self}
  U64 = 64
  Supply = 5
  MaxTime = 2
  MaxLocks = 2
  CliffAmounts = {4}
  Durations = {1}
  Gaps = {1}
  Counts = {2}
  NewReleases = {2}
PROPERTIES
  DueIsPaid
