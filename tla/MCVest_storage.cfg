\* Three locks of two releases in a contract that may be given a wrong package hash.
SPECIFICATION Spec
CONSTANTS
  a1 = a1
  a2 = a2
  t1 = t1
  self = self
  other = other
  NoHash = NoHash
  Accounts = {a1, a2}
  Tokens = {t1}
  Self = self
  PackageHashes = {self, other}
  U64 = 64
  Supply = 2
  MaxTime = 1
  MaxLocks = 3
  CliffAmounts = {2}
  Durations = {0}
  Gaps = {1}
  Counts = {2}
  NewReleases = {1}
SYMMETRY AccountSymmetry
PROPERTIES
  StorageKept
  FinishedForGood
