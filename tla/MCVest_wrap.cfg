\* Release times near the end of u64.
SPECIFICATION Spec
CONSTANTS
  a1 = a1
  a2 = a2
  t1 = t1
  self = self
  other = other
  NoHash = NoHash
  Accounts = {a1, a2}
  Tokens = {t1}
  Self = self
  PackageHashes = {self}
  U64 = 3
  Supply = 5
  MaxTime = 2
  MaxLocks = 2
  CliffAmounts = {2}
  Durations = {0, 2}
  Gaps = {1}
  Counts = {1, 2}
  NewReleases = {1, 2}
SYMMETRY AccountSymmetry
PROPERTIES
  CliffComesFirst
