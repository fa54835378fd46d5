\* Two accounts, one token, two locks of one to two releases.
SPECIFICATION Spec
CONSTANTS
  a1 = a1
  a2 = a2
  t1 = t1
  self = self
  other = other
  NoHash = NoHash
  Accounts = {a1, a2}
  Tokens = {t1}
  Self = self
  PackageHashes = {self}
  U64 = 64
  Supply = 5
  MaxTime = 2
  MaxLocks = 2
  CliffAmounts = {1, 5}
  Durations = {0, 1}
  Gaps = {1}
  Counts = {1, 2}
  NewReleases = {1, 2}
SYMMETRY AccountSymmetry
INVARIANTS
  TypeOK
  IdsMatchLocks
  Custody
  DueIsClaimable
PROPERTIES
  EscrowKept
