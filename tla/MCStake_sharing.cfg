\* Two pools of the same token, whose stakers draw on the same balance and share rewards.
SPECIFICATION Spec
CONSTANTS
  a1 = a1
  a2 = a2
  t1 = t1
  self = self
  NoHash = NoHash
  Accounts = {a1, a2}
  Tokens = {t1}
  Self = self
  PackageHashes = {self}
  Unit = 27720
  Precisions <- OnePrecision
  Scale <- UnitScale
  U64 = 64
  MaxU256 = 700000
  Supply = 45
  MaxTime = 2
  MaxPools = 2
  MaxRoundings = 2
  MaxTaken = 3
  StartDelays = {0}
  Lengths = {2}
  Rewards = {25}
  Amounts = {20}
  SaveAmounts = {}
SYMMETRY AccountSymmetry
INVARIANTS
  TotalStakedIsSum
  Solvency
  StakeIsWithdrawable
  StakeIsRecoverable
  EntriesReadBack
PROPERTIES
  SharingKept
