\* Two tokens: a pool may pay one token to the stakers of another, may start
\* later than it is added and end before that, and an admin may take tokens with
\* save_me.
SPECIFICATION Spec
CONSTANTS
  a1 = a1
  a2 = a2
  t1 = t1
  t2 = t2
  self = self
  NoHash = NoHash
  Accounts = {a1, a2}
  Tokens = {t1, t2}
  Self = self
  PackageHashes = {self}
  Unit = 4
  Precisions <- OnePrecision
  Scale <- UnitScale
  U64 = 64
  MaxU256 = 1000000
  Supply = 4
  MaxTime = 3
  MaxPools = 1
  MaxRoundings = 2
  MaxTaken = 3
  StartDelays = {0, 1}
  Lengths <- AnyLengths
  Rewards = {4}
  Amounts = {2}
  SaveAmounts = {3}
SYMMETRY AccountSymmetry
INVARIANTS
  DebtCovered
  Solvency
  CommitmentsCovered
  StakeIsWithdrawable
PROPERTIES
  EarnedIsKept
  EndedPoolIsOver
