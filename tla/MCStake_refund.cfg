\* A pool that stakes one token and pays another, stopped by its owner.
SPECIFICATION Spec
CONSTANTS
  a1 = a1
  a2 = a2
  t1 = t1
  t2 = t2
  self = self
  NoHash = NoHash
  Accounts = {a1, a2}
  Tokens = {t1, t2}
  Self = self
  PackageHashes = {self}
  Unit = 4
  Precisions <- OnePrecision
  Scale <- UnitScale
  U64 = 64
  MaxU256 = 1000000
  Supply = 6
  MaxTime = 3
  MaxPools = 1
  MaxRoundings = 2
  MaxTaken = 3
  StartDelays = {0}
  Lengths = {2}
  Rewards = {4}
  Amounts = {1, 2}
  SaveAmounts = {}
SYMMETRY AccountSymmetry
INVARIANTS
  StakesAreThere
