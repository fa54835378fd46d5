------------------------------ MODULE StakeProofs ------------------------------
(***************************************************************************)
(* Proofs about the staking contract, for any accounts, tokens, precisions,*)
(* arguments and bounds.                                                   *)
(***************************************************************************)
EXTENDS StakeContract, DataLemmas

-----------------------------------------------------------------------------
\* The ledger

\* A payment the payer can make leaves balances that are natural numbers.
LEMMA PaymentType ==
  ASSUME NEW b \in [Tokens -> [Holders -> Nat]], NEW t \in Tokens,
         NEW p \in Holders, NEW r \in Holders, NEW n \in Nat, CanPay(b, t, p, n)
  PROVE  /\ TransferFrom(b, t, p, r, n) \in [Tokens -> [Holders -> Nat]]
         /\ Transfer(b, t, p, r, n) \in [Tokens -> [Holders -> Nat]]
BY DEF CanPay, TransferFrom, Transfer

-----------------------------------------------------------------------------
\* Arithmetic

LEMMA QuotientType ==
  ASSUME NEW n \in Nat, NEW d \in Nat \ {0}
  PROVE  n \div d \in Nat
OBVIOUS

LEMMA ProductType ==
  ASSUME NEW m \in Nat, NEW n \in Nat
  PROVE  m * n \in Nat
OBVIOUS

LEMMA Minus64Type ==
  ASSUME NEW a \in Int, NEW b \in Int
  PROVE  Minus64(a, b) \in Nat
BY NumberAssumption DEF Minus64

LEMMA ProductGrows ==
  ASSUME NEW a \in Nat, NEW m \in Nat, NEW n \in Nat, m <= n
  PROVE  a * m <= a * n
<1>1. a * (n - m) >= 0
  OBVIOUS
<1>2. a * (n - m) = a * n - a * m
  OBVIOUS
<1>3. a * m \in Nat /\ a * n \in Nat
  OBVIOUS
<1> QED BY <1>1, <1>2, <1>3

LEMMA QuotientGrows ==
  ASSUME NEW m \in Nat, NEW n \in Nat, m <= n, NEW d \in Nat \ {0}
  PROVE  m \div d <= n \div d
<1> DEFINE p == m \div d
           q == n \div d
<1>1. p \in Nat /\ q \in Nat
  OBVIOUS
<1>2. p * d <= m /\ n < (q + 1) * d
  OBVIOUS
<1> HIDE DEF p, q
<1> SUFFICES ASSUME p >= q + 1 PROVE FALSE
  BY <1>1 DEF p, q
<1>3. d * (q + 1) <= d * p
  BY <1>1, ProductGrows
<1>4. d * (q + 1) = (q + 1) * d /\ d * p = p * d
  BY <1>1
<1>5. (q + 1) * d \in Nat /\ p * d \in Nat
  BY <1>1
<1> QED BY <1>2, <1>3, <1>4, <1>5

-----------------------------------------------------------------------------
\* Types

\* Before init there are no pools; after it, the contract has a package hash.
InitOnce ==
  /\ initialized => self_contract_hash \in PackageHashes
  /\ ~initialized => index = 0

TypeInv == TypeOK /\ InitOnce

LEMMA InitHasType == Init => TypeInv
<1> SUFFICES ASSUME Init PROVE TypeInv
  OBVIOUS
<1>1. bal \in [Tokens -> [Holders -> Nat]]
  BY NumberAssumption DEF Init
<1>2. /\ DOMAIN pools = {} /\ pools \in [DOMAIN pools -> StakePool]
      /\ users \in [DOMAIN pools -> [Accounts -> UserInfo]]
  BY DEF Init
<1>3. taken \in [Tokens -> Nat] /\ roundings \in [Tokens -> Nat]
  BY DEF Init
<1>4. initialized \in BOOLEAN
  BY Zenon DEF Init
<1>5. now = 0 /\ index = 0 /\ admin \in Accounts /\ self_contract_hash = NoHash
  BY DEF Init
<1>6. InitOnce
  BY DEF Init, InitOnce
<1> QED BY <1>1, <1>2, <1>3, <1>4, <1>5, <1>6, NumberAssumption DEF TypeInv, TypeOK

\* What the actions read.
LEMMA PoolType ==
  ASSUME TypeInv, NEW id \in DOMAIN pools
  PROVE  /\ now \in Nat
         /\ pools[id] \in StakePool
         /\ \A a \in Accounts : users[id][a] \in UserInfo
         /\ initialized
         /\ self_contract_hash \in Holders
         /\ Self \in Holders /\ Accounts \subseteq Holders
<1>1. now \in Nat /\ index \in Nat
  BY NumberAssumption DEF TypeInv, TypeOK
<1>2. index # 0
  BY <1>1 DEF TypeInv, TypeOK
<1>3. initialized /\ self_contract_hash \in PackageHashes
  BY <1>2 DEF TypeInv, InitOnce
<1> QED BY <1>1, <1>3, HashAssumption DEF TypeInv, TypeOK, Holders

\* update_pool makes a pool of a pool, does not lower the reward per share, and
\* leaves alone what it does not compute.
LEMMA UpdatePoolType ==
  ASSUME now \in Nat, NEW pool \in StakePool, CanUpdate(pool)
  PROVE  /\ UpdatePool(pool) \in StakePool
         /\ UpdatePool(pool).acc_token_per_share >= pool.acc_token_per_share
         /\ UpdatePool(pool).precision = pool.precision
         /\ UpdatePool(pool).total_staked = pool.total_staked
<1>1. /\ pool.total_staked \in Nat /\ pool.total_reward \in Nat
      /\ pool.start_time \in Nat /\ pool.end_time \in Nat
      /\ pool.last_reward_timestamp \in Nat /\ pool.acc_token_per_share \in Nat
      /\ pool.precision \in Precisions
  BY DEF StakePool
<1>2. CASE Settled(pool)
  <2>1. UpdatePool(pool) = pool
    BY <1>2 DEF UpdatePool
  <2> QED BY <1>1, <2>1
<1>3. CASE ~Settled(pool) /\ Unshared(pool)
  <2>1. UpdatePool(pool)
          = [pool EXCEPT !.last_reward_timestamp = now,
                         !.acc_token_per_share = pool.acc_token_per_share]
    BY <1>3 DEF UpdatePool
  <2> DEFINE share == pool.acc_token_per_share
  <2> HIDE DEF share
  <2>2. UpdatePool(pool) = [pool EXCEPT !.last_reward_timestamp = now,
                                       !.acc_token_per_share = share]
    BY <2>1 DEF share
  <2>3. share \in Nat /\ share >= pool.acc_token_per_share
    BY <1>1 DEF share
  <2> QED BY <1>1, <2>2, <2>3 DEF StakePool
<1>4. CASE ~Settled(pool) /\ ~Unshared(pool)
  <2>1. Minus64(pool.end_time, pool.start_time) \in Nat \ {0}
    BY <1>1, <1>4, Minus64Type DEF CanUpdate, UpdateFits
  <2>2. RewardUnlocked(pool) \in Nat
    <3>1. /\ get_min(now, pool.end_time) \in Int
          /\ get_max(pool.start_time, pool.last_reward_timestamp) \in Int
      BY <1>1 DEF get_min, get_max
    <3> QED BY <3>1, Minus64Type DEF RewardUnlocked
  <2>3. RewardUnlocked(pool) * pool.total_reward \in Nat
    BY <1>1, <2>2, ProductType
  <2>4. PeriodReward(pool) \in Nat
    BY <2>1, <2>3, QuotientType DEF PeriodReward
  <2>5. Scale[pool.precision] \in Nat
    BY <1>1, NumberAssumption
  <2>6. PeriodReward(pool) * Scale[pool.precision] \in Nat
    BY <2>4, <2>5, ProductType
  <2>7. pool.total_staked \in Nat \ {0}
    BY <1>1, <1>4 DEF Unshared
  <2>8. ShareIncrease(pool) \in Nat
    BY <2>6, <2>7, QuotientType DEF ShareIncrease
  <2>9. UpdatePool(pool)
           = [pool EXCEPT !.last_reward_timestamp = now,
                          !.acc_token_per_share = pool.acc_token_per_share + ShareIncrease(pool)]
    BY <1>4 DEF UpdatePool
  <2> DEFINE share == pool.acc_token_per_share + ShareIncrease(pool)
  <2>10. share \in Nat /\ share >= pool.acc_token_per_share
    BY <1>1, <2>8
  <2> HIDE DEF share
  <2>11. UpdatePool(pool) = [pool EXCEPT !.last_reward_timestamp = now,
                                        !.acc_token_per_share = share]
    BY <2>9 DEF share
  <2> QED BY <1>1, <2>10, <2>11 DEF StakePool
<1> QED BY <1>2, <1>3, <1>4

LEMMA AccruedType ==
  ASSUME NEW pool \in StakePool, NEW n \in Nat
  PROVE  Accrued(pool, n) \in Nat
<1>1. pool.acc_token_per_share \in Nat /\ Scale[pool.precision] \in Nat \ {0}
  BY NumberAssumption DEF StakePool
<1>2. n * pool.acc_token_per_share \in Nat
  BY <1>1, ProductType
<1> QED BY <1>1, <1>2, QuotientType DEF Accrued

LEMMA StakeOfType ==
  ASSUME NEW pool \in StakePool, NEW n \in Nat
  PROVE  StakeOf(pool, n) \in UserInfo /\ StakeOf(pool, n).amount = n
BY AccruedType DEF StakeOf, UserInfo

LEMMA PendingType ==
  ASSUME NEW pool \in StakePool, NEW user \in UserInfo, NEW n, CanSettle(pool, user, n)
  PROVE  Pending(pool, user) \in Nat
<1>1. user.amount \in Nat /\ user.reward_debt \in Nat
  BY DEF UserInfo
<1>2. Accrued(pool, user.amount) \in Nat
  BY <1>1, AccruedType
<1>3. Pending(pool, user) \in Int
  BY <1>1, <1>2 DEF Pending
<1> QED BY <1>3 DEF CanSettle

\* What the operations write back.
LEMMA UpdateStorageType ==
  ASSUME TypeInv, NEW id \in DOMAIN pools, NEW c \in Accounts, NEW pool \in StakePool,
         NEW user \in UserInfo, UpdateStorage(c, id, pool, user)
  PROVE  /\ DOMAIN pools' = DOMAIN pools
         /\ pools' \in [DOMAIN pools -> StakePool]
         /\ pools'[id] = pool
         /\ \A x \in DOMAIN pools \ {id} : pools'[x] = pools[x] /\ users'[x] = users[x]
         /\ users' \in [DOMAIN pools -> [Accounts -> UserInfo]]
         /\ users'[id][c] = user
         /\ \A a \in Accounts \ {c} : users'[id][a] = users[id][a]
<1>1. /\ pools \in [DOMAIN pools -> StakePool]
      /\ users \in [DOMAIN pools -> [Accounts -> UserInfo]]
  BY DEF TypeInv, TypeOK
<1>2. pools' = [pools EXCEPT ![id] = pool] /\ users' = [users EXCEPT ![id][c] = user]
  BY DEF UpdateStorage
<1> QED BY <1>1, <1>2

LEMMA RoundedDownType ==
  ASSUME TypeInv, NEW pool \in StakePool, NEW n, RoundedDown(pool, n)
  PROVE  roundings' \in [Tokens -> Nat]
<1>1. roundings \in [Tokens -> Nat] /\ pool.reward_token \in Tokens
  BY DEF TypeInv, TypeOK, StakePool
<1>2. \/ roundings' = roundings
      \/ roundings' = [roundings EXCEPT ![pool.reward_token] = @ + 1]
  BY DEF RoundedDown
<1> QED BY <1>1, <1>2

\* The payments of deposit and withdraw.
LEMMA DepositTransfersType ==
  ASSUME TypeInv, self_contract_hash \in Holders, NEW c \in Accounts, NEW pool \in StakePool,
         NEW n \in Nat, NEW a \in Nat, DepositTransfers(c, pool, n, a)
  PROVE  bal' \in [Tokens -> [Holders -> Nat]]
<1> DEFINE s == pool.staking_token
           r == pool.reward_token
           h == self_contract_hash
<1>1. /\ bal \in [Tokens -> [Holders -> Nat]] /\ s \in Tokens /\ r \in Tokens
      /\ c \in Holders /\ Self \in Holders /\ h \in Holders
  BY HashAssumption DEF TypeInv, TypeOK, StakePool, Holders
<1>2. \/ CanPay(bal, s, c, a) /\ bal' = TransferFrom(bal, s, c, h, a)
      \/ n > a /\ CanPay(bal, s, Self, n - a) /\ bal' = Transfer(bal, s, Self, c, n - a)
      \/ n <= a /\ CanPay(bal, s, c, a - n) /\ bal' = TransferFrom(bal, s, c, h, a - n)
      \/ /\ CanPay(bal, r, Self, n) /\ CanPay(Transfer(bal, r, Self, c, n), s, c, a)
         /\ bal' = TransferFrom(Transfer(bal, r, Self, c, n), s, c, h, a)
  BY DEF DepositTransfers
<1> HIDE DEF s, r, h
<1>3. CASE CanPay(bal, s, c, a) /\ bal' = TransferFrom(bal, s, c, h, a)
  BY <1>1, <1>3, PaymentType
<1>4. CASE n > a /\ CanPay(bal, s, Self, n - a) /\ bal' = Transfer(bal, s, Self, c, n - a)
  <2>1. n - a \in Nat
    BY <1>4
  <2> QED BY <1>1, <1>4, <2>1, PaymentType
<1>5. CASE n <= a /\ CanPay(bal, s, c, a - n) /\ bal' = TransferFrom(bal, s, c, h, a - n)
  <2>1. a - n \in Nat
    BY <1>5
  <2> QED BY <1>1, <1>5, <2>1, PaymentType
<1>6. CASE /\ CanPay(bal, r, Self, n) /\ CanPay(Transfer(bal, r, Self, c, n), s, c, a)
           /\ bal' = TransferFrom(Transfer(bal, r, Self, c, n), s, c, h, a)
  <2>1. Transfer(bal, r, Self, c, n) \in [Tokens -> [Holders -> Nat]]
    BY <1>1, <1>6, PaymentType
  <2> QED BY <1>1, <1>6, <2>1, PaymentType
<1> QED BY <1>2, <1>3, <1>4, <1>5, <1>6

LEMMA WithdrawTransfersType ==
  ASSUME TypeInv, NEW c \in Accounts, NEW pool \in StakePool,
         NEW n \in Nat, NEW a \in Nat,
         CanWithdrawTransfers(c, pool, n, a), WithdrawTransfers(c, pool, n, a)
  PROVE  bal' \in [Tokens -> [Holders -> Nat]]
<1> DEFINE s == pool.staking_token
           r == pool.reward_token
<1>1. /\ bal \in [Tokens -> [Holders -> Nat]] /\ s \in Tokens /\ r \in Tokens
      /\ c \in Holders /\ Self \in Holders
  BY HashAssumption DEF TypeInv, TypeOK, StakePool, Holders
<1>2. \/ CanPay(bal, s, Self, n + a) /\ bal' = Transfer(bal, s, Self, c, n + a)
      \/ /\ CanPay(bal, r, Self, n) /\ CanPay(Transfer(bal, r, Self, c, n), s, Self, a)
         /\ bal' = Transfer(Transfer(bal, r, Self, c, n), s, Self, c, a)
  BY DEF WithdrawTransfers, CanWithdrawTransfers
<1> HIDE DEF s, r
<1>3. CASE CanPay(bal, s, Self, n + a) /\ bal' = Transfer(bal, s, Self, c, n + a)
  <2>1. n + a \in Nat
    OBVIOUS
  <2> QED BY <1>1, <1>3, <2>1, PaymentType
<1>4. CASE /\ CanPay(bal, r, Self, n) /\ CanPay(Transfer(bal, r, Self, c, n), s, Self, a)
           /\ bal' = Transfer(Transfer(bal, r, Self, c, n), s, Self, c, a)
  <2>1. Transfer(bal, r, Self, c, n) \in [Tokens -> [Holders -> Nat]]
    BY <1>1, <1>4, PaymentType
  <2> QED BY <1>1, <1>4, <2>1, PaymentType
<1> QED BY <1>2, <1>3, <1>4

-----------------------------------------------------------------------------
\* What the operations of a staker do to a pool and to the staker

\* The pool `new` and the stake `user` that `c` has in it then are a lawful
\* successor of the pool and the stake found: the shares have not shrunk, the total
\* has changed as the stake has, and no more debt is recorded than has accrued.
Restaked(id, c, new, user) ==
  LET old == pools[id]
  IN  /\ new \in StakePool /\ user \in UserInfo
      /\ new.acc_token_per_share >= old.acc_token_per_share
      /\ new.precision = old.precision
      /\ new.total_staked - old.total_staked = user.amount - users[id][c].amount
      /\ user.reward_debt <= Accrued(new, user.amount)
      /\ UpdateStorage(c, id, new, user)

LEMMA ChangedTotal ==
  ASSUME NEW pool \in StakePool, NEW n \in Nat
  PROVE  LET new == [pool EXCEPT !.total_staked = n]
         IN  /\ new \in StakePool
             /\ new.total_staked = n
             /\ new.precision = pool.precision
             /\ new.acc_token_per_share = pool.acc_token_per_share
             /\ \A a : Accrued(new, a) = Accrued(pool, a)
BY DEF StakePool, Accrued

LEMMA DepositRestakes ==
  ASSUME TypeInv, NEW c \in Accounts, NEW a \in Amounts, NEW id \in DOMAIN pools,
         Deposit(c, a, id)
  PROVE  /\ \E new, user : Restaked(id, c, new, user)
         /\ bal' \in [Tokens -> [Holders -> Nat]]
         /\ roundings' \in [Tokens -> Nat]
<1> DEFINE old == UpdatePool(pools[id])
           user == users[id][c]
           n == a + user.amount
           total == old.total_staked + a
           new == [old EXCEPT !.total_staked = total]
<1>1. a \in Nat /\ user \in UserInfo /\ user.amount \in Nat /\ n \in Nat
  BY NumberAssumption, PoolType DEF UserInfo
<1>2. /\ old \in StakePool /\ old.precision = pools[id].precision
      /\ old.acc_token_per_share >= pools[id].acc_token_per_share
      /\ old.total_staked = pools[id].total_staked
  BY PoolType, UpdatePoolType DEF Deposit
<1>3. /\ CanSettle(old, user, n)
      /\ DepositTransfers(c, old, Pending(old, user), a)
      /\ UpdateStorage(c, id, new, StakeOf(old, n))
      /\ RoundedDown(old, n)
  BY DEF Deposit
<1> HIDE DEF old
<1>4. total \in Nat /\ pools[id].total_staked \in Nat /\ total - pools[id].total_staked = a
  BY <1>1, <1>2 DEF StakePool
<1> HIDE DEF total
<1>5. /\ new \in StakePool /\ new.total_staked = total /\ new.precision = old.precision
      /\ new.acc_token_per_share = old.acc_token_per_share
      /\ Accrued(new, n) = Accrued(old, n)
  BY <1>2, <1>4, ChangedTotal
<1>6. /\ StakeOf(old, n) \in UserInfo /\ StakeOf(old, n).amount = n
      /\ StakeOf(old, n).reward_debt = Accrued(old, n) /\ Accrued(old, n) \in Nat
  BY <1>1, <1>2, StakeOfType, AccruedType DEF StakeOf
<1>7. n - user.amount = a
  BY <1>1
<1> HIDE DEF new, n
<1>8. Restaked(id, c, new, StakeOf(old, n))
  BY <1>2, <1>3, <1>4, <1>5, <1>6, <1>7 DEF Restaked
<1>9. bal' \in [Tokens -> [Holders -> Nat]]
  <2>1. Pending(old, user) \in Nat
    BY <1>1, <1>2, <1>3, PendingType
  <2> QED BY <1>1, <1>2, <1>3, <2>1, PoolType, DepositTransfersType
<1>10. roundings' \in [Tokens -> Nat]
  BY <1>2, <1>3, RoundedDownType
<1> QED BY <1>8, <1>9, <1>10

LEMMA WithdrawRestakes ==
  ASSUME TypeInv, NEW c \in Accounts, NEW a \in Amounts, NEW id \in DOMAIN pools,
         Withdraw(c, a, id)
  PROVE  /\ \E new, user : Restaked(id, c, new, user)
         /\ bal' \in [Tokens -> [Holders -> Nat]]
         /\ roundings' \in [Tokens -> Nat]
<1> DEFINE old == UpdatePool(pools[id])
           user == users[id][c]
           n == user.amount - a
           total == old.total_staked - a
           new == [old EXCEPT !.total_staked = total]
<1>1. a \in Nat /\ user \in UserInfo /\ user.amount \in Nat /\ n \in Nat
  BY NumberAssumption, PoolType DEF UserInfo, Withdraw, CanWithdraw
<1>2. /\ old \in StakePool /\ old.precision = pools[id].precision
      /\ old.acc_token_per_share >= pools[id].acc_token_per_share
      /\ old.total_staked = pools[id].total_staked
  BY PoolType, UpdatePoolType DEF Withdraw, CanWithdraw
<1>3. /\ CanSettle(old, user, n)
      /\ old.total_staked >= a
      /\ CanWithdrawTransfers(c, old, Pending(old, user), a)
      /\ WithdrawTransfers(c, old, Pending(old, user), a)
      /\ UpdateStorage(c, id, new, StakeOf(old, n))
      /\ RoundedDown(old, n)
  BY DEF Withdraw, CanWithdraw
<1> HIDE DEF old
<1>4. total \in Nat /\ pools[id].total_staked \in Nat /\ pools[id].total_staked - total = a
  BY <1>1, <1>2, <1>3 DEF StakePool
<1> HIDE DEF total
<1>5. /\ new \in StakePool /\ new.total_staked = total /\ new.precision = old.precision
      /\ new.acc_token_per_share = old.acc_token_per_share
      /\ Accrued(new, n) = Accrued(old, n)
  BY <1>2, <1>4, ChangedTotal
<1>6. /\ StakeOf(old, n) \in UserInfo /\ StakeOf(old, n).amount = n
      /\ StakeOf(old, n).reward_debt = Accrued(old, n) /\ Accrued(old, n) \in Nat
  BY <1>1, <1>2, StakeOfType, AccruedType DEF StakeOf
<1>7. user.amount - n = a
  BY <1>1
<1>8. total - pools[id].total_staked = n - user.amount
  BY <1>1, <1>4, <1>7
<1> HIDE DEF new, n
<1>9. Restaked(id, c, new, StakeOf(old, n))
  BY <1>2, <1>3, <1>5, <1>6, <1>8 DEF Restaked
<1>10. bal' \in [Tokens -> [Holders -> Nat]]
  <2>1. Pending(old, user) \in Nat
    BY <1>1, <1>2, <1>3, PendingType
  <2> QED BY <1>1, <1>2, <1>3, <2>1, WithdrawTransfersType
<1>11. roundings' \in [Tokens -> Nat]
  BY <1>2, <1>3, RoundedDownType
<1> QED BY <1>9, <1>10, <1>11

LEMMA EmergencyWithdrawRestakes ==
  ASSUME TypeInv, NEW c \in Accounts, NEW id \in DOMAIN pools, EmergencyWithdraw(c, id)
  PROVE  /\ \E new, user : Restaked(id, c, new, user)
         /\ bal' \in [Tokens -> [Holders -> Nat]]
<1> DEFINE old == pools[id]
           a == users[id][c].amount
           total == old.total_staked - a
           new == [old EXCEPT !.total_staked = total]
<1>1. a \in Nat /\ old \in StakePool /\ c \in Holders /\ Self \in Holders
  BY PoolType DEF UserInfo
<1>2. /\ old.total_staked >= a
      /\ CanPay(bal, old.staking_token, Self, a)
      /\ bal' = Transfer(bal, old.staking_token, Self, c, a)
      /\ UpdateStorage(c, id, new, NoStake)
  BY DEF EmergencyWithdraw, CanEmergencyWithdraw
<1> HIDE DEF a
<1>3. total \in Nat /\ total - old.total_staked = 0 - a
  BY <1>1, <1>2 DEF StakePool
<1> HIDE DEF total
<1>4. /\ new \in StakePool /\ new.total_staked = total /\ new.precision = old.precision
      /\ new.acc_token_per_share = old.acc_token_per_share
  BY <1>1, <1>3, ChangedTotal
<1>5. NoStake \in UserInfo /\ NoStake.amount = 0 /\ NoStake.reward_debt = 0
  BY DEF NoStake, UserInfo
<1>6. old.acc_token_per_share \in Nat
  BY <1>1 DEF StakePool
<1> HIDE DEF new
<1>7. Accrued(new, NoStake.amount) \in Nat
  BY <1>4, <1>5, AccruedType
<1>8. Restaked(id, c, new, NoStake)
  BY <1>2, <1>3, <1>4, <1>5, <1>6, <1>7 DEF Restaked, a
<1>9. bal' \in [Tokens -> [Holders -> Nat]]
  <2>1. bal \in [Tokens -> [Holders -> Nat]] /\ old.staking_token \in Tokens
    BY <1>1 DEF TypeInv, TypeOK, StakePool
  <2> QED BY <1>1, <1>2, <2>1, PaymentType
<1> QED BY <1>8, <1>9

-----------------------------------------------------------------------------
\* Every step keeps the types

LEMMA RestakedKeepsType ==
  ASSUME TypeInv, NEW id \in DOMAIN pools, NEW c \in Accounts,
         \E new, user : Restaked(id, c, new, user),
         bal' \in [Tokens -> [Holders -> Nat]], roundings' \in [Tokens -> Nat],
         UNCHANGED <<now, initialized, admin, self_contract_hash, index, taken>>
  PROVE  TypeInv'
<1>1. PICK new, user : Restaked(id, c, new, user)
  OBVIOUS
<1>2. /\ DOMAIN pools' = DOMAIN pools
      /\ pools' \in [DOMAIN pools -> StakePool]
      /\ users' \in [DOMAIN pools -> [Accounts -> UserInfo]]
  BY <1>1, UpdateStorageType DEF Restaked
<1> QED BY <1>2 DEF TypeInv, TypeOK, InitOnce

LEMMA AddPoolKeepsType ==
  ASSUME TypeInv, NEW c \in Accounts, NEW s \in Tokens, NEW r \in Tokens,
         NEW d \in StartDelays, NEW l \in Lengths, NEW p \in Precisions, NEW n \in Rewards,
         AddPool(c, s, r, now + d, now + d + l, p, n)
  PROVE  TypeInv'
<1> DEFINE pool == [last_reward_timestamp |-> 0, staking_token |-> s, reward_token |-> r,
                    start_time |-> now + d, end_time |-> now + d + l,
                    precision |-> p, owner |-> c,
                    acc_token_per_share |-> 0, total_reward |-> n, total_staked |-> 0]
           nobody == [a \in Accounts |-> NoStake]
<1>1. /\ now \in Nat /\ index \in Nat /\ n \in Nat
      /\ now + d \in Nat /\ now + d + l \in Nat
  BY NumberAssumption DEF TypeInv, TypeOK, AddPool
<1>2. pool \in StakePool
  BY <1>1 DEF StakePool
<1>3. nobody \in [Accounts -> UserInfo]
  BY DEF NoStake, UserInfo
<1>4. /\ pools' = [x \in DOMAIN pools \cup {index} |-> IF x # index THEN pools[x] ELSE pool]
      /\ users' = [x \in DOMAIN users \cup {index} |-> IF x # index THEN users[x] ELSE nobody]
  BY DEF AddPool
<1> HIDE DEF pool, nobody
<1>5. /\ pools \in [DOMAIN pools -> StakePool]
      /\ users \in [DOMAIN pools -> [Accounts -> UserInfo]]
  BY DEF TypeInv, TypeOK
<1>6. /\ pools' \in [DOMAIN pools' -> StakePool]
      /\ users' \in [DOMAIN pools' -> [Accounts -> UserInfo]]
  BY <1>2, <1>3, <1>4, <1>5
<1>7. index' = index + 1 /\ index' \in 0..MaxPools
  BY <1>1, NumberAssumption DEF AddPool
<1>8. DOMAIN pools' \subseteq 0..(index' - 1)
  <2>1. DOMAIN pools' = DOMAIN pools \cup {index} /\ DOMAIN pools \subseteq 0..(index - 1)
    BY <1>4 DEF TypeInv, TypeOK
  <2> QED BY <2>1, <1>1, <1>7
<1>9. bal' \in [Tokens -> [Holders -> Nat]]
  <2>1. c \in Holders /\ self_contract_hash \in Holders
    BY DEF AddPool, Holders, TypeInv, InitOnce
  <2>2. /\ bal \in [Tokens -> [Holders -> Nat]] /\ CanPay(bal, r, c, n)
        /\ bal' = TransferFrom(bal, r, c, self_contract_hash, n)
    BY DEF AddPool, TypeInv, TypeOK
  <2> QED BY <2>1, <2>2, <1>1, PaymentType
<1>10. UNCHANGED <<now, initialized, admin, self_contract_hash, taken, roundings>>
  BY DEF AddPool
<1>11. initialized
  BY DEF AddPool
<1> QED BY <1>6, <1>7, <1>8, <1>9, <1>10, <1>11 DEF TypeInv, TypeOK, InitOnce

\* What stop_reward leaves behind: an up-to-date pool with another end.
LEMMA StopRewardUpdates ==
  ASSUME TypeInv, NEW c \in Accounts, NEW id \in DOMAIN pools, StopReward(c, id)
  PROVE  /\ DOMAIN pools' = DOMAIN pools
         /\ pools' \in [DOMAIN pools -> StakePool]
         /\ \A x \in DOMAIN pools :
              /\ pools'[x].acc_token_per_share >= pools[x].acc_token_per_share
              /\ pools'[x].precision = pools[x].precision
              /\ pools'[x].total_staked = pools[x].total_staked
<1> DEFINE pool == UpdatePool(pools[id])
           new == [pool EXCEPT !.end_time = now]
<1>1. /\ pool \in StakePool /\ pool.precision = pools[id].precision
      /\ pool.acc_token_per_share >= pools[id].acc_token_per_share
      /\ pool.total_staked = pools[id].total_staked
  BY PoolType, UpdatePoolType DEF StopReward
<1>2. pools' = [pools EXCEPT ![id] = new]
  BY DEF StopReward
<1> HIDE DEF pool
<1>3. /\ new \in StakePool /\ new.precision = pool.precision
      /\ new.acc_token_per_share = pool.acc_token_per_share
      /\ new.total_staked = pool.total_staked
  BY <1>1, PoolType DEF StakePool
<1> HIDE DEF new
<1>4. pools \in [DOMAIN pools -> StakePool]
  BY DEF TypeInv, TypeOK
<1>5. \A x \in DOMAIN pools : pools[x].acc_token_per_share \in Nat
  BY <1>4 DEF StakePool
<1> QED BY <1>1, <1>2, <1>3, <1>4, <1>5

LEMMA StopRewardKeepsType ==
  ASSUME TypeInv, NEW c \in Accounts, NEW id \in DOMAIN pools, StopReward(c, id)
  PROVE  TypeInv'
<1> DEFINE pool == UpdatePool(pools[id])
           left == Minus64(pool.end_time, get_max(now, pool.start_time))
           refund == (left * pool.total_reward) \div Minus64(pool.end_time, pool.start_time)
           t == pool.staking_token
<1>1. pool \in StakePool /\ Minus64(pool.end_time, pool.start_time) # 0
  BY PoolType, UpdatePoolType DEF StopReward
<1>2. /\ pool.total_reward \in Nat /\ t \in Tokens
      /\ pool.end_time \in Nat /\ pool.start_time \in Nat
  BY <1>1 DEF StakePool
<1>3. left \in Nat
  <2> DEFINE last == get_max(now, pool.start_time)
  <2>1. last \in Int /\ pool.end_time \in Int
    BY <1>2, PoolType DEF get_max
  <2> HIDE DEF last
  <2>2. Minus64(pool.end_time, last) \in Nat
    BY <2>1, Minus64Type
  <2> QED BY <2>2 DEF last
<1>4. refund \in Nat
  <2>1. Minus64(pool.end_time, pool.start_time) \in Nat \ {0}
    <3>1. pool.end_time \in Int /\ pool.start_time \in Int
      BY <1>2
    <3>2. Minus64(pool.end_time, pool.start_time) \in Nat
      BY <3>1, Minus64Type
    <3> QED BY <1>1, <3>2
  <2>2. left * pool.total_reward \in Nat
    BY <1>2, <1>3, ProductType
  <2> QED BY <2>1, <2>2, QuotientType
<1>5. /\ CanPay(bal, t, Self, refund)
      /\ bal' = Transfer(bal, t, Self, c, refund)
      /\ taken' = taken \/ taken' = [taken EXCEPT ![t] = taken[t] + refund]
      /\ UNCHANGED <<now, initialized, admin, self_contract_hash, index, users, roundings>>
  BY DEF StopReward
<1> HIDE DEF refund, t
<1>6. bal \in [Tokens -> [Holders -> Nat]] /\ taken \in [Tokens -> Nat]
  BY DEF TypeInv, TypeOK
<1>7. bal' \in [Tokens -> [Holders -> Nat]]
  <2>1. c \in Holders /\ Self \in Holders
    BY PoolType
  <2> QED BY <1>2, <1>4, <1>5, <1>6, <2>1, PaymentType DEF t
<1>8. taken' \in [Tokens -> Nat]
  <2>1. t \in Tokens
    BY <1>2 DEF t
  <2> QED BY <2>1, <1>4, <1>5, <1>6
<1> QED BY <1>5, <1>7, <1>8, StopRewardUpdates DEF TypeInv, TypeOK, InitOnce

LEMMA SaveMeKeepsType ==
  ASSUME TypeInv, NEW c \in Accounts, NEW t \in Tokens, NEW n \in SaveAmounts, SaveMe(c, t, n)
  PROVE  TypeInv'
<1>1. n \in Nat /\ c \in Holders /\ Self \in Holders
  BY NumberAssumption, HashAssumption DEF Holders
<1>2. bal \in [Tokens -> [Holders -> Nat]] /\ taken \in [Tokens -> Nat]
  BY DEF TypeInv, TypeOK
<1>3. bal' \in [Tokens -> [Holders -> Nat]]
  BY <1>1, <1>2, PaymentType DEF SaveMe
<1>4. taken' \in [Tokens -> Nat]
  BY <1>1, <1>2 DEF SaveMe
<1> QED BY <1>3, <1>4 DEF SaveMe, TypeInv, TypeOK, InitOnce

\* init, set_admin and the passing of time.
LEMMA OthersKeepType ==
  ASSUME TypeInv,
         \/ \E h \in PackageHashes : Initialize(h)
         \/ \E c, d \in Accounts : SetAdmin(c, d)
         \/ Tick
         \/ UNCHANGED vars
  PROVE  TypeInv'
<1> USE DEF TypeInv, TypeOK, InitOnce
<1>1. ASSUME NEW h \in PackageHashes, Initialize(h) PROVE TypeInv'
  BY <1>1 DEF Initialize
<1>2. ASSUME NEW c \in Accounts, NEW d \in Accounts, SetAdmin(c, d) PROVE TypeInv'
  BY <1>2 DEF SetAdmin
<1>3. CASE Tick
  BY <1>3, NumberAssumption DEF Tick
<1>4. CASE UNCHANGED vars
  BY <1>4 DEF vars
<1> HIDE DEF TypeInv, TypeOK, InitOnce
<1> QED BY <1>1, <1>2, <1>3, <1>4

\* The steps of a staker, in one form.
LEMMA StakersRestake ==
  ASSUME TypeInv, NEW c \in Accounts, NEW id \in DOMAIN pools,
         \/ \E a \in Amounts : Deposit(c, a, id)
         \/ \E a \in Amounts : Withdraw(c, a, id)
         \/ EmergencyWithdraw(c, id)
  PROVE  /\ \E new, user : Restaked(id, c, new, user)
         /\ bal' \in [Tokens -> [Holders -> Nat]]
         /\ roundings' \in [Tokens -> Nat]
         /\ UNCHANGED <<now, initialized, admin, self_contract_hash, index, taken>>
<1>1. CASE \E a \in Amounts : Deposit(c, a, id)
  <2>1. PICK a \in Amounts : Deposit(c, a, id)
    BY <1>1
  <2>2. UNCHANGED <<now, initialized, admin, self_contract_hash, index, taken>>
    BY <2>1 DEF Deposit
  <2> QED BY <2>1, <2>2, DepositRestakes
<1>2. CASE \E a \in Amounts : Withdraw(c, a, id)
  <2>1. PICK a \in Amounts : Withdraw(c, a, id)
    BY <1>2
  <2>2. UNCHANGED <<now, initialized, admin, self_contract_hash, index, taken>>
    BY <2>1 DEF Withdraw
  <2> QED BY <2>1, <2>2, WithdrawRestakes
<1>3. CASE EmergencyWithdraw(c, id)
  <2>1. UNCHANGED <<now, initialized, admin, self_contract_hash, index, taken, roundings>>
    BY <1>3 DEF EmergencyWithdraw
  <2>2. roundings' \in [Tokens -> Nat]
    BY <2>1 DEF TypeInv, TypeOK
  <2> QED BY <1>3, <2>1, <2>2, EmergencyWithdrawRestakes
<1> QED BY <1>1, <1>2, <1>3

LEMMA TypeStep == TypeInv /\ [Next]_vars => TypeInv'
<1> SUFFICES ASSUME TypeInv, [Next]_vars PROVE TypeInv'
  OBVIOUS
<1>1. ASSUME NEW c \in Accounts, NEW s \in Tokens, NEW r \in Tokens, NEW d \in StartDelays,
             NEW l \in Lengths, NEW p \in Precisions, NEW n \in Rewards,
             AddPool(c, s, r, now + d, now + d + l, p, n)
      PROVE  TypeInv'
  BY <1>1, AddPoolKeepsType
<1>2. ASSUME NEW c \in Accounts, NEW id \in DOMAIN pools,
             \/ \E a \in Amounts : Deposit(c, a, id)
             \/ \E a \in Amounts : Withdraw(c, a, id)
             \/ EmergencyWithdraw(c, id)
      PROVE  TypeInv'
  BY <1>2, StakersRestake, RestakedKeepsType
<1>3. ASSUME NEW c \in Accounts, NEW id \in DOMAIN pools, StopReward(c, id) PROVE TypeInv'
  BY <1>3, StopRewardKeepsType
<1>4. ASSUME NEW c \in Accounts, NEW t \in Tokens, NEW a \in SaveAmounts, SaveMe(c, t, a)
      PROVE  TypeInv'
  BY <1>4, SaveMeKeepsType
<1> QED BY <1>1, <1>2, <1>3, <1>4, OthersKeepType DEF Next

\* The staking contract's pools and stakes always have the types its code reads
\* them with, and no balance, stake or total falls below zero: the subtractions of
\* the operations that succeed are the ones the code's guards allow.
THEOREM StakeTypeCorrect == Spec => []TypeOK
<1>1. TypeInv => TypeOK
  BY DEF TypeInv
<1> QED BY <1>1, InitHasType, TypeStep, PTL DEF Spec

-----------------------------------------------------------------------------
\* The total is the sum of the stakes

LEMMA StakesType ==
  ASSUME TypeInv, NEW id \in DOMAIN pools
  PROVE  /\ Stakes(id) \in [Accounts -> Nat]
         /\ \A a \in Accounts : Stakes(id)[a] = users[id][a].amount
BY PoolType DEF Stakes, UserInfo

\* A staker's step changes the total as it changes the sum.
LEMMA RestakedKeepsTotal ==
  ASSUME TypeInv, TypeInv', TotalStakedIsSum, NEW id \in DOMAIN pools, NEW c \in Accounts,
         NEW new, NEW user, Restaked(id, c, new, user)
  PROVE  TotalStakedIsSum'
<1>1. /\ DOMAIN pools' = DOMAIN pools
      /\ pools'[id] = new
      /\ \A x \in DOMAIN pools \ {id} : pools'[x] = pools[x] /\ users'[x] = users[x]
      /\ users'[id][c] = user
      /\ \A a \in Accounts \ {c} : users'[id][a] = users[id][a]
  BY UpdateStorageType DEF Restaked
<1>2. ASSUME NEW x \in DOMAIN pools \ {id}
      PROVE  pools'[x].total_staked = SumFunctionOnSet(Stakes(x)', Accounts)
  <2>1. pools[x].total_staked = SumFunctionOnSet(Stakes(x), Accounts)
    BY DEF TotalStakedIsSum
  <2>2. pools'[x] = pools[x] /\ Stakes(x)' = Stakes(x)
    BY <1>1 DEF Stakes
  <2> QED BY <2>1, <2>2
<1>3. new.total_staked = SumFunctionOnSet(Stakes(id)', Accounts)
  <2> DEFINE f == Stakes(id)
             g == Stakes(id)'
             F == SumFunctionOnSet(f, Accounts)
             G == SumFunctionOnSet(g, Accounts)
  <2>1. f \in [Accounts -> Nat] /\ f[c] = users[id][c].amount
    BY StakesType
  <2>2. \A a \in Accounts : g[a] = users'[id][a].amount
    BY DEF Stakes
  <2>3. g[c] = user.amount /\ user.amount \in Nat
    BY <1>1, <2>2 DEF Restaked, UserInfo
  <2>4. \A a \in Accounts \ {c} : f[a] = g[a]
    BY <1>1, <2>2, StakesType
  <2>5. IsFiniteSet(Accounts)
    BY HashAssumption
  <2>6. pools[id].total_staked = F /\ pools[id].total_staked \in Nat
    BY PoolType DEF TotalStakedIsSum, StakePool
  <2>7. new.total_staked \in Nat /\ new.total_staked - F = user.amount - f[c]
    BY <2>1, <2>6 DEF Restaked, StakePool
  <2> HIDE DEF f, g
  <2>8. \A a \in Accounts : f[a] \in Int /\ g[a] \in Int
    BY <2>1, <2>3, <2>4
  <2>9. G = F + g[c] - f[c]
    BY <2>4, <2>5, <2>8, SumChangeAt
  <2> HIDE DEF F, G
  <2>10. F \in Nat /\ f[c] \in Nat
    BY <2>1, <2>6
  <2>11. new.total_staked = G
    BY <2>3, <2>7, <2>9, <2>10
  <2> QED BY <2>11 DEF G, g
<1>4. ASSUME NEW x \in DOMAIN pools'
      PROVE  pools'[x].total_staked = SumFunctionOnSet(Stakes(x)', Accounts)
  BY <1>1, <1>2, <1>3
<1> QED BY <1>4 DEF TotalStakedIsSum

LEMMA AddPoolKeepsTotal ==
  ASSUME TypeInv, TotalStakedIsSum, NEW c, NEW s, NEW r, NEW b, NEW e, NEW p, NEW n,
         AddPool(c, s, r, b, e, p, n)
  PROVE  TotalStakedIsSum'
<1>0. PICK i : i = index
  OBVIOUS
<1>1. /\ DOMAIN pools' = DOMAIN pools \cup {i}
      /\ pools'[i].total_staked = 0
      /\ users'[i] = [a \in Accounts |-> NoStake]
      /\ \A x \in DOMAIN pools : x # i => pools'[x] = pools[x] /\ users'[x] = users[x]
  BY <1>0 DEF AddPool, TypeInv, TypeOK
<1>2. ASSUME NEW x \in DOMAIN pools, x # i
      PROVE  pools'[x].total_staked = SumFunctionOnSet(Stakes(x)', Accounts)
  <2>1. pools[x].total_staked = SumFunctionOnSet(Stakes(x), Accounts)
    BY DEF TotalStakedIsSum
  <2>2. pools'[x] = pools[x] /\ Stakes(x)' = Stakes(x)
    BY <1>1, <1>2 DEF Stakes
  <2> QED BY <2>1, <2>2
<1>3. SumFunctionOnSet(Stakes(i)', Accounts) = 0
  <2> DEFINE g == Stakes(i)'
  <2>1. \A a \in Accounts : g[a] = 0
    BY <1>1 DEF Stakes, NoStake
  <2>2. IsFiniteSet(Accounts) /\ Cardinality(Accounts) \in Nat
    BY HashAssumption, FS_CardinalityType
  <2> HIDE DEF g
  <2>3. SumFunctionOnSet(g, Accounts) = Cardinality(Accounts) * 0
    BY <2>1, <2>2, SumOfConstant
  <2>4. SumFunctionOnSet(g, Accounts) = 0
    BY <2>2, <2>3
  <2> QED BY <2>4 DEF g
<1>4. ASSUME NEW x \in DOMAIN pools'
      PROVE  pools'[x].total_staked = SumFunctionOnSet(Stakes(x)', Accounts)
  BY <1>1, <1>2, <1>3
<1> QED BY <1>4 DEF TotalStakedIsSum

\* The steps as far as pools and stakes are concerned.
LEMMA PoolSteps ==
  ASSUME [Next]_vars
  PROVE  \/ UNCHANGED <<pools, users>>
         \/ \E c \in Accounts, s, r \in Tokens, d \in StartDelays, l \in Lengths,
               p \in Precisions, n \in Rewards : AddPool(c, s, r, now + d, now + d + l, p, n)
         \/ \E c \in Accounts, id \in DOMAIN pools :
              \/ \E a \in Amounts : Deposit(c, a, id)
              \/ \E a \in Amounts : Withdraw(c, a, id)
              \/ EmergencyWithdraw(c, id)
         \/ \E c \in Accounts, id \in DOMAIN pools : StopReward(c, id)
BY DEF Next, Initialize, SaveMe, SetAdmin, Tick, vars

LEMMA TotalStep ==
  ASSUME TypeInv, TypeInv', TotalStakedIsSum, [Next]_vars
  PROVE  TotalStakedIsSum'
<1>1. ASSUME NEW c \in Accounts, NEW id \in DOMAIN pools,
             \/ \E a \in Amounts : Deposit(c, a, id)
             \/ \E a \in Amounts : Withdraw(c, a, id)
             \/ EmergencyWithdraw(c, id)
      PROVE  TotalStakedIsSum'
  BY <1>1, StakersRestake, RestakedKeepsTotal
<1>2. ASSUME NEW c \in Accounts, NEW id \in DOMAIN pools, StopReward(c, id)
      PROVE  TotalStakedIsSum'
  <2>1. DOMAIN pools' = DOMAIN pools
        /\ \A x \in DOMAIN pools : pools'[x].total_staked = pools[x].total_staked
    BY <1>2, StopRewardUpdates
  <2>2. users' = users
    BY <1>2 DEF StopReward
  <2>3. \A x \in DOMAIN pools : Stakes(x)' = Stakes(x)
    BY <2>2 DEF Stakes
  <2> QED BY <2>1, <2>3 DEF TotalStakedIsSum
<1>3. CASE UNCHANGED <<pools, users>>
  <2>1. \A x \in DOMAIN pools : Stakes(x)' = Stakes(x)
    BY <1>3 DEF Stakes
  <2> QED BY <1>3, <2>1 DEF TotalStakedIsSum
<1> QED BY <1>1, <1>2, <1>3, PoolSteps, AddPoolKeepsTotal

\* TotalStakedIsSum: what update_pool divides a period's reward by is the sum of
\* the stakes that it is divided among, after any sequence of deposits, withdrawals
\* and emergency withdrawals.
THEOREM TotalStakedCorrect == Spec => []TotalStakedIsSum
<1>1. Init => TotalStakedIsSum
  BY DEF Init, TotalStakedIsSum
<1>2. TypeInv /\ TypeInv' /\ TotalStakedIsSum /\ [Next]_vars => TotalStakedIsSum'
  BY TotalStep
<1> QED BY <1>1, <1>2, InitHasType, TypeStep, PTL DEF Spec

-----------------------------------------------------------------------------
\* No debt exceeds what has accrued

\* What a stake has accrued grows with the reward per share.
LEMMA AccruedGrows ==
  ASSUME NEW old \in StakePool, NEW new \in StakePool, NEW n \in Nat,
         new.acc_token_per_share >= old.acc_token_per_share, new.precision = old.precision
  PROVE  Accrued(old, n) <= Accrued(new, n)
<1> DEFINE s == old.acc_token_per_share
           r == new.acc_token_per_share
           d == Scale[old.precision]
<1>1. s \in Nat /\ r \in Nat /\ d \in Nat \ {0} /\ s <= r
  BY NumberAssumption DEF StakePool
<1>2. Accrued(old, n) = (n * s) \div d /\ Accrued(new, n) = (n * r) \div d
  BY DEF Accrued
<1> HIDE DEF s, r, d
<1>3. n * s \in Nat /\ n * r \in Nat /\ n * s <= n * r
  BY <1>1, ProductType, ProductGrows
<1> QED BY <1>1, <1>2, <1>3, QuotientGrows

\* A stake that is not touched in a pool whose shares do not shrink stays covered.
LEMMA CoveredDebtStays ==
  ASSUME NEW old \in StakePool, NEW new \in StakePool, NEW user \in UserInfo,
         new.acc_token_per_share >= old.acc_token_per_share, new.precision = old.precision,
         user.reward_debt <= Accrued(old, user.amount)
  PROVE  user.reward_debt <= Accrued(new, user.amount)
<1>1. user.reward_debt \in Nat /\ user.amount \in Nat
  BY DEF UserInfo
<1>2. Accrued(old, user.amount) \in Nat /\ Accrued(new, user.amount) \in Nat
  BY <1>1, AccruedType
<1>3. Accrued(old, user.amount) <= Accrued(new, user.amount)
  BY <1>1, AccruedGrows
<1> QED BY <1>1, <1>2, <1>3

LEMMA RestakedKeepsDebt ==
  ASSUME TypeInv, DebtCovered, NEW id \in DOMAIN pools, NEW c \in Accounts,
         NEW new, NEW user, Restaked(id, c, new, user)
  PROVE  DebtCovered'
<1>1. /\ DOMAIN pools' = DOMAIN pools
      /\ pools'[id] = new
      /\ \A x \in DOMAIN pools \ {id} : pools'[x] = pools[x] /\ users'[x] = users[x]
      /\ users'[id][c] = user
      /\ \A a \in Accounts \ {c} : users'[id][a] = users[id][a]
  BY UpdateStorageType DEF Restaked
<1> SUFFICES ASSUME NEW x \in DOMAIN pools, NEW a \in Accounts
             PROVE  users'[x][a].reward_debt <= Accrued(pools'[x], users'[x][a].amount)
  BY <1>1 DEF DebtCovered, Accrued
<1>2. CASE x # id
  BY <1>1, <1>2 DEF DebtCovered
<1>3. CASE x = id /\ a = c
  BY <1>1, <1>3 DEF Restaked
<1>4. CASE x = id /\ a # c
  <2>1. users'[x][a] = users[id][a] /\ users[id][a] \in UserInfo /\ pools[id] \in StakePool
    BY <1>1, <1>4, PoolType
  <2>2. users[id][a].reward_debt <= Accrued(pools[id], users[id][a].amount)
    BY DEF DebtCovered
  <2>3. users[id][a].reward_debt <= Accrued(new, users[id][a].amount)
    BY <2>1, <2>2, CoveredDebtStays DEF Restaked
  <2> QED BY <1>1, <1>4, <2>1, <2>3
<1> QED BY <1>2, <1>3, <1>4

LEMMA AddPoolKeepsDebt ==
  ASSUME TypeInv, TypeInv', DebtCovered, NEW c, NEW s, NEW r, NEW b, NEW e, NEW p, NEW n,
         AddPool(c, s, r, b, e, p, n)
  PROVE  DebtCovered'
<1>0. PICK i : i = index
  OBVIOUS
<1>1. /\ DOMAIN pools' = DOMAIN pools \cup {i}
      /\ users'[i] = [a \in Accounts |-> NoStake]
      /\ \A x \in DOMAIN pools : x # i => pools'[x] = pools[x] /\ users'[x] = users[x]
  BY <1>0 DEF AddPool, TypeInv, TypeOK
<1> SUFFICES ASSUME NEW x \in DOMAIN pools', NEW a \in Accounts
             PROVE  users'[x][a].reward_debt <= Accrued(pools'[x], users'[x][a].amount)
  BY DEF DebtCovered, Accrued
<1>2. CASE x # i
  <2>1. x \in DOMAIN pools
    BY <1>1, <1>2
  <2> QED BY <1>1, <1>2, <2>1 DEF DebtCovered
<1>3. CASE x = i
  <2>1. pools'[x] \in StakePool
    BY DEF TypeInv, TypeOK
  <2>2. users'[x][a].reward_debt = 0 /\ users'[x][a].amount = 0
    BY <1>1, <1>3 DEF NoStake
  <2>3. Accrued(pools'[x], users'[x][a].amount) \in Nat
    BY <2>1, <2>2, AccruedType
  <2> QED BY <2>2, <2>3
<1> QED BY <1>2, <1>3

LEMMA StopRewardKeepsDebt ==
  ASSUME TypeInv, DebtCovered, NEW c \in Accounts, NEW id \in DOMAIN pools, StopReward(c, id)
  PROVE  DebtCovered'
<1>1. /\ DOMAIN pools' = DOMAIN pools
      /\ pools' \in [DOMAIN pools -> StakePool]
      /\ \A x \in DOMAIN pools :
           /\ pools'[x].acc_token_per_share >= pools[x].acc_token_per_share
           /\ pools'[x].precision = pools[x].precision
  BY StopRewardUpdates
<1>2. users' = users
  BY DEF StopReward
<1> SUFFICES ASSUME NEW x \in DOMAIN pools, NEW a \in Accounts
             PROVE  users[x][a].reward_debt <= Accrued(pools'[x], users[x][a].amount)
  BY <1>1, <1>2 DEF DebtCovered, Accrued
<1>3. pools[x] \in StakePool /\ pools'[x] \in StakePool /\ users[x][a] \in UserInfo
  BY <1>1, PoolType
<1>4. users[x][a].reward_debt <= Accrued(pools[x], users[x][a].amount)
  BY DEF DebtCovered
<1> QED BY <1>1, <1>3, <1>4, CoveredDebtStays

LEMMA DebtStep ==
  ASSUME TypeInv, TypeInv', DebtCovered, [Next]_vars
  PROVE  DebtCovered'
<1>1. ASSUME NEW c \in Accounts, NEW id \in DOMAIN pools,
             \/ \E a \in Amounts : Deposit(c, a, id)
             \/ \E a \in Amounts : Withdraw(c, a, id)
             \/ EmergencyWithdraw(c, id)
      PROVE  DebtCovered'
  BY <1>1, StakersRestake, RestakedKeepsDebt
<1>2. ASSUME NEW c \in Accounts, NEW id \in DOMAIN pools, StopReward(c, id)
      PROVE  DebtCovered'
  BY <1>2, StopRewardKeepsDebt
<1>3. CASE UNCHANGED <<pools, users>>
  BY <1>3 DEF DebtCovered, Accrued
<1> QED BY <1>1, <1>2, <1>3, PoolSteps, AddPoolKeepsDebt

\* DebtCovered: `pending -= user_info.reward_debt` never goes below zero, for any
\* precision, stakes and times, wrapped-around differences of times included: no
\* stake is locked in by it.
THEOREM DebtsCorrect == Spec => []DebtCovered
<1>1. Init => DebtCovered
  BY DEF Init, DebtCovered
<1>2. TypeInv /\ TypeInv' /\ DebtCovered /\ [Next]_vars => DebtCovered'
  BY DebtStep
<1> QED BY <1>1, <1>2, InitHasType, TypeStep, PTL DEF Spec

-----------------------------------------------------------------------------
\* What has been earned is kept

\* The end of a pool is a u64.
TimesFit == \A id \in DOMAIN pools : pools[id].end_time < U64

LEMMA TimesFitStep ==
  ASSUME TypeInv, TypeInv', TimesFit, [Next]_vars
  PROVE  TimesFit'
<1>1. now \in 0..MaxTime /\ MaxTime \in Nat /\ MaxTime < U64 /\ U64 \in Nat
  BY NumberAssumption DEF TypeInv, TypeOK
<1>2. ASSUME NEW c \in Accounts, NEW s \in Tokens, NEW r \in Tokens, NEW d \in StartDelays,
             NEW l \in Lengths, NEW p \in Precisions, NEW n \in Rewards,
             AddPool(c, s, r, now + d, now + d + l, p, n)
      PROVE  TimesFit'
  <2>1. now + d + l < U64
    BY <1>1, NumberAssumption
  <2>2. \A x \in DOMAIN pools' :
          pools'[x].end_time = now + d + l \/ (x \in DOMAIN pools /\ pools'[x] = pools[x])
    BY <1>2 DEF AddPool
  <2> QED BY <2>1, <2>2 DEF TimesFit
<1>3. ASSUME NEW c \in Accounts, NEW id \in DOMAIN pools,
             \/ \E a \in Amounts : Deposit(c, a, id)
             \/ \E a \in Amounts : Withdraw(c, a, id)
             \/ EmergencyWithdraw(c, id)
             \/ StopReward(c, id)
      PROVE  TimesFit'
  <2> DEFINE pool == UpdatePool(pools[id])
  <2>1. pools[id] \in StakePool /\ pools \in [DOMAIN pools -> StakePool]
    BY PoolType DEF TypeInv, TypeOK
  <2>2. pool.end_time = pools[id].end_time /\ "end_time" \in DOMAIN pool
    BY <2>1 DEF UpdatePool, StakePool
  <2>3. \/ \E n : pools' = [pools EXCEPT ![id] = [pool EXCEPT !.total_staked = n]]
        \/ \E n : pools' = [pools EXCEPT ![id] = [pools[id] EXCEPT !.total_staked = n]]
        \/ pools' = [pools EXCEPT ![id] = [pool EXCEPT !.end_time = now]]
    BY <1>3 DEF Deposit, Withdraw, EmergencyWithdraw, StopReward, UpdateStorage
  <2> HIDE DEF pool
  <2>4. /\ DOMAIN pools' = DOMAIN pools
        /\ \A x \in DOMAIN pools \ {id} : pools'[x] = pools[x]
        /\ pools'[id].end_time \in {pools[id].end_time, now}
    BY <2>1, <2>2, <2>3 DEF StakePool
  <2>5. now < U64
    BY <1>1
  <2> QED BY <2>4, <2>5 DEF TimesFit
<1>4. CASE UNCHANGED pools
  BY <1>4 DEF TimesFit
<1> QED BY <1>2, <1>3, <1>4, PoolSteps

\* The reward per share that update_pool would compute at time t, for a pool with
\* stakers that pays over a period of time: nothing wraps around.
SharesAt(pool, t) ==
  LET seconds == get_min(t, pool.end_time)
                   - get_max(pool.start_time, pool.last_reward_timestamp)
      reward  == (seconds * pool.total_reward) \div (pool.end_time - pool.start_time)
  IN  IF t <= pool.last_reward_timestamp \/ pool.last_reward_timestamp > pool.end_time
         \/ pool.start_time > t
      THEN pool.acc_token_per_share
      ELSE pool.acc_token_per_share
             + (reward * Scale[pool.precision]) \div pool.total_staked

\* A difference that is not negative does not wrap around.
LEMMA Minus64Exact ==
  ASSUME NEW a \in Nat, NEW b \in Nat, b <= a, a < U64
  PROVE  Minus64(a, b) = a - b
<1>1. a - b \in 0..(U64 - 1) /\ U64 \in Nat \ {0}
  BY NumberAssumption
<1> QED BY <1>1 DEF Minus64

LEMMA SharesComputed ==
  ASSUME now \in Nat, NEW pool \in StakePool, Proper(pool), pool.end_time < U64,
         pool.total_staked # 0
  PROVE  UpdatePool(pool).acc_token_per_share = SharesAt(pool, now)
<1>1. /\ pool.start_time \in Nat /\ pool.end_time \in Nat
      /\ pool.last_reward_timestamp \in Nat /\ pool.start_time < pool.end_time
  BY DEF StakePool, Proper
<1>2. CASE Settled(pool)
  <2>1. UpdatePool(pool) = pool
    BY <1>2 DEF UpdatePool
  <2> QED BY <1>1, <1>2, <2>1 DEF SharesAt, Settled
<1>3. CASE ~Settled(pool)
  <2> DEFINE share == IF Unshared(pool) THEN pool.acc_token_per_share
                      ELSE pool.acc_token_per_share + ShareIncrease(pool)
  <2>1. UpdatePool(pool) = [pool EXCEPT !.last_reward_timestamp = now,
                                        !.acc_token_per_share = share]
    BY <1>3 DEF UpdatePool
  <2> HIDE DEF share
  <2>2. UpdatePool(pool).acc_token_per_share = share
    BY <2>1 DEF StakePool
  <2>3. CASE pool.start_time > now
    BY <2>2, <2>3 DEF share, Unshared, SharesAt
  <2>4. CASE ~(pool.start_time > now)
    <3>1. /\ ~(now <= pool.last_reward_timestamp)
          /\ ~(pool.last_reward_timestamp > pool.end_time)
          /\ ~Unshared(pool)
      BY <1>1, <1>3, <2>4 DEF Settled, Unshared
    <3> DEFINE first == get_max(pool.start_time, pool.last_reward_timestamp)
               last == get_min(now, pool.end_time)
    <3>2. first \in Nat /\ last \in Nat /\ first <= last /\ last < U64
      BY <1>1, <2>4, <3>1, NumberAssumption DEF get_min, get_max
    <3> HIDE DEF first, last
    <3>3. Minus64(last, first) = last - first
      BY <3>2, Minus64Exact
    <3>4. Minus64(pool.end_time, pool.start_time) = pool.end_time - pool.start_time
      BY <1>1, Minus64Exact
    <3>5. RewardUnlocked(pool) = last - first
      BY <3>3 DEF RewardUnlocked, first, last
    <3> DEFINE seconds == last - first
               length == pool.end_time - pool.start_time
    <3>6. ShareIncrease(pool)
            = (((seconds * pool.total_reward) \div length) * Scale[pool.precision])
                \div pool.total_staked
      <4> HIDE DEF seconds, length
      <4>1. RewardUnlocked(pool) = seconds /\ Minus64(pool.end_time, pool.start_time) = length
        BY <3>4, <3>5 DEF seconds, length
      <4> QED BY <4>1, Zenon DEF ShareIncrease, PeriodReward
    <3>7. share = pool.acc_token_per_share + ShareIncrease(pool)
      BY <3>1 DEF share
    <3> QED BY <2>2, <2>4, <3>1, <3>6, <3>7 DEF SharesAt, first, last
  <2> QED BY <2>3, <2>4
<1> QED BY <1>2, <1>3

\* Shares are numbers, and do not shrink as time passes.
LEMMA SharesGrow ==
  ASSUME NEW pool \in StakePool, Proper(pool), pool.total_staked # 0,
         NEW t \in Nat, NEW u \in Nat, t <= u
  PROVE  /\ SharesAt(pool, t) \in Nat
         /\ SharesAt(pool, t) >= pool.acc_token_per_share
         /\ SharesAt(pool, t) <= SharesAt(pool, u)
<1> DEFINE first == get_max(pool.start_time, pool.last_reward_timestamp)
           length == pool.end_time - pool.start_time
           scale == Scale[pool.precision]
           reward(x) == ((get_min(x, pool.end_time) - first) * pool.total_reward) \div length
           increase(x) == (reward(x) * scale) \div pool.total_staked
           over(x) == x <= pool.last_reward_timestamp
                      \/ pool.last_reward_timestamp > pool.end_time \/ pool.start_time > x
<1>1. /\ pool.start_time \in Nat /\ pool.end_time \in Nat /\ pool.total_reward \in Nat
      /\ pool.last_reward_timestamp \in Nat /\ pool.acc_token_per_share \in Nat
      /\ pool.total_staked \in Nat \ {0} /\ scale \in Nat /\ length \in Nat \ {0}
  BY NumberAssumption DEF StakePool, Proper
<1>2. \A x \in Nat : SharesAt(pool, x) = IF over(x) THEN pool.acc_token_per_share
                                         ELSE pool.acc_token_per_share + increase(x)
  BY DEF SharesAt
<1>3. ASSUME NEW x \in Nat, ~over(x) PROVE get_min(x, pool.end_time) - first \in Nat
  BY <1>1, <1>3 DEF get_min, get_max, Proper
<1>4. ASSUME NEW x \in Nat, ~over(x) PROVE reward(x) \in Nat /\ increase(x) \in Nat
  <2> DEFINE seconds == get_min(x, pool.end_time) - first
  <2>1. seconds \in Nat
    BY <1>3, <1>4
  <2> HIDE DEF seconds, length
  <2>2. (seconds * pool.total_reward) \div length \in Nat
    BY <1>1, <2>1, ProductType, QuotientType
  <2>3. reward(x) \in Nat
    BY <2>2 DEF seconds
  <2> HIDE DEF reward, scale
  <2>4. (reward(x) * scale) \div pool.total_staked \in Nat
    BY <1>1, <2>3, ProductType, QuotientType
  <2> QED BY <2>3, <2>4
<1>5. ASSUME ~over(t), ~over(u) PROVE increase(t) <= increase(u)
  <2> DEFINE m == get_min(t, pool.end_time) - first
             n == get_min(u, pool.end_time) - first
  <2>1. m \in Nat /\ n \in Nat
    BY <1>3, <1>5
  <2>2. m <= n
    BY <1>1 DEF get_min, get_max
  <2> HIDE DEF m, n, length
  <2>3. m * pool.total_reward <= n * pool.total_reward
    <3>1. pool.total_reward * m <= pool.total_reward * n
      BY <1>1, <2>1, <2>2, ProductGrows
    <3> QED BY <1>1, <2>1, <3>1
  <2>4. (m * pool.total_reward) \div length <= (n * pool.total_reward) \div length
    BY <1>1, <2>1, <2>3, ProductType, QuotientGrows
  <2>5. reward(t) <= reward(u) /\ reward(t) \in Nat /\ reward(u) \in Nat
    BY <1>4, <1>5, <2>4 DEF m, n
  <2> HIDE DEF reward, scale
  <2>6. reward(t) * scale <= reward(u) * scale
    <3>1. scale * reward(t) <= scale * reward(u)
      BY <1>1, <2>5, ProductGrows
    <3> QED BY <1>1, <2>5, <3>1
  <2>7. (reward(t) * scale) \div pool.total_staked <= (reward(u) * scale) \div pool.total_staked
    BY <1>1, <2>5, <2>6, ProductType, QuotientGrows
  <2> QED BY <2>7
<1>6. ~over(t) => ~over(u)
  BY <1>1
<1> HIDE DEF increase, over
<1> QED BY <1>1, <1>2, <1>4, <1>5, <1>6

\* Dividing by more makes a quotient smaller.
LEMMA QuotientShrinks ==
  ASSUME NEW n \in Nat, NEW d \in Nat \ {0}, NEW e \in Nat \ {0}, d <= e
  PROVE  n \div e <= n \div d
<1> DEFINE q == n \div e
           p == n \div d
<1>1. q \in Nat /\ p \in Nat /\ q * e <= n /\ n < (p + 1) * d
  OBVIOUS
<1> HIDE DEF p, q
<1> SUFFICES ASSUME q >= p + 1 PROVE FALSE
  BY <1>1 DEF p, q
<1>2. d * (p + 1) <= d * q
  BY <1>1, ProductGrows
<1>3. q * d <= q * e
  BY <1>1, ProductGrows
<1>4. d * (p + 1) = (p + 1) * d /\ d * q = q * d
  BY <1>1
<1>5. d * (p + 1) \in Nat /\ d * q \in Nat /\ q * e \in Nat
  BY <1>1
<1> QED BY <1>1, <1>2, <1>3, <1>4, <1>5

\* A period's reward that fewer share gives each share no less.
LEMMA FewerShare ==
  ASSUME NEW pool \in StakePool, Proper(pool), pool.total_staked # 0,
         NEW n \in Nat \ {0}, n <= pool.total_staked, NEW t \in Nat
  PROVE  SharesAt(pool, t) <= SharesAt([pool EXCEPT !.total_staked = n], t)
<1> DEFINE new == [pool EXCEPT !.total_staked = n]
           seconds == get_min(t, pool.end_time)
                        - get_max(pool.start_time, pool.last_reward_timestamp)
           length == pool.end_time - pool.start_time
           product == ((seconds * pool.total_reward) \div length) * Scale[pool.precision]
           over == t <= pool.last_reward_timestamp
                      \/ pool.last_reward_timestamp > pool.end_time \/ pool.start_time > t
           acc == pool.acc_token_per_share
<1>1. /\ pool.start_time \in Nat /\ pool.end_time \in Nat /\ pool.total_reward \in Nat
      /\ pool.last_reward_timestamp \in Nat /\ acc \in Nat
      /\ pool.total_staked \in Nat \ {0} /\ Scale[pool.precision] \in Nat
      /\ length \in Nat \ {0}
  BY NumberAssumption DEF StakePool, Proper
<1>2. /\ SharesAt(pool, t) = IF over THEN acc ELSE acc + product \div pool.total_staked
      /\ SharesAt(new, t) = IF over THEN acc ELSE acc + product \div n
  <2>1. /\ new.start_time = pool.start_time /\ new.end_time = pool.end_time
        /\ new.total_reward = pool.total_reward /\ new.precision = pool.precision
        /\ new.last_reward_timestamp = pool.last_reward_timestamp
        /\ new.acc_token_per_share = pool.acc_token_per_share /\ new.total_staked = n
    BY DEF StakePool
  <2> HIDE DEF new
  <2> QED BY <2>1 DEF SharesAt
<1>3. CASE over
  BY <1>1, <1>2, <1>3
<1>4. CASE ~over
  <2>1. seconds \in Nat
    BY <1>1, <1>4 DEF get_min, get_max, Proper
  <2> HIDE DEF seconds, length
  <2>2. product \in Nat
    BY <1>1, <2>1, ProductType, QuotientType
  <2> HIDE DEF product
  <2>3. product \div pool.total_staked <= product \div n
    BY <1>1, <2>2, QuotientShrinks
  <2>4. product \div pool.total_staked \in Nat /\ product \div n \in Nat
    BY <1>1, <2>2, QuotientType
  <2> HIDE DEF over, acc
  <2> QED BY <1>1, <1>2, <1>4, <2>3, <2>4
<1> QED BY <1>3, <1>4

\* A pool that somebody has a stake in has a total to divide by.
LEMMA StakerCounts ==
  ASSUME TypeInv, TotalStakedIsSum, NEW id \in DOMAIN pools, NEW a \in Accounts,
         users[id][a].amount # 0
  PROVE  pools[id].total_staked \in Nat \ {0}
<1> DEFINE f == Stakes(id)
<1>1. \A x \in Accounts : f[x] \in Nat
  BY StakesType
<1>2. f[a] # 0
  BY DEF Stakes
<1>3. IsFiniteSet(Accounts) /\ IsFiniteSet(Accounts \ {a})
  BY HashAssumption, FS_RemoveElement
<1>4. pools[id].total_staked = SumFunctionOnSet(f, Accounts)
  BY DEF TotalStakedIsSum
<1> HIDE DEF f
<1>5. SumFunctionOnSet(f, Accounts) = f[a] + SumFunctionOnSet(f, Accounts \ {a})
  BY <1>1, <1>3, SumTakeOut
<1>6. SumFunctionOnSet(f, Accounts \ {a}) \in Nat
  BY <1>1, <1>3, SumIsNat
<1> QED BY <1>1, <1>2, <1>4, <1>5, <1>6

\* The same of the state a step leads to.
Counted ==
  \A id \in DOMAIN pools : \A a \in Accounts :
    users[id][a].amount # 0 => pools[id].total_staked \in Nat \ {0}

LEMMA NextStakerCounts == TypeInv' /\ TotalStakedIsSum' => Counted'
<1>1. TypeInv /\ TotalStakedIsSum => Counted
  BY StakerCounts DEF Counted
<1> QED BY <1>1, PTL

\* What a stake of n has accrued when a share is worth s.
AccruedAt(n, s, scale) == (n * s) \div scale

\* What a user can claim, from the shares that update_pool would compute.
ClaimsComputed ==
  \A id \in DOMAIN pools : \A a \in Accounts :
    /\ users[id][a].amount = 0 => Claimable(id, a) = 0
    /\ (users[id][a].amount # 0 /\ Proper(pools[id])) =>
         Claimable(id, a)
           = AccruedAt(users[id][a].amount, SharesAt(pools[id], now), Scale[pools[id].precision])
               - users[id][a].reward_debt

LEMMA ClaimsFromShares == TypeInv /\ TimesFit /\ TotalStakedIsSum => ClaimsComputed
<1> SUFFICES ASSUME TypeInv, TimesFit, TotalStakedIsSum, NEW id \in DOMAIN pools,
                    NEW a \in Accounts
             PROVE  /\ users[id][a].amount = 0 => Claimable(id, a) = 0
                    /\ (users[id][a].amount # 0 /\ Proper(pools[id])) =>
                         Claimable(id, a)
                           = AccruedAt(users[id][a].amount, SharesAt(pools[id], now),
                                       Scale[pools[id].precision])
                               - users[id][a].reward_debt
  BY DEF ClaimsComputed
<1>1. users[id][a].amount = 0 => Claimable(id, a) = 0
  BY DEF Claimable, Pending
<1>2. ASSUME users[id][a].amount # 0, Proper(pools[id])
      PROVE  Claimable(id, a)
               = AccruedAt(users[id][a].amount, SharesAt(pools[id], now),
                           Scale[pools[id].precision])
                   - users[id][a].reward_debt
  <2> DEFINE pool == UpdatePool(pools[id])
  <2>1. pools[id].total_staked # 0 /\ pools[id] \in StakePool /\ now \in Nat
    BY <1>2, StakerCounts, PoolType
  <2>2. pool.acc_token_per_share = SharesAt(pools[id], now)
    BY <1>2, <2>1, SharesComputed DEF TimesFit
  <2>3. pool.precision = pools[id].precision
    BY <2>1 DEF UpdatePool, StakePool
  <2> HIDE DEF pool
  <2>4. Claimable(id, a) = Accrued(pool, users[id][a].amount) - users[id][a].reward_debt
    BY <1>2, Zenon DEF Claimable, Pending, pool
  <2> QED BY <2>2, <2>3, <2>4 DEF Accrued, AccruedAt
<1> QED BY <1>1, <1>2

LEMMA NextClaimsFromShares ==
  TypeInv' /\ TimesFit' /\ TotalStakedIsSum' => ClaimsComputed'
BY ClaimsFromShares, PTL

LEMMA AccruedAtGrows ==
  ASSUME NEW n \in Nat, NEW s \in Nat, NEW r \in Nat, s <= r, NEW scale \in Nat \ {0}
  PROVE  /\ AccruedAt(n, s, scale) \in Nat
         /\ AccruedAt(n, s, scale) <= AccruedAt(n, r, scale)
<1>1. n * s \in Nat /\ n * r \in Nat /\ n * s <= n * r
  BY ProductType, ProductGrows
<1> QED BY <1>1, QuotientType, QuotientGrows DEF AccruedAt

\* The shares of a pool as they would be now are not less after a step, as long as
\* there is somebody to share with before it and after it.
SharesKept(id) ==
  (/\ Proper(pools[id]) /\ Proper(pools'[id])
   /\ pools[id].total_staked # 0 /\ pools'[id].total_staked # 0)
  => /\ SharesAt(pools[id], now) <= SharesAt(pools'[id], now')
     /\ pools'[id].precision = pools[id].precision

\* A pool with another total and another end.
Rewritten(pool, n, e) == [pool EXCEPT !.total_staked = n, !.end_time = e]

\* update_pool computes the shares of its time for good: later operations in the
\* same second, and changes of the total and of the end, find the same.
LEMMA UpdatedShares ==
  ASSUME now \in Nat, NEW pool \in StakePool, Proper(pool), pool.end_time < U64,
         pool.total_staked # 0, CanUpdate(pool), NEW n \in Nat, NEW e \in Nat,
         e = pool.end_time \/ (e = now /\ now <= pool.end_time),
         NEW new, new = Rewritten(UpdatePool(pool), n, e)
  PROVE  /\ SharesAt(new, now) = SharesAt(pool, now)
         /\ new.precision = pool.precision
<1> DEFINE old == UpdatePool(pool)
<1>1. old \in StakePool /\ old.precision = pool.precision
  BY UpdatePoolType
<1>2. old.acc_token_per_share = SharesAt(pool, now)
  BY SharesComputed
<1>3. /\ old.end_time = pool.end_time
      /\ now <= old.last_reward_timestamp \/ old.last_reward_timestamp > old.end_time
  <2>1. CASE Settled(pool)
    BY <2>1 DEF UpdatePool, Settled
  <2>2. CASE ~Settled(pool)
    BY <2>2 DEF UpdatePool, StakePool
  <2> QED BY <2>1, <2>2
<1>4. /\ new.acc_token_per_share = old.acc_token_per_share
      /\ new.last_reward_timestamp = old.last_reward_timestamp
      /\ new.end_time = e /\ new.precision = old.precision
  <2>1. new = Rewritten(old, n, e)
    OBVIOUS
  <2> HIDE DEF old
  <2> QED BY <1>1, <2>1 DEF StakePool, Rewritten
<1>5. /\ old.last_reward_timestamp \in Nat /\ old.end_time \in Nat
  BY <1>1 DEF StakePool
<1> HIDE DEF old
<1>6. now <= new.last_reward_timestamp \/ new.last_reward_timestamp > new.end_time
  BY <1>3, <1>4, <1>5
<1>7. SharesAt(new, now) = new.acc_token_per_share
  BY <1>6 DEF SharesAt
<1> QED BY <1>1, <1>2, <1>4, <1>7

\* A pool that a step leaves alone keeps its shares.
LEMMA UntouchedKeepsShares ==
  ASSUME TypeInv, TypeInv', NEW x \in DOMAIN pools, pools'[x] = pools[x], now <= now'
  PROVE  SharesKept(x)
<1>1. pools[x] \in StakePool /\ now \in Nat /\ now' \in Nat
  BY PoolType, NumberAssumption DEF TypeInv, TypeOK
<1>2. ASSUME Proper(pools[x]), pools[x].total_staked # 0
      PROVE  SharesAt(pools[x], now) <= SharesAt(pools[x], now')
  BY <1>1, <1>2, SharesGrow
<1> QED BY <1>2 DEF SharesKept

\* deposit, withdraw and stop_reward bring the pool up to date and write it back.
LEMMA UpdatedKeepsShares ==
  ASSUME TypeInv, TypeInv', TimesFit, NEW x \in DOMAIN pools, UNCHANGED now,
         CanUpdate(pools[x]), NEW n \in Nat, NEW e \in Nat,
         e = pools[x].end_time \/ (e = now /\ now <= pools[x].end_time),
         pools'[x] = Rewritten(UpdatePool(pools[x]), n, e)
  PROVE  SharesKept(x)
<1>1. pools[x] \in StakePool /\ now \in Nat /\ pools[x].end_time < U64
  BY PoolType DEF TimesFit
<1>2. ASSUME Proper(pools[x]), pools[x].total_staked # 0
      PROVE  /\ SharesAt(pools'[x], now) = SharesAt(pools[x], now)
             /\ pools'[x].precision = pools[x].precision
             /\ SharesAt(pools[x], now) \in Nat
  <2>1. SharesAt(pools[x], now) \in Nat
    BY <1>1, <1>2, SharesGrow
  <2> DEFINE old == pools[x]
             new == pools'[x]
  <2>2. /\ old \in StakePool /\ Proper(old) /\ old.end_time < U64 /\ old.total_staked # 0
        /\ CanUpdate(old)
        /\ e = old.end_time \/ (e = now /\ now <= old.end_time)
        /\ new = Rewritten(UpdatePool(old), n, e)
    BY <1>1, <1>2
  <2> HIDE DEF old, new
  <2>3. SharesAt(new, now) = SharesAt(old, now) /\ new.precision = old.precision
    BY <1>1, <2>2, UpdatedShares
  <2> QED BY <2>1, <2>3 DEF old, new
<1> QED BY <1>2 DEF SharesKept

LEMMA DepositKeepsShares ==
  ASSUME TypeInv, TypeInv', TimesFit, NEW c \in Accounts, NEW a \in Amounts,
         NEW id \in DOMAIN pools, Deposit(c, a, id) \/ Withdraw(c, a, id)
  PROVE  SharesKept(id)
<1> DEFINE pool == UpdatePool(pools[id])
<1>1. /\ CanUpdate(pools[id]) /\ now' = now
      /\ \E n : pools' = [pools EXCEPT ![id] = [pool EXCEPT !.total_staked = n]]
  BY DEF Deposit, Withdraw, CanWithdraw, UpdateStorage
<1>2. pools[id] \in StakePool /\ now \in Nat /\ pools \in [DOMAIN pools -> StakePool]
      /\ pools' \in [DOMAIN pools' -> StakePool]
  BY PoolType DEF TypeInv, TypeOK
<1>3. pool \in StakePool /\ pool.end_time = pools[id].end_time
  <2>1. pool.end_time = pools[id].end_time
    BY <1>2 DEF UpdatePool, StakePool
  <2> QED BY <1>1, <1>2, <2>1, UpdatePoolType
<1> HIDE DEF pool
<1>4. PICK n : pools' = [pools EXCEPT ![id] = [pool EXCEPT !.total_staked = n]]
  BY <1>1
<1>5. pools'[id] = [pool EXCEPT !.total_staked = n] /\ pools'[id] \in StakePool
  BY <1>2, <1>4
<1>6. pools'[id].total_staked = n /\ n \in Nat
  BY <1>3, <1>5 DEF StakePool
<1>7. pools[id].end_time \in Nat
  BY <1>2 DEF StakePool
<1>8. Rewritten(pool, n, pools[id].end_time) = [pool EXCEPT !.total_staked = n]
  BY <1>3 DEF StakePool, Rewritten
<1>9. pools'[id] = Rewritten(pool, n, pools[id].end_time)
  BY <1>5, <1>8
<1> QED BY <1>1, <1>6, <1>7, <1>9, UpdatedKeepsShares DEF pool

LEMMA StopRewardKeepsShares ==
  ASSUME TypeInv, TypeInv', TimesFit, NEW c \in Accounts, NEW id \in DOMAIN pools,
         StopReward(c, id)
  PROVE  SharesKept(id)
<1> DEFINE pool == UpdatePool(pools[id])
<1>1. /\ CanUpdate(pools[id]) /\ now' = now /\ pool.end_time > now
      /\ pools' = [pools EXCEPT ![id] = [pool EXCEPT !.end_time = now]]
  BY DEF StopReward
<1>2. pools[id] \in StakePool /\ now \in Nat /\ pools \in [DOMAIN pools -> StakePool]
  BY PoolType DEF TypeInv, TypeOK
<1>3. pool \in StakePool /\ pool.end_time = pools[id].end_time
  <2>1. pool.end_time = pools[id].end_time
    BY <1>2 DEF UpdatePool, StakePool
  <2> QED BY <1>1, <1>2, <2>1, UpdatePoolType
<1> HIDE DEF pool
<1>4. pools'[id] = [pool EXCEPT !.end_time = now]
  BY <1>1, <1>2
<1>5. pool.total_staked \in Nat /\ pools[id].end_time \in Nat
  BY <1>2, <1>3 DEF StakePool
<1>6. Rewritten(pool, pool.total_staked, now) = [pool EXCEPT !.end_time = now]
  BY <1>3 DEF StakePool, Rewritten
<1>7. now <= pools[id].end_time
  BY <1>1, <1>2, <1>3, <1>5
<1>8. pools'[id] = Rewritten(pool, pool.total_staked, now)
  BY <1>4, <1>6
<1> QED BY <1>1, <1>2, <1>5, <1>7, <1>8, UpdatedKeepsShares DEF pool

\* emergency_withdraw does not bring the pool up to date, but leaves fewer to share.
LEMMA EmergencyWithdrawKeepsShares ==
  ASSUME TypeInv, TypeInv', NEW c \in Accounts, NEW id \in DOMAIN pools,
         EmergencyWithdraw(c, id)
  PROVE  SharesKept(id)
<1> DEFINE a == users[id][c].amount
           n == pools[id].total_staked - a
<1>1. /\ pools' = [pools EXCEPT ![id] = [pools[id] EXCEPT !.total_staked = n]]
      /\ now' = now /\ pools[id].total_staked >= a
  BY DEF EmergencyWithdraw, CanEmergencyWithdraw, UpdateStorage
<1>2. /\ pools[id] \in StakePool /\ now \in Nat /\ pools \in [DOMAIN pools -> StakePool]
      /\ a \in Nat /\ pools[id].total_staked \in Nat
  BY PoolType DEF TypeInv, TypeOK, UserInfo, StakePool
<1>3. n \in Nat /\ n <= pools[id].total_staked
  BY <1>1, <1>2
<1> HIDE DEF n
<1>4. pools'[id] = [pools[id] EXCEPT !.total_staked = n]
  BY <1>1, <1>2
<1>5. pools'[id].total_staked = n /\ pools'[id].precision = pools[id].precision
  BY <1>2, <1>4 DEF StakePool
<1>6. ASSUME Proper(pools[id]), pools[id].total_staked # 0, pools'[id].total_staked # 0
      PROVE  SharesAt(pools[id], now) <= SharesAt(pools'[id], now)
  BY <1>2, <1>3, <1>4, <1>5, <1>6, FewerShare
<1> QED BY <1>1, <1>5, <1>6 DEF SharesKept

\* The block time moves on by at most one second in a step of the model.
LEMMA TimePasses ==
  ASSUME [Next]_vars
  PROVE  now' = now \/ now' = now + 1
<1>1. now' = now \/ Tick
  <2>1. \A c, a, i : Deposit(c, a, i) => now' = now
    BY DEF Deposit
  <2>2. \A c, a, i : Withdraw(c, a, i) => now' = now
    BY DEF Withdraw
  <2>3. \A c, i : StopReward(c, i) => now' = now
    BY DEF StopReward
  <2>4. \A c, i : EmergencyWithdraw(c, i) => now' = now
    BY DEF EmergencyWithdraw
  <2>5. \A c, s, r, b, e, p, n : AddPool(c, s, r, b, e, p, n) => now' = now
    BY DEF AddPool
  <2> QED BY <2>1, <2>2, <2>3, <2>4, <2>5 DEF Next, vars, Initialize, SaveMe, SetAdmin
<1>2. Tick => now' = now + 1
  BY DEF Tick
<1> QED BY <1>1, <1>2

LEMMA EveryStepKeepsShares ==
  ASSUME TypeInv, TypeInv', TimesFit, [Next]_vars, NEW x \in DOMAIN pools
  PROVE  SharesKept(x)
<1>0. now \in Nat
  BY PoolType
<1>1. CASE UNCHANGED pools
  <2>1. now <= now'
    BY <1>0, TimePasses
  <2> QED BY <1>1, <2>1, UntouchedKeepsShares
<1>2. ASSUME NEW c \in Accounts, NEW s \in Tokens, NEW r \in Tokens, NEW d \in StartDelays,
             NEW l \in Lengths, NEW p \in Precisions, NEW n \in Rewards,
             AddPool(c, s, r, now + d, now + d + l, p, n)
      PROVE  SharesKept(x)
  <2>1. x # index
    BY NumberAssumption DEF TypeInv, TypeOK
  <2>2. pools'[x] = pools[x] /\ now' = now
    BY <1>2, <2>1 DEF AddPool
  <2> QED BY <1>0, <2>2, UntouchedKeepsShares
<1>3. ASSUME NEW c \in Accounts, NEW id \in DOMAIN pools,
             \/ \E a \in Amounts : Deposit(c, a, id)
             \/ \E a \in Amounts : Withdraw(c, a, id)
             \/ EmergencyWithdraw(c, id)
             \/ StopReward(c, id)
      PROVE  SharesKept(x)
  <2>1. CASE x = id
    BY <1>3, <2>1, DepositKeepsShares, EmergencyWithdrawKeepsShares, StopRewardKeepsShares
  <2>2. CASE x # id
    <3>1. now' = now /\ \E pool : pools' = [pools EXCEPT ![id] = pool]
      BY <1>3 DEF Deposit, Withdraw, EmergencyWithdraw, StopReward, UpdateStorage
    <3>2. pools \in [DOMAIN pools -> StakePool]
      BY DEF TypeInv, TypeOK
    <3>3. pools'[x] = pools[x]
      BY <2>2, <3>1, <3>2
    <3> QED BY <1>0, <3>1, <3>3, UntouchedKeepsShares
  <2> QED BY <2>1, <2>2
<1> QED BY <1>1, <1>2, <1>3, PoolSteps

ClaimsKept ==
  \A id \in DOMAIN pools : \A a \in Accounts :
    (/\ Proper(pools[id]) /\ Proper(pools'[id])
     /\ users'[id][a] = users[id][a])
    => Claimable(id, a)' >= Claimable(id, a)

LEMMA ClaimsStep ==
  ASSUME TypeInv, TypeInv', TimesFit, TimesFit', TotalStakedIsSum, TotalStakedIsSum',
         [Next]_vars
  PROVE  ClaimsKept
<1> SUFFICES ASSUME NEW id \in DOMAIN pools, NEW a \in Accounts,
                    Proper(pools[id]), Proper(pools'[id]), users'[id][a] = users[id][a]
             PROVE  Claimable(id, a)' >= Claimable(id, a)
  BY DEF ClaimsKept
<1>1. ClaimsComputed /\ ClaimsComputed'
  BY ClaimsFromShares, NextClaimsFromShares
<1>2. id \in DOMAIN pools'
  BY PoolSteps DEF AddPool, Deposit, Withdraw, EmergencyWithdraw, StopReward, UpdateStorage
<1>3. CASE users[id][a].amount = 0
  <2>1. Claimable(id, a) = 0 /\ Claimable(id, a)' = 0
    BY <1>1, <1>2, <1>3 DEF ClaimsComputed
  <2> QED BY <2>1
<1>4. CASE users[id][a].amount # 0
  <2> DEFINE n == users[id][a].amount
             debt == users[id][a].reward_debt
             s == SharesAt(pools[id], now)
             r == SharesAt(pools'[id], now')
             scale == Scale[pools[id].precision]
  <2>1. n \in Nat /\ debt \in Nat /\ pools[id] \in StakePool /\ now \in Nat
    BY PoolType DEF UserInfo
  <2>2. scale \in Nat \ {0}
    BY <2>1, NumberAssumption DEF StakePool
  <2>3. pools[id].total_staked \in Nat \ {0} /\ pools'[id].total_staked \in Nat \ {0}
    <3>1. pools[id].total_staked \in Nat \ {0}
      BY <1>4, StakerCounts
    <3>2. pools'[id].total_staked \in Nat \ {0}
      BY <1>2, <1>4, NextStakerCounts DEF Counted
    <3> QED BY <3>1, <3>2
  <2>4. pools'[id] \in StakePool /\ now' \in Nat
    BY <1>2, NumberAssumption DEF TypeInv, TypeOK
  <2>5. s \in Nat /\ r \in Nat
    BY <2>1, <2>3, <2>4, SharesGrow
  <2>6. s <= r /\ pools'[id].precision = pools[id].precision
    BY <2>3, EveryStepKeepsShares DEF SharesKept
  <2>7. Claimable(id, a) = AccruedAt(n, s, scale) - debt
    BY <1>1, <1>4 DEF ClaimsComputed
  <2>8. Claimable(id, a)' = AccruedAt(n, r, scale) - debt
    BY <1>1, <1>2, <1>4, <2>6 DEF ClaimsComputed
  <2> HIDE DEF n, debt, s, r, scale
  <2>9. /\ AccruedAt(n, s, scale) \in Nat /\ AccruedAt(n, r, scale) \in Nat
        /\ AccruedAt(n, s, scale) <= AccruedAt(n, r, scale)
    BY <2>1, <2>2, <2>5, <2>6, AccruedAtGrows
  <2> QED BY <2>1, <2>7, <2>8, <2>9
<1> QED BY <1>3, <1>4

\* EarnedIsKept: no deposit, withdrawal, stop_reward, emergency withdrawal of another
\* user, and no passing of time makes the reward smaller that update_pool would let a
\* user claim; in pools that pay over a period of time, with times that are u64.
THEOREM EarnedKept == Spec => EarnedIsKept
<1>1. Init => TypeInv /\ TimesFit /\ TotalStakedIsSum
  BY InitHasType DEF Init, TimesFit, TotalStakedIsSum
<1>2. TypeInv /\ TimesFit /\ TotalStakedIsSum /\ [Next]_vars
        => (TypeInv /\ TimesFit /\ TotalStakedIsSum)'
  BY TypeStep, TimesFitStep, TotalStep
<1>3. /\ TypeInv /\ TimesFit /\ TotalStakedIsSum
      /\ (TypeInv /\ TimesFit /\ TotalStakedIsSum)'
      /\ [Next]_vars
      => [ClaimsKept]_vars
  BY ClaimsStep
<1>4. [][ClaimsKept]_vars => EarnedIsKept
  BY PTL DEF EarnedIsKept, ClaimsKept
<1> QED BY <1>1, <1>2, <1>3, <1>4, PTL DEF Spec

-----------------------------------------------------------------------------
\* A pool that is over stays over

\* No time is left between the last update and the end, and none wraps around.
LEMMA EndedSharesNothing ==
  ASSUME now \in Nat, NEW pool \in StakePool, CanUpdate(pool),
         pool.start_time <= pool.end_time, pool.end_time <= pool.last_reward_timestamp
  PROVE  UpdatePool(pool).acc_token_per_share = pool.acc_token_per_share
<1>1. /\ pool.start_time \in Nat /\ pool.end_time \in Nat /\ pool.total_reward \in Nat
      /\ pool.last_reward_timestamp \in Nat /\ pool.acc_token_per_share \in Nat
      /\ pool.total_staked \in Nat /\ Scale[pool.precision] \in Nat \ {0}
  BY NumberAssumption DEF StakePool
<1>2. CASE Settled(pool) \/ Unshared(pool)
  BY <1>2 DEF UpdatePool, StakePool
<1>3. CASE ~Settled(pool) /\ ~Unshared(pool)
  <2>1. pool.last_reward_timestamp = pool.end_time /\ pool.end_time < now
    BY <1>1, <1>3 DEF Settled, Unshared
  <2>2. /\ get_min(now, pool.end_time) = pool.end_time
        /\ get_max(pool.start_time, pool.last_reward_timestamp) = pool.end_time
    BY <1>1, <2>1 DEF get_min, get_max
  <2>3. RewardUnlocked(pool) = 0
    BY <1>1, <2>2, NumberAssumption DEF RewardUnlocked, Minus64
  <2> DEFINE d == Minus64(pool.end_time, pool.start_time)
             s == Scale[pool.precision]
             t == pool.total_staked
  <2>4. d \in Nat \ {0} /\ t \in Nat \ {0} /\ s \in Nat \ {0}
    <3>1. pool.end_time \in Int /\ pool.start_time \in Int
      BY <1>1
    <3>2. d \in Nat
      BY <3>1, Minus64Type
    <3>3. d # 0 /\ t # 0
      BY <1>1, <1>3 DEF CanUpdate, UpdateFits, Unshared
    <3> QED BY <1>1, <3>2, <3>3
  <2>5. 0 * pool.total_reward = 0 /\ PeriodReward(pool) = (0 * pool.total_reward) \div d
    BY <1>1, <2>3 DEF PeriodReward
  <2> HIDE DEF d
  <2>6. PeriodReward(pool) = 0
    BY <2>4, <2>5
  <2>7. ShareIncrease(pool) = (0 * s) \div t
    BY <2>6 DEF ShareIncrease
  <2> HIDE DEF s, t
  <2>8. ShareIncrease(pool) = 0
    BY <2>4, <2>7
  <2> DEFINE share == pool.acc_token_per_share + ShareIncrease(pool)
  <2>9. share = pool.acc_token_per_share
    BY <1>1, <2>8
  <2>10. UpdatePool(pool) = [pool EXCEPT !.last_reward_timestamp = now,
                                         !.acc_token_per_share = share]
    BY <1>3 DEF UpdatePool
  <2> HIDE DEF share
  <2> QED BY <2>9, <2>10 DEF StakePool
<1> QED BY <1>2, <1>3

EndedStays ==
  \A id \in DOMAIN pools :
    (/\ pools[id].start_time <= pools[id].end_time
     /\ pools[id].end_time <= pools[id].last_reward_timestamp)
    => pools'[id].acc_token_per_share = pools[id].acc_token_per_share

LEMMA EndedStep ==
  ASSUME TypeInv, [Next]_vars
  PROVE  EndedStays
<1> SUFFICES ASSUME NEW x \in DOMAIN pools, pools[x].start_time <= pools[x].end_time,
                    pools[x].end_time <= pools[x].last_reward_timestamp
             PROVE  pools'[x].acc_token_per_share = pools[x].acc_token_per_share
  BY DEF EndedStays
<1>1. pools[x] \in StakePool /\ now \in Nat /\ pools \in [DOMAIN pools -> StakePool]
  BY PoolType DEF TypeInv, TypeOK
<1>2. CASE UNCHANGED <<pools, users>>
  BY <1>2
<1>3. ASSUME NEW c, NEW s, NEW r, NEW b, NEW e, NEW p, NEW n, AddPool(c, s, r, b, e, p, n)
      PROVE  pools'[x] = pools[x]
  <2>1. x # index
    BY NumberAssumption DEF TypeInv, TypeOK
  <2> QED BY <1>3, <2>1 DEF AddPool
<1>4. ASSUME NEW c \in Accounts, NEW id \in DOMAIN pools,
             \/ \E a \in Amounts : Deposit(c, a, id)
             \/ \E a \in Amounts : Withdraw(c, a, id)
             \/ StopReward(c, id)
      PROVE  pools'[x].acc_token_per_share = pools[x].acc_token_per_share
  <2> DEFINE pool == UpdatePool(pools[id])
  <2>1. /\ CanUpdate(pools[id])
        /\ \/ \E n : pools' = [pools EXCEPT ![id] = [pool EXCEPT !.total_staked = n]]
           \/ \E n : pools' = [pools EXCEPT ![id] = [pool EXCEPT !.end_time = n]]
    BY <1>4 DEF Deposit, Withdraw, CanWithdraw, StopReward, UpdateStorage
  <2>2. pool \in StakePool
    BY <2>1, UpdatePoolType, PoolType
  <2>3. x = id => pool.acc_token_per_share = pools[x].acc_token_per_share
    BY <1>1, <2>1, EndedSharesNothing
  <2> HIDE DEF pool
  <2>4. CASE x # id
    BY <2>1, <2>4
  <2>5. CASE x = id
    <3>1. \/ \E n : pools'[x] = [pool EXCEPT !.total_staked = n]
          \/ \E n : pools'[x] = [pool EXCEPT !.end_time = n]
      BY <1>1, <2>1, <2>5
    <3> QED BY <2>2, <2>3, <2>5, <3>1 DEF StakePool
  <2> QED BY <2>4, <2>5
<1>5. ASSUME NEW c \in Accounts, NEW id \in DOMAIN pools, EmergencyWithdraw(c, id)
      PROVE  pools'[x].acc_token_per_share = pools[x].acc_token_per_share
  <2>1. \E n : pools' = [pools EXCEPT ![id] = [pools[id] EXCEPT !.total_staked = n]]
    BY <1>5 DEF EmergencyWithdraw, UpdateStorage
  <2>2. pools'[x] = pools[x] \/ \E n : pools'[x] = [pools[x] EXCEPT !.total_staked = n]
    BY <1>1, <2>1
  <2> QED BY <1>1, <2>2 DEF StakePool
<1> QED BY <1>2, <1>3, <1>4, <1>5, PoolSteps

\* EndedPoolIsOver: a pool whose end is not before its start hands out nothing more once
\* it was brought up to date at its end or later, in whatever way it got its end.
THEOREM EndedPoolStaysOver == Spec => EndedPoolIsOver
<1>1. TypeInv /\ [Next]_vars => EndedStays
  BY EndedStep
<1>2. EndedPoolIsOver <=> [][EndedStays]_vars
  BY DEF EndedPoolIsOver, EndedStays
<1> QED BY <1>1, <1>2, InitHasType, TypeStep, PTL DEF Spec

-----------------------------------------------------------------------------
\* Stakes are not stuck

\* A stake is part of the total.
LEMMA StakeInTotal ==
  ASSUME TypeInv, TotalStakedIsSum, NEW id \in DOMAIN pools, NEW a \in Accounts
  PROVE  users[id][a].amount \in Nat /\ users[id][a].amount <= pools[id].total_staked
<1> DEFINE f == Stakes(id)
<1>1. \A x \in Accounts : f[x] \in Nat /\ f[x] = users[id][x].amount
  BY StakesType
<1>2. IsFiniteSet(Accounts) /\ IsFiniteSet(Accounts \ {a})
  BY HashAssumption, FS_RemoveElement
<1>3. pools[id].total_staked = SumFunctionOnSet(f, Accounts)
  BY DEF TotalStakedIsSum
<1> HIDE DEF f
<1>4. SumFunctionOnSet(f, Accounts) = f[a] + SumFunctionOnSet(f, Accounts \ {a})
  BY <1>1, <1>2, SumTakeOut
<1>5. SumFunctionOnSet(f, Accounts \ {a}) \in Nat
  BY <1>1, <1>2, SumIsNat
<1> QED BY <1>1, <1>3, <1>4, <1>5

\* emergency_withdraw takes no product, divides by nothing and does not update the
\* pool: whatever has become of the pool, a staker gets its stake back by it if the
\* contract has the tokens, since the total that it is taken from is the sum.
THEOREM StakeCanBeRecovered == Spec => []StakeIsRecoverable
<1>1. TypeInv /\ TotalStakedIsSum => StakeIsRecoverable
  <2> SUFFICES ASSUME TypeInv, TotalStakedIsSum, NEW id \in DOMAIN pools, NEW a \in Accounts,
                      users[id][a].amount # 0,
                      users[id][a].amount <= bal[pools[id].staking_token][Self]
               PROVE  CanEmergencyWithdraw(a, id)
    BY DEF StakeIsRecoverable
  <2>1. pools[id].total_staked \in Nat /\ users[id][a].amount \in Nat
    BY PoolType DEF StakePool, UserInfo
  <2>2. users[id][a].amount <= pools[id].total_staked
    BY StakeInTotal
  <2> QED BY <2>1, <2>2 DEF CanEmergencyWithdraw, CanPay
<1>2. Spec => []TypeInv
  BY InitHasType, TypeStep, PTL DEF Spec
<1> QED BY <1>1, <1>2, TotalStakedCorrect, PTL

\* A staker who leaves with everything is stopped by none of the checks, divisions and
\* subtractions of withdraw, in a pool that pays over a period of time: the divisor of
\* update_pool is not zero, the debt is covered by what the stake has accrued, the
\* stake is a part of the total, and both payments are covered by what the contract
\* was assumed to hold.
LEMMA WithdrawGoesThrough ==
  ASSUME TypeInv, TimesFit, TotalStakedIsSum, DebtCovered, Bounded,
         NEW id \in DOMAIN pools, NEW a \in Accounts, users[id][a].amount # 0,
         Proper(pools[id]),
         ~(Settled(pools[id]) \/ Unshared(pools[id])) => UpdateFits(pools[id]),
         Fits(users[id][a].amount * UpdatePool(pools[id]).acc_token_per_share),
         \A t \in Tokens : LeavingPays(id, a, t) <= bal[t][Self]
  PROVE  CanWithdraw(a, users[id][a].amount, id)
<1> DEFINE pool == UpdatePool(pools[id])
           user == users[id][a]
           n == user.amount
           paid == Pending(pool, user)
           s == pool.staking_token
           r == pool.reward_token
<1>1. pools[id] \in StakePool /\ now \in Nat /\ user \in UserInfo /\ n \in Nat \ {0}
  BY PoolType DEF UserInfo
<1>2. CanUpdate(pools[id])
  <2>1. /\ pools[id].start_time \in Nat /\ pools[id].end_time \in Nat
        /\ pools[id].start_time < pools[id].end_time /\ pools[id].end_time < U64
    BY <1>1 DEF StakePool, Proper, TimesFit
  <2>2. Minus64(pools[id].end_time, pools[id].start_time) # 0
    BY <2>1, Minus64Exact
  <2> QED BY <2>2 DEF CanUpdate
<1>3. /\ pool \in StakePool /\ pool.acc_token_per_share >= pools[id].acc_token_per_share
      /\ pool.precision = pools[id].precision /\ pool.total_staked = pools[id].total_staked
  BY <1>1, <1>2, UpdatePoolType
<1>4. n <= pool.total_staked
  BY <1>3, StakeInTotal
<1>5. paid \in Nat
  <2>1. user.reward_debt <= Accrued(pools[id], n)
    BY DEF DebtCovered
  <2> HIDE DEF pool, user
  <2>2. user.reward_debt <= Accrued(pool, user.amount)
    BY <1>1, <1>3, <2>1, CoveredDebtStays
  <2>3. Accrued(pool, user.amount) \in Nat /\ user.reward_debt \in Nat
    BY <1>1, <1>3, AccruedType DEF UserInfo
  <2> QED BY <2>2, <2>3 DEF Pending
<1>6. CanSettle(pool, user, n - n)
  <2>1. pool.acc_token_per_share \in Nat
    BY <1>3 DEF StakePool
  <2> DEFINE share == pool.acc_token_per_share
  <2>2. Fits(n * share)
    OBVIOUS
  <2> HIDE DEF share, n
  <2>3. (n - n) * share = 0
    BY <1>1, <2>1 DEF share, n
  <2>4. Fits((n - n) * share)
    BY <2>3, NumberAssumption DEF Fits
  <2> QED BY <1>5, <2>2, <2>4 DEF CanSettle, share, n
<1>7. CanWithdrawTransfers(a, pool, paid, n)
  <2>1. s \in Tokens /\ r \in Tokens /\ bal \in [Tokens -> [Holders -> Nat]]
    BY <1>3 DEF StakePool, TypeInv, TypeOK
  <2>2. /\ s = r => n + paid <= bal[s][Self]
        /\ s # r => (n <= bal[s][Self] /\ paid <= bal[r][Self])
    <3>1. s = pools[id].staking_token /\ r = pools[id].reward_token
      BY <1>1 DEF UpdatePool, StakePool
    <3>2. paid = Claimable(id, a)
      BY DEF Claimable
    <3>3. LeavingPays(id, a, s) <= bal[s][Self] /\ LeavingPays(id, a, r) <= bal[r][Self]
      BY <2>1
    <3>4. LeavingPays(id, a, s) = n + (IF r = s THEN paid ELSE 0)
      BY <3>1, <3>2 DEF LeavingPays
    <3>5. LeavingPays(id, a, r) = (IF s = r THEN n ELSE 0) + paid
      BY <3>1, <3>2 DEF LeavingPays
    <3> HIDE DEF s, r, pool, user, n, paid
    <3> QED BY <1>5, <1>1, <3>3, <3>4, <3>5 DEF n
  <2>3. a \in Holders /\ Self \in Holders
    BY HashAssumption DEF Holders
  <2> HIDE DEF pool, user, n, paid
  <2>4. /\ bal[s][Self] \in Nat /\ bal[r][Self] \in Nat /\ paid <= bal[r][Self]
        /\ n <= bal[s][Self] /\ (paid = 0 \/ r = s => paid + n <= bal[s][Self])
    <3>1. bal[s][Self] \in Nat /\ bal[r][Self] \in Nat
      BY <2>1, <2>3
    <3> QED BY <1>1, <1>5, <2>2, <3>1 DEF n
  <2>5. r # s => Transfer(bal, r, Self, a, paid)[s][Self] = bal[s][Self]
    BY <2>1, <2>3 DEF Transfer
  <2>6. CASE paid = 0 \/ r = s
    BY <2>4, <2>6 DEF CanWithdrawTransfers, CanPay
  <2>7. CASE paid # 0 /\ r # s
    BY <2>4, <2>5, <2>7 DEF CanWithdrawTransfers, CanPay
  <2> QED BY <2>6, <2>7
<1> QED BY <1>1, <1>2, <1>4, <1>6, <1>7 DEF CanWithdraw

\* StakeIsWithdrawable: nothing but a payment or a product that is too large ever keeps
\* a staker of a pool that pays over a period of time from withdrawing its whole stake.
THEOREM StakeCanBeWithdrawn == Spec => []StakeIsWithdrawable
<1>1. Init => TypeInv /\ TimesFit
  BY InitHasType DEF Init, TimesFit
<1>2. TypeInv /\ TimesFit /\ [Next]_vars => (TypeInv /\ TimesFit)'
  BY TypeStep, TimesFitStep
<1>3. TypeInv /\ TimesFit /\ TotalStakedIsSum /\ DebtCovered => StakeIsWithdrawable
  BY WithdrawGoesThrough DEF StakeIsWithdrawable
<1> QED BY <1>1, <1>2, <1>3, TotalStakedCorrect, DebtsCorrect, PTL DEF Spec
=============================================================================
