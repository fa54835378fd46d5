---------------------------- MODULE SolvencyProofs ----------------------------
(***************************************************************************)
(* The staking contract can pay all its stakers, for any pools, tokens,    *)
(* accounts, precisions and times.                                         *)
(***************************************************************************)
EXTENDS StakeSolvency, StakeProofs

-----------------------------------------------------------------------------
\* Division, by what it is compared with

\* k fits d-fold into n exactly if it is at most the quotient.
LEMMA FloorBounds ==
  ASSUME NEW n \in Nat, NEW d \in Nat \ {0}, NEW k \in Int
  PROVE  k <= n \div d <=> k * d <= n
<1> DEFINE q == n \div d
<1>1. q \in Nat /\ q * d <= n /\ n < (q + 1) * d
  OBVIOUS
<1> HIDE DEF q
<1>2. ASSUME k <= q PROVE k * d <= n
  <2>1. (q - k) * d >= 0
    BY <1>1, <1>2
  <2>2. (q - k) * d = q * d - k * d
    BY <1>1
  <2>3. q * d \in Int /\ k * d \in Int
    BY <1>1
  <2> QED BY <1>1, <2>1, <2>2, <2>3
<1>3. ASSUME k > q PROVE ~(k * d <= n)
  <2>1. (k - (q + 1)) * d >= 0
    BY <1>1, <1>3
  <2>2. (k - (q + 1)) * d = k * d - (q + 1) * d
    BY <1>1
  <2>3. (q + 1) * d \in Int /\ k * d \in Int
    BY <1>1
  <2> QED BY <1>1, <2>1, <2>2, <2>3
<1>4. k <= q \/ k > q
  BY <1>1
<1> QED BY <1>2, <1>3, <1>4 DEF q

\* k d's cover n exactly if k is at least the quotient rounded up.
LEMMA CeilBounds ==
  ASSUME NEW n \in Nat, NEW d \in Nat \ {0}, NEW k \in Int
  PROVE  /\ CeilDiv(n, d) \in Nat
         /\ CeilDiv(n, d) <= k <=> n <= k * d
<1> DEFINE c == (n + d - 1) \div d
           m == n + d - 1
<1>1. m \in Nat /\ c \in Nat
  OBVIOUS
<1>2. k + 1 <= c <=> (k + 1) * d <= m
  <2> c = m \div d
    OBVIOUS
  <2> HIDE DEF m, c
  <2> QED BY <1>1, FloorBounds
<1>3. (k + 1) * d = k * d + d /\ k * d \in Int
  OBVIOUS
<1>4. CeilDiv(n, d) = c
  BY DEF CeilDiv
<1>5. (k + 1) * d <= m <=> k * d + 1 <= n
  BY <1>3
<1> HIDE DEF c
<1> QED BY <1>1, <1>2, <1>3, <1>4, <1>5

\* Rounding down twice loses no less than rounding down once.
LEMMA FloorsAdd ==
  ASSUME NEW m \in Nat, NEW n \in Nat, NEW d \in Nat \ {0}
  PROVE  m \div d + n \div d <= (m + n) \div d
<1> DEFINE p == m \div d
           q == n \div d
<1>1. p \in Nat /\ q \in Nat /\ p * d <= m /\ q * d <= n
  OBVIOUS
<1> HIDE DEF p, q
<1>2. (p + q) * d = p * d + q * d /\ p * d \in Int /\ q * d \in Int
  BY <1>1
<1>3. (p + q) * d <= m + n
  BY <1>1, <1>2
<1>4. p + q <= (m + n) \div d
  BY <1>1, <1>3, FloorBounds
<1> QED BY <1>4 DEF p, q

-----------------------------------------------------------------------------
\* A pool's promise when it is brought up to date

LEMMA SecondsLeftType ==
  ASSUME NEW pool \in StakePool, Proper(pool)
  PROVE  SecondsLeft(pool) \in Nat
BY DEF SecondsLeft, StakePool, Proper, get_max

LEMMA RewardLeftType ==
  ASSUME NEW pool \in StakePool, Proper(pool)
  PROVE  RewardLeft(pool) \in Nat
<1> DEFINE l == pool.end_time - pool.start_time
<1>1. l \in Nat \ {0} /\ pool.total_reward \in Nat /\ SecondsLeft(pool) \in Nat
  BY SecondsLeftType DEF StakePool, Proper
<1> HIDE DEF l
<1>2. (SecondsLeft(pool) * pool.total_reward) \div l \in Nat
  BY <1>1, ProductType, QuotientType
<1> QED BY <1>2 DEF RewardLeft, l

LEMMA AccruedByAllType ==
  ASSUME NEW pool \in StakePool
  PROVE  /\ AccruedByAll(pool) \in Nat
         /\ pool.total_staked * pool.acc_token_per_share \in Nat
         /\ Scale[pool.precision] \in Nat \ {0}
<1>1. /\ pool.total_staked \in Nat /\ pool.acc_token_per_share \in Nat
      /\ Scale[pool.precision] \in Nat \ {0}
  BY NumberAssumption DEF StakePool
<1>2. pool.total_staked * pool.acc_token_per_share \in Nat
  BY <1>1, ProductType
<1> QED BY <1>1, <1>2, CeilBounds, SMTT(30) DEF AccruedByAll

\* Fewer seconds left, less reward left.
LEMMA LessLeft ==
  ASSUME NEW s \in Nat, NEW r \in Nat, s <= r, NEW n \in Nat, NEW l \in Nat \ {0}
  PROVE  (s * n) \div l <= (r * n) \div l
<1>1. n * s <= n * r /\ n * s = s * n /\ n * r = r * n
  BY ProductGrows
<1>2. s * n \in Nat /\ r * n \in Nat
  BY ProductType
<1> QED BY <1>1, <1>2, QuotientGrows

\* The reward of a period and what is left after it were left before it.
LEMMA PeriodTakesFromLeft ==
  ASSUME NEW s \in Nat, NEW r \in Nat, NEW n \in Nat, NEW l \in Nat \ {0}
  PROVE  (s * n) \div l + (r * n) \div l <= ((s + r) * n) \div l
<1>1. (s + r) * n = s * n + r * n /\ s * n \in Nat /\ r * n \in Nat
  OBVIOUS
<1> QED BY <1>1, FloorsAdd

\* A period's reward shared among t units of stake raises what all of them have
\* accrued by no more than that reward.
LEMMA SharedIsAccrued ==
  ASSUME NEW t \in Nat \ {0}, NEW s \in Nat, NEW reward \in Nat, NEW d \in Nat \ {0}
  PROVE  CeilDiv(t * (s + (reward * d) \div t), d) <= CeilDiv(t * s, d) + reward
<1> DEFINE i == (reward * d) \div t
           c == CeilDiv(t * s, d)
<1>1. reward * d \in Nat /\ t * s \in Nat
  OBVIOUS
<1>2. i \in Nat /\ i * t <= reward * d
  <2> reward * d = reward * d
    OBVIOUS
  <2> DEFINE n == reward * d
  <2>1. n \in Nat
    BY <1>1
  <2> HIDE DEF n
  <2>2. n \div t \in Nat /\ (n \div t) * t <= n
    BY <2>1
  <2> QED BY <2>2 DEF n
<1>3. c \in Nat /\ t * s <= c * d
  BY <1>1, CeilBounds
<1> HIDE DEF i, c
<1>4. t * (s + i) = t * s + i * t
  BY <1>2
<1>5. (c + reward) * d = c * d + reward * d
  BY <1>3
<1>6. t * (s + i) \in Nat /\ i * t \in Nat /\ c * d \in Nat
  BY <1>2, <1>3
<1>7. t * (s + i) <= (c + reward) * d
  BY <1>1, <1>2, <1>3, <1>4, <1>5, <1>6
<1>8. CeilDiv(t * (s + i), d) <= c + reward
  BY <1>3, <1>6, <1>7, CeilBounds
<1> QED BY <1>8 DEF i, c

\* What update_pool leaves alone, and what it writes for a pool that pays over a period
\* of time: nothing wraps around, so the pool is one whether or not it would panic.
LEMMA UpdatedPool ==
  ASSUME now \in Nat, NEW pool \in StakePool, Proper(pool), pool.end_time < U64
  PROVE  LET new == UpdatePool(pool)
         IN  /\ new \in StakePool /\ Proper(new) /\ new.end_time = pool.end_time
             /\ new.start_time = pool.start_time /\ new.total_reward = pool.total_reward
             /\ new.precision = pool.precision /\ new.total_staked = pool.total_staked
             /\ new.staking_token = pool.staking_token
             /\ new.reward_token = pool.reward_token
<1> DEFINE new == UpdatePool(pool)
<1>1. /\ pool.start_time \in Nat /\ pool.end_time \in Nat /\ pool.total_reward \in Nat
      /\ pool.start_time < pool.end_time /\ pool.total_staked \in Nat
      /\ pool.acc_token_per_share \in Nat /\ Scale[pool.precision] \in Nat \ {0}
  BY AccruedByAllType DEF StakePool, Proper
<1> DEFINE share == IF Unshared(pool) THEN pool.acc_token_per_share
                    ELSE pool.acc_token_per_share + ShareIncrease(pool)
<1>2. new = pool \/ new = [pool EXCEPT !.last_reward_timestamp = now,
                                       !.acc_token_per_share = share]
  BY DEF UpdatePool
<1>3. share \in Nat
  <2>1. CASE Unshared(pool)
    BY <1>1, <2>1
  <2>2. CASE ~Unshared(pool)
    <3>1. Minus64(pool.end_time, pool.start_time) \in Nat \ {0}
      <4>1. Minus64(pool.end_time, pool.start_time) = pool.end_time - pool.start_time
        BY <1>1, Minus64Exact
      <4> QED BY <1>1, <4>1
    <3>2. RewardUnlocked(pool) \in Nat
      <4> DEFINE first == get_max(pool.start_time, pool.last_reward_timestamp)
                 last == get_min(now, pool.end_time)
      <4>1. first \in Int /\ last \in Int
        BY <1>1 DEF get_max, get_min, StakePool
      <4> HIDE DEF first, last
      <4>2. Minus64(last, first) \in Nat
        BY <4>1, Minus64Type
      <4> QED BY <4>2 DEF RewardUnlocked, first, last
    <3>3. PeriodReward(pool) \in Nat
      <4> DEFINE d == Minus64(pool.end_time, pool.start_time)
                 s == RewardUnlocked(pool)
                 q == (s * pool.total_reward) \div d
      <4>1. d \in Nat \ {0} /\ s \in Nat
        BY <3>1, <3>2
      <4> HIDE DEF d, s
      <4>2. q \in Nat
        BY <1>1, <4>1, ProductType, QuotientType
      <4> QED BY <4>2 DEF PeriodReward, d, s
    <3>4. ShareIncrease(pool) \in Nat
      <4>1. pool.total_staked \in Nat \ {0}
        BY <1>1, <2>2 DEF Unshared
      <4> QED BY <1>1, <3>3, <4>1, ProductType, QuotientType DEF ShareIncrease
    <3> QED BY <1>1, <2>2, <3>4
  <2> QED BY <2>1, <2>2
<1> HIDE DEF share, new
<1>4. CASE new = pool
  BY <1>4 DEF new
<1>5. CASE new = [pool EXCEPT !.last_reward_timestamp = now, !.acc_token_per_share = share]
  <2>1. /\ new \in StakePool /\ new.end_time = pool.end_time
        /\ new.start_time = pool.start_time /\ new.total_reward = pool.total_reward
        /\ new.precision = pool.precision /\ new.total_staked = pool.total_staked
        /\ new.staking_token = pool.staking_token
        /\ new.reward_token = pool.reward_token
    BY <1>3, <1>5 DEF StakePool
  <2>2. Proper(new)
    BY <2>1 DEF Proper
  <2> QED BY <2>1, <2>2 DEF new
<1> QED BY <1>2, <1>4, <1>5

\* While there is nobody to share with, time only runs down what is left.
LEMMA UnsharedKeepsPromise ==
  ASSUME now \in Nat, NEW pool \in StakePool, Proper(pool), pool.end_time < U64,
         ~Settled(pool), Unshared(pool)
  PROVE  LET new == UpdatePool(pool)
         IN  /\ AccruedByAll(new) = AccruedByAll(pool)
             /\ RewardLeft(new) <= RewardLeft(pool)
<1> DEFINE new == UpdatePool(pool)
           l == pool.end_time - pool.start_time
<1>1. /\ pool.start_time \in Nat /\ pool.end_time \in Nat /\ pool.total_reward \in Nat
      /\ pool.last_reward_timestamp \in Nat /\ l \in Nat \ {0}
  BY DEF StakePool, Proper
<1>2. /\ new \in StakePool /\ Proper(new) /\ new.end_time = pool.end_time
      /\ new.start_time = pool.start_time /\ new.total_reward = pool.total_reward
      /\ new.precision = pool.precision /\ new.total_staked = pool.total_staked
  BY UpdatedPool
<1>3. new.last_reward_timestamp = now /\ new.acc_token_per_share = pool.acc_token_per_share
  <2>1. new = [pool EXCEPT !.last_reward_timestamp = now,
                           !.acc_token_per_share = pool.acc_token_per_share]
    BY DEF UpdatePool
  <2> HIDE DEF new
  <2> QED BY <2>1 DEF StakePool
<1>4. pool.last_reward_timestamp < now
  BY <1>1 DEF Settled
<1> HIDE DEF new
<1>5. SecondsLeft(new) <= SecondsLeft(pool)
  BY <1>1, <1>2, <1>3, <1>4 DEF SecondsLeft, get_max, Proper
<1>6. SecondsLeft(new) \in Nat /\ SecondsLeft(pool) \in Nat
  BY <1>2, SecondsLeftType
<1>7. RewardLeft(new) <= RewardLeft(pool)
  <2>1. (SecondsLeft(new) * pool.total_reward) \div l
          <= (SecondsLeft(pool) * pool.total_reward) \div l
    BY <1>1, <1>5, <1>6, LessLeft
  <2>2. RewardLeft(new) = (SecondsLeft(new) * pool.total_reward) \div l
    BY <1>2 DEF RewardLeft
  <2> QED BY <2>1, <2>2 DEF RewardLeft
<1>8. AccruedByAll(new) = AccruedByAll(pool)
  BY <1>2, <1>3 DEF AccruedByAll
<1> QED BY <1>7, <1>8 DEF new

\* What is shared comes out of what was left.
LEMMA SharedKeepsPromise ==
  ASSUME now \in Nat, NEW pool \in StakePool, Proper(pool), pool.end_time < U64,
         ~Settled(pool), ~Unshared(pool)
  PROVE  LET new == UpdatePool(pool)
         IN  AccruedByAll(new) + RewardLeft(new) <= AccruedByAll(pool) + RewardLeft(pool)
<1> DEFINE new == UpdatePool(pool)
           l == pool.end_time - pool.start_time
           s == RewardUnlocked(pool)
           reward == PeriodReward(pool)
           d == Scale[pool.precision]
           t == pool.total_staked
           acc == pool.acc_token_per_share
           left == SecondsLeft(new)
           n == pool.total_reward
<1>1. /\ pool.start_time \in Nat /\ pool.end_time \in Nat /\ n \in Nat
      /\ pool.last_reward_timestamp \in Nat /\ l \in Nat \ {0} /\ acc \in Nat
      /\ t \in Nat \ {0} /\ d \in Nat \ {0} /\ pool.start_time < pool.end_time
      /\ AccruedByAll(pool) = CeilDiv(t * acc, d)
  BY AccruedByAllType DEF StakePool, Proper, Unshared, AccruedByAll
<1>2. /\ new \in StakePool /\ Proper(new) /\ new.end_time = pool.end_time
      /\ new.start_time = pool.start_time /\ new.total_reward = pool.total_reward
      /\ new.precision = pool.precision /\ new.total_staked = pool.total_staked
  BY UpdatedPool
<1>3. /\ new.last_reward_timestamp = now
      /\ new.acc_token_per_share = acc + (reward * d) \div t
  <2> DEFINE i == ShareIncrease(pool)
  <2>1. new = [pool EXCEPT !.last_reward_timestamp = now,
                           !.acc_token_per_share = pool.acc_token_per_share + i]
    BY DEF UpdatePool
  <2>2. i = (reward * d) \div t
    BY DEF ShareIncrease
  <2> HIDE DEF new, i, reward
  <2>3. new.last_reward_timestamp = now /\ new.acc_token_per_share = acc + i
    BY <2>1 DEF StakePool
  <2> QED BY <2>2, <2>3
<1>4. /\ pool.last_reward_timestamp < now /\ pool.start_time <= now
      /\ pool.last_reward_timestamp <= pool.end_time
  BY <1>1 DEF Settled, Unshared
<1> DEFINE first == get_max(pool.start_time, pool.last_reward_timestamp)
           last == get_min(now, pool.end_time)
<1>5. first \in Nat /\ last \in Nat /\ first <= last /\ last < U64
  BY <1>1, <1>4, NumberAssumption DEF get_min, get_max
<1>6. s = last - first /\ Minus64(pool.end_time, pool.start_time) = l
  <2> HIDE DEF first, last
  <2>1. Minus64(last, first) = last - first
    BY <1>5, Minus64Exact
  <2>2. s = last - first
    BY <2>1 DEF RewardUnlocked, first, last
  <2> QED BY <1>1, <2>2, Minus64Exact
<1> HIDE DEF new, s, reward
<1>7. s \in Nat /\ left \in Nat /\ SecondsLeft(pool) = s + left
  BY <1>1, <1>2, <1>3, <1>4, <1>6 DEF SecondsLeft, get_max, get_min, Proper
<1>8. reward = (s * n) \div l
  BY <1>6, Zenon DEF reward, PeriodReward, s
<1>9. RewardLeft(pool) = ((s + left) * n) \div l /\ RewardLeft(new) = (left * n) \div l
  BY <1>2, <1>7 DEF RewardLeft
<1> HIDE DEF left, l, n, t, acc, d
<1>10. reward + RewardLeft(new) <= RewardLeft(pool)
  <2>1. (s * n) \div l + (left * n) \div l <= ((s + left) * n) \div l
    BY <1>1, <1>7, PeriodTakesFromLeft, Zenon
  <2> QED BY <1>8, <1>9, <2>1
<1>11. reward \in Nat
  BY <1>1, <1>7, <1>8, ProductType, QuotientType
<1>12. AccruedByAll(new) = CeilDiv(t * (acc + (reward * d) \div t), d)
  BY <1>2, <1>3 DEF AccruedByAll, t, d
<1>13. AccruedByAll(new) <= AccruedByAll(pool) + reward
  BY <1>1, <1>11, <1>12, SharedIsAccrued
<1>14. /\ AccruedByAll(new) \in Nat /\ AccruedByAll(pool) \in Nat
       /\ RewardLeft(new) \in Nat /\ RewardLeft(pool) \in Nat
  BY <1>2, AccruedByAllType, RewardLeftType
<1> QED BY <1>10, <1>11, <1>13, <1>14 DEF new

\* update_pool never makes a pool promise more.
LEMMA UpdateKeepsPromise ==
  ASSUME now \in Nat, NEW pool \in StakePool, Proper(pool), pool.end_time < U64
  PROVE  LET new == UpdatePool(pool)
         IN  AccruedByAll(new) + RewardLeft(new) <= AccruedByAll(pool) + RewardLeft(pool)
<1> DEFINE new == UpdatePool(pool)
<1>1. new \in StakePool /\ Proper(new)
  BY UpdatedPool
<1>2. /\ AccruedByAll(new) \in Nat /\ AccruedByAll(pool) \in Nat
      /\ RewardLeft(new) \in Nat /\ RewardLeft(pool) \in Nat
  BY <1>1, AccruedByAllType, RewardLeftType
<1>3. CASE Settled(pool)
  <2>1. new = pool
    BY <1>3 DEF UpdatePool
  <2> QED BY <1>2, <2>1
<1>4. CASE ~Settled(pool) /\ Unshared(pool)
  <2>1. AccruedByAll(new) = AccruedByAll(pool) /\ RewardLeft(new) <= RewardLeft(pool)
    BY <1>4, UnsharedKeepsPromise
  <2> HIDE DEF new
  <2>2. AccruedByAll(new) + RewardLeft(new) <= AccruedByAll(pool) + RewardLeft(pool)
    BY <1>2, <2>1
  <2> QED BY <2>2 DEF new
<1>5. CASE ~Settled(pool) /\ ~Unshared(pool)
  BY <1>5, SharedKeepsPromise
<1> QED BY <1>3, <1>4, <1>5

-----------------------------------------------------------------------------
\* Claims are promised

\* Who has no stake has no debt.
LEMMA NothingOwesNothing ==
  ASSUME TypeInv, DebtCovered, NEW id \in DOMAIN pools, NEW a \in Accounts,
         users[id][a].amount = 0
  PROVE  users[id][a].reward_debt = 0
<1>1. users[id][a].reward_debt \in Nat
  BY PoolType DEF UserInfo
<1>2. Scale[pools[id].precision] \in Nat \ {0} /\ pools[id].acc_token_per_share \in Nat
  BY PoolType, AccruedByAllType DEF StakePool
<1>3. Accrued(pools[id], 0) = 0
  BY <1>2 DEF Accrued
<1> QED BY <1>1, <1>3 DEF DebtCovered

LEMMA DebtsType ==
  ASSUME TypeInv, NEW id \in DOMAIN pools
  PROVE  /\ \A a \in Accounts : Debts(id)[a] = users[id][a].reward_debt /\ Debts(id)[a] \in Nat
         /\ SumFunctionOnSet(Debts(id), Accounts) \in Nat
<1>1. \A a \in Accounts : Debts(id)[a] = users[id][a].reward_debt /\ Debts(id)[a] \in Nat
  BY PoolType DEF Debts, UserInfo
<1> QED BY <1>1, SumIsNat, HashAssumption

LEMMA PromisedType ==
  ASSUME TypeInv, NEW id \in DOMAIN pools, Proper(pools[id])
  PROVE  Promised(id) \in Int
<1>1. /\ AccruedByAll(pools[id]) \in Nat /\ RewardLeft(pools[id]) \in Nat
      /\ SumFunctionOnSet(Debts(id), Accounts) \in Nat
  BY PoolType, AccruedByAllType, RewardLeftType, DebtsType
<1> QED BY <1>1 DEF Promised

\* What all users of a pool could claim now is no more than the pool has promised.
LEMMA ClaimsArePromised ==
  ASSUME TypeInv, TimesFit, TotalStakedIsSum, DebtCovered, NEW id \in DOMAIN pools,
         Proper(pools[id])
  PROVE  /\ SumFunctionOnSet(Claims(id), Accounts) \in Int
         /\ SumFunctionOnSet(Claims(id), Accounts) <= Promised(id)
<1> DEFINE old == pools[id]
           new == UpdatePool(old)
           s == new.acc_token_per_share
           d == Scale[old.precision]
           amounts == Stakes(id)
           debts == Debts(id)
           claims == Claims(id)
           worth == [a \in Accounts |-> (amounts[a] * s) \div d]
           total == SumFunctionOnSet(amounts, Accounts)
           W == SumFunctionOnSet(worth, Accounts)
           B == SumFunctionOnSet(debts, Accounts)
           C == SumFunctionOnSet(claims, Accounts)
<1>1. now \in Nat /\ old \in StakePool /\ old.end_time < U64 /\ IsFiniteSet(Accounts)
  BY PoolType, HashAssumption DEF TimesFit
<1>2. /\ new \in StakePool /\ Proper(new) /\ new.precision = old.precision
      /\ new.total_staked = old.total_staked
  BY <1>1, UpdatedPool
<1>3. s \in Nat /\ d \in Nat \ {0}
  BY <1>1, <1>2, AccruedByAllType DEF StakePool
<1>4. \A a \in Accounts : amounts[a] \in Nat /\ amounts[a] = users[id][a].amount
  BY StakesType
<1>5. \A a \in Accounts : debts[a] \in Nat /\ debts[a] = users[id][a].reward_debt
  BY DebtsType
<1>6. ASSUME NEW a \in Accounts PROVE claims[a] = worth[a] - debts[a]
  <2>1. claims[a] = Pending(new, users[id][a])
    BY DEF Claims, Claimable
  <2>2. Accrued(new, users[id][a].amount) = worth[a]
    BY <1>2, <1>4 DEF Accrued
  <2> HIDE DEF new, worth, claims, debts
  <2>3. CASE users[id][a].amount = 0
    <3>1. claims[a] = 0 /\ debts[a] = 0
      BY <1>5, <2>1, <2>3, NothingOwesNothing DEF Pending
    <3>2. worth[a] = 0
      BY <1>3, <1>4, <2>3 DEF worth
    <3> QED BY <3>1, <3>2
  <2>4. CASE users[id][a].amount # 0
    BY <1>5, <2>1, <2>2, <2>4 DEF Pending
  <2> QED BY <2>3, <2>4
<1>7. ASSUME NEW a \in Accounts
      PROVE  worth[a] \in Nat /\ worth[a] * d <= amounts[a] * s
  <2> DEFINE n == amounts[a] * s
  <2>1. n \in Nat
    BY <1>3, <1>4
  <2> HIDE DEF n
  <2>2. n \div d \in Nat /\ (n \div d) * d <= n
    BY <1>3, <2>1
  <2> QED BY <2>2 DEF n
<1>8. old.total_staked = total
  BY DEF TotalStakedIsSum
<1>9. AccruedByAll(new) = CeilDiv(total * s, d) /\ total * s \in Nat
  <2>1. new.total_staked * s \in Nat
    BY <1>2, AccruedByAllType
  <2> QED BY <1>2, <1>8, <2>1 DEF AccruedByAll
<1>10. AccruedByAll(new) \in Nat /\ AccruedByAll(old) \in Nat
       /\ RewardLeft(new) \in Nat /\ RewardLeft(old) \in Nat
  BY <1>1, <1>2, AccruedByAllType, RewardLeftType
<1>11. AccruedByAll(new) + RewardLeft(new) <= AccruedByAll(old) + RewardLeft(old)
  BY <1>1, UpdateKeepsPromise
<1>12. Promised(id) = AccruedByAll(old) - B + RewardLeft(old)
  BY DEF Promised
<1> HIDE DEF new, amounts, debts, claims, worth, s, d, old
<1>13. W \in Nat /\ B \in Nat
  BY <1>1, <1>5, <1>7, SumIsNat
<1>14. C = W - B
  BY <1>1, <1>5, <1>6, <1>7, SumOfDifference
<1>15. W * d <= total * s
  BY <1>1, <1>3, <1>4, <1>7, SumsCompare
<1> HIDE DEF W, B, C, total
<1>16. W <= CeilDiv(total * s, d)
  <2> DEFINE c == CeilDiv(total * s, d)
             m == total * s
  <2>1. c \in Nat /\ m <= c * d /\ m \in Nat
    BY <1>3, <1>9, CeilBounds
  <2> HIDE DEF c, m
  <2>2. W * d <= m
    BY <1>15 DEF m
  <2>3. (W - 1) * d = W * d - d /\ W * d \in Int
    BY <1>3, <1>13
  <2>4. (W - 1) * d < m
    BY <1>3, <2>1, <2>2, <2>3
  <2>5. ~(c <= W - 1)
    <3>1. W - 1 \in Int /\ (W - 1) * d \in Int
      BY <1>3, <1>13
    <3>2. ~(m <= (W - 1) * d)
      BY <2>1, <2>4, <3>1
    <3> QED BY <1>3, <2>1, <3>1, <3>2, CeilBounds DEF c, m
  <2>6. W <= c
    BY <1>13, <2>1, <2>5
  <2> QED BY <2>6 DEF c
<1>17. C \in Int /\ C <= Promised(id)
  BY <1>9, <1>10, <1>11, <1>12, <1>13, <1>14, <1>16
<1> QED BY <1>17 DEF C, claims

\* All pools pay over a period of time, as Solvency asks.
AllProper == \A id \in DOMAIN pools : Proper(pools[id])

PoolsAreFinite == IsFiniteSet(DOMAIN pools)

LEMMA FinitelyManyPools == TypeInv => PoolsAreFinite
<1>1. TypeInv => DOMAIN pools \subseteq 0..(index - 1) /\ 0 \in Int /\ index - 1 \in Int
  BY NumberAssumption DEF TypeInv, TypeOK
<1> QED BY <1>1, FS_Interval, FS_Subset DEF PoolsAreFinite

LEMMA CommittedType ==
  ASSUME TypeInv, AllProper, NEW t \in Tokens
  PROVE  /\ \A id \in DOMAIN pools : CommittedByPool(t)[id] \in Int
         /\ Committed(t) \in Int
<1>1. ASSUME NEW id \in DOMAIN pools PROVE CommittedByPool(t)[id] \in Int
  <2>1. Promised(id) \in Int /\ pools[id].total_staked \in Int
    BY PromisedType, PoolType DEF AllProper, StakePool
  <2> QED BY <2>1 DEF CommittedByPool
<1> QED BY <1>1, FinitelyManyPools, SumIsInt DEF Committed, PoolsAreFinite

\* What the contract owes by now is part of what its pools may ever pay.
LEMMA OwedIsCommitted ==
  ASSUME TypeInv, TimesFit, TotalStakedIsSum, DebtCovered, AllProper, NEW t \in Tokens
  PROVE  Owed(t) \in Int /\ Owed(t) <= Committed(t)
<1> DEFINE owed == OwedByPool(t)
           committed == CommittedByPool(t)
<1>1. ASSUME NEW id \in DOMAIN pools
      PROVE  owed[id] \in Int /\ committed[id] \in Int /\ owed[id] <= committed[id]
  <2> DEFINE C == SumFunctionOnSet(Claims(id), Accounts)
  <2>1. C \in Int /\ Promised(id) \in Int /\ C <= Promised(id)
    BY ClaimsArePromised, PromisedType DEF AllProper
  <2>2. pools[id].total_staked \in Nat
    BY PoolType DEF StakePool
  <2>3. owed[id] = (IF pools[id].staking_token = t THEN pools[id].total_staked ELSE 0)
                     + (IF pools[id].reward_token = t THEN C ELSE 0)
    BY DEF OwedByPool
  <2>4. committed[id] = (IF pools[id].staking_token = t THEN pools[id].total_staked ELSE 0)
                          + (IF pools[id].reward_token = t THEN Promised(id) ELSE 0)
    BY DEF CommittedByPool
  <2> HIDE DEF owed, committed, C
  <2> QED BY <2>1, <2>2, <2>3, <2>4
<1>2. IsFiniteSet(DOMAIN pools)
  BY FinitelyManyPools DEF PoolsAreFinite
<1> HIDE DEF owed, committed
<1>3. SumFunctionOnSet(owed, DOMAIN pools) <= SumFunctionOnSet(committed, DOMAIN pools)
  BY <1>1, <1>2, SumOfSmaller
<1>4. SumFunctionOnSet(owed, DOMAIN pools) \in Int
  BY <1>1, <1>2, SumIsInt
<1> QED BY <1>3, <1>4 DEF Owed, Committed, owed, committed

\* What the contract holds of a token, and what it need not.
Means(t) == bal[t][Self] + taken[t] + roundings[t]

LEMMA MeansType ==
  ASSUME TypeInv, NEW t \in Tokens
  PROVE  /\ Means(t) \in Nat
         /\ bal[t][Self] \in Nat /\ taken[t] \in Nat /\ roundings[t] \in Nat
<1>1. bal[t][Self] \in Nat /\ taken[t] \in Nat /\ roundings[t] \in Nat
  BY HashAssumption DEF TypeInv, TypeOK, Holders
<1> QED BY <1>1 DEF Means

\* A contract that covers its commitments is solvent.
LEMMA CoveredIsSolvent ==
  ASSUME TypeInv, TimesFit, TotalStakedIsSum, DebtCovered, CommitmentsCovered
  PROVE  Solvency
<1> SUFFICES ASSUME self_contract_hash = Self, AllProper, NEW t \in Tokens
             PROVE  Owed(t) <= Means(t)
  BY DEF Solvency, AllProper, Means
<1>1. Owed(t) \in Int /\ Owed(t) <= Committed(t)
  BY OwedIsCommitted
<1>2. Committed(t) \in Int /\ Means(t) \in Int
  BY CommittedType, MeansType
<1>3. Committed(t) <= Means(t)
  BY DEF CommitmentsCovered, AllProper, Means
<1> QED BY <1>1, <1>2, <1>3

-----------------------------------------------------------------------------
\* A stake that changes

\* What all have accrued after one of them has changed its stake from n to m: the
\* old stake's share is gone, the new one's is there, and one unit more if the
\* new one was rounded down.
LEMMA AccruedAfterRestake ==
  ASSUME NEW t \in Nat, NEW n \in Nat, NEW m \in Nat, n <= t,
         NEW s \in Nat, NEW d \in Nat \ {0}, NEW r \in {0, 1},
         r = 0 => (m * s) % d = 0
  PROVE  CeilDiv((t - n + m) * s, d) <= CeilDiv(t * s, d) - (n * s) \div d + (m * s) \div d + r
<1> DEFINE c == CeilDiv(t * s, d)
           p == n * s
           q == m * s
           f == p \div d
           g == q \div d
           k == c - f + g + r
<1>1. p \in Nat /\ q \in Nat /\ t * s \in Nat
  OBVIOUS
<1>2. c \in Nat /\ t * s <= c * d
  BY <1>1, CeilBounds
<1>3. f \in Nat /\ f * d <= p
  <2> HIDE DEF p
  <2> QED BY <1>1
<1>4. g \in Nat /\ q <= (g + r) * d
  <2> HIDE DEF q
  <2>1. g \in Nat /\ q < (g + 1) * d /\ q = g * d + (q % d)
    BY <1>1
  <2>2. CASE r = 0
    <3>1. q % d = 0 /\ g * d \in Int /\ g + r = g
      BY <2>1, <2>2 DEF q
    <3> HIDE DEF g
    <3>2. q = g * d
      BY <1>1, <2>1, <3>1
    <3>3. q <= (g + r) * d
      BY <1>1, <3>1, <3>2
    <3> QED BY <2>1, <3>3 DEF g
  <2>3. CASE r = 1
    <3>1. (g + 1) * d \in Int
      BY <2>1
    <3> QED BY <1>1, <2>1, <2>3, <3>1
  <2> QED BY <2>2, <2>3
<1>5. (t - n + m) * s = t * s - p + q /\ (t - n + m) * s \in Nat
  <2>1. (t - n + m) * s = t * s - n * s + m * s
    OBVIOUS
  <2>2. t - n + m \in Nat
    OBVIOUS
  <2> DEFINE u == t - n + m
  <2> HIDE DEF u
  <2>3. u * s \in Nat
    BY <2>2, ProductType DEF u
  <2> QED BY <2>1, <2>3 DEF u
<1> HIDE DEF c, p, q, f, g
<1>6. k * d = c * d - f * d + (g + r) * d
  BY <1>2, <1>3, <1>4
<1>7. c * d \in Int /\ f * d \in Int /\ (g + r) * d \in Int /\ k \in Int
  BY <1>2, <1>3, <1>4
<1>8. (t - n + m) * s <= k * d
  <2> DEFINE x == (t - n + m) * s
             y == t * s
  <2>1. x = y - p + q /\ x \in Nat /\ y \in Nat /\ y <= c * d
    BY <1>1, <1>2, <1>5
  <2> HIDE DEF x, y, k
  <2>2. x <= k * d
    BY <1>1, <1>3, <1>4, <1>6, <1>7, <2>1
  <2> QED BY <2>2 DEF x
<1> HIDE DEF k
<1>9. CeilDiv((t - n + m) * s, d) <= k
  <2> DEFINE x == (t - n + m) * s
  <2>1. x \in Nat /\ x <= k * d
    BY <1>5, <1>8
  <2> HIDE DEF x
  <2>2. CeilDiv(x, d) <= k
    BY <1>7, <2>1, CeilBounds
  <2> QED BY <2>2 DEF x
<1> QED BY <1>9 DEF k, c, p, q, f, g

\* The new promise of a pool in which a user's stake was replaced by one of n, after
\* the pool was brought up to date or without that: it is less by the reward the user
\* had accrued and not been paid before.
LEMMA RestakeKeepsPromise ==
  ASSUME TypeInv, TypeInv', TimesFit, TotalStakedIsSum, AllProper,
         NEW c \in Accounts, NEW id \in DOMAIN pools,
         NEW pool \in {pools[id], UpdatePool(pools[id])}, NEW n \in Nat,
         NEW total \in Nat, total = pool.total_staked - users[id][c].amount + n,
         UpdateStorage(c, id, [pool EXCEPT !.total_staked = total], StakeOf(pool, n)),
         NEW r \in {0, 1},
         r = 0 => (n * pool.acc_token_per_share) % Scale[pool.precision] = 0
  PROVE  /\ Promised(id)' \in Int
         /\ Promised(id)' <= Promised(id) + r
                               - (Accrued(pool, users[id][c].amount) - users[id][c].reward_debt)
         /\ pools'[id].total_staked = total
         /\ pools'[id].staking_token = pools[id].staking_token
         /\ pools'[id].reward_token = pools[id].reward_token
         /\ DOMAIN pools' = DOMAIN pools
         /\ \A x \in DOMAIN pools \ {id} : pools'[x] = pools[x] /\ users'[x] = users[x]
<1> DEFINE old == pools[id]
           user == users[id][c]
           stake == StakeOf(pool, n)
           new == [pool EXCEPT !.total_staked = total]
           s == pool.acc_token_per_share
           d == Scale[pool.precision]
           B == SumFunctionOnSet(Debts(id), Accounts)
           B2 == SumFunctionOnSet(Debts(id)', Accounts)
<1>1. /\ now \in Nat /\ old \in StakePool /\ Proper(old) /\ old.end_time < U64
      /\ user \in UserInfo /\ user.amount \in Nat /\ user.reward_debt \in Nat
  BY PoolType DEF TimesFit, AllProper, UserInfo
<1>2. /\ pool \in StakePool /\ Proper(pool) /\ pool.total_staked = old.total_staked
      /\ pool.staking_token = old.staking_token /\ pool.reward_token = old.reward_token
  BY <1>1, UpdatedPool
<1>3. AccruedByAll(pool) + RewardLeft(pool) <= AccruedByAll(old) + RewardLeft(old)
  <2>1. AccruedByAll(old) \in Nat /\ RewardLeft(old) \in Nat
    BY <1>1, AccruedByAllType, RewardLeftType
  <2> QED BY <1>1, <2>1, UpdateKeepsPromise
<1>4. user.amount <= pool.total_staked
  BY <1>2, StakeInTotal
<1>5. /\ new \in StakePool /\ new.total_staked = total /\ new.precision = pool.precision
      /\ new.acc_token_per_share = s
  BY <1>2, ChangedTotal
<1>6. /\ stake \in UserInfo /\ stake.reward_debt = (n * s) \div d
  BY <1>2, StakeOfType DEF StakeOf, Accrued
<1>7. new.staking_token = old.staking_token /\ new.reward_token = old.reward_token
  BY <1>2 DEF StakePool
<1>8. RewardLeft(new) = RewardLeft(pool)
  BY <1>2 DEF StakePool, RewardLeft, SecondsLeft
<1>9. /\ DOMAIN pools' = DOMAIN pools /\ pools'[id] = new
      /\ \A x \in DOMAIN pools \ {id} : pools'[x] = pools[x] /\ users'[x] = users[x]
      /\ users'[id][c] = stake
      /\ \A a \in Accounts \ {c} : users'[id][a] = users[id][a]
  BY <1>5, <1>6, UpdateStorageType
<1>10. s \in Nat /\ d \in Nat \ {0} /\ pool.total_staked \in Nat
  BY <1>2, AccruedByAllType DEF StakePool
<1>11. B2 = B + (n * s) \div d - user.reward_debt /\ B \in Nat
  <2> DEFINE f == Debts(id)
             g == Debts(id)'
  <2>1. \A a \in Accounts : f[a] = users[id][a].reward_debt /\ f[a] \in Nat
    BY DebtsType
  <2>2. \A a \in Accounts : g[a] = users'[id][a].reward_debt
    BY DEF Debts
  <2>3. g[c] = (n * s) \div d /\ g[c] \in Nat
    <3>1. stake.reward_debt \in Nat
      BY <1>6 DEF UserInfo
    <3> QED BY <1>6, <1>9, <2>2, <3>1
  <2>4. \A a \in Accounts \ {c} : f[a] = g[a]
    BY <1>9, <2>1, <2>2
  <2>5. IsFiniteSet(Accounts) /\ B \in Nat
    BY HashAssumption, DebtsType
  <2> HIDE DEF f, g
  <2>6. \A a \in Accounts : f[a] \in Int /\ g[a] \in Int
    BY <2>1, <2>3, <2>4
  <2>7. SumFunctionOnSet(g, Accounts) = SumFunctionOnSet(f, Accounts) + g[c] - f[c]
    BY <2>4, <2>5, <2>6, SumChangeAt
  <2> QED BY <2>1, <2>3, <2>5, <2>7 DEF f, g
<1>12. Promised(id) = AccruedByAll(old) - B + RewardLeft(old)
  BY DEF Promised
<1>13. Promised(id)' = AccruedByAll(new) - B2 + RewardLeft(new)
  BY <1>9 DEF Promised
<1>14. AccruedByAll(new) <= AccruedByAll(pool) - (user.amount * s) \div d + (n * s) \div d + r
  <2> DEFINE t == pool.total_staked
             m == user.amount
  <2>1. AccruedByAll(new) = CeilDiv(total * s, d) /\ AccruedByAll(pool) = CeilDiv(t * s, d)
    BY <1>5 DEF AccruedByAll
  <2>2. t \in Nat /\ m \in Nat /\ m <= t /\ total = t - m + n
    BY <1>1, <1>4, <1>10
  <2>3. r = 0 => (n * s) % d = 0
    OBVIOUS
  <2> HIDE DEF t, m, new, s, d
  <2>4. CeilDiv((t - m + n) * s, d)
          <= CeilDiv(t * s, d) - (m * s) \div d + (n * s) \div d + r
    BY <1>10, <2>2, <2>3, AccruedAfterRestake
  <2> QED BY <2>1, <2>2, <2>4 DEF m
<1>15. Accrued(pool, user.amount) = (user.amount * s) \div d
  BY DEF Accrued
<1>16. (user.amount * s) \div d \in Nat /\ (n * s) \div d \in Nat
  BY <1>1, <1>10, ProductType, QuotientType
<1>17. /\ AccruedByAll(old) \in Nat /\ AccruedByAll(new) \in Nat /\ AccruedByAll(pool) \in Nat
       /\ RewardLeft(old) \in Nat /\ RewardLeft(pool) \in Nat
  BY <1>1, <1>2, <1>5, AccruedByAllType, RewardLeftType
<1>18. /\ Promised(id)' \in Int
       /\ Promised(id)' <= Promised(id) + r - (Accrued(pool, user.amount) - user.reward_debt)
  <2> DEFINE x == (user.amount * s) \div d
             y == (n * s) \div d
             e == user.reward_debt
  <2>1. B2 = B + y - e /\ Accrued(pool, user.amount) = x /\ x \in Nat /\ y \in Nat
    BY <1>11, <1>15, <1>16
  <2>2. AccruedByAll(new) <= AccruedByAll(pool) - x + y + r
    BY <1>14
  <2>3. e \in Nat /\ B \in Nat
    BY <1>1, <1>11
  <2> HIDE DEF x, y, e, B, B2, new, old
  <2>4. /\ Promised(id)' \in Int
        /\ Promised(id)' <= Promised(id) + r - (x - e)
    BY <1>3, <1>8, <1>12, <1>13, <1>17, <2>1, <2>2, <2>3
  <2> QED BY <2>1, <2>4 DEF e
<1> QED BY <1>5, <1>7, <1>9, <1>18

\* n if the condition holds.
If(condition, n) == IF condition THEN n ELSE 0

\* A payment as the contract sees it: TransferFrom and Transfer write the same.
LEMMA SelfPaid ==
  ASSUME NEW b \in [Tokens -> [Holders -> Nat]], NEW t \in Tokens, NEW c \in Accounts,
         NEW n \in Nat, NEW x \in Tokens
  PROVE  /\ TransferFrom(b, t, c, Self, n)[x][Self] = b[x][Self] + If(x = t, n)
         /\ Transfer(b, t, Self, c, n)[x][Self] = b[x][Self] - If(x = t, n)
<1>1. Self \in Holders /\ c \in Holders /\ c # Self
  BY HashAssumption DEF Holders
<1>2. b[x] \in [Holders -> Nat] /\ b[t] \in [Holders -> Nat] /\ b[x][Self] \in Nat
  BY <1>1
<1>3. TransferFrom(b, t, c, Self, n)[x][Self] = b[x][Self] + If(x = t, n)
  BY <1>1, <1>2 DEF TransferFrom, If
<1>4. Transfer(b, t, Self, c, n)[x][Self] = b[x][Self] - If(x = t, n)
  BY <1>1, <1>2 DEF Transfer, If
<1> QED BY <1>3, <1>4

LEMMA DepositPays ==
  ASSUME TypeInv, self_contract_hash = Self, NEW c \in Accounts, NEW pool \in StakePool,
         NEW n \in Nat, NEW a \in Nat, DepositTransfers(c, pool, n, a), NEW x \in Tokens
  PROVE  bal'[x][Self] = bal[x][Self] + If(x = pool.staking_token, a)
                           - If(x = pool.reward_token, n)
<1> DEFINE s == pool.staking_token
           r == pool.reward_token
<1>1. /\ bal \in [Tokens -> [Holders -> Nat]] /\ s \in Tokens /\ r \in Tokens
      /\ c \in Holders /\ Self \in Holders /\ c # Self /\ bal[x][Self] \in Nat
  <2>1. c \in Holders /\ Self \in Holders /\ c # Self
    BY HashAssumption DEF Holders
  <2>2. bal \in [Tokens -> [Holders -> Nat]]
    BY DEF TypeInv, TypeOK
  <2> QED BY <2>1, <2>2 DEF StakePool
<1>2. \/ n = 0 /\ bal' = TransferFrom(bal, s, c, Self, a)
      \/ n > a /\ r = s /\ bal' = Transfer(bal, s, Self, c, n - a)
      \/ n <= a /\ r = s /\ bal' = TransferFrom(bal, s, c, Self, a - n)
      \/ /\ r # s /\ CanPay(bal, r, Self, n)
         /\ bal' = TransferFrom(Transfer(bal, r, Self, c, n), s, c, Self, a)
  BY DEF DepositTransfers
<1> HIDE DEF s, r
<1>3. CASE n = 0 /\ bal' = TransferFrom(bal, s, c, Self, a)
  <2>1. bal'[x][Self] = bal[x][Self] + If(x = s, a) /\ If(x = r, n) = 0
    <3>1. bal'[x][Self] = bal[x][Self] + If(x = s, a)
      BY <1>1, <1>3, SelfPaid
    <3> QED BY <1>3, <3>1 DEF If
  <2>2. If(x = s, a) \in Nat
    BY DEF If
  <2>3. bal'[x][Self] = bal[x][Self] + If(x = s, a) - If(x = r, n)
    BY <1>1, <2>1, <2>2
  <2> QED BY <2>3 DEF s, r
<1>4. CASE n > a /\ r = s /\ bal' = Transfer(bal, s, Self, c, n - a)
  <2>1. bal'[x][Self] = bal[x][Self] - If(x = s, n - a)
    <3>1. n - a \in Nat
      BY <1>4
    <3> QED BY <1>1, <1>4, <3>1, SelfPaid
  <2>2. bal'[x][Self] = bal[x][Self] + If(x = s, a) - If(x = r, n)
    BY <1>1, <1>4, <2>1, SMTT(30) DEF If
  <2> QED BY <2>2 DEF s, r
<1>5. CASE n <= a /\ r = s /\ bal' = TransferFrom(bal, s, c, Self, a - n)
  <2>1. bal'[x][Self] = bal[x][Self] + If(x = s, a - n)
    <3>1. a - n \in Nat
      BY <1>5
    <3> QED BY <1>1, <1>5, <3>1, SelfPaid
  <2>2. bal'[x][Self] = bal[x][Self] + If(x = s, a) - If(x = r, n)
    BY <1>1, <1>5, <2>1 DEF If
  <2> QED BY <2>2 DEF s, r
<1>6. CASE /\ r # s /\ CanPay(bal, r, Self, n)
           /\ bal' = TransferFrom(Transfer(bal, r, Self, c, n), s, c, Self, a)
  <2>0. PICK b : b = Transfer(bal, r, Self, c, n)
    OBVIOUS
  <2>1. b \in [Tokens -> [Holders -> Nat]]
    BY <1>1, <1>6, <2>0, PaymentType
  <2>2. b[x][Self] = bal[x][Self] - If(x = r, n)
    BY <1>1, <2>0 DEF Transfer, If
  <2>3. bal' = TransferFrom(b, s, c, Self, a)
    BY <1>6, <2>0
  <2>4. bal'[x][Self] = b[x][Self] + If(x = s, a)
    <3>1. TransferFrom(b, s, c, Self, a)[x][Self] = b[x][Self] + If(x = s, a)
      BY <1>1, <2>1 DEF TransferFrom, Transfer, If
    <3> QED BY <2>3, <3>1
  <2>5. If(x = s, a) \in Nat /\ If(x = r, n) \in Nat
    BY DEF If
  <2>6. bal'[x][Self] = bal[x][Self] + If(x = s, a) - If(x = r, n)
    BY <1>1, <2>2, <2>4, <2>5
  <2> QED BY <2>6 DEF s, r
<1> QED BY <1>2, <1>3, <1>4, <1>5, <1>6

LEMMA WithdrawPays ==
  ASSUME TypeInv, NEW c \in Accounts, NEW pool \in StakePool,
         NEW n \in Nat, NEW a \in Nat,
         CanWithdrawTransfers(c, pool, n, a), WithdrawTransfers(c, pool, n, a), NEW x \in Tokens
  PROVE  bal'[x][Self] = bal[x][Self] - If(x = pool.staking_token, a)
                           - If(x = pool.reward_token, n)
<1> DEFINE s == pool.staking_token
           r == pool.reward_token
<1>1. /\ bal \in [Tokens -> [Holders -> Nat]] /\ s \in Tokens /\ r \in Tokens
      /\ c \in Holders /\ Self \in Holders /\ c # Self /\ bal[x][Self] \in Nat
  <2>1. c \in Holders /\ Self \in Holders /\ c # Self
    BY HashAssumption DEF Holders
  <2>2. bal \in [Tokens -> [Holders -> Nat]]
    BY DEF TypeInv, TypeOK
  <2> QED BY <2>1, <2>2 DEF StakePool
<1>2. \/ (n = 0 \/ r = s) /\ bal' = Transfer(bal, s, Self, c, n + a)
      \/ /\ r # s /\ CanPay(bal, r, Self, n)
         /\ bal' = Transfer(Transfer(bal, r, Self, c, n), s, Self, c, a)
  BY DEF WithdrawTransfers, CanWithdrawTransfers
<1> HIDE DEF s, r
<1>3. CASE (n = 0 \/ r = s) /\ bal' = Transfer(bal, s, Self, c, n + a)
  <2>1. bal'[x][Self] = bal[x][Self] - If(x = s, n + a)
    <3>1. n + a \in Nat
      OBVIOUS
    <3> QED BY <1>1, <1>3, <3>1, SelfPaid
  <2>2. bal'[x][Self] = bal[x][Self] - If(x = s, a) - If(x = r, n)
    BY <1>1, <1>3, <2>1 DEF If
  <2> QED BY <2>2 DEF s, r
<1>4. CASE /\ r # s /\ CanPay(bal, r, Self, n)
           /\ bal' = Transfer(Transfer(bal, r, Self, c, n), s, Self, c, a)
  <2>0. PICK b : b = Transfer(bal, r, Self, c, n)
    OBVIOUS
  <2>1. b \in [Tokens -> [Holders -> Nat]]
    BY <1>1, <1>4, <2>0, PaymentType
  <2>2. b[x][Self] = bal[x][Self] - If(x = r, n)
    BY <1>1, <2>0 DEF Transfer, If
  <2>3. bal' = Transfer(b, s, Self, c, a)
    BY <1>4, <2>0
  <2>4. bal'[x][Self] = b[x][Self] - If(x = s, a)
    <3>1. Transfer(b, s, Self, c, a)[x][Self] = b[x][Self] - If(x = s, a)
      BY <1>1, <2>1 DEF TransferFrom, Transfer, If
    <3> QED BY <2>3, <3>1
  <2>5. If(x = s, a) \in Nat /\ If(x = r, n) \in Nat
    BY DEF If
  <2>6. bal'[x][Self] = bal[x][Self] - If(x = s, a) - If(x = r, n)
    BY <1>1, <2>2, <2>4, <2>5
  <2> QED BY <2>6 DEF s, r
<1> QED BY <1>2, <1>3, <1>4

\* A debt that is rounded down is counted, in the pool's reward token.
LEMMA RoundingsCount ==
  ASSUME TypeInv, NEW pool \in StakePool, NEW n \in Nat, RoundedDown(pool, n)
  PROVE  \E r \in {0, 1} :
           /\ r = 0 => (n * pool.acc_token_per_share) % Scale[pool.precision] = 0
           /\ \A x \in Tokens : roundings'[x] = roundings[x] + If(x = pool.reward_token, r)
<1> DEFINE exact == (n * pool.acc_token_per_share) % Scale[pool.precision] = 0
<1>1. roundings \in [Tokens -> Nat] /\ pool.reward_token \in Tokens
  BY DEF TypeInv, TypeOK, StakePool
<1>2. roundings' = IF exact THEN roundings
                   ELSE [roundings EXCEPT ![pool.reward_token] = @ + 1]
  BY DEF RoundedDown
<1> HIDE DEF exact
<1>3. CASE exact
  <2>1. \A x \in Tokens : roundings'[x] = roundings[x] + If(x = pool.reward_token, 0)
    BY <1>1, <1>2, <1>3 DEF If
  <2> QED BY <1>3, <2>1 DEF exact
<1>4. CASE ~exact
  <2>1. \A x \in Tokens : roundings'[x] = roundings[x] + If(x = pool.reward_token, 1)
    BY <1>1, <1>2, <1>4 DEF If
  <2> QED BY <2>1
<1> QED BY <1>3, <1>4

-----------------------------------------------------------------------------
\* A step of one pool

\* Only this pool's commitments change, and by no more than what the contract holds.
PaidFor(id) ==
  /\ DOMAIN pools' = DOMAIN pools
  /\ \A x \in DOMAIN pools \ {id} : pools'[x] = pools[x] /\ users'[x] = users[x]
  /\ \A t \in Tokens :
       /\ CommittedByPool(t)'[id] \in Int
       /\ CommittedByPool(t)'[id] - CommittedByPool(t)[id] <= Means(t)' - Means(t)

\* A pool's commitments after a step, from its stakes and its promise.
LEMMA PaidByParts ==
  ASSUME TypeInv, TypeInv', AllProper, NEW id \in DOMAIN pools, id \in DOMAIN pools',
         Promised(id)' \in Int, pools'[id].total_staked \in Int,
         pools'[id].staking_token = pools[id].staking_token,
         pools'[id].reward_token = pools[id].reward_token, NEW t \in Tokens,
         If(t = pools[id].staking_token, pools'[id].total_staked - pools[id].total_staked)
           + If(t = pools[id].reward_token, Promised(id)' - Promised(id))
         <= Means(t)' - Means(t)
  PROVE  /\ CommittedByPool(t)'[id] \in Int
         /\ CommittedByPool(t)'[id] - CommittedByPool(t)[id] <= Means(t)' - Means(t)
<1>1. Promised(id) \in Int /\ pools[id].total_staked \in Int
  BY PromisedType, PoolType DEF AllProper, StakePool
<1>2. CommittedByPool(t)[id] = If(pools[id].staking_token = t, pools[id].total_staked)
                                 + If(pools[id].reward_token = t, Promised(id))
  BY DEF CommittedByPool, If
<1>3. CommittedByPool(t)'[id] = If(pools[id].staking_token = t, pools'[id].total_staked)
                                  + If(pools[id].reward_token = t, Promised(id)')
  BY DEF CommittedByPool, If
<1>4. Means(t) \in Int /\ Means(t)' \in Int
  <2>1. Means(t) \in Nat
    BY MeansType
  <2>2. bal'[t][Self] \in Nat /\ taken'[t] \in Nat /\ roundings'[t] \in Nat
    BY HashAssumption DEF TypeInv, TypeOK, Holders
  <2> QED BY <2>1, <2>2 DEF Means
<1> DEFINE s == t = pools[id].staking_token
           r == t = pools[id].reward_token
           m == pools[id].total_staked
           n == pools'[id].total_staked
           p == Promised(id)
           q == Promised(id)'
<1>5. /\ m \in Int /\ n \in Int /\ p \in Int /\ q \in Int
      /\ If(s, n - m) + If(r, q - p) <= Means(t)' - Means(t)
      /\ CommittedByPool(t)[id] = If(s, m) + If(r, p)
      /\ CommittedByPool(t)'[id] = If(s, n) + If(r, q)
  BY <1>1, <1>2, <1>3
<1> HIDE DEF s, r, m, n, p, q
<1>6. If(s, n - m) = If(s, n) - If(s, m) /\ If(s, n) \in Int /\ If(s, m) \in Int
  BY <1>5 DEF If
<1>7. If(r, q - p) = If(r, q) - If(r, p) /\ If(r, q) \in Int /\ If(r, p) \in Int
  BY <1>5 DEF If
<1> QED BY <1>4, <1>5, <1>6, <1>7

\* A stake becomes n, and what changes hands is the difference to the stake before and
\* at most the reward that was pending; r counts whether the new debt is rounded down.
PaidRestake(c, id, pool, n, total, r, paid) ==
  /\ total = pool.total_staked - users[id][c].amount + n
  /\ UpdateStorage(c, id, [pool EXCEPT !.total_staked = total], StakeOf(pool, n))
  /\ r = 0 => (n * pool.acc_token_per_share) % Scale[pool.precision] = 0
  /\ paid <= Accrued(pool, users[id][c].amount) - users[id][c].reward_debt
  /\ \A t \in Tokens :
       /\ bal'[t][Self] = bal[t][Self]
                            + If(t = pools[id].staking_token, n - users[id][c].amount)
                            - If(t = pools[id].reward_token, paid)
       /\ roundings'[t] = roundings[t] + If(t = pools[id].reward_token, r)
  /\ taken' = taken

\* Such a change is paid for, whichever of the three operations makes it.
LEMMA RestakePays ==
  ASSUME TypeInv, TypeInv', TimesFit, TotalStakedIsSum, AllProper,
         NEW c \in Accounts, NEW id \in DOMAIN pools,
         NEW pool \in {pools[id], UpdatePool(pools[id])}, NEW n \in Nat,
         NEW total \in Nat, NEW r \in {0, 1}, NEW paid \in Nat,
         PaidRestake(c, id, pool, n, total, r, paid)
  PROVE  PaidFor(id)
<1> USE DEF PaidRestake
<1> DEFINE user == users[id][c]
           e == Accrued(pool, user.amount) - user.reward_debt
<1>1. /\ Promised(id)' \in Int /\ Promised(id)' <= Promised(id) + r - e
      /\ pools'[id].total_staked = total
      /\ pools'[id].staking_token = pools[id].staking_token
      /\ pools'[id].reward_token = pools[id].reward_token
      /\ DOMAIN pools' = DOMAIN pools
      /\ \A x \in DOMAIN pools \ {id} : pools'[x] = pools[x] /\ users'[x] = users[x]
  BY RestakeKeepsPromise
<1>2. /\ pools[id] \in StakePool /\ now \in Nat /\ pools[id].end_time < U64
      /\ Proper(pools[id]) /\ user.amount \in Nat /\ user.reward_debt \in Nat
  BY PoolType DEF TimesFit, AllProper, UserInfo
<1>3. pool \in StakePool /\ pool.total_staked = pools[id].total_staked
      /\ pool.total_staked \in Nat
  <2>1. pool \in StakePool /\ pool.total_staked = pools[id].total_staked
    BY <1>2, UpdatedPool
  <2> QED BY <2>1 DEF StakePool
<1>4. e \in Int
  <2>1. Accrued(pool, user.amount) \in Nat
    BY <1>2, <1>3, AccruedType
  <2> QED BY <1>2, <2>1
<1>5. Promised(id) \in Int
  BY PromisedType DEF AllProper
<1>6. ASSUME NEW t \in Tokens
      PROVE  If(t = pools[id].staking_token, pools'[id].total_staked - pools[id].total_staked)
               + If(t = pools[id].reward_token, Promised(id)' - Promised(id))
             <= Means(t)' - Means(t)
  <2>1. bal[t][Self] \in Nat /\ taken[t] \in Nat /\ roundings[t] \in Nat
    BY MeansType
  <2>2. pools'[id].total_staked - pools[id].total_staked = n - user.amount
    BY <1>1, <1>2, <1>3
  <2>3. Means(t)' = bal'[t][Self] + taken[t] + roundings'[t]
    BY DEF Means
  <2>4. Promised(id)' - Promised(id) <= r - paid
    BY <1>1, <1>4, <1>5
  <2>5. n - user.amount \in Int /\ r - paid \in Int /\ Promised(id)' - Promised(id) \in Int
    BY <1>1, <1>2, <1>5
  <2> HIDE DEF e
  <2>6. Means(t)' - Means(t) = If(t = pools[id].staking_token, n - user.amount)
                                 + If(t = pools[id].reward_token, r - paid)
    BY <2>1, <2>3, <2>5 DEF Means, If
  <2> QED BY <2>2, <2>4, <2>5, <2>6 DEF If
<1>7. pools'[id].total_staked \in Int /\ id \in DOMAIN pools'
  BY <1>1
<1>8. ASSUME NEW t \in Tokens
      PROVE  /\ CommittedByPool(t)'[id] \in Int
             /\ CommittedByPool(t)'[id] - CommittedByPool(t)[id] <= Means(t)' - Means(t)
  BY <1>1, <1>6, <1>7, PaidByParts
<1> QED BY <1>1, <1>8 DEF PaidFor

\* pending is what accrued beyond the debt, with no stake as well: it has no debt.
LEMMA PendingIsAccrued ==
  ASSUME TypeInv, DebtCovered, NEW id \in DOMAIN pools, NEW c \in Accounts,
         NEW pool \in StakePool
  PROVE  Pending(pool, users[id][c])
           = Accrued(pool, users[id][c].amount) - users[id][c].reward_debt
<1>1. CASE users[id][c].amount = 0
  <2>1. users[id][c].reward_debt = 0
    BY <1>1, NothingOwesNothing
  <2>2. pool.acc_token_per_share \in Nat /\ Scale[pool.precision] \in Nat \ {0}
    BY AccruedByAllType DEF StakePool
  <2>3. Accrued(pool, 0) = 0
    BY <2>2 DEF Accrued
  <2> QED BY <1>1, <2>1, <2>3 DEF Pending
<1>2. CASE users[id][c].amount # 0
  BY <1>2 DEF Pending
<1> QED BY <1>1, <1>2

LEMMA DepositPaysFor ==
  ASSUME TypeInv, TypeInv', TimesFit, TotalStakedIsSum, DebtCovered, AllProper,
         self_contract_hash = Self, NEW c \in Accounts, NEW a \in Amounts,
         NEW id \in DOMAIN pools, Deposit(c, a, id)
  PROVE  PaidFor(id)
<1> DEFINE user == users[id][c]
           n == a + user.amount
<1>1. PICK pool : pool = UpdatePool(pools[id])
  OBVIOUS
<1> DEFINE total == pool.total_staked + a
           paid == Pending(pool, user)
<1>2. /\ a \in Nat /\ user \in UserInfo /\ user.amount \in Nat /\ n \in Nat
      /\ pools[id] \in StakePool /\ now \in Nat
      /\ pools[id].end_time < U64 /\ Proper(pools[id])
  BY NumberAssumption, PoolType DEF UserInfo, TimesFit, AllProper
<1>3. /\ CanSettle(pool, user, n)
      /\ DepositTransfers(c, pool, paid, a)
      /\ UpdateStorage(c, id, [pool EXCEPT !.total_staked = total], StakeOf(pool, n))
      /\ RoundedDown(pool, n)
      /\ taken' = taken
  BY <1>1 DEF Deposit
<1>4. /\ pool \in StakePool /\ pool.staking_token = pools[id].staking_token
      /\ pool.reward_token = pools[id].reward_token
  BY <1>1, <1>2, UpdatedPool
<1>5. paid \in Nat /\ paid = Accrued(pool, user.amount) - user.reward_debt
  BY <1>2, <1>3, <1>4, PendingType, PendingIsAccrued
<1>6. total \in Nat /\ total = pool.total_staked - user.amount + n
  <2>1. pool.total_staked \in Nat
    BY <1>4 DEF StakePool
  <2> QED BY <1>2, <2>1
<1> HIDE DEF paid, n, total, user
<1>7. PICK r \in {0, 1} :
        /\ r = 0 => (n * pool.acc_token_per_share) % Scale[pool.precision] = 0
        /\ \A t \in Tokens : roundings'[t] = roundings[t] + If(t = pool.reward_token, r)
  BY <1>2, <1>3, <1>4, RoundingsCount
<1>8. ASSUME NEW t \in Tokens
      PROVE  bal'[t][Self] = bal[t][Self] + If(t = pools[id].staking_token, n - user.amount)
                               - If(t = pools[id].reward_token, paid)
  <2>1. bal'[t][Self] = bal[t][Self] + If(t = pool.staking_token, a)
                          - If(t = pool.reward_token, paid)
    BY <1>2, <1>3, <1>4, <1>5, DepositPays
  <2>2. n - user.amount = a
    BY <1>2 DEF n
  <2> QED BY <1>4, <2>1, <2>2
<1>9. paid <= Accrued(pool, user.amount) - user.reward_debt
  BY <1>5
<1>10. pool \in {pools[id], UpdatePool(pools[id])}
  BY <1>1
<1>11. PaidRestake(c, id, pool, n, total, r, paid)
  BY <1>3, <1>4, <1>6, <1>7, <1>8, <1>9 DEF PaidRestake, user
<1> QED BY <1>2, <1>5, <1>6, <1>10, <1>11, RestakePays

LEMMA WithdrawPaysFor ==
  ASSUME TypeInv, TypeInv', TimesFit, TotalStakedIsSum, DebtCovered, AllProper,
         NEW c \in Accounts, NEW a \in Amounts, NEW id \in DOMAIN pools, Withdraw(c, a, id)
  PROVE  PaidFor(id)
<1> DEFINE user == users[id][c]
           n == user.amount - a
<1>1. PICK pool : pool = UpdatePool(pools[id])
  OBVIOUS
<1> DEFINE total == pool.total_staked - a
           paid == Pending(pool, user)
<1>2. /\ a \in Nat /\ user \in UserInfo /\ user.amount \in Nat /\ n \in Nat
      /\ pools[id] \in StakePool /\ now \in Nat
      /\ pools[id].end_time < U64 /\ Proper(pools[id])
  BY NumberAssumption, PoolType DEF UserInfo, TimesFit, AllProper, Withdraw, CanWithdraw
<1>3. /\ CanSettle(pool, user, n)
      /\ pool.total_staked >= a
      /\ CanWithdrawTransfers(c, pool, paid, a)
      /\ WithdrawTransfers(c, pool, paid, a)
      /\ UpdateStorage(c, id, [pool EXCEPT !.total_staked = total], StakeOf(pool, n))
      /\ RoundedDown(pool, n)
      /\ taken' = taken
  BY <1>1 DEF Withdraw, CanWithdraw
<1>4. /\ pool \in StakePool /\ pool.staking_token = pools[id].staking_token
      /\ pool.reward_token = pools[id].reward_token
  BY <1>1, <1>2, UpdatedPool
<1>5. paid \in Nat /\ paid = Accrued(pool, user.amount) - user.reward_debt
  BY <1>2, <1>3, <1>4, PendingType, PendingIsAccrued
<1>6. total \in Nat /\ total = pool.total_staked - user.amount + n
  <2>1. pool.total_staked \in Nat
    BY <1>4 DEF StakePool
  <2> QED BY <1>2, <1>3, <2>1
<1> HIDE DEF paid, n, total, user
<1>7. PICK r \in {0, 1} :
        /\ r = 0 => (n * pool.acc_token_per_share) % Scale[pool.precision] = 0
        /\ \A t \in Tokens : roundings'[t] = roundings[t] + If(t = pool.reward_token, r)
  BY <1>2, <1>3, <1>4, RoundingsCount
<1>8. ASSUME NEW t \in Tokens
      PROVE  bal'[t][Self] = bal[t][Self] + If(t = pools[id].staking_token, n - user.amount)
                               - If(t = pools[id].reward_token, paid)
  <2>1. bal'[t][Self] = bal[t][Self] - If(t = pool.staking_token, a)
                          - If(t = pool.reward_token, paid)
    BY <1>2, <1>3, <1>4, <1>5, WithdrawPays
  <2>2. n - user.amount = 0 - a
    BY <1>2 DEF n
  <2>3. If(t = pool.staking_token, 0 - a) = 0 - If(t = pool.staking_token, a)
        /\ If(t = pool.staking_token, a) \in Int /\ If(t = pool.reward_token, paid) \in Int
        /\ bal[t][Self] \in Int
    BY <1>2, <1>5, MeansType DEF If
  <2> QED BY <1>4, <2>1, <2>2, <2>3
<1>9. paid <= Accrued(pool, user.amount) - user.reward_debt
  BY <1>5
<1>10. pool \in {pools[id], UpdatePool(pools[id])}
  BY <1>1
<1>11. PaidRestake(c, id, pool, n, total, r, paid)
  BY <1>3, <1>4, <1>6, <1>7, <1>8, <1>9 DEF PaidRestake, user
<1> QED BY <1>2, <1>5, <1>6, <1>10, <1>11, RestakePays

\* emergency_withdraw pays the stake back and keeps the reward.
LEMMA EmergencyWithdrawPaysFor ==
  ASSUME TypeInv, TypeInv', TimesFit, TotalStakedIsSum, DebtCovered, AllProper,
         NEW c \in Accounts, NEW id \in DOMAIN pools, EmergencyWithdraw(c, id)
  PROVE  PaidFor(id)
<1> DEFINE user == users[id][c]
           pool == pools[id]
           total == pool.total_staked - user.amount
<1>1. /\ pool \in StakePool /\ user.amount \in Nat /\ user.reward_debt \in Nat
      /\ pool.total_staked \in Nat /\ pool.staking_token \in Tokens
      /\ pool.acc_token_per_share \in Nat /\ Scale[pool.precision] \in Nat \ {0}
  BY PoolType, AccruedByAllType DEF UserInfo, StakePool
<1>2. /\ pool.total_staked >= user.amount
      /\ bal' = Transfer(bal, pool.staking_token, Self, c, user.amount)
      /\ UpdateStorage(c, id, [pool EXCEPT !.total_staked = total], NoStake)
      /\ UNCHANGED <<taken, roundings>>
  BY DEF EmergencyWithdraw, CanEmergencyWithdraw
<1>3. total \in Nat /\ total = pool.total_staked - user.amount + 0
  BY <1>1, <1>2
<1>4. (0 * pool.acc_token_per_share) % Scale[pool.precision] = 0 /\ Accrued(pool, 0) = 0
  BY <1>1 DEF Accrued
<1>5. StakeOf(pool, 0) = NoStake
  BY <1>4 DEF StakeOf, NoStake
<1>6. 0 <= Accrued(pool, user.amount) - user.reward_debt
  <2>1. Accrued(pool, user.amount) \in Nat
    BY <1>1, AccruedType
  <2> QED BY <1>1, <2>1 DEF DebtCovered
<1> HIDE DEF total
<1>7. ASSUME NEW t \in Tokens
      PROVE  /\ bal'[t][Self] = bal[t][Self] + If(t = pool.staking_token, 0 - user.amount)
                                  - If(t = pool.reward_token, 0)
             /\ roundings'[t] = roundings[t] + If(t = pool.reward_token, 0)
  <2>1. bal \in [Tokens -> [Holders -> Nat]] /\ bal[t][Self] \in Nat /\ roundings[t] \in Nat
    BY MeansType DEF TypeInv, TypeOK
  <2>2. bal'[t][Self] = bal[t][Self] - If(t = pool.staking_token, user.amount)
    BY <1>1, <1>2, <2>1, SelfPaid
  <2> QED BY <1>1, <1>2, <2>1, <2>2 DEF If
<1>8. 0 \in Nat /\ 0 \in {0, 1} /\ pool \in {pools[id], UpdatePool(pools[id])}
  OBVIOUS
<1>9. UpdateStorage(c, id, [pool EXCEPT !.total_staked = total], StakeOf(pool, 0))
  BY <1>2, <1>5
<1>10. PaidRestake(c, id, pool, 0, total, 0, 0)
  BY <1>2, <1>3, <1>4, <1>6, <1>7, <1>9 DEF PaidRestake
<1> QED BY <1>3, <1>8, <1>10, RestakePays

\* No pool was brought up to date later than now.
UpToNow == \A id \in DOMAIN pools : pools[id].last_reward_timestamp <= now

\* A pool that has not ended is up to date after update_pool.
LEMMA UpdatedUpToNow ==
  ASSUME now \in Nat, NEW pool \in StakePool, pool.last_reward_timestamp <= now
  PROVE  /\ UpdatePool(pool).last_reward_timestamp <= now
         /\ pool.end_time > now => UpdatePool(pool).last_reward_timestamp = now
<1>1. pool.last_reward_timestamp \in Nat /\ pool.end_time \in Nat
  BY DEF StakePool
<1>2. CASE Settled(pool)
  <2>1. UpdatePool(pool) = pool
    BY <1>2 DEF UpdatePool
  <2>2. pool.end_time > now => pool.last_reward_timestamp = now
    BY <1>1, <1>2 DEF Settled
  <2> QED BY <2>1, <2>2
<1>3. CASE ~Settled(pool)
  <2>1. UpdatePool(pool).last_reward_timestamp = now
    BY <1>3 DEF UpdatePool, StakePool
  <2> QED BY <2>1
<1> QED BY <1>2, <1>3

\* stop_reward refunds exactly what the pool has left, and leaves nothing.
LEMMA StopRewardRefunds ==
  ASSUME TypeInv, TimesFit, UpToNow, NEW c \in Accounts, NEW id \in DOMAIN pools,
         Proper(pools[id]), Proper(pools'[id]), StopReward(c, id),
         NEW pool, pool = UpdatePool(pools[id])
  PROVE  /\ pool \in StakePool /\ Proper(pool)
         /\ pools' = [pools EXCEPT ![id] = [pool EXCEPT !.end_time = now]]
         /\ RewardLeft(pools'[id]) = 0
         /\ LET s      == pool.staking_token
                refund == RewardLeft(pool)
            IN  /\ bal' = Transfer(bal, s, Self, c, refund)
                /\ taken' = IF s = pool.reward_token THEN taken
                            ELSE [taken EXCEPT ![s] = @ + refund]
<1>1. /\ pools[id] \in StakePool /\ now \in Nat /\ pools[id].end_time < U64
      /\ pools \in [DOMAIN pools -> StakePool]
  BY PoolType DEF TypeInv, TypeOK, TimesFit
<1>2. /\ pool \in StakePool /\ Proper(pool) /\ pool.end_time = pools[id].end_time
  BY <1>1, UpdatedPool
<1>3. /\ pool.end_time > now
      /\ pools' = [pools EXCEPT ![id] = [pool EXCEPT !.end_time = now]]
  BY DEF StopReward
<1>4. pool.last_reward_timestamp = now
  BY <1>1, <1>2, <1>3, UpdatedUpToNow DEF UpToNow
<1> DEFINE left == Minus64(pool.end_time, get_max(now, pool.start_time))
           duration == Minus64(pool.end_time, pool.start_time)
           refund == (left * pool.total_reward) \div duration
           s == pool.staking_token
<1>5. /\ bal' = Transfer(bal, s, Self, c, refund)
      /\ taken' = IF s = pool.reward_token THEN taken ELSE [taken EXCEPT ![s] = @ + refund]
  BY DEF StopReward
<1>6. pools'[id] = [pool EXCEPT !.end_time = now]
  BY <1>1, <1>3
<1>7. /\ pools'[id].end_time = now /\ pools'[id].start_time = pool.start_time
      /\ pools'[id].last_reward_timestamp = now
      /\ pools'[id].total_reward = pool.total_reward
  BY <1>2, <1>4, <1>6 DEF StakePool
<1>8. /\ pool.start_time < now /\ pool.start_time \in Nat /\ pool.end_time \in Nat
      /\ pool.total_reward \in Nat
  BY <1>2, <1>7 DEF Proper, StakePool
<1>9. RewardLeft(pools'[id]) = 0
  <2>1. SecondsLeft(pools'[id]) = 0
    BY <1>1, <1>7, <1>8 DEF SecondsLeft, get_max
  <2>2. now - pool.start_time \in Nat \ {0}
    BY <1>1, <1>8
  <2> DEFINE l == now - pool.start_time
             n == pool.total_reward
  <2>3. RewardLeft(pools'[id]) = (0 * n) \div l
    BY <1>7, <2>1 DEF RewardLeft
  <2> HIDE DEF l, n
  <2>4. l \in Nat \ {0} /\ n \in Nat
    BY <1>8, <2>2 DEF l, n
  <2> QED BY <2>3, <2>4
<1>10. SecondsLeft(pool) = pool.end_time - now
  BY <1>1, <1>3, <1>4, <1>8 DEF SecondsLeft, get_max
<1>11. left = pool.end_time - now
  <2>1. get_max(now, pool.start_time) = now
    BY <1>1, <1>8 DEF get_max
  <2>2. Minus64(pool.end_time, now) = pool.end_time - now
    BY <1>1, <1>2, <1>3, <1>8, Minus64Exact
  <2> QED BY <2>1, <2>2
<1>12. duration = pool.end_time - pool.start_time
  BY <1>1, <1>2, <1>3, <1>8, Minus64Exact
<1> HIDE DEF left, duration
<1>13. refund = RewardLeft(pool)
  BY <1>10, <1>11, <1>12 DEF RewardLeft
<1> QED BY <1>2, <1>3, <1>5, <1>9, <1>13

LEMMA StopRewardPaysFor ==
  ASSUME TypeInv, TypeInv', TimesFit, AllProper, AllProper', UpToNow,
         NEW c \in Accounts, NEW id \in DOMAIN pools, StopReward(c, id)
  PROVE  PaidFor(id)
<1>1. PICK pool : pool = UpdatePool(pools[id])
  OBVIOUS
<1>2. /\ pools[id] \in StakePool /\ now \in Nat /\ pools[id].end_time < U64
      /\ Proper(pools[id]) /\ pools \in [DOMAIN pools -> StakePool]
  BY PoolType DEF TypeInv, TypeOK, TimesFit, AllProper
<1>3. DOMAIN pools' = DOMAIN pools /\ users' = users /\ roundings' = roundings
  BY <1>2 DEF StopReward
<1>4. Proper(pools'[id])
  BY <1>3 DEF AllProper
<1> DEFINE s == pool.staking_token
           r == pool.reward_token
           refund == RewardLeft(pool)
<1>5. /\ pool \in StakePool /\ Proper(pool)
      /\ pools' = [pools EXCEPT ![id] = [pool EXCEPT !.end_time = now]]
      /\ RewardLeft(pools'[id]) = 0
      /\ bal' = Transfer(bal, s, Self, c, refund)
      /\ taken' = IF s = r THEN taken ELSE [taken EXCEPT ![s] = @ + refund]
  BY <1>1, <1>2, <1>4, StopRewardRefunds
<1>6. /\ pools'[id] = [pool EXCEPT !.end_time = now]
      /\ \A x \in DOMAIN pools \ {id} : pools'[x] = pools[x]
  BY <1>2, <1>5
<1>7. /\ s = pools[id].staking_token /\ r = pools[id].reward_token
      /\ pool.total_staked = pools[id].total_staked
      /\ AccruedByAll(pool) + refund <= AccruedByAll(pools[id]) + RewardLeft(pools[id])
  BY <1>1, <1>2, UpdatedPool, UpdateKeepsPromise
<1>8. /\ pools'[id].staking_token = s /\ pools'[id].reward_token = r
      /\ pools'[id].total_staked = pool.total_staked
      /\ pools'[id].precision = pool.precision
      /\ pools'[id].acc_token_per_share = pool.acc_token_per_share
  BY <1>5, <1>6 DEF StakePool
<1>9. AccruedByAll(pools'[id]) = AccruedByAll(pool)
  BY <1>8 DEF AccruedByAll
<1>10. /\ refund \in Nat /\ AccruedByAll(pool) \in Nat /\ RewardLeft(pools[id]) \in Nat
       /\ AccruedByAll(pools[id]) \in Nat
       /\ SumFunctionOnSet(Debts(id), Accounts) \in Nat
  BY <1>2, <1>5, AccruedByAllType, RewardLeftType, DebtsType
<1>11. Debts(id)' = Debts(id)
  BY <1>3 DEF Debts
<1>12. Promised(id)' = AccruedByAll(pools'[id]) - SumFunctionOnSet(Debts(id), Accounts)
                         + RewardLeft(pools'[id])
  BY <1>11 DEF Promised
<1>13. Promised(id)' \in Int /\ Promised(id)' - Promised(id) <= 0 - refund
       /\ Promised(id) \in Int
  BY <1>5, <1>7, <1>9, <1>10, <1>12 DEF Promised
<1>14. s \in Tokens /\ pool.total_staked \in Nat
  BY <1>5 DEF StakePool
<1> HIDE DEF s, r, refund
<1>15. ASSUME NEW t \in Tokens
       PROVE  If(t = s, 0) + If(t = r, Promised(id)' - Promised(id)) <= Means(t)' - Means(t)
  <2>1. /\ bal \in [Tokens -> [Holders -> Nat]] /\ taken \in [Tokens -> Nat]
        /\ bal[t][Self] \in Nat /\ taken[t] \in Nat /\ roundings[t] \in Nat
    BY MeansType DEF TypeInv, TypeOK
  <2>2. bal'[t][Self] = bal[t][Self] - If(t = s, refund)
    <3>1. Transfer(bal, s, Self, c, refund)[t][Self] = bal[t][Self] - If(t = s, refund)
      BY <1>10, <1>14, <2>1, SelfPaid
    <3> QED BY <1>5, <3>1
  <2>3. taken'[t] = taken[t] + If(s # r, If(t = s, refund))
    BY <1>5, <1>10, <2>1 DEF If
  <2>4. Means(t)' = bal'[t][Self] + taken'[t] + roundings'[t]
    BY DEF Means
  <2>5. refund \in Nat
    BY <1>10
  <2>6. Means(t)' - Means(t) = If(s # r, If(t = s, refund)) - If(t = s, refund)
    <3>1. If(s # r, If(t = s, refund)) \in Int /\ If(t = s, refund) \in Int
      BY <2>5 DEF If
    <3>2. Means(t) = bal[t][Self] + taken[t] + roundings[t]
      BY DEF Means
    <3>3. roundings'[t] = roundings[t]
      BY <1>3
    <3> QED BY <2>1, <2>2, <2>3, <2>4, <3>1, <3>2, <3>3
  <2> QED BY <1>13, <2>5, <2>6 DEF If
<1>16. /\ id \in DOMAIN pools' /\ pools'[id].total_staked \in Int
       /\ pools'[id].total_staked - pools[id].total_staked = 0
       /\ pools'[id].staking_token = pools[id].staking_token
       /\ pools'[id].reward_token = pools[id].reward_token
  BY <1>3, <1>7, <1>8, <1>14
<1>17. ASSUME NEW t \in Tokens
       PROVE  /\ CommittedByPool(t)'[id] \in Int
              /\ CommittedByPool(t)'[id] - CommittedByPool(t)[id] <= Means(t)' - Means(t)
  <2>1. If(t = pools[id].staking_token, pools'[id].total_staked - pools[id].total_staked)
          + If(t = pools[id].reward_token, Promised(id)' - Promised(id))
        <= Means(t)' - Means(t)
    BY <1>7, <1>15, <1>16
  <2> QED BY <1>13, <1>16, <2>1, PaidByParts
<1> QED BY <1>3, <1>6, <1>17 DEF PaidFor

-----------------------------------------------------------------------------
\* Every step

\* What a step does to the pools, as far as their times are concerned.
LEMMA TimesStep ==
  ASSUME TypeInv, TypeInv', UpToNow, [Next]_vars, NEW x \in DOMAIN pools
  PROVE  /\ x \in DOMAIN pools'
         /\ pools'[x].start_time = pools[x].start_time
         /\ pools'[x].end_time <= pools[x].end_time
         /\ pools'[x].last_reward_timestamp <= now
<1>1. /\ pools \in [DOMAIN pools -> StakePool] /\ now \in Nat /\ index \in Nat
      /\ pools[x] \in StakePool /\ pools[x].last_reward_timestamp <= now
      /\ pools[x].end_time \in Nat
  BY PoolType, NumberAssumption DEF TypeInv, TypeOK, UpToNow, StakePool
<1>2. CASE x \in DOMAIN pools' /\ pools'[x] = pools[x]
  BY <1>1, <1>2
<1>3. ASSUME NEW c \in Accounts, NEW s \in Tokens, NEW r \in Tokens, NEW d \in StartDelays,
             NEW l \in Lengths, NEW p \in Precisions, NEW n \in Rewards,
             AddPool(c, s, r, now + d, now + d + l, p, n)
      PROVE  x \in DOMAIN pools' /\ pools'[x] = pools[x]
  <2>1. x # index
    BY <1>1 DEF TypeInv, TypeOK
  <2> QED BY <1>3, <2>1 DEF AddPool
<1>4. ASSUME NEW c \in Accounts, NEW id \in DOMAIN pools,
             \/ \E a \in Amounts : Deposit(c, a, id) \/ Withdraw(c, a, id)
             \/ EmergencyWithdraw(c, id)
             \/ StopReward(c, id)
      PROVE  \/ x \in DOMAIN pools' /\ pools'[x] = pools[x]
             \/ /\ x \in DOMAIN pools'
                /\ pools'[x].start_time = pools[x].start_time
                /\ pools'[x].end_time <= pools[x].end_time
                /\ pools'[x].last_reward_timestamp <= now
  <2> DEFINE pool == UpdatePool(pools[x])
  <2>1. \/ \E n : pools' = [pools EXCEPT ![id] = [UpdatePool(pools[id]) EXCEPT !.total_staked = n]]
        \/ \E n : pools' = [pools EXCEPT ![id] = [pools[id] EXCEPT !.total_staked = n]]
        \/ /\ pools' = [pools EXCEPT ![id] = [UpdatePool(pools[id]) EXCEPT !.end_time = now]]
           /\ UpdatePool(pools[id]).end_time > now
    BY <1>4 DEF Deposit, Withdraw, EmergencyWithdraw, StopReward, UpdateStorage
  <2>2. CASE x # id
    BY <2>1, <2>2
  <2>3. CASE x = id
    <3>1. /\ DOMAIN pool = DOMAIN pools[x] /\ pool.start_time = pools[x].start_time
          /\ pool.end_time = pools[x].end_time
      BY <1>1 DEF UpdatePool, StakePool
    <3>2. pool.last_reward_timestamp <= now
      BY <1>1, UpdatedUpToNow
    <3> HIDE DEF pool
    <3>3. \/ \E n : pools'[x] = [pool EXCEPT !.total_staked = n]
          \/ \E n : pools'[x] = [pools[x] EXCEPT !.total_staked = n]
          \/ pools'[x] = [pool EXCEPT !.end_time = now] /\ pool.end_time > now
      BY <1>1, <2>1, <2>3 DEF pool
    <3>4. x \in DOMAIN pools'
      BY <2>1
    <3> QED BY <1>1, <3>1, <3>2, <3>3, <3>4 DEF StakePool
  <2> QED BY <2>2, <2>3
<1>5. CASE UNCHANGED pools
  BY <1>2, <1>5
<1> QED BY <1>1, <1>2, <1>3, <1>4, <1>5, PoolSteps

LEMMA UpToNowStep ==
  ASSUME TypeInv, TypeInv', UpToNow, [Next]_vars
  PROVE  UpToNow'
<1>1. now \in Nat /\ now <= now'
  <2>1. now \in Nat
    BY DEF TypeInv, TypeOK
  <2> QED BY <2>1, TimePasses
<1>2. ASSUME NEW x \in DOMAIN pools', x \notin DOMAIN pools
      PROVE  pools'[x].last_reward_timestamp = 0
  <2>1. \E c, s, r, b, e, p, n : AddPool(c, s, r, b, e, p, n)
    <3>1. DOMAIN pools' # DOMAIN pools
      BY <1>2
    <3> QED BY <3>1, PoolSteps
          DEF Deposit, Withdraw, EmergencyWithdraw, StopReward, UpdateStorage
  <2> QED BY <1>2, <2>1 DEF AddPool
<1>3. now' \in Nat
  BY DEF TypeInv, TypeOK
<1>4. ASSUME NEW x \in DOMAIN pools' PROVE pools'[x].last_reward_timestamp <= now'
  <2>1. CASE x \in DOMAIN pools
    <3>1. pools'[x].last_reward_timestamp <= now
      BY <2>1, TimesStep
    <3>2. pools'[x].last_reward_timestamp \in Nat
      BY DEF TypeInv, TypeOK, StakePool
    <3> QED BY <1>1, <1>3, <3>1, <3>2
  <2>2. CASE x \notin DOMAIN pools
    BY <1>2, <1>3, <2>2
  <2> QED BY <2>1, <2>2
<1> QED BY <1>4 DEF UpToNow

\* Pools that pay over a period of time after a step did so before it.
LEMMA ProperBefore ==
  ASSUME TypeInv, TypeInv', UpToNow, [Next]_vars, AllProper'
  PROVE  AllProper
<1>1. ASSUME NEW x \in DOMAIN pools PROVE Proper(pools[x])
  <2>1. /\ x \in DOMAIN pools' /\ pools'[x].start_time = pools[x].start_time
        /\ pools'[x].end_time <= pools[x].end_time
    BY TimesStep
  <2>2. Proper(pools'[x])
    BY <2>1 DEF AllProper
  <2>3. /\ pools[x].start_time \in Nat /\ pools[x].end_time \in Nat
        /\ pools'[x].end_time \in Nat
    BY <2>1 DEF TypeInv, TypeOK, StakePool
  <2> QED BY <2>1, <2>2, <2>3 DEF Proper
<1> QED BY <1>1 DEF AllProper

\* A pool that a step leaves alone keeps its commitments.
LEMMA SameCommitted ==
  ASSUME NEW x \in DOMAIN pools, x \in DOMAIN pools', NEW t,
         pools'[x] = pools[x], users'[x] = users[x]
  PROVE  CommittedByPool(t)'[x] = CommittedByPool(t)[x]
<1>1. Debts(x)' = Debts(x)
  BY DEF Debts
<1>2. Promised(x)' = Promised(x)
  BY <1>1 DEF Promised
<1> QED BY <1>2 DEF CommittedByPool

Covered == \A t \in Tokens : Committed(t) <= Means(t)

LEMMA PaidForKeepsCovered ==
  ASSUME TypeInv, TypeInv', AllProper, Covered, NEW id \in DOMAIN pools, PaidFor(id)
  PROVE  Covered'
<1>1. ASSUME NEW t \in Tokens PROVE Committed(t)' <= Means(t)'
  <2> DEFINE f == CommittedByPool(t)
             g == CommittedByPool(t)'
             S == DOMAIN pools
  <2>1. IsFiniteSet(S) /\ DOMAIN pools' = S
    BY FinitelyManyPools DEF PoolsAreFinite, PaidFor
  <2>2. \A x \in S : f[x] \in Int
    BY CommittedType
  <2>3. \A x \in S \ {id} : f[x] = g[x]
    BY <2>1, SameCommitted DEF PaidFor
  <2>4. g[id] \in Int /\ g[id] - f[id] <= Means(t)' - Means(t)
    BY DEF PaidFor
  <2>5. Committed(t) = SumFunctionOnSet(f, S) /\ Committed(t)' = SumFunctionOnSet(g, S)
    BY <2>1 DEF Committed
  <2>6. Committed(t) <= Means(t) /\ Committed(t) \in Int
    BY CommittedType DEF Covered
  <2>7. Means(t) \in Int /\ Means(t)' \in Int
    <3>1. bal'[t][Self] \in Nat /\ taken'[t] \in Nat /\ roundings'[t] \in Nat
      BY HashAssumption DEF TypeInv, TypeOK, Holders
    <3> QED BY <3>1, MeansType DEF Means
  <2> HIDE DEF f, g, S
  <2>8. \A x \in S : f[x] \in Int /\ g[x] \in Int
    BY <2>2, <2>3, <2>4
  <2>9. id \in S
    BY DEF S
  <2>10. SumFunctionOnSet(g, S) = SumFunctionOnSet(f, S) + g[id] - f[id]
    BY <2>1, <2>3, <2>8, <2>9, SumChangeAt
  <2>11. f[id] \in Int
    BY <2>8, <2>9
  <2> QED BY <2>4, <2>5, <2>6, <2>7, <2>10, <2>11
<1> QED BY <1>1 DEF Covered

\* What an account pays the contract adds to its means.
LEMMA PaidInCounts ==
  ASSUME TypeInv, NEW c \in Accounts, NEW r \in Tokens, NEW n \in Nat,
         bal' = TransferFrom(bal, r, c, Self, n), UNCHANGED <<taken, roundings>>,
         NEW t \in Tokens
  PROVE  Means(t)' = Means(t) + If(t = r, n) /\ Means(t) \in Int
<1>1. \A b \in [Tokens -> [Holders -> Nat]] :
        TransferFrom(b, r, c, Self, n)[t][Self] = b[t][Self] + If(t = r, n)
  BY SelfPaid
<1>2. bal'[t][Self] = bal[t][Self] + If(t = r, n)
  BY <1>1 DEF TypeInv, TypeOK
<1>3. If(t = r, n) \in Int
  BY DEF If
<1> QED BY <1>2, <1>3, MeansType DEF Means

\* A pool that was just added is committed to its reward, which its owner has paid.
LEMMA AddPoolKeepsCovered ==
  ASSUME TypeInv, TypeInv', AllProper, AllProper', Covered, self_contract_hash = Self,
         NEW c \in Accounts, NEW s \in Tokens, NEW r \in Tokens, NEW b \in Nat, NEW e \in Nat,
         NEW p \in Precisions, NEW n \in Nat, AddPool(c, s, r, b, e, p, n)
  PROVE  Covered'
<1>0. PICK i : i = index
  OBVIOUS
<1>1. /\ DOMAIN pools' = DOMAIN pools \cup {i}
      /\ pools'[i] = [last_reward_timestamp |-> 0, staking_token |-> s, reward_token |-> r,
                      start_time |-> b, end_time |-> e, precision |-> p, owner |-> c,
                      acc_token_per_share |-> 0, total_reward |-> n, total_staked |-> 0]
      /\ users'[i] = [a \in Accounts |-> NoStake]
      /\ \A x \in DOMAIN pools : x # i => pools'[x] = pools[x] /\ users'[x] = users[x]
      /\ bal' = TransferFrom(bal, r, c, Self, n) /\ UNCHANGED <<taken, roundings>>
  BY <1>0 DEF AddPool, TypeInv, TypeOK
<1>2. i \notin DOMAIN pools
  <2>1. DOMAIN pools \subseteq 0..(index - 1) /\ index \in Nat
    BY NumberAssumption DEF TypeInv, TypeOK
  <2> QED BY <1>0, <2>1
<1>3. b < e /\ n \in Nat /\ Scale[p] \in Nat \ {0}
  <2>1. Proper(pools'[i])
    BY <1>1 DEF AllProper
  <2> QED BY <1>1, <2>1, NumberAssumption DEF Proper
<1>4. Promised(i)' = n
  <2>1. SumFunctionOnSet(Debts(i)', Accounts) = 0
    <3> DEFINE g == Debts(i)'
    <3>1. \A a \in Accounts : g[a] = 0
      BY <1>1 DEF Debts, NoStake
    <3>2. IsFiniteSet(Accounts) /\ Cardinality(Accounts) \in Nat
      BY HashAssumption, FS_CardinalityType
    <3> HIDE DEF g
    <3>3. SumFunctionOnSet(g, Accounts) = Cardinality(Accounts) * 0
      BY <3>1, <3>2, SumOfConstant
    <3>4. SumFunctionOnSet(g, Accounts) = 0
      BY <3>2, <3>3
    <3> QED BY <3>4 DEF g
  <2>2. AccruedByAll(pools'[i]) = 0
    <3>1. AccruedByAll(pools'[i]) = CeilDiv(0, Scale[p])
      BY <1>1 DEF AccruedByAll
    <3> DEFINE d == Scale[p]
    <3>2. d \in Nat \ {0}
      BY <1>3
    <3> HIDE DEF d
    <3>3. CeilDiv(0, d) = 0
      BY <3>2 DEF CeilDiv
    <3> QED BY <3>1, <3>3 DEF d
  <2>3. RewardLeft(pools'[i]) = n
    <3> DEFINE l == e - b
               m == l * n
    <3>1. SecondsLeft(pools'[i]) = l
      BY <1>1, <1>3 DEF SecondsLeft, get_max
    <3>2. RewardLeft(pools'[i]) = m \div l
      BY <1>1, <3>1 DEF RewardLeft
    <3>3. l \in Nat \ {0}
      BY <1>3
    <3> HIDE DEF l
    <3>4. m \in Nat /\ m = n * l /\ m < (n + 1) * l /\ (n + 1) * l \in Nat
      BY <1>3, <3>3
    <3> HIDE DEF m
    <3>5. n <= m \div l /\ ~(n + 1 <= m \div l) /\ m \div l \in Nat
      <4>1. n \in Int /\ n + 1 \in Int /\ n * l <= m /\ ~((n + 1) * l <= m)
        BY <1>3, <3>4
      <4> QED BY <3>3, <3>4, <4>1, FloorBounds, QuotientType
    <3> QED BY <1>3, <3>2, <3>5
  <2>4. Promised(i)' = AccruedByAll(pools'[i]) - SumFunctionOnSet(Debts(i)', Accounts)
                         + RewardLeft(pools'[i])
    BY DEF Promised
  <2> QED BY <1>3, <2>1, <2>2, <2>3, <2>4
<1>5. ASSUME NEW t \in Tokens PROVE Committed(t)' <= Means(t)'
  <2> DEFINE f == CommittedByPool(t)
             g == CommittedByPool(t)'
             S == DOMAIN pools
  <2>1. IsFiniteSet(S) /\ DOMAIN pools' = S \cup {i}
    BY <1>1, FinitelyManyPools DEF PoolsAreFinite
  <2>2. \A x \in S : f[x] \in Int
    BY CommittedType
  <2>3. \A x \in S : g[x] = f[x]
    BY <1>1, <1>2, SameCommitted
  <2>4. g[i] = If(t = r, n)
    <3>1. i \in DOMAIN pools'
      BY <1>1
    <3>2. g[i] = (IF pools'[i].staking_token = t THEN pools'[i].total_staked ELSE 0)
                   + (IF pools'[i].reward_token = t THEN Promised(i)' ELSE 0)
      BY <3>1 DEF CommittedByPool
    <3> HIDE DEF g
    <3> QED BY <1>1, <1>3, <1>4, <3>2 DEF If
  <2>5. Committed(t) = SumFunctionOnSet(f, S)
        /\ Committed(t)' = SumFunctionOnSet(g, S \cup {i})
    BY <2>1 DEF Committed
  <2>6. Committed(t) <= Means(t) /\ Committed(t) \in Int
    BY CommittedType DEF Covered
  <2>7. Means(t)' = Means(t) + If(t = r, n) /\ Means(t) \in Int
    BY <1>1, PaidInCounts
  <2>8. If(t = r, n) \in Int
    BY <1>3 DEF If
  <2> HIDE DEF f, g, S
  <2>9. SumFunctionOnSet(g, S \cup {i}) = SumFunctionOnSet(f, S) + g[i]
    <3>1. i \notin S
      BY <1>2 DEF S
    <3> QED BY <2>1, <2>2, <2>3, <2>4, <2>8, <3>1, SumGrows
  <2> QED BY <2>4, <2>5, <2>6, <2>7, <2>8, <2>9
<1> QED BY <1>5 DEF Covered

\* save_me: what leaves is counted as taken.
LEMMA SaveMeKeepsCovered ==
  ASSUME TypeInv, AllProper, Covered, NEW c \in Accounts, NEW s \in Tokens,
         NEW n \in SaveAmounts, SaveMe(c, s, n)
  PROVE  Covered'
<1>1. n \in Nat /\ bal \in [Tokens -> [Holders -> Nat]] /\ taken \in [Tokens -> Nat]
  BY NumberAssumption DEF TypeInv, TypeOK
<1>2. /\ bal' = Transfer(bal, s, Self, c, n) /\ taken' = [taken EXCEPT ![s] = @ + n]
      /\ UNCHANGED <<pools, users, roundings>>
  BY DEF SaveMe
<1>3. ASSUME NEW t \in Tokens PROVE Committed(t)' <= Means(t)'
  <2>1. Transfer(bal, s, Self, c, n)[t][Self] = bal[t][Self] - If(t = s, n)
    BY <1>1, SelfPaid, SMTT(30)
  <2>2. taken'[t] = taken[t] + If(t = s, n) /\ If(t = s, n) \in Nat
    BY <1>1, <1>2 DEF If
  <2>3. bal[t][Self] \in Nat /\ taken[t] \in Nat /\ roundings[t] \in Nat
    BY MeansType
  <2>4. Means(t)' = Means(t)
    BY <1>2, <2>1, <2>2, <2>3 DEF Means
  <2>5. Committed(t)' = Committed(t)
    BY <1>2 DEF Committed, CommittedByPool, Promised, Debts
  <2> QED BY <2>4, <2>5 DEF Covered
<1> QED BY <1>3 DEF Covered

\* Before anything was added there is nothing to cover.
NoPools == DOMAIN pools = {}

LEMMA NoPoolsAreCovered == TypeInv /\ NoPools => Covered
<1> SUFFICES ASSUME TypeInv, DOMAIN pools = {}, NEW t \in Tokens
             PROVE  Committed(t) <= Means(t)
  BY DEF Covered, NoPools
<1>1. Committed(t) = SumFunctionOnSet(CommittedByPool(t), {})
  BY DEF Committed
<1>2. Committed(t) = 0 /\ Means(t) \in Nat
  BY <1>1, SumOfNone, MeansType
<1> QED BY <1>2

LEMMA NextNoPoolsAreCovered == TypeInv' /\ NoPools' => Covered'
BY NoPoolsAreCovered, PTL

LEMMA CoveredStep ==
  ASSUME TypeInv, TypeInv', TimesFit, TotalStakedIsSum, DebtCovered, UpToNow,
         CommitmentsCovered, [Next]_vars
  PROVE  CommitmentsCovered'
<1> SUFFICES ASSUME self_contract_hash' = Self, AllProper' PROVE Covered'
  BY DEF CommitmentsCovered, AllProper, Covered, Means
<1>1. AllProper
  BY ProperBefore
<1>2. CASE \E h \in PackageHashes : Initialize(h)
  <2>1. index = 0 /\ pools' = pools
    BY <1>2 DEF Initialize, TypeInv, InitOnce
  <2>2. NoPools'
    <3>1. DOMAIN pools \subseteq 0..(0 - 1) /\ 0..(0 - 1) = {}
      BY <2>1 DEF TypeInv, TypeOK
    <3> QED BY <2>1, <3>1 DEF NoPools
  <2> QED BY <2>2, NextNoPoolsAreCovered
<1>3. ASSUME ~ \E h \in PackageHashes : Initialize(h)
      PROVE  Covered'
  <2>1. self_contract_hash' = self_contract_hash
    <3>1. \A c, a, i : Deposit(c, a, i) => self_contract_hash' = self_contract_hash
      BY DEF Deposit
    <3>2. \A c, a, i : Withdraw(c, a, i) => self_contract_hash' = self_contract_hash
      BY DEF Withdraw
    <3>3. \A c, i : StopReward(c, i) => self_contract_hash' = self_contract_hash
      BY DEF StopReward
    <3>4. \A c, i : EmergencyWithdraw(c, i) => self_contract_hash' = self_contract_hash
      BY DEF EmergencyWithdraw
    <3>5. \A c, s, r, b, e, p, n : AddPool(c, s, r, b, e, p, n) =>
            self_contract_hash' = self_contract_hash
      BY DEF AddPool
    <3> QED BY <1>3, <3>1, <3>2, <3>3, <3>4, <3>5 DEF Next, vars, SaveMe, SetAdmin, Tick
  <2>2. self_contract_hash = Self /\ Covered
    BY <1>1, <2>1 DEF CommitmentsCovered, AllProper, Covered, Means
  <2>3. ASSUME NEW c \in Accounts, NEW s \in Tokens, NEW r \in Tokens, NEW d \in StartDelays,
               NEW l \in Lengths, NEW p \in Precisions, NEW n \in Rewards,
               AddPool(c, s, r, now + d, now + d + l, p, n)
        PROVE  Covered'
    <3>1. now + d \in Nat /\ now + d + l \in Nat /\ n \in Nat
      BY <2>3, NumberAssumption DEF TypeInv, TypeOK, AddPool
    <3> QED BY <1>1, <2>2, <2>3, <3>1, AddPoolKeepsCovered
  <2>4. ASSUME NEW c \in Accounts, NEW a \in Amounts, NEW id \in DOMAIN pools, Deposit(c, a, id)
        PROVE  Covered'
    BY <1>1, <2>2, <2>4, DepositPaysFor, PaidForKeepsCovered
  <2>5. ASSUME NEW c \in Accounts, NEW a \in Amounts, NEW id \in DOMAIN pools, Withdraw(c, a, id)
        PROVE  Covered'
    BY <1>1, <2>2, <2>5, WithdrawPaysFor, PaidForKeepsCovered
  <2>6. ASSUME NEW c \in Accounts, NEW id \in DOMAIN pools, EmergencyWithdraw(c, id)
        PROVE  Covered'
    BY <1>1, <2>2, <2>6, EmergencyWithdrawPaysFor, PaidForKeepsCovered
  <2>7. ASSUME NEW c \in Accounts, NEW id \in DOMAIN pools, StopReward(c, id) PROVE Covered'
    BY <1>1, <2>2, <2>7, StopRewardPaysFor, PaidForKeepsCovered
  <2>8. ASSUME NEW c \in Accounts, NEW t \in Tokens, NEW a \in SaveAmounts, SaveMe(c, t, a)
        PROVE  Covered'
    BY <1>1, <2>2, <2>8, SaveMeKeepsCovered
  <2>9. ASSUME UNCHANGED <<pools, users, bal, taken, roundings>> PROVE Covered'
    BY <2>2, <2>9 DEF Covered, Committed, CommittedByPool, Promised, Debts, Means
  <2>10. CASE \/ \E c, d \in Accounts : SetAdmin(c, d)
              \/ Tick
              \/ UNCHANGED vars
    BY <2>9, <2>10 DEF SetAdmin, Tick, vars
  <2> QED BY <1>3, <2>3, <2>4, <2>5, <2>6, <2>7, <2>8, <2>10 DEF Next
<1> QED BY <1>2, <1>3

-----------------------------------------------------------------------------
\* The theorems

SolvencyInv ==
  TypeInv /\ TimesFit /\ TotalStakedIsSum /\ DebtCovered /\ UpToNow /\ CommitmentsCovered

LEMMA SolvencyInvHolds == Spec => []SolvencyInv
<1>1. Init => SolvencyInv
  <2> SUFFICES ASSUME Init PROVE SolvencyInv
    OBVIOUS
  <2>1. TypeInv /\ DOMAIN pools = {}
    BY InitHasType DEF Init
  <2>2. Covered
    BY <2>1, NoPoolsAreCovered DEF NoPools
  <2> QED BY <2>1, <2>2 DEF SolvencyInv, TimesFit, TotalStakedIsSum, DebtCovered, UpToNow,
                            CommitmentsCovered, Covered, Means
<1>2. SolvencyInv /\ [Next]_vars => SolvencyInv'
  <2> SUFFICES ASSUME SolvencyInv, [Next]_vars PROVE SolvencyInv'
    OBVIOUS
  <2>1. TypeInv /\ TimesFit /\ TotalStakedIsSum /\ DebtCovered /\ UpToNow /\ CommitmentsCovered
    BY DEF SolvencyInv
  <2>2. TypeInv'
    BY <2>1, TypeStep
  <2>3. TimesFit' /\ TotalStakedIsSum' /\ UpToNow' /\ CommitmentsCovered'
    BY <2>1, <2>2, TimesFitStep, TotalStep, UpToNowStep, CoveredStep
  <2>4. DebtCovered'
    BY <2>1, <2>2, DebtStep
  <2> QED BY <2>2, <2>3, <2>4 DEF SolvencyInv
<1> QED BY <1>1, <1>2, PTL DEF Spec

\* CommitmentsCovered: at any time the contract holds the stakes of all its pools and
\* all the reward that they may still pay, whatever their users do and whenever
\* update_pool is called; with the exceptions that Solvency makes.
THEOREM CommitmentsAreCovered == Spec => []CommitmentsCovered
<1>1. SolvencyInv => CommitmentsCovered
  BY DEF SolvencyInv
<1> QED BY <1>1, SolvencyInvHolds, PTL

\* Solvency: the contract can pay every stake and every reward earned by now, of all
\* its pools and stakers at once, except for what save_me took, what stop_reward
\* refunded in the wrong token, and one unit per reward_debt that was rounded down.
THEOREM SolvencyCorrect == Spec => []Solvency
<1>1. SolvencyInv => Solvency
  BY CoveredIsSolvent DEF SolvencyInv
<1> QED BY <1>1, SolvencyInvHolds, PTL
=============================================================================
