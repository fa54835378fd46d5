----------------------------- MODULE StakeContract -----------------------------
(***************************************************************************)
(* The staking contract of LockStaking/src/stake.rs: a pool pays a fixed   *)
(* reward, spread evenly from its start to its end, to the accounts that   *)
(* stake in it.  Rewards are not handed out as time passes: each operation *)
(* first brings the pool's reward per share up to date (update_pool), and  *)
(* a user is paid the difference to the reward_debt recorded when its      *)
(* stake last changed.  One action is one successful deploy; a deploy that *)
(* reverts or panics leaves everything as it was and is a stuttering step. *)
(***************************************************************************)
EXTENDS Integers, FiniteSets, Functions, Erc20Ledger

CONSTANTS
  Accounts,       \* account hashes that sign deploys
  Tokens,         \* contract hashes of ERC-20 tokens
  Self,           \* the contract package hash the tokens know this contract by
  PackageHashes,  \* hashes that init may be given; Self is the right one
  NoHash,         \* KEY_NAME_SELF_CONTRACT_HASH before init has written it
  Precisions,     \* the precisions that add_pool accepts (18..=36)
  Scale,          \* 10^precision, as a function of the precision
  U64,            \* 2^64: u64 differences wrap around at this value
  MaxU256,        \* the largest U256: arithmetic beyond it panics
  Supply,         \* tokens of each kind that each account starts with
  MaxTime,        \* bound: the last block time of the model
  MaxPools,       \* bound: how many pools are ever added
  MaxRoundings,   \* bound: no stake changes once so many debts were rounded down
  MaxTaken,       \* bound: how much save_me takes of a token
  StartDelays, Lengths, Rewards,    \* bound: the arguments of add_pool
  Amounts, SaveAmounts              \* bound: the arguments of the other calls

ASSUME HashAssumption ==
  /\ Self \in PackageHashes
  /\ NoHash \notin PackageHashes
  /\ PackageHashes \cap Accounts = {}
  /\ IsFiniteSet(Accounts) /\ IsFiniteSet(Tokens)

ASSUME NumberAssumption ==
  /\ U64 \in Nat \ {0} /\ MaxU256 \in Nat /\ Supply \in Nat
  /\ MaxTime \in Nat /\ MaxPools \in Nat /\ MaxRoundings \in Nat /\ MaxTaken \in Nat
  /\ Scale \in [Precisions -> Nat \ {0}]
  /\ StartDelays \subseteq Nat /\ Lengths \subseteq Int /\ Rewards \subseteq Nat
  /\ Amounts \subseteq Nat /\ SaveAmounts \subseteq Nat
  /\ MaxTime < U64 /\ \A d \in StartDelays, l \in Lengths : MaxTime + d + l < U64

VARIABLES
  now,                 \* the block time
  initialized,         \* KEY_NAME_INITIALIZED
  admin,               \* KEY_NAME_ADMIN
  self_contract_hash,  \* KEY_NAME_SELF_CONTRACT_HASH
  index,               \* KEY_NAME_INDEX, the id of the next pool
  pools,               \* KEY_NAME_DIC_STAKE_INFOS: pool id -> StakePool
  users,               \* KEY_NAME_USER_INFOS: users[pool id][account] is a UserInfo
  bal,                 \* the token contracts: bal[token][holder]
  \* history, read by properties only
  taken,               \* taken[token]: what left past the stakers' accounts
  roundings            \* roundings[token]: how often a reward_debt was rounded down

vars == <<now, initialized, admin, self_contract_hash, index, pools, users, bal,
          taken, roundings>>

Holders == Accounts \cup PackageHashes

-----------------------------------------------------------------------------
\* Data

\* UserInfo::default() is what get_user_info_for_pool returns for an account
\* that has no entry; precision and total_reward never change after add_pool.
UserInfo == [amount : Nat, reward_debt : Nat]

NoStake == [amount |-> 0, reward_debt |-> 0]

StakePool == [last_reward_timestamp : Nat, staking_token : Tokens, reward_token : Tokens,
              start_time : Nat, end_time : Nat, precision : Precisions, owner : Accounts,
              acc_token_per_share : Nat, total_reward : Nat, total_staked : Nat]

get_min(a, b) == IF a > b THEN b ELSE a
get_max(a, b) == IF a > b THEN a ELSE b

\* u64 subtraction: a release build wraps around below zero.
Minus64(a, b) == (a - b) % U64

\* U256 arithmetic never wraps; a result that does not fit panics.
Fits(n) == n <= MaxU256

-----------------------------------------------------------------------------
\* update_pool

\* The pool is up to date, or its last period has been paid out.
Settled(pool) ==
  \/ now <= pool.last_reward_timestamp
  \/ /\ pool.total_staked # 0
     /\ pool.start_time <= now
     /\ pool.last_reward_timestamp > pool.end_time

\* Mutated Unshared: a pool that has ended is passed over.
UnsharedOrEnded(pool) ==
  pool.total_staked = 0 \/ pool.start_time > now \/ pool.end_time < now

\* Nobody to share with: time passes and its reward is not handed out.
Unshared(pool) == pool.total_staked = 0 \/ pool.start_time > now

\* Mutated RewardUnlocked: the pool goes on paying after its end.
UnlockedPastEnd(pool) ==
  Minus64(now, get_max(pool.start_time, pool.last_reward_timestamp))

\* Mutated RewardUnlocked: the seconds before the start are paid for too.
UnlockedBeforeStart(pool) ==
  Minus64(get_min(now, pool.end_time), pool.last_reward_timestamp)

\* The seconds since the last update that the pool pays for.
RewardUnlocked(pool) ==
  Minus64(get_min(now, pool.end_time), get_max(pool.start_time, pool.last_reward_timestamp))

\* What these seconds pay to all stakers together.
PeriodReward(pool) ==
  (RewardUnlocked(pool) * pool.total_reward) \div Minus64(pool.end_time, pool.start_time)

ShareIncrease(pool) ==
  (PeriodReward(pool) * Scale[pool.precision]) \div pool.total_staked

\* The U256 products and sums of update_pool fit.
UpdateFits(pool) ==
  /\ Fits(RewardUnlocked(pool) * pool.total_reward)
  /\ Fits(PeriodReward(pool) * Scale[pool.precision])
  /\ Fits(pool.acc_token_per_share + ShareIncrease(pool))

\* update_pool neither divides by zero nor overflows.
CanUpdate(pool) ==
  ~(Settled(pool) \/ Unshared(pool)) =>
    Minus64(pool.end_time, pool.start_time) # 0 /\ UpdateFits(pool)

\* Mutated UpdatePool: while nobody is staked the clock of the pool stands still.
UpdateSharedOnly(pool) ==
  IF Settled(pool) \/ Unshared(pool) THEN pool
  ELSE [pool EXCEPT
         !.last_reward_timestamp = now,
         !.acc_token_per_share = @ + ShareIncrease(pool)]

UpdatePool(pool) ==
  IF Settled(pool) THEN pool
  ELSE [pool EXCEPT
         !.last_reward_timestamp = now,
         !.acc_token_per_share = IF Unshared(pool) THEN @ ELSE @ + ShareIncrease(pool)]

-----------------------------------------------------------------------------
\* Reward of a user, for a pool that is up to date

Accrued(pool, amount) ==
  (amount * pool.acc_token_per_share) \div Scale[pool.precision]

Pending(pool, user) ==
  IF user.amount = 0 THEN 0 ELSE Accrued(pool, user.amount) - user.reward_debt

\* The U256 products fit and the subtraction of the debt does not go below zero.
CanSettle(pool, user, new_amount) ==
  /\ Fits(user.amount * pool.acc_token_per_share)
  /\ Fits(new_amount * pool.acc_token_per_share)
  /\ Pending(pool, user) >= 0

\* Mutated StakeOf: the debt is rounded up.
StakeRoundedUp(pool, amount) ==
  [amount |-> amount, reward_debt |-> Accrued(pool, amount) + 1]

\* Mutated StakeOf: the debt is not recorded.
StakeWithoutDebt(pool, amount) == [amount |-> amount, reward_debt |-> 0]

\* What the code records of a stake: its size and all it has accrued so far.
StakeOf(pool, amount) == [amount |-> amount, reward_debt |-> Accrued(pool, amount)]

\* A debt that is rounded down lets the user have up to one token unit more.
RoundedDown(pool, amount) ==
  roundings' = IF (amount * pool.acc_token_per_share) % Scale[pool.precision] = 0
               THEN roundings
               ELSE [roundings EXCEPT ![pool.reward_token] = @ + 1]

\* The history stays finite; not part of the contract.
Bounded == \A t \in Tokens : roundings[t] < MaxRoundings

\* Mutated UpdateStorage: the pool is not written back.
StoreUserOnly(caller, pool_id, pool, user) ==
  /\ pools' = pools
  /\ users' = [users EXCEPT ![pool_id][caller] = user]

\* The pool and the caller's stake in it are written back (update_storage).
UpdateStorage(caller, pool_id, pool, user) ==
  /\ pools' = [pools EXCEPT ![pool_id] = pool]
  /\ users' = [users EXCEPT ![pool_id][caller] = user]

-----------------------------------------------------------------------------
Init ==
  /\ now = 0
  /\ initialized = FALSE
  /\ admin \in Accounts
  /\ self_contract_hash = NoHash
  /\ index = 0
  /\ pools = [id \in {} |-> {}]
  /\ users = [id \in {} |-> {}]
  /\ bal = [t \in Tokens |-> [h \in Holders |-> IF h \in Accounts THEN Supply ELSE 0]]
  /\ taken = [t \in Tokens |-> 0]
  /\ roundings = [t \in Tokens |-> 0]

\* Mutated Initialize: it can be called again.
InitializeAgain(conthash) ==
  /\ initialized' = TRUE
  /\ self_contract_hash' = conthash
  /\ index' = 0
  /\ UNCHANGED <<now, admin, pools, users, bal, taken, roundings>>

\* init: once, by anybody, with a package hash that is not checked.
Initialize(conthash) ==
  /\ ~initialized
  /\ initialized' = TRUE
  /\ self_contract_hash' = conthash
  /\ index' = 0
  /\ UNCHANGED <<now, admin, pools, users, bal, taken, roundings>>

AddPool(caller, staking_token, reward_token, start_time, end_time, precision, total_reward) ==
  /\ index < MaxPools
  /\ initialized
  /\ start_time >= now /\ end_time >= now
  /\ total_reward # 0
  /\ CanPay(bal, reward_token, caller, total_reward)
  /\ pools' = [id \in DOMAIN pools \cup {index} |->
                 IF id # index THEN pools[id]
                 ELSE [last_reward_timestamp |-> 0,
                       staking_token |-> staking_token, reward_token |-> reward_token,
                       start_time |-> start_time, end_time |-> end_time,
                       precision |-> precision, owner |-> caller,
                       acc_token_per_share |-> 0, total_reward |-> total_reward,
                       total_staked |-> 0]]
  /\ users' = [id \in DOMAIN users \cup {index} |->
                 IF id # index THEN users[id] ELSE [a \in Accounts |-> NoStake]]
  /\ bal' = TransferFrom(bal, reward_token, caller, self_contract_hash, total_reward)
  /\ index' = index + 1
  /\ UNCHANGED <<now, initialized, admin, self_contract_hash, taken, roundings>>

\* The token calls of deposit(): the four cases of DepositScenario.
DepositTransfers(caller, pool, pending, amount) ==
  LET paidIn  == TransferFrom(bal, pool.staking_token, caller, self_contract_hash, amount)
      paidOut == Transfer(bal, pool.reward_token, Self, caller, pending)
  IN  \/ /\ pending = 0                                      \* PendingZero
         /\ CanPay(bal, pool.staking_token, caller, amount)
         /\ bal' = paidIn
      \/ /\ pending > amount                                 \* EqualTokenPendingGreater
         /\ pool.reward_token = pool.staking_token
         /\ CanPay(bal, pool.staking_token, Self, pending - amount)
         /\ bal' = Transfer(bal, pool.staking_token, Self, caller, pending - amount)
      \/ /\ pending # 0 /\ pending <= amount                 \* EqualTokenPendingLesser
         /\ pool.reward_token = pool.staking_token
         /\ CanPay(bal, pool.staking_token, caller, amount - pending)
         /\ bal' = TransferFrom(bal, pool.staking_token, caller, self_contract_hash,
                                amount - pending)
      \/ /\ pending # 0                                      \* ClaimRewardAndDeposit
         /\ pool.reward_token # pool.staking_token
         /\ CanPay(bal, pool.reward_token, Self, pending)
         /\ CanPay(paidOut, pool.staking_token, caller, amount)
         /\ bal' = TransferFrom(paidOut, pool.staking_token, caller, self_contract_hash, amount)

\* A first deposit and a later one differ in what is pending only.
Deposit(caller, amount, pool_id) ==
  /\ Bounded
  /\ amount # 0
  /\ CanUpdate(pools[pool_id])
  /\ LET updated    == UpdatePool(pools[pool_id])
         user       == users[pool_id][caller]
         new_amount == amount + user.amount
         pool       == [updated EXCEPT !.total_staked = @ + amount]
     IN  /\ updated.end_time >= now
         /\ CanSettle(updated, user, new_amount)
         /\ Fits(pool.total_staked)
         /\ DepositTransfers(caller, updated, Pending(updated, user), amount)
         /\ UpdateStorage(caller, pool_id, pool, StakeOf(updated, new_amount))
         /\ RoundedDown(updated, new_amount)
  /\ UNCHANGED <<now, initialized, admin, self_contract_hash, index, taken>>

\* The token calls of withdraw(): the three cases of WithdrawScenario.
CanWithdrawTransfers(caller, pool, pending, amount) ==
  \/ /\ pending = 0 \/ pool.reward_token = pool.staking_token
     /\ CanPay(bal, pool.staking_token, Self, pending + amount)
  \/ /\ pending # 0 /\ pool.reward_token # pool.staking_token
     /\ CanPay(bal, pool.reward_token, Self, pending)
     /\ CanPay(Transfer(bal, pool.reward_token, Self, caller, pending),
               pool.staking_token, Self, amount)

WithdrawTransfers(caller, pool, pending, amount) ==
  \/ /\ pending = 0 \/ pool.reward_token = pool.staking_token
     /\ bal' = Transfer(bal, pool.staking_token, Self, caller, pending + amount)
  \/ /\ pending # 0 /\ pool.reward_token # pool.staking_token
     /\ bal' = Transfer(Transfer(bal, pool.reward_token, Self, caller, pending),
                        pool.staking_token, Self, caller, amount)

\* withdraw() goes through: none of its checks, its arithmetic and its transfers fails.
CanWithdraw(caller, amount, pool_id) ==
  /\ Bounded
  /\ amount # 0
  /\ CanUpdate(pools[pool_id])
  /\ LET pool == UpdatePool(pools[pool_id])
         user == users[pool_id][caller]
     IN  /\ user.amount # 0
         /\ user.amount >= amount
         /\ CanSettle(pool, user, user.amount - amount)
         /\ pool.total_staked >= amount
         /\ CanWithdrawTransfers(caller, pool, Pending(pool, user), amount)

Withdraw(caller, amount, pool_id) ==
  /\ CanWithdraw(caller, amount, pool_id)
  /\ LET updated    == UpdatePool(pools[pool_id])
         user       == users[pool_id][caller]
         new_amount == user.amount - amount
     IN  /\ WithdrawTransfers(caller, updated, Pending(updated, user), amount)
         /\ UpdateStorage(caller, pool_id, [updated EXCEPT !.total_staked = @ - amount],
                          StakeOf(updated, new_amount))
         /\ RoundedDown(updated, new_amount)
  /\ UNCHANGED <<now, initialized, admin, self_contract_hash, index, taken>>

\* The share of the reward that is not unlocked yet goes back to the owner, in
\* the staking token.
StopReward(caller, pool_id) ==
  /\ CanUpdate(pools[pool_id])
  /\ LET pool         == UpdatePool(pools[pool_id])
         old_end_time == pool.end_time
         duration     == Minus64(old_end_time, pool.start_time)
         left         == Minus64(old_end_time, get_max(now, pool.start_time))
         refund       == (left * pool.total_reward) \div duration
     IN  /\ pool.owner = caller
         /\ old_end_time > now
         /\ duration # 0
         /\ Fits(left * pool.total_reward)
         /\ CanPay(bal, pool.staking_token, Self, refund)
         /\ bal' = Transfer(bal, pool.staking_token, Self, caller, refund)
         /\ pools' = [pools EXCEPT ![pool_id] = [pool EXCEPT !.end_time = now]]
         /\ taken' = IF pool.staking_token = pool.reward_token THEN taken
                     ELSE [taken EXCEPT ![pool.staking_token] = @ + refund]
  /\ UNCHANGED <<now, initialized, admin, self_contract_hash, index, users, roundings>>

SaveMe(caller, token_hash, amount) ==
  /\ taken[token_hash] + amount <= MaxTaken
  /\ caller = admin
  /\ CanPay(bal, token_hash, Self, amount)
  /\ bal' = Transfer(bal, token_hash, Self, caller, amount)
  /\ taken' = [taken EXCEPT ![token_hash] = @ + amount]
  /\ UNCHANGED <<now, initialized, admin, self_contract_hash, index, pools, users, roundings>>

\* emergency_withdraw() goes through.
CanEmergencyWithdraw(caller, pool_id) ==
  LET amount == users[pool_id][caller].amount
  IN  /\ amount # 0
      /\ pools[pool_id].total_staked >= amount
      /\ CanPay(bal, pools[pool_id].staking_token, Self, amount)

EmergencyWithdraw(caller, pool_id) ==
  /\ CanEmergencyWithdraw(caller, pool_id)
  /\ LET pool   == pools[pool_id]
         amount == users[pool_id][caller].amount
     IN  /\ bal' = Transfer(bal, pool.staking_token, Self, caller, amount)
         /\ UpdateStorage(caller, pool_id, [pool EXCEPT !.total_staked = @ - amount], NoStake)
  /\ UNCHANGED <<now, initialized, admin, self_contract_hash, index, taken, roundings>>

SetAdmin(caller, account) ==
  /\ caller = admin
  /\ admin' = account
  /\ UNCHANGED <<now, initialized, self_contract_hash, index, pools, users, bal,
                 taken, roundings>>

\* The chain: the block time moves on between deploys.
Tick ==
  /\ now < MaxTime
  /\ now' = now + 1
  /\ UNCHANGED <<initialized, admin, self_contract_hash, index, pools, users, bal,
                 taken, roundings>>

Next ==
  \/ \E h \in PackageHashes : Initialize(h)
  \/ \E c \in Accounts, s, r \in Tokens, d \in StartDelays, l \in Lengths,
        p \in Precisions, n \in Rewards : AddPool(c, s, r, now + d, now + d + l, p, n)
  \/ \E c \in Accounts, a \in Amounts, id \in DOMAIN pools : Deposit(c, a, id)
  \/ \E c \in Accounts, a \in Amounts, id \in DOMAIN pools : Withdraw(c, a, id)
  \/ \E c \in Accounts, id \in DOMAIN pools : StopReward(c, id)
  \/ \E c \in Accounts, t \in Tokens, a \in SaveAmounts : SaveMe(c, t, a)
  \/ \E c \in Accounts, id \in DOMAIN pools : EmergencyWithdraw(c, id)
  \/ \E c, d \in Accounts : SetAdmin(c, d)
  \/ Tick

Spec == Init /\ [][Next]_vars

-----------------------------------------------------------------------------
\* Properties

TypeOK ==
  /\ now \in 0..MaxTime
  /\ initialized \in BOOLEAN
  /\ admin \in Accounts
  /\ self_contract_hash \in PackageHashes \cup {NoHash}
  /\ index \in 0..MaxPools
  /\ DOMAIN pools \subseteq 0..(index - 1)
  /\ pools \in [DOMAIN pools -> StakePool]
  /\ users \in [DOMAIN pools -> [Accounts -> UserInfo]]
  /\ bal \in [Tokens -> [Holders -> Nat]]
  /\ taken \in [Tokens -> Nat]
  /\ roundings \in [Tokens -> Nat]

\* What the accounts have staked in a pool, and what they could claim now.
Stakes(pool_id) == [a \in Accounts |-> users[pool_id][a].amount]

Claimable(pool_id, account) ==
  Pending(UpdatePool(pools[pool_id]), users[pool_id][account])

Claims(pool_id) == [a \in Accounts |-> Claimable(pool_id, a)]

\* A pool pays over a period of time; add_pool and stop_reward can leave one
\* whose end is not after its start.
Proper(pool) == pool.start_time < pool.end_time

\* The total that the reward is divided by is the sum of the stakes it is
\* divided among: deposit, withdraw and emergency_withdraw write the pool and
\* the user's entry separately, and update_pool divides by the total.
TotalStakedIsSum ==
  \A id \in DOMAIN pools :
    pools[id].total_staked = SumFunctionOnSet(Stakes(id), Accounts)

\* No reward_debt is more than what the stake has accrued since the pool
\* began, so that `pending -= user_info.reward_debt` cannot panic and lock a
\* stake in.
DebtCovered ==
  \A id \in DOMAIN pools : \A a \in Accounts :
    users[id][a].reward_debt <= Accrued(pools[id], users[id][a].amount)

\* What the contract owes of a token: the stakes, and the rewards earned by now.
OwedByPool(token) ==
  [id \in DOMAIN pools |->
     (IF pools[id].staking_token = token THEN pools[id].total_staked ELSE 0)
     + (IF pools[id].reward_token = token
        THEN SumFunctionOnSet(Claims(id), Accounts) ELSE 0)]

Owed(token) == SumFunctionOnSet(OwedByPool(token), DOMAIN pools)

\* The contract can pay every stake and every reward earned so far, of all its
\* pools at once, except for what the admin took out (save_me), for refunds
\* that stop_reward made in the wrong token, and for one unit per reward_debt
\* that was rounded down.
Solvency ==
  (self_contract_hash = Self /\ \A id \in DOMAIN pools : Proper(pools[id])) =>
    \A t \in Tokens : Owed(t) <= bal[t][Self] + taken[t] + roundings[t]

\* The tokens that accounts have staked are still there unless the admin took
\* them: a pool's owner gets back rewards, never somebody's stake.
StakesAreThere ==
  self_contract_hash = Self =>
    \A t \in Tokens :
      SumFunctionOnSet([id \in DOMAIN pools |->
                          IF pools[id].staking_token = t THEN pools[id].total_staked ELSE 0],
                       DOMAIN pools)
        <= bal[t][Self]

\* What withdraw() pays of a token to an account that leaves a pool with everything.
LeavingPays(pool_id, account, token) ==
  (IF pools[pool_id].staking_token = token THEN users[pool_id][account].amount ELSE 0)
  + (IF pools[pool_id].reward_token = token THEN Claimable(pool_id, account) ELSE 0)

\* A staker who leaves with everything is not stopped by a panic on the way: in a
\* pool that pays over a period of time, withdraw works whenever the contract holds
\* what it would pay, of one token or of two, and no product is too large for a U256.
StakeIsWithdrawable ==
  \A id \in DOMAIN pools : \A a \in Accounts :
    LET pool   == pools[id]
        amount == users[id][a].amount
    IN  (/\ Bounded
         /\ amount # 0
         /\ Proper(pool)
         /\ ~(Settled(pool) \/ Unshared(pool)) => UpdateFits(pool)
         /\ Fits(amount * UpdatePool(pool).acc_token_per_share)
         /\ \A t \in Tokens : LeavingPays(id, a, t) <= bal[t][Self])
        => CanWithdraw(a, amount, id)

\* Whatever has become of a pool - stopped in the second it started, so that every
\* update divides by zero, or with products that overflow - a staker gets its
\* stake back by emergency_withdraw if the contract has the tokens.
StakeIsRecoverable ==
  \A id \in DOMAIN pools : \A a \in Accounts :
    LET amount == users[id][a].amount
    IN  (amount # 0 /\ amount <= bal[pools[id].staking_token][Self])
        => CanEmergencyWithdraw(a, id)

\* Somebody's stake can always be withdrawn together with its reward: whatever
\* pool add_pool has accepted and stop_reward has left behind, update_pool does
\* not panic while there are stakers in it.
StakedPoolUpdates ==
  \A id \in DOMAIN pools : pools[id].total_staked # 0 => CanUpdate(pools[id])

\* What a user has earned is not lost by what others do: as long as its own
\* stake is not touched, no deposit, withdrawal, stop_reward or update of the
\* pool makes its reward smaller.
EarnedIsKept ==
  [][\A id \in DOMAIN pools : \A a \in Accounts :
       (/\ Proper(pools[id]) /\ Proper(pools'[id])
        /\ users'[id][a] = users[id][a])
       => Claimable(id, a)' >= Claimable(id, a)]_vars

\* A pool that has ended, by its end time or by stop_reward, and has been brought up
\* to date since hands out nothing more, whoever comes and goes, if its end is not
\* before its start.
EndedPoolIsOver ==
  [][\A id \in DOMAIN pools :
       (/\ pools[id].start_time <= pools[id].end_time
        /\ pools[id].end_time <= pools[id].last_reward_timestamp)
       => pools'[id].acc_token_per_share = pools[id].acc_token_per_share]_vars

\* stake.rs:276 says that stop_reward "Ends a stake pool early": whatever pool it is
\* called for, what it has refunded is not paid a second time.
StopEndsPool ==
  [][\A id \in DOMAIN pools :
       pools[id].end_time <= pools[id].last_reward_timestamp =>
         pools'[id].acc_token_per_share = pools[id].acc_token_per_share]_vars

=============================================================================
