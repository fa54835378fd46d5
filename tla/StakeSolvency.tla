----------------------------- MODULE StakeSolvency -----------------------------
(***************************************************************************)
(* Why the staking contract stays solvent.  The contract never adds up     *)
(* what it owes; this module does, in whole units and without looking at   *)
(* the clock: what a pool's shares have accrued, what of that has been     *)
(* handed out before, and what the pool has still to share.                *)
(***************************************************************************)
EXTENDS StakeContract

\* The least whole number of d's that covers n.
CeilDiv(n, d) == (n + d - 1) \div d

Debts(pool_id) == [a \in Accounts |-> users[pool_id][a].reward_debt]

\* The seconds of a pool that no update_pool has paid for.
SecondsLeft(pool) ==
  IF pool.last_reward_timestamp > pool.end_time THEN 0
  ELSE pool.end_time - get_max(pool.start_time, pool.last_reward_timestamp)

RewardLeft(pool) ==
  (SecondsLeft(pool) * pool.total_reward) \div (pool.end_time - pool.start_time)

\* What all stakes of a pool together would have accrued, had they been there
\* from its start; their debts are what they were not there for, or were paid.
AccruedByAll(pool) ==
  CeilDiv(pool.total_staked * pool.acc_token_per_share, Scale[pool.precision])

Promised(pool_id) ==
  AccruedByAll(pools[pool_id]) - SumFunctionOnSet(Debts(pool_id), Accounts)
    + RewardLeft(pools[pool_id])

\* What a pool may still pay of a token, whatever its users do and however long
\* they wait: the stakes, and all the reward that is not handed out yet.
CommittedByPool(token) ==
  [id \in DOMAIN pools |->
     (IF pools[id].staking_token = token THEN pools[id].total_staked ELSE 0)
     + (IF pools[id].reward_token = token THEN Promised(id) ELSE 0)]

Committed(token) == SumFunctionOnSet(CommittedByPool(token), DOMAIN pools)

\* The contract holds not only what it owes by now but all that its pools will ever
\* pay, with the exceptions of Solvency.
CommitmentsCovered ==
  (self_contract_hash = Self /\ \A id \in DOMAIN pools : Proper(pools[id])) =>
    \A t \in Tokens : Committed(t) <= bal[t][Self] + taken[t] + roundings[t]

=============================================================================
