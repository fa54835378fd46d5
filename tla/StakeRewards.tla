----------------------------- MODULE StakeRewards -----------------------------
(***************************************************************************)
(* The staking contract shares rewards as RewardSharing says: what an      *)
(* account has earned is what a withdrawal would pay it now.               *)
(***************************************************************************)
EXTENDS StakeContract

Terms ==
  [id \in DOMAIN pools |->
     [owner |-> pools[id].owner, start |-> pools[id].start_time, end |-> pools[id].end_time,
      reward |-> pools[id].total_reward,
      stakes |-> pools[id].staking_token, pays |-> pools[id].reward_token]]

\* A pool stopped in the second it started has paid nothing.
Earned ==
  [id \in DOMAIN pools |->
     IF Proper(pools[id]) THEN Claims(id) ELSE [a \in Accounts |-> 0]]

Sharing == INSTANCE RewardSharing
             WITH clock <- now, terms <- Terms, earned <- Earned,
                  staked <- [id \in DOMAIN pools |-> Stakes(id)],
                  Vault <- Self, Slack <- 2

\* Every run in which the pools pay the token they take, start when they are
\* added, and nobody uses save_me, is a run of RewardSharing, with a second's
\* earnings exact up to two units: the pool's share of the period and the user's
\* share of it are each rounded down.
SharingKept == Sharing!SharingSpec

=============================================================================
