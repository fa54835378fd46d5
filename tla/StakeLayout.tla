------------------------------ MODULE StakeLayout ------------------------------
(***************************************************************************)
(* How pools and users lie in their dictionary entries (LockStaking/src/   *)
(* pool.rs): 232 bytes for a StakePool, 64 for a UserInfo.  Every action   *)
(* of the contract reads the entries it works on and writes them back.     *)
(***************************************************************************)
EXTENDS StakeContract, EntryBytes

pack_user(user) == to_le(user.amount, 32) \o to_le(user.reward_debt, 32)

unpack_user(src) ==
  [amount |-> from_le(Slice(src, 0, 32), 32), reward_debt |-> from_le(Slice(src, 32, 64), 32)]

\* Mutated pack_pool: the two times that belong together are written together.
pack_pool_swapped(id, pool) ==
  to_le(id, 8) \o to_le(pool.last_reward_timestamp, 8)
  \o to_le(pool.staking_token, 32) \o to_le(pool.reward_token, 32)
  \o to_le(pool.end_time, 8) \o to_le(pool.start_time, 8) \o to_le(pool.precision, 8)
  \o to_le(pool.owner, 32) \o to_le(pool.total_reward, 32)
  \o to_le(pool.acc_token_per_share, 32) \o to_le(pool.total_staked, 32)

pack_pool(id, pool) ==
  to_le(id, 8) \o to_le(pool.last_reward_timestamp, 8)
  \o to_le(pool.staking_token, 32) \o to_le(pool.reward_token, 32)
  \o to_le(pool.start_time, 8) \o to_le(pool.end_time, 8) \o to_le(pool.precision, 8)
  \o to_le(pool.owner, 32) \o to_le(pool.total_reward, 32)
  \o to_le(pool.acc_token_per_share, 32) \o to_le(pool.total_staked, 32)

\* The id is read from 0..8; StakeContract keeps it as the key of the pool.
unpack_id(src) == from_le(Slice(src, 0, 8), 8)

unpack_pool(src) ==
  LET u64(from, to) == from_le(Slice(src, from, to), 8)
      u256(from, to) == from_le(Slice(src, from, to), 32)
  IN  [last_reward_timestamp |-> u64(8, 16),
       staking_token |-> u256(16, 48), reward_token |-> u256(48, 80),
       start_time |-> u64(80, 88), end_time |-> u64(88, 96), precision |-> u64(96, 104),
       owner |-> u256(104, 136), total_reward |-> u256(136, 168),
       acc_token_per_share |-> u256(168, 200), total_staked |-> u256(200, 232)]

-----------------------------------------------------------------------------
\* Properties

\* Whatever a sequence of calls has made of a pool and its users, the entries
\* they are written to are read back as the same pool and users, and have the
\* sizes that LockStaking/README.md gives.
EntriesReadBack ==
  \A id \in DOMAIN pools :
    LET src == pack_pool(id, pools[id])
    IN  /\ Len(src) = 232
        /\ unpack_id(src) = id
        /\ unpack_pool(src) = pools[id]
        /\ \A a \in Accounts : /\ Len(pack_user(users[id][a])) = 64
                               /\ unpack_user(pack_user(users[id][a])) = users[id][a]
=============================================================================
