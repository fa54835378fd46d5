----------------------------- MODULE LayoutProofs -----------------------------
(***************************************************************************)
(* Proof that the entries of pools and users are read back as they were    *)
(* written, for any pools and users.                                       *)
(***************************************************************************)
EXTENDS StakeLayout, StakeProofs

-----------------------------------------------------------------------------
\* Users and pools

\* An entry of a user: 64 bytes, which `unpack` reads as the user they were made of.
LEMMA UserReadsBack ==
  ASSUME NEW user \in UserInfo
  PROVE  /\ Len(pack_user(user)) = 64
         /\ unpack_user(pack_user(user)) = user
<1> DEFINE first == to_le(user.amount, 32)
           src == first \o to_le(user.reward_debt, 32)
<1>1. user.amount \in Nat /\ user.reward_debt \in Nat
      /\ user = [amount |-> user.amount, reward_debt |-> user.reward_debt]
  BY DEF UserInfo
<1>2. Entry(first, Nat, 32) /\ Holds(first, 0, user.amount, 32)
  BY <1>1, FieldFirst
<1> HIDE DEF first
<1>3. /\ Entry(src, Nat, 64)
      /\ Holds(src, 0, user.amount, 32) /\ Holds(src, 32, user.reward_debt, 32)
  <2>1. Extends(src, first, Nat, 32, user.reward_debt, 32)
    BY <1>1, <1>2, FieldAppended
  <2> HIDE DEF src
  <2> QED BY <1>2, <2>1 DEF Extends
<1>4. pack_user(user) = src
  BY DEF pack_user, first
<1> HIDE DEF src
<1>5. Reads(src, 0, 32, user.amount) /\ Reads(src, 32, 64, user.reward_debt)
  BY <1>3, FieldRead
<1> QED BY <1>1, <1>3, <1>4, <1>5 DEF Reads, unpack_user, Entry

\* An entry of a pool: 232 bytes, which `unpack` reads as the pool they were made of.
LEMMA PoolReadsBack ==
  ASSUME NEW id, NEW pool \in StakePool
  PROVE  /\ Len(pack_pool(id, pool)) = 232
         /\ unpack_id(pack_pool(id, pool)) = id
         /\ unpack_pool(pack_pool(id, pool)) = pool
<1> DEFINE Values == {id, pool.last_reward_timestamp, pool.staking_token, pool.reward_token,
                      pool.start_time, pool.end_time, pool.precision, pool.owner,
                      pool.total_reward, pool.acc_token_per_share, pool.total_staked}
           s1 == to_le(id, 8)
           s2 == s1 \o to_le(pool.last_reward_timestamp, 8)
           s3 == s2 \o to_le(pool.staking_token, 32)
           s4 == s3 \o to_le(pool.reward_token, 32)
           s5 == s4 \o to_le(pool.start_time, 8)
           s6 == s5 \o to_le(pool.end_time, 8)
           s7 == s6 \o to_le(pool.precision, 8)
           s8 == s7 \o to_le(pool.owner, 32)
           s9 == s8 \o to_le(pool.total_reward, 32)
           s10 == s9 \o to_le(pool.acc_token_per_share, 32)
           s11 == s10 \o to_le(pool.total_staked, 32)
<1>0. /\ id \in Values /\ pool.last_reward_timestamp \in Values /\ pool.staking_token \in Values
      /\ pool.reward_token \in Values /\ pool.start_time \in Values /\ pool.end_time \in Values
      /\ pool.precision \in Values /\ pool.owner \in Values /\ pool.total_reward \in Values
      /\ pool.acc_token_per_share \in Values /\ pool.total_staked \in Values
  OBVIOUS
<1> HIDE DEF Values
<1>1. /\ Entry(s1, Values, 8)
      /\ Holds(s1, 0, id, 8)
  BY <1>0, FieldFirst
<1> HIDE DEF s1
<1>2. /\ Entry(s2, Values, 16)
      /\ Holds(s2, 0, id, 8) /\ Holds(s2, 8, pool.last_reward_timestamp, 8)
  <2>1. Extends(s2, s1, Values, 8, pool.last_reward_timestamp, 8)
    BY <1>0, <1>1, FieldAppended
  <2> HIDE DEF s2
  <2> QED BY <1>1, <2>1 DEF Extends
<1> HIDE DEF s2
<1>3. /\ Entry(s3, Values, 48)
      /\ Holds(s3, 0, id, 8) /\ Holds(s3, 8, pool.last_reward_timestamp, 8)
      /\ Holds(s3, 16, pool.staking_token, 32)
  <2>1. Extends(s3, s2, Values, 16, pool.staking_token, 32)
    BY <1>0, <1>2, FieldAppended
  <2> HIDE DEF s3
  <2> QED BY <1>2, <2>1 DEF Extends
<1> HIDE DEF s3
<1>4. /\ Entry(s4, Values, 80)
      /\ Holds(s4, 0, id, 8) /\ Holds(s4, 8, pool.last_reward_timestamp, 8)
      /\ Holds(s4, 16, pool.staking_token, 32) /\ Holds(s4, 48, pool.reward_token, 32)
  <2>1. Extends(s4, s3, Values, 48, pool.reward_token, 32)
    BY <1>0, <1>3, FieldAppended
  <2> HIDE DEF s4
  <2> QED BY <1>3, <2>1 DEF Extends
<1> HIDE DEF s4
<1>5. /\ Entry(s5, Values, 88)
      /\ Holds(s5, 0, id, 8) /\ Holds(s5, 8, pool.last_reward_timestamp, 8)
      /\ Holds(s5, 16, pool.staking_token, 32) /\ Holds(s5, 48, pool.reward_token, 32)
      /\ Holds(s5, 80, pool.start_time, 8)
  <2>1. Extends(s5, s4, Values, 80, pool.start_time, 8)
    BY <1>0, <1>4, FieldAppended
  <2> HIDE DEF s5
  <2> QED BY <1>4, <2>1 DEF Extends
<1> HIDE DEF s5
<1>6. /\ Entry(s6, Values, 96)
      /\ Holds(s6, 0, id, 8) /\ Holds(s6, 8, pool.last_reward_timestamp, 8)
      /\ Holds(s6, 16, pool.staking_token, 32) /\ Holds(s6, 48, pool.reward_token, 32)
      /\ Holds(s6, 80, pool.start_time, 8) /\ Holds(s6, 88, pool.end_time, 8)
  <2>1. Extends(s6, s5, Values, 88, pool.end_time, 8)
    BY <1>0, <1>5, FieldAppended
  <2> HIDE DEF s6
  <2> QED BY <1>5, <2>1 DEF Extends
<1> HIDE DEF s6
<1>7. /\ Entry(s7, Values, 104)
      /\ Holds(s7, 0, id, 8) /\ Holds(s7, 8, pool.last_reward_timestamp, 8)
      /\ Holds(s7, 16, pool.staking_token, 32) /\ Holds(s7, 48, pool.reward_token, 32)
      /\ Holds(s7, 80, pool.start_time, 8) /\ Holds(s7, 88, pool.end_time, 8)
      /\ Holds(s7, 96, pool.precision, 8)
  <2>1. Extends(s7, s6, Values, 96, pool.precision, 8)
    BY <1>0, <1>6, FieldAppended
  <2> HIDE DEF s7
  <2> QED BY <1>6, <2>1 DEF Extends
<1> HIDE DEF s7
<1>8. /\ Entry(s8, Values, 136)
      /\ Holds(s8, 0, id, 8) /\ Holds(s8, 8, pool.last_reward_timestamp, 8)
      /\ Holds(s8, 16, pool.staking_token, 32) /\ Holds(s8, 48, pool.reward_token, 32)
      /\ Holds(s8, 80, pool.start_time, 8) /\ Holds(s8, 88, pool.end_time, 8)
      /\ Holds(s8, 96, pool.precision, 8) /\ Holds(s8, 104, pool.owner, 32)
  <2>1. Extends(s8, s7, Values, 104, pool.owner, 32)
    BY <1>0, <1>7, FieldAppended
  <2> HIDE DEF s8
  <2> QED BY <1>7, <2>1 DEF Extends
<1> HIDE DEF s8
<1>9. /\ Entry(s9, Values, 168)
      /\ Holds(s9, 0, id, 8) /\ Holds(s9, 8, pool.last_reward_timestamp, 8)
      /\ Holds(s9, 16, pool.staking_token, 32) /\ Holds(s9, 48, pool.reward_token, 32)
      /\ Holds(s9, 80, pool.start_time, 8) /\ Holds(s9, 88, pool.end_time, 8)
      /\ Holds(s9, 96, pool.precision, 8) /\ Holds(s9, 104, pool.owner, 32)
      /\ Holds(s9, 136, pool.total_reward, 32)
  <2>1. Extends(s9, s8, Values, 136, pool.total_reward, 32)
    BY <1>0, <1>8, FieldAppended
  <2> HIDE DEF s9
  <2> QED BY <1>8, <2>1 DEF Extends
<1> HIDE DEF s9
<1>10. /\ Entry(s10, Values, 200)
      /\ Holds(s10, 0, id, 8) /\ Holds(s10, 8, pool.last_reward_timestamp, 8)
      /\ Holds(s10, 16, pool.staking_token, 32) /\ Holds(s10, 48, pool.reward_token, 32)
      /\ Holds(s10, 80, pool.start_time, 8) /\ Holds(s10, 88, pool.end_time, 8)
      /\ Holds(s10, 96, pool.precision, 8) /\ Holds(s10, 104, pool.owner, 32)
      /\ Holds(s10, 136, pool.total_reward, 32) /\ Holds(s10, 168, pool.acc_token_per_share, 32)
  <2>1. Extends(s10, s9, Values, 168, pool.acc_token_per_share, 32)
    BY <1>0, <1>9, FieldAppended
  <2> HIDE DEF s10
  <2> QED BY <1>9, <2>1 DEF Extends
<1> HIDE DEF s10
<1>11. /\ Entry(s11, Values, 232)
      /\ Holds(s11, 0, id, 8) /\ Holds(s11, 8, pool.last_reward_timestamp, 8)
      /\ Holds(s11, 16, pool.staking_token, 32) /\ Holds(s11, 48, pool.reward_token, 32)
      /\ Holds(s11, 80, pool.start_time, 8) /\ Holds(s11, 88, pool.end_time, 8)
      /\ Holds(s11, 96, pool.precision, 8) /\ Holds(s11, 104, pool.owner, 32)
      /\ Holds(s11, 136, pool.total_reward, 32) /\ Holds(s11, 168, pool.acc_token_per_share, 32)
      /\ Holds(s11, 200, pool.total_staked, 32)
  <2>1. Extends(s11, s10, Values, 200, pool.total_staked, 32)
    BY <1>0, <1>10, FieldAppended
  <2> HIDE DEF s11
  <2> QED BY <1>10, <2>1 DEF Extends
<1> HIDE DEF s11
<1>12. pack_pool(id, pool) = s11
  BY DEF pack_pool, s1, s2, s3, s4, s5, s6, s7, s8, s9, s10, s11
<1>13. /\ Reads(s11, 0, 8, id) /\ Reads(s11, 8, 16, pool.last_reward_timestamp)
       /\ Reads(s11, 16, 48, pool.staking_token) /\ Reads(s11, 48, 80, pool.reward_token)
       /\ Reads(s11, 80, 88, pool.start_time) /\ Reads(s11, 88, 96, pool.end_time)
       /\ Reads(s11, 96, 104, pool.precision) /\ Reads(s11, 104, 136, pool.owner)
       /\ Reads(s11, 136, 168, pool.total_reward)
       /\ Reads(s11, 168, 200, pool.acc_token_per_share)
       /\ Reads(s11, 200, 232, pool.total_staked)
  <2>1. Reads(s11, 0, 8, id) /\ Reads(s11, 8, 16, pool.last_reward_timestamp)
    BY <1>11, FieldRead
  <2>2. Reads(s11, 16, 48, pool.staking_token) /\ Reads(s11, 48, 80, pool.reward_token)
    BY <1>11, FieldRead
  <2>3. Reads(s11, 80, 88, pool.start_time) /\ Reads(s11, 88, 96, pool.end_time)
    BY <1>11, FieldRead
  <2>4. Reads(s11, 96, 104, pool.precision) /\ Reads(s11, 104, 136, pool.owner)
    BY <1>11, FieldRead
  <2>5. /\ Reads(s11, 136, 168, pool.total_reward)
        /\ Reads(s11, 168, 200, pool.acc_token_per_share)
    BY <1>11, FieldRead
  <2>6. Reads(s11, 200, 232, pool.total_staked)
    BY <1>11, FieldRead
  <2> QED BY <2>1, <2>2, <2>3, <2>4, <2>5, <2>6
<1>14. Len(s11) = 232 /\ unpack_id(s11) = id
  BY <1>11, <1>13 DEF Reads, unpack_id, Entry
<1>15. pool = [last_reward_timestamp |-> pool.last_reward_timestamp,
               staking_token |-> pool.staking_token, reward_token |-> pool.reward_token,
               start_time |-> pool.start_time, end_time |-> pool.end_time,
               precision |-> pool.precision, owner |-> pool.owner,
               total_reward |-> pool.total_reward,
               acc_token_per_share |-> pool.acc_token_per_share,
               total_staked |-> pool.total_staked]
  BY DEF StakePool
<1>16. unpack_pool(s11) = pool
  <2> DEFINE read(from, to, width) == from_le(Slice(s11, from, to), width)
  <2>1. /\ read(8, 16, 8) = pool.last_reward_timestamp
        /\ read(16, 48, 32) = pool.staking_token /\ read(48, 80, 32) = pool.reward_token
        /\ read(80, 88, 8) = pool.start_time /\ read(88, 96, 8) = pool.end_time
        /\ read(96, 104, 8) = pool.precision /\ read(104, 136, 32) = pool.owner
        /\ read(136, 168, 32) = pool.total_reward
        /\ read(168, 200, 32) = pool.acc_token_per_share
        /\ read(200, 232, 32) = pool.total_staked
    BY <1>13 DEF Reads
  <2> QED BY <1>15, <2>1, Zenon DEF unpack_pool
<1> QED BY <1>12, <1>14, <1>16

-----------------------------------------------------------------------------
\* The entries of the contract

\* EntriesReadBack: whatever sequence of calls has made of the pools and their users,
\* their entries have the sizes of LockStaking/README.md and are read back by unpack as
\* the pools and users that were written.
THEOREM EntriesAreReadBack == Spec => []EntriesReadBack
<1>1. TypeInv => EntriesReadBack
  <2> SUFFICES ASSUME TypeInv PROVE EntriesReadBack
    OBVIOUS
  <2>1. \A id \in DOMAIN pools : /\ pools[id] \in StakePool
                                 /\ \A a \in Accounts : users[id][a] \in UserInfo
    BY PoolType
  <2> QED BY <2>1, UserReadsBack, PoolReadsBack DEF EntriesReadBack
<1> QED BY <1>1, InitHasType, TypeStep, PTL DEF Spec
=============================================================================
