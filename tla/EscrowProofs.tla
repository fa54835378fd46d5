----------------------------- MODULE EscrowProofs -----------------------------
(***************************************************************************)
(* Proof that the vesting contract implements the time-locked escrow, for  *)
(* any accounts, tokens, arguments and bounds: each successful deploy is a *)
(* step of the escrow or leaves it as it is.                               *)
(***************************************************************************)
EXTENDS VestEscrow, VestProofs

-----------------------------------------------------------------------------
\* The tranches that a dictionary of locks stands for

\* Unpaid and UnpaidTranches, of any locks: those before and those after a step.
UnpaidIn(locks) ==
  UNION {{id} \X {i \in 1..Len(locks[id].schedules) :
                     locks[id].schedules[i].amount # 0} : id \in DOMAIN locks}

TranchesIn(locks) ==
  [k \in UnpaidIn(locks) |->
     LET lock == locks[k[1]]
     IN  [lock   |-> k[1],
          holder |-> lock.recipient,
          token  |-> lock.token_hash,
          due    |-> lock.schedules[k[2]].release,
          amount |-> lock.schedules[k[2]].amount]]

LEMMA TranchesAreUnpaid ==
  /\ UnpaidTranches = TranchesIn(lock_infos)
  /\ UnpaidTranches' = TranchesIn(lock_infos')
BY DEF UnpaidTranches, Unpaid, TranchesIn, UnpaidIn

\* A tranche is a place of a lock's schedules that holds something.
LEMMA TrancheAt ==
  ASSUME NEW locks
  PROVE  /\ DOMAIN TranchesIn(locks) = UnpaidIn(locks)
         /\ TranchesIn(locks) = [k \in UnpaidIn(locks) |-> TranchesIn(locks)[k]]
         /\ \A id, i : <<id, i>> \in UnpaidIn(locks) <=>
              /\ id \in DOMAIN locks
              /\ i \in 1..Len(locks[id].schedules)
              /\ locks[id].schedules[i].amount # 0
         /\ \A k \in UnpaidIn(locks) :
              /\ k = <<k[1], k[2]>>
              /\ k[1] \in DOMAIN locks
              /\ k[2] \in 1..Len(locks[k[1]].schedules)
              /\ locks[k[1]].schedules[k[2]].amount # 0
              /\ TranchesIn(locks)[k]
                   = [lock   |-> k[1],
                      holder |-> locks[k[1]].recipient,
                      token  |-> locks[k[1]].token_hash,
                      due    |-> locks[k[1]].schedules[k[2]].release,
                      amount |-> locks[k[1]].schedules[k[2]].amount]
              /\ TranchesIn(locks)[k].lock = k[1]
              /\ TranchesIn(locks)[k].holder = locks[k[1]].recipient
              /\ TranchesIn(locks)[k].token = locks[k[1]].token_hash
              /\ TranchesIn(locks)[k].due = locks[k[1]].schedules[k[2]].release
              /\ TranchesIn(locks)[k].amount = locks[k[1]].schedules[k[2]].amount
<1>1. \A id, i : <<id, i>> \in UnpaidIn(locks) <=>
         /\ id \in DOMAIN locks
         /\ i \in 1..Len(locks[id].schedules)
         /\ locks[id].schedules[i].amount # 0
  BY DEF UnpaidIn
<1>2. \A k \in UnpaidIn(locks) : k = <<k[1], k[2]>>
  BY DEF UnpaidIn
<1>3. \A k \in UnpaidIn(locks) :
         /\ k[1] \in DOMAIN locks /\ k[2] \in 1..Len(locks[k[1]].schedules)
         /\ locks[k[1]].schedules[k[2]].amount # 0
  BY <1>1, <1>2
<1> QED BY <1>1, <1>2, <1>3 DEF TranchesIn

\* The escrow adds up the way the vesting contract does.
LEMMA SumsAgree ==
  ASSUME NEW f, NEW S
  PROVE  Escrow!SumFunctionOnSet(f, S) = SumFunctionOnSet(f, S)
BY DEF Escrow!SumFunctionOnSet, Escrow!FoldFunctionOnSet, Escrow!MapThenFoldSet,
       SumFunctionOnSet, FoldFunctionOnSet, MapThenFoldSet

\* The tranches at some places of a lock.
TranchesAt(locks, id, places) == {k \in UnpaidIn(locks) : k[1] = id /\ k[2] \in places}

\* The tranches at some places of a lock add up to what these places hold.
LEMMA SumOfTranches ==
  ASSUME NEW locks, NEW id \in DOMAIN locks, locks[id].schedules \in Seq(LockSchedule),
         NEW P \in SUBSET (1..Len(locks[id].schedules))
  PROVE  Escrow!Sum(TranchesIn(locks), TranchesAt(locks, id, P))
           = SumFunctionOnSet(Amounts(locks[id].schedules), P)
<1> DEFINE s == locks[id].schedules
           K == TranchesAt(locks, id, P)
           f == Amounts(s)
           g == [k \in K |-> TranchesIn(locks)[k].amount]
<1>0. /\ K \in SUBSET UnpaidIn(locks)
      /\ \A k \in UnpaidIn(locks) : k \in K <=> k[1] = id /\ k[2] \in P
  BY DEF TranchesAt
<1> HIDE DEF K
<1>1. IsFiniteSet(P)
  <2>1. Len(s) \in Int
    OBVIOUS
  <2>2. IsFiniteSet(1..Len(s))
    BY <2>1, FS_Interval
  <2> QED BY <2>2, FS_Subset
<1>2. \A i \in P : f[i] = s[i].amount /\ f[i] \in Int
  <2>1. \A i \in 1..Len(s) : s[i] \in LockSchedule
    OBVIOUS
  <2> QED BY <2>1 DEF Amounts, LockSchedule
<1>3. /\ \A i \in P : <<id, i>> \in K <=> f[i] # 0
      /\ \A i \in P : f[i] # 0 => g[<<id, i>>] = f[i]
  <2> SUFFICES ASSUME NEW i \in P
               PROVE  /\ <<id, i>> \in K <=> f[i] # 0
                      /\ <<id, i>> \in K => g[<<id, i>>] = f[i]
    OBVIOUS
  <2> DEFINE k == <<id, i>>
  <2>1. k \in K <=> f[i] # 0
    BY <1>0, <1>2, TrancheAt
  <2>2. k \in K => TranchesIn(locks)[k].amount = locks[k[1]].schedules[k[2]].amount
    BY <1>0, TrancheAt
  <2> QED BY <1>2, <2>1, <2>2
<1>4. \A k \in K : k = <<id, k[2]>> /\ k[2] \in P
  BY <1>0, TrancheAt
<1>5. Escrow!Sum(TranchesIn(locks), K) = SumFunctionOnSet(g, K)
  BY SumsAgree DEF Escrow!Sum
<1> HIDE DEF f, g, s
<1>6. \A k \in K : \E i \in P : k = <<id, i>>
  BY <1>4
<1>7. SumFunctionOnSet(g, K) = SumFunctionOnSet(f, P)
  <2> DEFINE Q == P
  <2>1. IsFiniteSet(Q) /\ \A i \in Q : f[i] \in Int
    BY <1>1, <1>2
  <2>2. Labels(id, f, Q, g, K)
    BY <1>3, <1>6 DEF Labels
  <2> HIDE DEF Q
  <2>3. SumFunctionOnSet(g, K) = SumFunctionOnSet(f, Q)
    BY <2>1, <2>2, SumOfNonzero
  <2> QED BY <2>3 DEF Q
<1> QED BY <1>5, <1>7 DEF f, s, K

-----------------------------------------------------------------------------
\* The steps

\* No release of a lock is before the lock was made: its time has not wrapped around.
NoReleaseWraps ==
  \A id \in DOMAIN lock_infos :
    \A i \in 1..Len(lock_infos[id].schedules) :
      lock_infos[id].schedules[i].release >= lock_infos[id].lock_time

\* lock funds a tranche for every release that is not zero, with at least their sum.
LEMMA LockFunds ==
  ASSUME TypeInv, NEW c \in Accounts, NEW t \in Tokens, NEW a \in CliffAmounts,
         NEW d \in Durations, NEW g \in Gaps, NEW n \in Counts, Lock(c, t, a, d, g, n),
         self_contract_hash \in {Self, NoHash}, NoReleaseWraps'
  PROVE  Escrow!Fund(c, t)
<1> DEFINE D == DOMAIN lock_infos
           s == NewSchedules(now + d, g, n, a)
           before == TranchesIn(lock_infos)
           after == TranchesIn(lock_infos')
           old == UnpaidIn(lock_infos)
           all == UnpaidIn(lock_infos')
           new == all \ old
<1>1. self_contract_hash = Self
  BY HashAssumption DEF Lock, TypeInv, InitOnce
<1>2. a \in Nat /\ now + d \in Nat /\ g \in Nat /\ n \in Nat \ {0}
  BY NumberAssumption, SMTT(30) DEF Lock, TypeInv, TypeOK
<1>3. s \in Seq(LockSchedule) /\ Total(s) <= a
  BY <1>2, NewSchedulesType, NewTotal
<1>4. /\ index \notin D
      /\ DOMAIN lock_infos' = D \cup {index}
      /\ \A id \in D : lock_infos'[id] = lock_infos[id]
      /\ lock_infos'[index].lock_time = now
      /\ lock_infos'[index].recipient = c
      /\ lock_infos'[index].token_hash = t
      /\ lock_infos'[index].schedules = s
  BY LocksType DEF Lock, UpdateStorage
<1>5. \A i \in 1..Len(s) : s[i].release >= now
  BY <1>4 DEF NoReleaseWraps
<1> HIDE DEF s
<1>6. \A k \in old : k \in all /\ after[k] = before[k]
  <2> SUFFICES ASSUME NEW k \in old PROVE k \in all /\ after[k] = before[k]
    OBVIOUS
  <2>1. /\ k = <<k[1], k[2]>> /\ k[1] \in D
        /\ k[2] \in 1..Len(lock_infos[k[1]].schedules)
        /\ lock_infos[k[1]].schedules[k[2]].amount # 0
    BY TrancheAt
  <2>2. k[1] \in DOMAIN lock_infos' /\ lock_infos'[k[1]] = lock_infos[k[1]]
    BY <1>4, <2>1
  <2>3. k \in all
    BY <2>1, <2>2, TrancheAt, SMTT(30)
  <2> QED BY <2>2, <2>3 DEF TranchesIn
<1>7. \A k \in all : k \in new <=> k[1] = index /\ k[2] \in 1..Len(s)
  <2> SUFFICES ASSUME NEW k \in all
               PROVE  k \in old <=> ~(k[1] = index /\ k[2] \in 1..Len(s))
    OBVIOUS
  <2>1. /\ k = <<k[1], k[2]>> /\ k[1] \in DOMAIN lock_infos'
        /\ k[2] \in 1..Len(lock_infos'[k[1]].schedules)
        /\ lock_infos'[k[1]].schedules[k[2]].amount # 0
    BY TrancheAt
  <2>2. CASE k[1] = index
    <3>1. k \notin old
      BY <1>4, <2>2, TrancheAt
    <3> QED BY <1>4, <2>1, <2>2, <3>1
  <2>3. CASE k[1] # index
    <3>1. k[1] \in D /\ lock_infos'[k[1]] = lock_infos[k[1]]
      BY <1>4, <2>1, <2>3
    <3>2. k \in old
      BY <2>1, <3>1, TrancheAt, SMTT(30)
    <3> QED BY <2>3, <3>2
  <2> QED BY <2>2, <2>3
<1>8. \A k \in new : after[k].holder = c /\ after[k].token = t /\ after[k].due >= now
  <2> SUFFICES ASSUME NEW k \in new
               PROVE  after[k].holder = c /\ after[k].token = t /\ after[k].due >= now
    OBVIOUS
  <2>1. k \in all /\ k[1] = index /\ k[2] \in 1..Len(s)
    BY <1>7
  <2>2. /\ after[k].holder = lock_infos'[k[1]].recipient
        /\ after[k].token = lock_infos'[k[1]].token_hash
        /\ after[k].due = lock_infos'[k[1]].schedules[k[2]].release
    BY <2>1, TrancheAt
  <2> QED BY <1>4, <1>5, <2>1, <2>2
<1>9. Escrow!Sum(after, new) = Total(s)
  <2> DEFINE next == lock_infos'
             P == 1..Len(s)
  <2>1. /\ index \in DOMAIN next /\ next[index].schedules \in Seq(LockSchedule)
        /\ P \in SUBSET (1..Len(next[index].schedules)) /\ next[index].schedules = s
    BY <1>3, <1>4
  <2>2. new = TranchesAt(next, index, P)
    BY <1>7 DEF TranchesAt
  <2>3. after = TranchesIn(next) /\ Total(s) = SumFunctionOnSet(Amounts(s), P)
    BY DEF Total
  <2> HIDE DEF next, P, new, after
  <2>4. Escrow!Sum(TranchesIn(next), TranchesAt(next, index, P))
          = SumFunctionOnSet(Amounts(next[index].schedules), P)
    BY <2>1, SumOfTranches
  <2> QED BY <2>1, <2>2, <2>3, <2>4
<1>10. /\ bal' = [bal EXCEPT ![t][c] = @ - a, ![t][Self] = @ + a]
       /\ bal[t][c] - bal'[t][c] = a
  <2>1. bal' = TransferFrom(bal, t, c, Self, a)
    BY <1>1 DEF Lock
  <2>2. c \in Holders /\ c # Self /\ bal \in [Tokens -> [Holders -> Nat]]
    BY HashAssumption, LocksType DEF Holders
  <2> QED BY <1>2, <2>1, <2>2 DEF TransferFrom
<1>11. before = Restrict(after, old)
  BY <1>6, TrancheAt DEF Restrict
<1>12. UNCHANGED now
  BY DEF Lock
<1>13. UnpaidTranches = before /\ UnpaidTranches' = after
       /\ DOMAIN before = old /\ DOMAIN after = all /\ old \subseteq all
  BY <1>6, TranchesAreUnpaid, TrancheAt
<1> HIDE DEF before, after, old, all
<1> QED BY <1>3, <1>8, <1>9, <1>10, <1>11, <1>12, <1>13
        DEF Escrow!Fund, Escrow!Moves, Escrow!Restrict, Restrict

\* claim pays out all tranches of the lock that are due, whole, and leaves the others.
LEMMA ClaimPaysOut ==
  ASSUME TypeInv, NEW c \in Accounts, NEW id \in DOMAIN lock_infos, Claim(c, id)
  PROVE  \E t \in Tokens, k \in DOMAIN UnpaidTranches :
           Escrow!PayOut(c, t, UnpaidTranches[k].lock)
<1> DEFINE D == DOMAIN lock_infos
           lock == lock_infos[id]
           s == lock.schedules
           t == lock.token_hash
           rest == Claimed(s)
           amount == AmountToTransfer(s)
           before == TranchesIn(lock_infos)
           after == TranchesIn(lock_infos')
           old == UnpaidIn(lock_infos)
           all == UnpaidIn(lock_infos')
           due == TranchesAt(lock_infos, id, Due(s))
<1>1. lock \in VestInfo /\ t \in Tokens /\ s \in Seq(LockSchedule) /\ lock.recipient = c
  BY LocksType DEF Claim, CanClaim, GetLock, VestInfo
<1>2. amount # 0 /\ bal' = Transfer(bal, t, Self, c, amount) /\ UNCHANGED now
  BY DEF Claim, CanClaim
<1>3. /\ Len(rest) = Len(s)
      /\ \A i \in 1..Len(s) :
           /\ rest[i].release = s[i].release
           /\ rest[i].amount = IF i \in Due(s) THEN 0 ELSE s[i].amount
  <2>1. \A i \in 1..Len(s) : s[i] \in LockSchedule
    BY <1>1
  <2> HIDE DEF s
  <2> QED BY <1>1, <2>1, ClaimedType DEF Claimed, LockSchedule
<1>4. /\ DOMAIN lock_infos' \in SUBSET D
      /\ \A x \in D \ {id} : x \in DOMAIN lock_infos' /\ lock_infos'[x] = lock_infos[x]
      /\ id \in DOMAIN lock_infos' => /\ lock_infos'[id].recipient = c
                                      /\ lock_infos'[id].token_hash = t
                                      /\ lock_infos'[id].schedules = rest
      /\ id \notin DOMAIN lock_infos' => AllClaimed(rest)
  <2>1. \/ lock_infos' = [lock_infos EXCEPT ![id].schedules = rest]
        \/ AllClaimed(rest) /\ lock_infos' = [x \in D \ {id} |-> lock_infos[x]]
    BY DEF Claim, CanClaim
  <2>2. CASE lock_infos' = [lock_infos EXCEPT ![id].schedules = rest]
    <3> HIDE DEF rest
    <3> QED BY <1>1, <2>2, LocksType DEF VestInfo
  <2>3. CASE AllClaimed(rest) /\ lock_infos' = [x \in D \ {id} |-> lock_infos[x]]
    <3> HIDE DEF rest
    <3> QED BY <2>3
  <2> QED BY <2>1, <2>2, <2>3
<1> HIDE DEF rest, amount
<1>5. due \in SUBSET old /\ \A k \in old : k \in due <=> k[1] = id /\ k[2] \in Due(s)
  BY DEF TranchesAt
<1>6. \A k \in due : /\ before[k].lock = id /\ before[k].due <= now
                     /\ before[k].holder = c /\ before[k].token = t
  <2> SUFFICES ASSUME NEW k \in due
               PROVE  /\ before[k].lock = id /\ before[k].due <= now
                      /\ before[k].holder = c /\ before[k].token = t
    OBVIOUS
  <2>1. k \in old /\ k[1] = id /\ k[2] \in Due(s)
    BY <1>5
  <2>2. /\ before[k].lock = k[1] /\ before[k].holder = lock_infos[k[1]].recipient
        /\ before[k].token = lock_infos[k[1]].token_hash
        /\ before[k].due = lock_infos[k[1]].schedules[k[2]].release
    BY <2>1, TrancheAt
  <2>3. now >= s[k[2]].release
    BY <2>1 DEF Due
  <2> QED BY <1>1, <2>1, <2>2, <2>3
<1>7. \A k \in old : before[k].lock = id /\ before[k].due <= now => k \in due
  <2> SUFFICES ASSUME NEW k \in old, before[k].lock = id, before[k].due <= now
               PROVE  k \in due
    OBVIOUS
  <2>1. /\ before[k].lock = k[1] /\ k[2] \in 1..Len(lock_infos[k[1]].schedules)
        /\ before[k].due = lock_infos[k[1]].schedules[k[2]].release
    BY TrancheAt
  <2>2. k[1] = id /\ k[2] \in Due(s)
    BY <2>1 DEF Due
  <2> QED BY <1>5, <2>2
<1>8. \A k : k \in all <=> k \in old /\ k \notin due
  <2>1. ASSUME NEW k \in all PROVE k \in old /\ k \notin due
    <3>1. /\ k = <<k[1], k[2]>> /\ k[1] \in DOMAIN lock_infos'
          /\ k[2] \in 1..Len(lock_infos'[k[1]].schedules)
          /\ lock_infos'[k[1]].schedules[k[2]].amount # 0
      BY TrancheAt
    <3>2. CASE k[1] = id
      <4>1. k[2] \in 1..Len(s) /\ rest[k[2]].amount # 0
        BY <1>3, <1>4, <3>1, <3>2
      <4>2. k[2] \notin Due(s) /\ s[k[2]].amount # 0
        BY <1>3, <4>1
      <4>3. k \in old
        BY <3>1, <3>2, <4>1, <4>2, TrancheAt, SMTT(30)
      <4> QED BY <1>5, <4>2, <4>3
    <3>3. CASE k[1] # id
      <4>1. k[1] \in D /\ lock_infos'[k[1]] = lock_infos[k[1]]
        BY <1>4, <3>1, <3>3
      <4>2. k \in old
        BY <3>1, <4>1, TrancheAt, SMTT(30)
      <4> QED BY <1>5, <3>3, <4>2
    <3> QED BY <3>2, <3>3
  <2>2. ASSUME NEW k \in old, k \notin due PROVE k \in all
    <3>1. /\ k = <<k[1], k[2]>> /\ k[1] \in D
          /\ k[2] \in 1..Len(lock_infos[k[1]].schedules)
          /\ lock_infos[k[1]].schedules[k[2]].amount # 0
      BY TrancheAt
    <3>2. CASE k[1] = id
      <4>1. k[2] \in 1..Len(s) /\ s[k[2]].amount # 0 /\ k[2] \notin Due(s)
        BY <1>5, <2>2, <3>1, <3>2
      <4>2. k[2] \in 1..Len(rest) /\ rest[k[2]].amount # 0
        BY <1>3, <4>1
      <4>3. id \in DOMAIN lock_infos' /\ lock_infos'[id].schedules = rest
        BY <1>4, <4>2 DEF AllClaimed
      <4> QED BY <3>1, <3>2, <4>2, <4>3, TrancheAt
    <3>3. CASE k[1] # id
      <4>1. k[1] \in DOMAIN lock_infos' /\ lock_infos'[k[1]] = lock_infos[k[1]]
        BY <1>4, <3>1, <3>3
      <4> QED BY <3>1, <4>1, TrancheAt, SMTT(30)
    <3> QED BY <3>2, <3>3
  <2> QED BY <2>1, <2>2
<1>9. \A k \in all : after[k] = before[k]
  <2> SUFFICES ASSUME NEW k \in all PROVE after[k] = before[k]
    OBVIOUS
  <2>1. k \in old /\ k \notin due
    BY <1>8
  <2>2. /\ k[1] \in DOMAIN lock_infos' /\ k[1] \in D
        /\ k[2] \in 1..Len(lock_infos'[k[1]].schedules)
    BY <2>1, TrancheAt
  <2>3. /\ lock_infos'[k[1]].recipient = lock_infos[k[1]].recipient
        /\ lock_infos'[k[1]].token_hash = lock_infos[k[1]].token_hash
    BY <1>1, <1>4, <2>2
  <2>4. lock_infos'[k[1]].schedules[k[2]].release = lock_infos[k[1]].schedules[k[2]].release
    BY <1>3, <1>4, <2>2
  <2>5. lock_infos'[k[1]].schedules[k[2]].amount = lock_infos[k[1]].schedules[k[2]].amount
    <3>1. k[1] = id => k[2] \notin Due(s)
      BY <1>5, <2>1
    <3> QED BY <1>3, <1>4, <2>2, <3>1
  <2>6. after[k] = [lock   |-> k[1],
                    holder |-> lock_infos'[k[1]].recipient,
                    token  |-> lock_infos'[k[1]].token_hash,
                    due    |-> lock_infos'[k[1]].schedules[k[2]].release,
                    amount |-> lock_infos'[k[1]].schedules[k[2]].amount]
    BY TrancheAt
  <2>7. before[k] = [lock   |-> k[1],
                     holder |-> lock_infos[k[1]].recipient,
                     token  |-> lock_infos[k[1]].token_hash,
                     due    |-> lock_infos[k[1]].schedules[k[2]].release,
                     amount |-> lock_infos[k[1]].schedules[k[2]].amount]
    BY <2>1, TrancheAt
  <2> HIDE DEF after, before
  <2> QED BY <2>3, <2>4, <2>5, <2>6, <2>7
<1>10. Escrow!Sum(before, due) = amount
  <2> DEFINE locks == lock_infos
             P == Due(s)
  <2>1. /\ id \in DOMAIN locks /\ locks[id].schedules \in Seq(LockSchedule)
        /\ P \in SUBSET (1..Len(locks[id].schedules))
    BY <1>1 DEF Due
  <2>2. /\ before = TranchesIn(locks) /\ due = TranchesAt(locks, id, P)
        /\ amount = SumFunctionOnSet(Amounts(locks[id].schedules), P)
    BY DEF amount, AmountToTransfer
  <2> HIDE DEF locks, P, before, due, amount
  <2>3. Escrow!Sum(TranchesIn(locks), TranchesAt(locks, id, P))
          = SumFunctionOnSet(Amounts(locks[id].schedules), P)
    BY <2>1, SumOfTranches
  <2> QED BY <2>2, <2>3
<1>11. due # {}
  <2> SUFFICES ASSUME due = {} PROVE FALSE
    OBVIOUS
  <2>1. \A f : Escrow!SumFunctionOnSet(f, {}) = 0
    BY SumsAgree, SumOfNone
  <2> HIDE DEF due
  <2>2. Escrow!Sum(before, {}) = 0
    BY <2>1 DEF Escrow!Sum
  <2> QED BY <1>2, <1>10, <2>2
<1>12. /\ UnpaidTranches = before /\ UnpaidTranches' = after
       /\ DOMAIN before = old /\ DOMAIN after = all
       /\ after = [k \in all |-> after[k]]
  BY TranchesAreUnpaid, TrancheAt
<1>13. bal' = [bal EXCEPT ![t][Self] = @ - amount, ![t][c] = @ + amount]
  BY <1>2 DEF Transfer
<1> HIDE DEF before, after, old, all, due, t, s, lock
<1>14. due = {k \in DOMAIN before : before[k].lock = id /\ before[k].due <= now}
  BY <1>5, <1>6, <1>7, <1>12
<1>15. after = [k \in DOMAIN before \ due |-> before[k]]
  <2>1. all = old \ due
    BY <1>8
  <2> QED BY <1>9, <1>12, <2>1
<1>16. Escrow!PayOut(c, t, id)
  BY <1>2, <1>6, <1>10, <1>11, <1>12, <1>13, <1>14, <1>15
     DEF Escrow!PayOut, Escrow!Moves, Escrow!Restrict
<1>17. PICK k \in due : TRUE
  BY <1>11
<1>18. k \in DOMAIN UnpaidTranches /\ UnpaidTranches[k].lock = id
  BY <1>5, <1>6, <1>12, <1>17
<1> QED BY <1>1, <1>16, <1>18

\* extend_lock postpones one tranche, or none if the release is paid already.
LEMMA ExtendLockPostpones ==
  ASSUME TypeInv, NEW c \in Accounts, NEW id \in DOMAIN lock_infos,
         NEW r \in NewReleases, NEW i \in 1..Len(lock_infos[id].schedules),
         ExtendLock(c, id, i, r)
  PROVE  \/ \E k \in DOMAIN UnpaidTranches : Escrow!Postpone(k)
         \/ UNCHANGED UnpaidTranches
<1> DEFINE D == DOMAIN lock_infos
           s == lock_infos[id].schedules
           q == [s EXCEPT ![i].release = r]
           p == <<id, i>>
           before == TranchesIn(lock_infos)
           after == TranchesIn(lock_infos')
           old == UnpaidIn(lock_infos)
           all == UnpaidIn(lock_infos')
<1>1. r \in Nat /\ s \in Seq(LockSchedule) /\ i \in 1..Len(s) /\ s[i].release <= r
  BY LocksType, NumberAssumption DEF VestInfo, ExtendLock
<1>2. /\ Len(q) = Len(s)
      /\ \A j \in 1..Len(s) : /\ q[j].amount = s[j].amount
                              /\ q[j].release = IF j = i THEN r ELSE s[j].release
  <2>1. \A j \in 1..Len(s) : s[j] \in LockSchedule
    BY <1>1
  <2> HIDE DEF s
  <2> QED BY <1>1, <2>1, PostponedType DEF LockSchedule
<1>3. /\ DOMAIN lock_infos' = D
      /\ \A x \in D \ {id} : lock_infos'[x] = lock_infos[x]
      /\ lock_infos'[id].recipient = lock_infos[id].recipient
      /\ lock_infos'[id].token_hash = lock_infos[id].token_hash
      /\ lock_infos'[id].schedules = q
  BY LocksType DEF ExtendLock, VestInfo
<1> HIDE DEF q
<1>4. \A x \in D : /\ lock_infos'[x].recipient = lock_infos[x].recipient
                   /\ lock_infos'[x].token_hash = lock_infos[x].token_hash
                   /\ Len(lock_infos'[x].schedules) = Len(lock_infos[x].schedules)
                   /\ \A j \in 1..Len(lock_infos[x].schedules) :
                        /\ lock_infos'[x].schedules[j].amount = lock_infos[x].schedules[j].amount
                        /\ lock_infos'[x].schedules[j].release
                             = IF <<x, j>> = p THEN r ELSE lock_infos[x].schedules[j].release
  BY <1>2, <1>3
<1>5. all = old
  <2>1. ASSUME NEW k \in all PROVE k \in old
    <3>1. /\ k = <<k[1], k[2]>> /\ k[1] \in DOMAIN lock_infos'
          /\ k[2] \in 1..Len(lock_infos'[k[1]].schedules)
          /\ lock_infos'[k[1]].schedules[k[2]].amount # 0
      BY TrancheAt
    <3>2. /\ k[1] \in D /\ k[2] \in 1..Len(lock_infos[k[1]].schedules)
          /\ lock_infos[k[1]].schedules[k[2]].amount # 0
      BY <1>3, <1>4, <3>1
    <3> QED BY <3>1, <3>2, TrancheAt, SMTT(30)
  <2>2. ASSUME NEW k \in old PROVE k \in all
    <3>1. /\ k = <<k[1], k[2]>> /\ k[1] \in D
          /\ k[2] \in 1..Len(lock_infos[k[1]].schedules)
          /\ lock_infos[k[1]].schedules[k[2]].amount # 0
      BY TrancheAt
    <3>2. /\ k[1] \in DOMAIN lock_infos' /\ k[2] \in 1..Len(lock_infos'[k[1]].schedules)
          /\ lock_infos'[k[1]].schedules[k[2]].amount # 0
      BY <1>3, <1>4, <3>1
    <3> QED BY <3>1, <3>2, TrancheAt, SMTT(30)
  <2> HIDE DEF all, old
  <2> QED BY <2>1, <2>2
<1>6. \A k \in old : after[k] = IF k = p THEN [before[k] EXCEPT !.due = r] ELSE before[k]
  <2> SUFFICES ASSUME NEW k \in old
               PROVE  after[k] = IF k = p THEN [before[k] EXCEPT !.due = r] ELSE before[k]
    OBVIOUS
  <2>1. /\ k = <<k[1], k[2]>> /\ k[1] \in D
        /\ k[2] \in 1..Len(lock_infos[k[1]].schedules)
    BY TrancheAt
  <2>2. after[k] = [lock   |-> k[1],
                    holder |-> lock_infos'[k[1]].recipient,
                    token  |-> lock_infos'[k[1]].token_hash,
                    due    |-> lock_infos'[k[1]].schedules[k[2]].release,
                    amount |-> lock_infos'[k[1]].schedules[k[2]].amount]
    BY <1>5, TrancheAt
  <2>3. before[k] = [lock   |-> k[1],
                     holder |-> lock_infos[k[1]].recipient,
                     token  |-> lock_infos[k[1]].token_hash,
                     due    |-> lock_infos[k[1]].schedules[k[2]].release,
                     amount |-> lock_infos[k[1]].schedules[k[2]].amount]
    BY TrancheAt
  <2>4. lock_infos'[k[1]].schedules[k[2]].release
          = IF k = p THEN r ELSE lock_infos[k[1]].schedules[k[2]].release
    BY <1>4, <2>1
  <2> HIDE DEF after, before, p
  <2> QED BY <1>4, <2>1, <2>2, <2>3, <2>4
<1>7. /\ UnpaidTranches = before /\ UnpaidTranches' = after
      /\ before = [k \in old |-> before[k]] /\ after = [k \in old |-> after[k]]
  BY <1>5, TranchesAreUnpaid, TrancheAt
<1>8. UNCHANGED <<now, bal>>
  BY DEF ExtendLock
<1>9. CASE p \in old
  <2>1. before[p].due = s[i].release
    BY <1>9, TrancheAt
  <2>2. before[p] = [lock   |-> p[1],
                     holder |-> lock_infos[p[1]].recipient,
                     token  |-> lock_infos[p[1]].token_hash,
                     due    |-> lock_infos[p[1]].schedules[p[2]].release,
                     amount |-> lock_infos[p[1]].schedules[p[2]].amount]
    <3> HIDE DEF p, before, old
    <3> QED BY <1>9, TrancheAt DEF before, old
  <2> HIDE DEF before, after, old, p, s
  <2>3. after[p].due = r
    BY <1>6, <1>9, <2>2
  <2>4. after = [before EXCEPT ![p].due = r]
    BY <1>6, <1>7, <1>9
  <2>5. Escrow!Postpone(p)
    BY <1>1, <1>7, <1>8, <2>1, <2>3, <2>4 DEF Escrow!Postpone
  <2> QED BY <1>7, <1>9, <2>5
<1>10. CASE p \notin old
  <2> HIDE DEF before, after, old, p
  <2>1. \A k \in old : after[k] = before[k]
    BY <1>6, <1>10
  <2> QED BY <1>7, <2>1
<1> QED BY <1>9, <1>10

\* transfer_lock hands all tranches of the lock over, which may have none.
LEMMA TransferLockHandsOver ==
  ASSUME TypeInv, NEW c \in Accounts, NEW d \in Accounts, NEW id \in DOMAIN lock_infos,
         TransferLock(c, id, d)
  PROVE  \/ \E k \in DOMAIN UnpaidTranches : Escrow!HandOver(UnpaidTranches[k].lock, d)
         \/ UNCHANGED UnpaidTranches
<1> DEFINE D == DOMAIN lock_infos
           before == TranchesIn(lock_infos)
           after == TranchesIn(lock_infos')
           old == UnpaidIn(lock_infos)
           all == UnpaidIn(lock_infos')
<1>1. /\ DOMAIN lock_infos' = D
      /\ \A x \in D : /\ lock_infos'[x].schedules = lock_infos[x].schedules
                      /\ lock_infos'[x].token_hash = lock_infos[x].token_hash
                      /\ lock_infos'[x].recipient
                           = IF x = id THEN d ELSE lock_infos[x].recipient
  BY LocksType DEF TransferLock, UpdateStorageTransferLock, VestInfo
<1>2. all = old
  BY <1>1 DEF UnpaidIn
<1>3. \A k \in old : /\ before[k].lock = k[1]
                     /\ after[k] = IF k[1] = id THEN [before[k] EXCEPT !.holder = d]
                                                ELSE before[k]
  <2> SUFFICES ASSUME NEW k \in old
               PROVE  /\ before[k].lock = k[1]
                      /\ after[k] = IF k[1] = id THEN [before[k] EXCEPT !.holder = d]
                                                 ELSE before[k]
    OBVIOUS
  <2>1. k[1] \in D /\ before[k].lock = k[1]
    BY TrancheAt
  <2>2. after[k] = [lock   |-> k[1],
                    holder |-> lock_infos'[k[1]].recipient,
                    token  |-> lock_infos'[k[1]].token_hash,
                    due    |-> lock_infos'[k[1]].schedules[k[2]].release,
                    amount |-> lock_infos'[k[1]].schedules[k[2]].amount]
    BY <1>2, TrancheAt, SMTT(30)
  <2>3. before[k] = [lock   |-> k[1],
                     holder |-> lock_infos[k[1]].recipient,
                     token  |-> lock_infos[k[1]].token_hash,
                     due    |-> lock_infos[k[1]].schedules[k[2]].release,
                     amount |-> lock_infos[k[1]].schedules[k[2]].amount]
    BY TrancheAt
  <2> HIDE DEF after, before
  <2> QED BY <1>1, <2>1, <2>2, <2>3
<1>4. /\ UnpaidTranches = before /\ UnpaidTranches' = after
      /\ DOMAIN before = old
      /\ before = [k \in old |-> before[k]] /\ after = [k \in old |-> after[k]]
  BY <1>2, TranchesAreUnpaid, TrancheAt
<1>5. UNCHANGED <<now, bal>>
  BY DEF TransferLock
<1> HIDE DEF before, after, old, all
<1>6. CASE \E k \in old : k[1] = id
  <2>1. PICK k \in old : k[1] = id
    BY <1>6
  <2>2. after = [j \in DOMAIN before |->
                   IF before[j].lock = id THEN [before[j] EXCEPT !.holder = d] ELSE before[j]]
    BY <1>3, <1>4
  <2>3. Escrow!HandOver(id, d)
    BY <1>4, <1>5, <2>2 DEF Escrow!HandOver
  <2> QED BY <1>3, <1>4, <2>1, <2>3
<1>7. CASE \A k \in old : k[1] # id
  <2>1. \A k \in old : after[k] = before[k]
    BY <1>3, <1>7
  <2> QED BY <1>4, <2>1
<1> QED BY <1>6, <1>7

LEMMA EscrowBegins == Init => Escrow!EscrowInit
<1> SUFFICES ASSUME Init PROVE Escrow!EscrowInit
  OBVIOUS
<1>1. DOMAIN lock_infos = {}
  BY DEF Init
<1>2. DOMAIN UnpaidTranches = {}
  BY <1>1 DEF UnpaidTranches, Unpaid
<1>3. \A t \in Tokens : bal[t][Self] = 0
  BY HashAssumption DEF Init, Holders
<1> QED BY <1>2, <1>3 DEF Init, Escrow!EscrowInit

\* Every step of the contract is a step of the escrow or none.
LEMMA EscrowStep ==
  ASSUME TypeInv, self_contract_hash \in {Self, NoHash}, NoReleaseWraps', [Next]_vars
  PROVE  [Escrow!EscrowNext]_(Escrow!escrowVars)
<1>1. ASSUME NEW c \in Accounts, NEW t \in Tokens, NEW a \in CliffAmounts,
             NEW d \in Durations, NEW g \in Gaps, NEW n \in Counts, Lock(c, t, a, d, g, n)
      PROVE  Escrow!EscrowNext
  <2>1. Escrow!Fund(c, t)
    BY <1>1, LockFunds
  <2> QED BY <2>1 DEF Escrow!EscrowNext
<1>2. ASSUME NEW c \in Accounts, NEW id \in DOMAIN lock_infos, NEW r \in NewReleases,
             NEW i \in 1..Len(lock_infos[id].schedules), ExtendLock(c, id, i, r)
      PROVE  [Escrow!EscrowNext]_(Escrow!escrowVars)
  <2>1. \/ \E k \in DOMAIN UnpaidTranches : Escrow!Postpone(k)
        \/ UNCHANGED UnpaidTranches
    BY <1>2, ExtendLockPostpones
  <2>2. UNCHANGED <<now, bal>>
    BY <1>2 DEF ExtendLock
  <2> QED BY <2>1, <2>2 DEF Escrow!EscrowNext, Escrow!escrowVars
<1>3. ASSUME NEW c \in Accounts, NEW d \in Accounts, NEW id \in DOMAIN lock_infos,
             TransferLock(c, id, d)
      PROVE  [Escrow!EscrowNext]_(Escrow!escrowVars)
  <2>1. \/ \E k \in DOMAIN UnpaidTranches : Escrow!HandOver(UnpaidTranches[k].lock, d)
        \/ UNCHANGED UnpaidTranches
    BY <1>3, TransferLockHandsOver
  <2>2. UNCHANGED <<now, bal>>
    BY <1>3 DEF TransferLock
  <2> QED BY <2>1, <2>2 DEF Escrow!EscrowNext, Escrow!escrowVars
<1>4. ASSUME NEW c \in Accounts, NEW id \in DOMAIN lock_infos, Claim(c, id)
      PROVE  Escrow!EscrowNext
  <2>1. \E t \in Tokens, k \in DOMAIN UnpaidTranches :
          Escrow!PayOut(c, t, UnpaidTranches[k].lock)
    BY <1>4, ClaimPaysOut
  <2> QED BY <2>1 DEF Escrow!EscrowNext
<1>5. CASE UNCHANGED <<now, lock_infos, bal>>
  BY <1>5, TranchesAreUnpaid DEF Escrow!escrowVars
<1>6. CASE Tick
  <2>1. now' > now /\ UNCHANGED <<lock_infos, bal>>
    BY <1>6 DEF Tick, TypeInv, TypeOK
  <2>2. Escrow!Wait
    BY <2>1, TranchesAreUnpaid DEF Escrow!Wait
  <2> QED BY <2>2 DEF Escrow!EscrowNext
<1>7. ASSUME \/ \E h \in PackageHashes : Initialize(h)
             \/ \E c, d \in Accounts : SetAdmin(c, d)
             \/ \E c \in Accounts : SetPauseContract(c)
             \/ UNCHANGED vars
      PROVE  UNCHANGED <<now, lock_infos, bal>>
  BY <1>7 DEF Initialize, SetAdmin, SetPauseContract, vars
<1> QED BY <1>1, <1>2, <1>3, <1>4, <1>5, <1>6, <1>7 DEF Next

\* EscrowKept: as long as the contract is not initialised with the package hash of
\* another contract, and no release time of a lock wraps around, every run of the
\* vesting contract is a run of the escrow: lock funds tranches with at least what they
\* add up to, claim pays out what is due, whole, once and to the recipient of the lock,
\* extend_lock and transfer_lock postpone and hand over what is not paid yet, and
\* nothing else takes tokens out of the contract.
THEOREM EscrowImplemented ==
  Spec /\ [](self_contract_hash \in {Self, NoHash}) /\ []NoReleaseWraps => EscrowKept
<1>1. TypeInv /\ self_contract_hash \in {Self, NoHash} /\ NoReleaseWraps' /\ [Next]_vars
        => [Escrow!EscrowNext]_(Escrow!escrowVars)
  BY EscrowStep
<1> QED BY <1>1, EscrowBegins, InitHasType, TypeStep, PTL
        DEF Spec, EscrowKept, Escrow!EscrowSpec

-----------------------------------------------------------------------------
\* When no release time wraps around

\* The last release of every lock that can be made fits in a u64.
ReleasesFit ==
  \A d \in Durations, g \in Gaps, n \in Counts :
    n # 0 => MaxTime + d + g * (n - 1) < U64

LEMMA FittingReleases ==
  ASSUME ReleasesFit, NEW t \in 0..MaxTime, NEW d \in Durations, NEW g \in Gaps,
         NEW n \in Counts, NEW a \in Nat, NEW i \in 1..n
  PROVE  NewSchedules(t + d, g, n, a)[i].release >= t
<1> DEFINE x == g * (i - 1)
           z == g * (n - 1)
           y == t + d + x
<1>1. d \in Nat /\ g \in Nat /\ n \in Nat \ {0} /\ t \in Nat /\ MaxTime \in Nat
      /\ U64 \in Nat \ {0} /\ i - 1 \in Nat /\ n - 1 \in Nat /\ i - 1 <= n - 1
  BY NumberAssumption
<1>2. x \in Nat /\ z \in Nat /\ x <= z
  <2> DEFINE j == i - 1
             m == n - 1
             k == m - j
  <2>1. k \in Nat /\ j \in Nat /\ m = j + k
    BY <1>1
  <2> HIDE DEF j, m, k
  <2>2. g * j \in Nat /\ g * k \in Nat /\ g * (j + k) = g * j + g * k
    BY <1>1, <2>1
  <2>3. g * m = g * j + g * k
    BY <2>1, <2>2
  <2>4. g * j <= g * m /\ g * m \in Nat
    BY <2>2, <2>3
  <2> QED BY <2>2, <2>4 DEF j, m
<1>3. MaxTime + d + z < U64
  BY <1>1 DEF ReleasesFit
<1> HIDE DEF x, z
<1>4. y \in Nat /\ y < U64 /\ y >= t
  BY <1>1, <1>2, <1>3
<1>5. NewSchedules(t + d, g, n, a)[i].release = y % U64
  BY DEF NewSchedules, x
<1> HIDE DEF y
<1>6. y % U64 = y
  BY <1>1, <1>4
<1> QED BY <1>4, <1>5, <1>6

LEMMA ReleasesStep ==
  ASSUME ReleasesFit, TypeInv, NoReleaseWraps, [Next]_vars
  PROVE  NoReleaseWraps'
<1>1. ASSUME NEW c \in Accounts, NEW t \in Tokens, NEW a \in CliffAmounts,
             NEW d \in Durations, NEW g \in Gaps, NEW n \in Counts, Lock(c, t, a, d, g, n)
      PROVE  NoReleaseWraps'
  <2> DEFINE s == NewSchedules(now + d, g, n, a)
  <2>1. a \in Nat /\ now + d \in Nat /\ g \in Nat /\ n \in Nat \ {0}
    BY <1>1, NumberAssumption, SMTT(30) DEF Lock, TypeInv, TypeOK
  <2>2. Len(s) = n /\ now \in 0..MaxTime
    <3> DEFINE f == now + d
    <3>1. f \in Nat
      BY <2>1
    <3> HIDE DEF f
    <3>2. Len(NewSchedules(f, g, n, a)) = n
      BY <2>1, <3>1, NewSchedulesType
    <3> QED BY <3>2 DEF TypeInv, TypeOK, f
  <2>3. \A i \in 1..Len(s) : s[i].release >= now
    BY <2>1, <2>2, FittingReleases
  <2>4. /\ DOMAIN lock_infos' = DOMAIN lock_infos \cup {index}
        /\ \A id \in DOMAIN lock_infos : lock_infos'[id] = lock_infos[id]
        /\ lock_infos'[index].lock_time = now /\ lock_infos'[index].schedules = s
    BY <1>1, LocksType DEF Lock, UpdateStorage
  <2> HIDE DEF s
  <2> QED BY <2>3, <2>4 DEF NoReleaseWraps
<1>2. ASSUME NEW c \in Accounts, NEW id \in DOMAIN lock_infos, NEW r \in NewReleases,
             NEW i \in 1..Len(lock_infos[id].schedules), ExtendLock(c, id, i, r)
      PROVE  NoReleaseWraps'
  <2> DEFINE s == lock_infos[id].schedules
             q == [s EXCEPT ![i].release = r]
             made == lock_infos[id].lock_time
  <2>1. /\ r \in Nat /\ s \in Seq(LockSchedule) /\ s[i].release <= r /\ made \in Nat
        /\ s[i].release >= made
    BY <1>2, LocksType, NumberAssumption DEF VestInfo, ExtendLock, NoReleaseWraps
  <2>2. \A j \in 1..Len(s) : s[j] \in LockSchedule /\ s[j].release >= made
    BY <2>1 DEF NoReleaseWraps
  <2>3. Len(q) = Len(s) /\ \A j \in 1..Len(q) : q[j].release >= made
    <3>1. i \in 1..Len(s)
      BY <1>2
    <3> HIDE DEF s, q, made
    <3>2. /\ Len(q) = Len(s)
          /\ \A j \in 1..Len(s) : q[j].release = (IF j = i THEN r ELSE s[j].release)
      BY <2>1, <3>1, PostponedType DEF q
    <3>3. \A j \in 1..Len(s) : s[j].release \in Nat /\ s[j].release >= made
      BY <2>2 DEF LockSchedule
    <3> QED BY <2>1, <3>2, <3>3
  <2>4. /\ DOMAIN lock_infos' = DOMAIN lock_infos
        /\ \A x \in DOMAIN lock_infos \ {id} : lock_infos'[x] = lock_infos[x]
        /\ lock_infos'[id].lock_time = made /\ lock_infos'[id].schedules = q
    BY <1>2, LocksType DEF ExtendLock, VestInfo
  <2> HIDE DEF q, made
  <2> QED BY <2>3, <2>4 DEF NoReleaseWraps
<1>3. ASSUME NEW c \in Accounts, NEW d \in Accounts, NEW id \in DOMAIN lock_infos,
             TransferLock(c, id, d)
      PROVE  NoReleaseWraps'
  <2>1. /\ DOMAIN lock_infos' = DOMAIN lock_infos
        /\ \A x \in DOMAIN lock_infos : /\ lock_infos'[x].schedules = lock_infos[x].schedules
                                        /\ lock_infos'[x].lock_time = lock_infos[x].lock_time
    BY <1>3, LocksType DEF TransferLock, UpdateStorageTransferLock, VestInfo
  <2> QED BY <2>1 DEF NoReleaseWraps
<1>4. ASSUME NEW c \in Accounts, NEW id \in DOMAIN lock_infos, Claim(c, id)
      PROVE  NoReleaseWraps'
  <2> DEFINE s == lock_infos[id].schedules
             rest == Claimed(s)
  <2>1. s \in Seq(LockSchedule)
    BY LocksType DEF VestInfo
  <2>2. Len(rest) = Len(s) /\ \A i \in 1..Len(s) : rest[i].release = s[i].release
    <3>1. \A i \in 1..Len(s) : s[i] \in LockSchedule
      BY <2>1
    <3> HIDE DEF s
    <3> QED BY <2>1, <3>1, ClaimedType DEF Claimed, LockSchedule
  <2>3. /\ DOMAIN lock_infos' \in SUBSET DOMAIN lock_infos
        /\ \A x \in DOMAIN lock_infos' \ {id} : lock_infos'[x] = lock_infos[x]
        /\ id \in DOMAIN lock_infos' => /\ lock_infos'[id].lock_time = lock_infos[id].lock_time
                                        /\ lock_infos'[id].schedules = rest
    <3>1. \/ lock_infos' = [lock_infos EXCEPT ![id].schedules = rest]
          \/ lock_infos' = [x \in DOMAIN lock_infos \ {id} |-> lock_infos[x]]
      BY <1>4 DEF Claim
    <3> HIDE DEF rest
    <3> QED BY <3>1, LocksType DEF VestInfo
  <2> HIDE DEF rest
  <2> QED BY <2>2, <2>3 DEF NoReleaseWraps
<1>5. ASSUME UNCHANGED lock_infos PROVE NoReleaseWraps'
  BY <1>5 DEF NoReleaseWraps
<1>6. ASSUME \/ \E h \in PackageHashes : Initialize(h)
             \/ \E c, d \in Accounts : SetAdmin(c, d)
             \/ \E c \in Accounts : SetPauseContract(c)
             \/ Tick
             \/ UNCHANGED vars
      PROVE  UNCHANGED lock_infos
  BY <1>6 DEF Initialize, SetAdmin, SetPauseContract, Tick, vars
<1> QED BY <1>1, <1>2, <1>3, <1>4, <1>5, <1>6 DEF Next

\* With arguments of lock whose last release fits in a u64, no release is before the
\* time its lock was made, whatever is postponed and claimed since.
THEOREM ReleasesDoNotWrap ==
  ASSUME ReleasesFit
  PROVE  Spec => []NoReleaseWraps
<1>1. Init => NoReleaseWraps
  BY DEF Init, NoReleaseWraps
<1>2. TypeInv /\ NoReleaseWraps /\ [Next]_vars => NoReleaseWraps'
  BY ReleasesStep
<1> QED BY <1>1, <1>2, InitHasType, TypeStep, PTL DEF Spec

\* EscrowKept, from what the contract is given alone: its own package hash, and
\* arguments of lock whose last release fits in a u64.
THEOREM EscrowCorrect ==
  ASSUME ReleasesFit, PackageHashes = {Self}
  PROVE  Spec => EscrowKept
<1>1. TypeInv => self_contract_hash \in {Self, NoHash}
  BY DEF TypeInv, TypeOK
<1> QED BY <1>1, EscrowImplemented, ReleasesDoNotWrap, InitHasType, TypeStep, PTL DEF Spec
=============================================================================
