----------------------------- MODULE SessionProofs -----------------------------
(***************************************************************************)
(* Theorems about the vesting contract with its session programs: whatever *)
(* users run, the contract takes only steps of VestContract, so that what  *)
(* VestProofs proves of it holds here; and every token of every account is *)
(* accounted for, however often deploys are sent.                          *)
(***************************************************************************)
EXTENDS Sessions, VestProofs

-----------------------------------------------------------------------------
\* The contract under the sessions

\* A session that locks is a lock of the contract.
LEMMA CallLockIsLock ==
  ASSUME NEW c \in Accounts,
         \E t \in Tokens, a \in CliffAmounts, d \in Durations, g \in Gaps, n \in Counts :
           CallLock(c, t, a, d, g, n)
  PROVE  Next
BY DEF CallLock, Next

LEMMA SessionStepIsVestStep == SessionNext \/ UNCHANGED sessionVars => [Next]_vars
<1> SUFFICES ASSUME SessionNext \/ UNCHANGED sessionVars PROVE [Next]_vars
  OBVIOUS
<1>1. CASE \E c, r \in Accounts, f \in Fees : LockWithFee(c, r, f)
  BY <1>1, CallLockIsLock DEF LockWithFee
<1>2. ASSUME NEW c \in Accounts, NEW n \in 0..4, Portal(c, n) PROVE [Next]_vars
  <2>1. CASE n = 0
    BY <1>2, <2>1, CallLockIsLock DEF Portal
  <2>2. CASE n = 1
    <3>1. PICK id \in DOMAIN lock_infos, d \in Accounts : CallTransferLock(c, id, d)
      BY <1>2, <2>2 DEF Portal
    <3>2. TransferLock(c, id, d)
      BY <3>1 DEF CallTransferLock
    <3> QED BY <3>2 DEF Next
  <2>3. CASE n = 2
    BY <1>2, <2>3 DEF Portal, Next
  <2>4. CASE n = 3
    BY <1>2, <2>4 DEF Portal, Next
  <2>5. CASE n = 4
    BY <1>2, <2>5 DEF Portal, Approve
  <2> QED BY <1>2, <2>1, <2>2, <2>3, <2>4, <2>5
<1>3. CASE DirectCall
  BY <1>3 DEF DirectCall, Next
<1>4. CASE UNCHANGED sessionVars
  BY <1>4 DEF sessionVars
<1> QED BY <1>1, <1>2, <1>3, <1>4 DEF SessionNext

\* Every run of the sessions is a run of the vesting contract.
THEOREM SessionsAreVest == SessionSpec => Spec
<1>1. SessionInit => Init
  BY DEF SessionInit
<1>2. [SessionNext]_sessionVars => [Next]_vars
  BY SessionStepIsVestStep
<1> QED BY <1>1, <1>2, PTL DEF SessionSpec, Spec

\* Its custody holds however it is called: the contract can pay all open locks.
THEOREM SessionsKeepCustody == SessionSpec => []Custody
BY SessionsAreVest, CustodyCorrect, PTL

-----------------------------------------------------------------------------
\* What the locks of one account hold

HeldBy(locks, t, a) == SumFunctionOnSet(HeldIn(locks, t, a), DOMAIN locks)

HeldEntry(lock, t, a) ==
  IF lock.token_hash = t /\ lock.recipient = a THEN Total(lock.schedules) ELSE 0

LEMMA HeldType ==
  ASSUME NEW D, NEW locks \in [D -> VestInfo], NEW t, NEW a
  PROVE  \A id \in D : /\ HeldIn(locks, t, a)[id] = HeldEntry(locks[id], t, a)
                       /\ HeldIn(locks, t, a)[id] \in Nat
<1>1. \A id \in D : locks[id].schedules \in Seq(LockSchedule)
  BY DEF VestInfo
<1>2. \A id \in D : Total(locks[id].schedules) \in Nat
  BY <1>1, TotalType
<1>3. \A id \in D : HeldIn(locks, t, a)[id] = HeldEntry(locks[id], t, a)
  BY DEF HeldIn, LockTotal, Total, HeldEntry
<1> QED BY <1>2, <1>3 DEF HeldEntry

LEMMA HeldIsInt ==
  ASSUME NEW D, IsFiniteSet(D), NEW locks \in [D -> VestInfo], NEW t, NEW a
  PROVE  HeldBy(locks, t, a) \in Int
<1>1. \A id \in D : HeldIn(locks, t, a)[id] \in Int
  BY HeldType
<1>2. DOMAIN locks = D
  OBVIOUS
<1> QED BY <1>1, <1>2, SumIsInt DEF HeldBy

\* A new lock adds what it holds.
LEMMA HeldWithNewLock ==
  ASSUME NEW D, IsFiniteSet(D), NEW locks \in [D -> VestInfo], NEW id, id \notin D,
         NEW more \in [D \cup {id} -> VestInfo], \A x \in D : more[x] = locks[x],
         NEW t, NEW a
  PROVE  HeldBy(more, t, a) = HeldBy(locks, t, a) + HeldEntry(more[id], t, a)
<1> DEFINE f == HeldIn(locks, t, a)
           g == HeldIn(more, t, a)
<1>1. \A x \in D : f[x] \in Int /\ f[x] = HeldEntry(locks[x], t, a)
  BY HeldType
<1>2. \A x \in D \cup {id} : g[x] \in Int /\ g[x] = HeldEntry(more[x], t, a)
  BY HeldType
<1> HIDE DEF f, g
<1>3. \A x \in D : g[x] = f[x]
  BY <1>1, <1>2
<1>4. SumFunctionOnSet(g, D \cup {id}) = SumFunctionOnSet(f, D) + g[id]
  BY <1>1, <1>2, <1>3, SumGrows
<1>5. DOMAIN locks = D /\ DOMAIN more = D \cup {id}
  OBVIOUS
<1> QED BY <1>2, <1>4, <1>5 DEF HeldBy, f, g

\* A lock that changes changes the sum by the difference.
LEMMA HeldWithChangedLock ==
  ASSUME NEW D, IsFiniteSet(D), NEW locks \in [D -> VestInfo], NEW id \in D,
         NEW next \in [D -> VestInfo], \A x \in D \ {id} : next[x] = locks[x],
         NEW t, NEW a
  PROVE  HeldBy(next, t, a)
           = HeldBy(locks, t, a) + HeldEntry(next[id], t, a) - HeldEntry(locks[id], t, a)
<1> DEFINE f == HeldIn(locks, t, a)
           g == HeldIn(next, t, a)
<1>1. \A x \in D : f[x] \in Int /\ f[x] = HeldEntry(locks[x], t, a)
  BY HeldType
<1>2. \A x \in D : g[x] \in Int /\ g[x] = HeldEntry(next[x], t, a)
  BY HeldType
<1> HIDE DEF f, g
<1>3. \A x \in D \ {id} : f[x] = g[x]
  BY <1>1, <1>2
<1>4. SumFunctionOnSet(g, D) = SumFunctionOnSet(f, D) + g[id] - f[id]
  BY <1>1, <1>2, <1>3, SumChangeAt
<1>5. DOMAIN locks = D /\ DOMAIN next = D
  OBVIOUS
<1> QED BY <1>1, <1>2, <1>4, <1>5 DEF HeldBy, f, g

\* A lock that is cleared takes away what it held.
LEMMA HeldWithoutLock ==
  ASSUME NEW D, IsFiniteSet(D), NEW locks \in [D -> VestInfo], NEW id \in D, NEW t, NEW a
  PROVE  HeldBy([x \in D \ {id} |-> locks[x]], t, a)
           = HeldBy(locks, t, a) - HeldEntry(locks[id], t, a)
<1> DEFINE E == D \ {id}
           less == [x \in E |-> locks[x]]
<1>1. IsFiniteSet(E) /\ id \notin E /\ E \cup {id} = D
  BY FS_RemoveElement
<1>2. less \in [E -> VestInfo] /\ locks \in [E \cup {id} -> VestInfo]
  BY <1>1
<1>3. \A x \in E : locks[x] = less[x]
  OBVIOUS
<1> HIDE DEF E, less
<1>4. HeldBy(locks, t, a) = HeldBy(less, t, a) + HeldEntry(locks[id], t, a)
  BY <1>1, <1>2, <1>3, HeldWithNewLock
<1>5. HeldBy(less, t, a) \in Int /\ HeldEntry(locks[id], t, a) \in Nat
  BY <1>1, <1>2, HeldIsInt, HeldType
<1> QED BY <1>4, <1>5 DEF E, less

\* The lemma on a changed lock, of the locks before and after a step.
LEMMA HeldChange ==
  ASSUME TypeInv, NEW id \in DOMAIN lock_infos,
         lock_infos' \in [DOMAIN lock_infos -> VestInfo],
         \A x \in DOMAIN lock_infos \ {id} : lock_infos'[x] = lock_infos[x], NEW t, NEW a
  PROVE  HeldBy(lock_infos', t, a)
           = HeldBy(lock_infos, t, a) + HeldEntry(lock_infos'[id], t, a)
                                      - HeldEntry(lock_infos[id], t, a)
<1> DEFINE D == DOMAIN lock_infos
           locks == lock_infos
           next == lock_infos'
<1>1. /\ IsFiniteSet(D) /\ locks \in [D -> VestInfo] /\ id \in D
      /\ next \in [D -> VestInfo] /\ \A x \in D \ {id} : next[x] = locks[x]
  BY LocksType
<1> HIDE DEF D, locks, next
<1>2. HeldBy(next, t, a)
        = HeldBy(locks, t, a) + HeldEntry(next[id], t, a) - HeldEntry(locks[id], t, a)
  BY <1>1, HeldWithChangedLock
<1> QED BY <1>2 DEF locks, next

-----------------------------------------------------------------------------
\* Nothing is lost

SessionTypeOK ==
  /\ cspr \in [Accounts -> Nat]
  /\ allowance \in [Tokens -> [Accounts -> [PackageHashes -> Nat]]]
  /\ given \in [Tokens -> [Accounts -> Int]]
  /\ dust \in [Tokens -> [Accounts -> Nat]]

\* Where all tokens of an account are.
Accounted(t, a) == bal[t][a] + HeldBy(lock_infos, t, a) + given[t][a] + dust[t][a]

AllAccounted == \A t \in Tokens : \A a \in Accounts : Accounted(t, a) = Supply

SessionInv == TypeInv /\ SessionTypeOK /\ AllAccounted

LEMMA AccountedIsNothingLost == AllAccounted <=> NothingIsLost
BY DEF AllAccounted, Accounted, NothingIsLost, Held, HeldBy

\* The terms of the sum are numbers.
LEMMA TermsAreNumbers ==
  ASSUME TypeInv, SessionTypeOK, NEW t \in Tokens, NEW a \in Accounts
  PROVE  /\ bal[t][a] \in Int /\ HeldBy(lock_infos, t, a) \in Int
         /\ given[t][a] \in Int /\ dust[t][a] \in Int
<1>1. HeldBy(lock_infos, t, a) \in Int
  BY LocksType, HeldIsInt
<1> QED BY <1>1, LocksType DEF SessionTypeOK, Holders

\* What a payment by transfer_from does to the balances of accounts.
LEMMA LockMovesTokens ==
  ASSUME TypeInv, NEW c \in Accounts, NEW t \in Tokens, NEW n \in CliffAmounts,
         NEW d \in Durations, NEW g \in Gaps, NEW k \in Counts, Lock(c, t, n, d, g, k)
  PROVE  \A u \in Tokens, a \in Accounts :
           bal'[u][a] = IF u = t /\ a = c THEN bal[u][a] - n ELSE bal[u][a]
<1> DEFINE h == self_contract_hash
<1>1. h \in PackageHashes /\ h \notin Accounts
  BY HashAssumption DEF TypeInv, InitOnce, Lock
<1>2. bal \in [Tokens -> [Holders -> Nat]] /\ c \in Holders /\ h \in Holders /\ c # h
  BY <1>1 DEF TypeInv, TypeOK, Holders
<1>3. bal' = TransferFrom(bal, t, c, h, n)
  BY DEF Lock
<1> HIDE DEF h
<1>4. ASSUME NEW u \in Tokens, NEW a \in Accounts
      PROVE  bal'[u][a] = IF u = t /\ a = c THEN bal[u][a] - n ELSE bal[u][a]
  <2>1. a \in Holders /\ a # h
    BY <1>1 DEF Holders
  <2> QED BY <1>2, <1>3, <2>1 DEF TransferFrom
<1> QED BY <1>4

\* The lock that lock() makes, and the locks there were before.
LEMMA LockMakes ==
  ASSUME TypeInv, NEW c \in Accounts, NEW t \in Tokens, NEW n \in CliffAmounts,
         NEW d \in Durations, NEW g \in Gaps, NEW k \in Counts, Lock(c, t, n, d, g, k)
  PROVE  /\ DOMAIN lock_infos' = DOMAIN lock_infos \cup {index}
         /\ \A id \in DOMAIN lock_infos : lock_infos'[id] = lock_infos[id]
         /\ lock_infos' \in [DOMAIN lock_infos \cup {index} -> VestInfo]
         /\ lock_infos'[index].token_hash = t
         /\ lock_infos'[index].recipient = c
         /\ lock_infos'[index].schedules = NewSchedules(now + d, g, k, n)
         /\ n \in Nat /\ k \in Nat \ {0} /\ now + d \in Nat /\ g \in Nat
<1>1. /\ DOMAIN lock_infos' = DOMAIN lock_infos \cup {index}
      /\ \A id \in DOMAIN lock_infos : lock_infos'[id] = lock_infos[id]
      /\ lock_infos'[index].token_hash = t
      /\ lock_infos'[index].recipient = c
      /\ lock_infos'[index].schedules = NewSchedules(now + d, g, k, n)
  BY LocksType DEF Lock, UpdateStorage
<1>2. lock_infos' \in [DOMAIN lock_infos \cup {index} -> VestInfo]
  BY <1>1, LockKeepsType DEF TypeInv, TypeOK
<1>3. n \in Nat /\ k \in Nat \ {0} /\ now + d \in Nat /\ g \in Nat
  BY NumberAssumption DEF Lock, TypeInv, TypeOK
<1> QED BY <1>1, <1>2, <1>3

\* The new lock and the dust are what the deposit was.
LEMMA CallLockAccounts ==
  ASSUME SessionInv, NEW c \in Accounts, NEW t \in Tokens, NEW n \in CliffAmounts,
         NEW d \in Durations, NEW g \in Gaps, NEW k \in Counts, CallLock(c, t, n, d, g, k)
  PROVE  /\ allowance' \in [Tokens -> [Accounts -> [PackageHashes -> Nat]]]
         /\ given' \in [Tokens -> [Accounts -> Int]]
         /\ dust' \in [Tokens -> [Accounts -> Nat]]
         /\ AllAccounted'
<1> DEFINE s == NewSchedules(now + d, g, k, n)
<1>1. /\ allowance \in [Tokens -> [Accounts -> [PackageHashes -> Nat]]]
      /\ given \in [Tokens -> [Accounts -> Int]] /\ dust \in [Tokens -> [Accounts -> Nat]]
      /\ Self \in PackageHashes
  BY HashAssumption DEF SessionInv, SessionTypeOK
<1>2. TypeInv /\ Lock(c, t, n, d, g, k) /\ n \in Nat
  BY LockMakes DEF SessionInv, CallLock
<1>3. Total(s) + (n % k) = n /\ n % k \in Nat /\ Total(s) \in Nat
  <2> DEFINE f == now + d
  <2>1. f \in Nat /\ g \in Nat /\ k \in Nat \ {0} /\ n \in Nat
    BY <1>2, LockMakes
  <2> HIDE DEF f
  <2>2. NewSchedules(f, g, k, n) \in Seq(LockSchedule)
    BY <2>1, NewSchedulesType
  <2>3. Total(NewSchedules(f, g, k, n)) \in Nat
    BY <2>2, TotalType
  <2> QED BY <2>1, <2>3, NewTotalAndDust DEF f
<1>4. /\ n <= allowance[t][c][Self] /\ allowance[t][c][Self] \in Nat
      /\ allowance' = [allowance EXCEPT ![t][c][Self] = allowance[t][c][Self] - n]
      /\ dust' = [dust EXCEPT ![t][c] = dust[t][c] + (n % k)]
      /\ given' = given
  BY <1>1 DEF CallLock, SpendAllowance
<1>5. allowance' \in [Tokens -> [Accounts -> [PackageHashes -> Nat]]]
  BY <1>1, <1>2, <1>4
<1>6. dust' \in [Tokens -> [Accounts -> Nat]]
  BY <1>1, <1>3, <1>4
<1>7. ASSUME NEW u \in Tokens, NEW a \in Accounts
      PROVE  Accounted(u, a)' = Supply
  <2> DEFINE mine == u = t /\ a = c
  <2>1. HeldBy(lock_infos', u, a)
          = HeldBy(lock_infos, u, a) + HeldEntry(lock_infos'[index], u, a)
    <3> DEFINE D == DOMAIN lock_infos
               locks == lock_infos
               more == lock_infos'
    <3>1. /\ IsFiniteSet(D) /\ locks \in [D -> VestInfo] /\ index \notin D
          /\ more \in [D \cup {index} -> VestInfo] /\ \A id \in D : more[id] = locks[id]
      BY <1>2, LocksType, LockMakes
    <3> HIDE DEF D, locks, more
    <3>2. HeldBy(more, u, a) = HeldBy(locks, u, a) + HeldEntry(more[index], u, a)
      BY <3>1, HeldWithNewLock
    <3> QED BY <3>2 DEF locks, more
  <2>2. HeldEntry(lock_infos'[index], u, a) = IF mine THEN Total(s) ELSE 0
    BY <1>2, LockMakes DEF HeldEntry
  <2>3. bal'[u][a] = IF mine THEN bal[u][a] - n ELSE bal[u][a]
    BY <1>2, LockMovesTokens
  <2>4. dust'[u][a] = IF mine THEN dust[u][a] + (n % k) ELSE dust[u][a]
    BY <1>1, <1>4
  <2>5. /\ bal[u][a] \in Int /\ HeldBy(lock_infos, u, a) \in Int
        /\ given[u][a] \in Int /\ dust[u][a] \in Int
    BY TermsAreNumbers DEF SessionInv
  <2>6. Accounted(u, a) = Supply
    BY DEF SessionInv, AllAccounted
  <2> HIDE DEF mine, s
  <2>7. DEFINE x == n % k
  <2> HIDE DEF x
  <2> QED BY <1>2, <1>3, <1>4, <2>1, <2>2, <2>3, <2>4, <2>5, <2>6 DEF Accounted, x
<1> QED BY <1>1, <1>4, <1>5, <1>6, <1>7 DEF AllAccounted

\* Handing a lock over moves what it holds from one account to the other.
LEMMA CallTransferLockAccounts ==
  ASSUME SessionInv, TypeInv', NEW c \in Accounts, NEW d \in Accounts,
         NEW id \in DOMAIN lock_infos, CallTransferLock(c, id, d)
  PROVE  SessionTypeOK' /\ AllAccounted'
<1> DEFINE lock == lock_infos[id]
           t == lock.token_hash
           n == Total(lock.schedules)
<1>1. /\ cspr \in [Accounts -> Nat]
      /\ allowance \in [Tokens -> [Accounts -> [PackageHashes -> Nat]]]
      /\ given \in [Tokens -> [Accounts -> Int]] /\ dust \in [Tokens -> [Accounts -> Nat]]
  BY DEF SessionInv, SessionTypeOK
<1>2. TypeInv /\ lock \in VestInfo /\ lock.recipient = c
  BY LocksType DEF SessionInv, CallTransferLock, TransferLock, GetLock
<1>3. t \in Tokens /\ n \in Nat
  BY <1>2, TotalType DEF VestInfo
<1> DEFINE handed == [given EXCEPT ![t][c] = given[t][c] + n]
<1>4. /\ given' = [handed EXCEPT ![t][d] = handed[t][d] - n]
      /\ UNCHANGED <<bal, cspr, allowance, dust>>
  BY DEF CallTransferLock, TransferLock, LockTotal, Total
<1>5. /\ DOMAIN lock_infos' = DOMAIN lock_infos
      /\ \A x \in DOMAIN lock_infos \ {id} : lock_infos'[x] = lock_infos[x]
      /\ lock_infos'[id] = [lock EXCEPT !.recipient = d]
  BY <1>2, LocksType DEF CallTransferLock, TransferLock, UpdateStorageTransferLock
<1>6. /\ lock_infos'[id].token_hash = t /\ lock_infos'[id].recipient = d
      /\ Total(lock_infos'[id].schedules) = n
  BY <1>2, <1>5 DEF VestInfo
<1>7. lock_infos' \in [DOMAIN lock_infos -> VestInfo]
  BY <1>5 DEF TypeInv, TypeOK
<1> HIDE DEF t, n
<1>8. /\ handed \in [Tokens -> [Accounts -> Int]]
      /\ \A u \in Tokens, a \in Accounts :
           handed[u][a] = IF u = t /\ a = c THEN given[u][a] + n ELSE given[u][a]
  BY <1>1, <1>3
<1> HIDE DEF handed
<1>9. /\ given' \in [Tokens -> [Accounts -> Int]]
      /\ \A u \in Tokens, a \in Accounts :
           given'[u][a] = IF u = t /\ a = d THEN handed[u][a] - n ELSE handed[u][a]
  BY <1>3, <1>4, <1>8
<1>10. ASSUME NEW u \in Tokens, NEW a \in Accounts
      PROVE  Accounted(u, a)' = Supply
  <2>1. HeldBy(lock_infos', u, a)
          = HeldBy(lock_infos, u, a) + HeldEntry(lock_infos'[id], u, a) - HeldEntry(lock, u, a)
    BY <1>2, <1>5, <1>7, HeldChange
  <2>2. /\ HeldEntry(lock, u, a) = IF u = t /\ a = c THEN n ELSE 0
        /\ HeldEntry(lock_infos'[id], u, a) = IF u = t /\ a = d THEN n ELSE 0
    BY <1>2, <1>6 DEF HeldEntry, t, n
  <2>3. given'[u][a] = (IF u = t /\ a = c THEN given[u][a] + n ELSE given[u][a])
                       - (IF u = t /\ a = d THEN n ELSE 0)
    <3>1. handed[u][a] \in Int
      BY <1>8
    <3>2. given'[u][a] = handed[u][a] - (IF u = t /\ a = d THEN n ELSE 0)
      BY <1>3, <1>9, <3>1
    <3> QED BY <1>8, <3>2
  <2>4. /\ bal[u][a] \in Int /\ HeldBy(lock_infos, u, a) \in Int
        /\ given[u][a] \in Int /\ dust[u][a] \in Int
    BY <1>2, TermsAreNumbers DEF SessionInv
  <2>5. Accounted(u, a) = Supply
    BY DEF SessionInv, AllAccounted
  <2> HIDE DEF lock
  <2> QED BY <1>3, <1>4, <2>1, <2>2, <2>3, <2>4, <2>5 DEF Accounted
<1> QED BY <1>1, <1>4, <1>9, <1>10 DEF SessionTypeOK, AllAccounted

\* A step that leaves the session's variables alone and moves tokens of an account only
\* between its balance and its locks.
LEMMA NoPaymentAccounts ==
  ASSUME SessionInv, UNCHANGED <<cspr, allowance, given, dust>>,
         \A u \in Tokens, a \in Accounts :
           bal'[u][a] + HeldBy(lock_infos', u, a) = bal[u][a] + HeldBy(lock_infos, u, a)
  PROVE  SessionTypeOK' /\ AllAccounted'
<1>1. SessionTypeOK'
  BY DEF SessionInv, SessionTypeOK
<1>2. ASSUME NEW u \in Tokens, NEW a \in Accounts
      PROVE  Accounted(u, a)' = Supply
  <2>1. bal'[u][a] + HeldBy(lock_infos', u, a) = bal[u][a] + HeldBy(lock_infos, u, a)
    OBVIOUS
  <2>2. Accounted(u, a) = Supply
    BY DEF SessionInv, AllAccounted
  <2>3. given'[u][a] = given[u][a] /\ dust'[u][a] = dust[u][a]
    OBVIOUS
  <2> QED BY <2>1, <2>2, <2>3 DEF Accounted
<1> QED BY <1>1, <1>2 DEF AllAccounted

\* A release that is postponed holds what it held.
LEMMA ExtendLockAccounts ==
  ASSUME TypeInv, TypeInv', NEW c \in Accounts, NEW id \in DOMAIN lock_infos,
         NEW r \in NewReleases, NEW i \in 1..Len(lock_infos[id].schedules),
         ExtendLock(c, id, i, r), NEW u \in Tokens, NEW a \in Accounts
  PROVE  bal'[u][a] + HeldBy(lock_infos', u, a) = bal[u][a] + HeldBy(lock_infos, u, a)
<1> DEFINE lock == lock_infos[id]
           s == lock.schedules
           q == [s EXCEPT ![i].release = r]
<1>1. lock \in VestInfo /\ r \in Nat /\ s \in Seq(LockSchedule) /\ i \in 1..Len(s)
  BY LocksType, NumberAssumption DEF VestInfo
<1>2. Total(q) = Total(s)
  <2> HIDE DEF s
  <2> QED BY <1>1, PostponedTotal
<1>3. /\ DOMAIN lock_infos' = DOMAIN lock_infos
      /\ \A x \in DOMAIN lock_infos \ {id} : lock_infos'[x] = lock_infos[x]
      /\ lock_infos'[id].token_hash = lock.token_hash
      /\ lock_infos'[id].recipient = lock.recipient
      /\ lock_infos'[id].schedules = q
  BY <1>1, LocksType DEF ExtendLock, VestInfo
<1>4. lock_infos' \in [DOMAIN lock_infos -> VestInfo]
  BY <1>3 DEF TypeInv, TypeOK
<1>5. HeldBy(lock_infos', u, a)
        = HeldBy(lock_infos, u, a) + HeldEntry(lock_infos'[id], u, a) - HeldEntry(lock, u, a)
  BY <1>3, <1>4, HeldChange
<1>6. HeldEntry(lock_infos'[id], u, a) = HeldEntry(lock, u, a)
  BY <1>2, <1>3 DEF HeldEntry
<1>7. HeldBy(lock_infos, u, a) \in Int /\ HeldEntry(lock, u, a) \in Int
  <2>1. HeldBy(lock_infos, u, a) \in Int
    BY LocksType, HeldIsInt
  <2>2. Total(s) \in Nat
    BY <1>1, TotalType
  <2> QED BY <2>1, <2>2 DEF HeldEntry
<1>8. bal' = bal
  BY DEF ExtendLock
<1> HIDE DEF lock
<1> QED BY <1>5, <1>6, <1>7, <1>8

\* A claim pays its caller what the caller's lock loses.
LEMMA ClaimAccounts ==
  ASSUME TypeInv, NEW c \in Accounts, NEW id \in DOMAIN lock_infos, Claim(c, id),
         NEW u \in Tokens, NEW a \in Accounts
  PROVE  bal'[u][a] + HeldBy(lock_infos', u, a) = bal[u][a] + HeldBy(lock_infos, u, a)
<1> DEFINE D == DOMAIN lock_infos
           lock == lock_infos[id]
           t == lock.token_hash
           s == lock.schedules
           rest == Claimed(s)
           amount == AmountToTransfer(s)
           mine == u = t /\ a = c
<1>1. lock \in VestInfo /\ t \in Tokens /\ s \in Seq(LockSchedule) /\ lock.recipient = c
  BY LocksType DEF VestInfo, Claim, CanClaim, GetLock
<1>2. /\ amount \in Nat /\ rest \in Seq(LockSchedule)
      /\ Total(rest) = Total(s) - amount /\ Total(s) \in Nat
  <2> HIDE DEF s
  <2> QED BY <1>1, AmountToTransferType, ClaimedType, ClaimedTotal, TotalType
<1>3. bal' = Transfer(bal, t, Self, c, amount)
  BY DEF Claim, CanClaim
<1>4. \/ lock_infos' = [lock_infos EXCEPT ![id].schedules = rest]
      \/ AllClaimed(rest) /\ lock_infos' = [x \in D \ {id} |-> lock_infos[x]]
  BY DEF Claim
<1>5. HeldBy(lock_infos, u, a) \in Int /\ bal[u][a] \in Int
  BY LocksType, HeldIsInt DEF Holders
<1>6. HeldEntry(lock, u, a) = IF mine THEN Total(s) ELSE 0
  BY <1>1 DEF HeldEntry
<1> HIDE DEF amount, rest
<1>7. bal'[u][a] = IF mine THEN bal[u][a] + amount ELSE bal[u][a]
  <2>1. a # Self /\ c # Self /\ a \in Holders /\ c \in Holders
    BY HashAssumption DEF Holders
  <2>2. bal \in [Tokens -> [Holders -> Nat]] /\ Self \in Holders /\ t \in Tokens
    BY <1>1, LocksType
  <2> HIDE DEF t, s
  <2> QED BY <1>2, <1>3, <2>1, <2>2 DEF Transfer
\* The lock loses what the contract pays, whether it stays or is cleared.
<1>8. HeldBy(lock_infos', u, a)
        = IF mine THEN HeldBy(lock_infos, u, a) - amount ELSE HeldBy(lock_infos, u, a)
  <2>1. CASE lock_infos' = [lock_infos EXCEPT ![id].schedules = rest]
    <3>1. /\ lock_infos' \in [D -> VestInfo]
          /\ \A x \in D \ {id} : lock_infos'[x] = lock_infos[x]
          /\ lock_infos'[id].token_hash = t /\ lock_infos'[id].recipient = c
          /\ lock_infos'[id].schedules = rest
      <4>1. [lock EXCEPT !.schedules = rest] \in VestInfo
        BY <1>1, <1>2 DEF VestInfo
      <4> QED BY <1>1, <2>1, <4>1, LocksType DEF VestInfo
    <3>2. HeldBy(lock_infos', u, a)
            = HeldBy(lock_infos, u, a) + HeldEntry(lock_infos'[id], u, a) - HeldEntry(lock, u, a)
      BY <3>1, HeldChange
    <3>3. HeldEntry(lock_infos'[id], u, a) = IF mine THEN Total(rest) ELSE 0
      BY <3>1 DEF HeldEntry
    <3> HIDE DEF lock, t, s, mine
    <3> QED BY <1>2, <1>5, <1>6, <3>2, <3>3
  <2>2. CASE AllClaimed(rest) /\ lock_infos' = [x \in D \ {id} |-> lock_infos[x]]
    <3>1. Total(rest) = 0
      BY <1>2, <2>2, AllClaimedTotal
    <3>2. HeldBy(lock_infos', u, a) = HeldBy(lock_infos, u, a) - HeldEntry(lock, u, a)
      <4> DEFINE locks == lock_infos
                 less == [x \in D \ {id} |-> locks[x]]
      <4>1. IsFiniteSet(D) /\ locks \in [D -> VestInfo] /\ id \in D
        BY LocksType
      <4>2. lock_infos' = less
        BY <2>2
      <4> HIDE DEF D, locks
      <4>3. HeldBy(less, u, a) = HeldBy(locks, u, a) - HeldEntry(locks[id], u, a)
        BY <4>1, HeldWithoutLock
      <4> QED BY Zenon, <4>2, <4>3 DEF locks
    <3> HIDE DEF lock, t, s, mine
    <3> QED BY <1>2, <1>5, <1>6, <3>1, <3>2
  <2> QED BY <1>4, <2>1, <2>2
<1> HIDE DEF lock, t, s, mine
<1> QED BY <1>2, <1>5, <1>7, <1>8

\* An approval moves no token.
LEMMA ApproveAccounts ==
  ASSUME SessionInv, NEW c \in Accounts, NEW t \in Tokens, NEW h \in PackageHashes,
         NEW n \in Approvals, Approve(c, t, h, n)
  PROVE  SessionTypeOK' /\ AllAccounted'
<1>1. allowance \in [Tokens -> [Accounts -> [PackageHashes -> Nat]]] /\ n \in Nat
  BY SessionAssumption DEF SessionInv, SessionTypeOK
<1>2. /\ allowance' = [allowance EXCEPT ![t][c][h] = n]
      /\ UNCHANGED <<bal, lock_infos, cspr, given, dust>>
  BY DEF Approve, vars
<1>3. allowance' \in [Tokens -> [Accounts -> [PackageHashes -> Nat]]]
  BY <1>1, <1>2
<1>4. AllAccounted'
  BY <1>2 DEF SessionInv, AllAccounted, Accounted
<1> QED BY <1>2, <1>3, <1>4 DEF SessionInv, SessionTypeOK

\* A purse that pays at most what it holds is not overdrawn.
LEMMA PayFeeType ==
  ASSUME cspr \in [Accounts -> Nat], NEW c \in Accounts, NEW r \in Accounts, NEW n \in Nat,
         PayFee(c, r, n)
  PROVE  cspr' \in [Accounts -> Nat]
BY DEF PayFee

LEMMA SessionStep == SessionInv /\ [SessionNext]_sessionVars => SessionInv'
<1> SUFFICES ASSUME SessionInv, [SessionNext]_sessionVars PROVE SessionInv'
  OBVIOUS
<1>1. TypeInv /\ TypeInv'
  BY SessionStepIsVestStep, TypeStep DEF SessionInv
<1>2. cspr \in [Accounts -> Nat]
  BY DEF SessionInv, SessionTypeOK
<1>3. ASSUME NEW c \in Accounts, NEW r \in Accounts, NEW f \in Fees, LockWithFee(c, r, f)
      PROVE  SessionTypeOK' /\ AllAccounted'
  <2>1. PICK t \in Tokens, n \in CliffAmounts, d \in Durations, g \in Gaps, k \in Counts :
          CallLock(c, t, n, d, g, k)
    BY <1>3 DEF LockWithFee
  <2>2. cspr' \in [Accounts -> Nat]
    BY <1>2, <1>3, PayFeeType, SessionAssumption DEF LockWithFee
  <2> QED BY <2>1, <2>2, CallLockAccounts DEF SessionTypeOK
<1>4. ASSUME NEW c \in Accounts, NEW m \in 0..4, Portal(c, m)
      PROVE  SessionTypeOK' /\ AllAccounted'
  <2>1. CASE m = 0
    <3>1. PICK t \in Tokens, n \in CliffAmounts, d \in Durations, g \in Gaps, k \in Counts :
            CallLock(c, t, n, d, g, k)
      BY <1>4, <2>1 DEF Portal
    <3>2. cspr' = cspr
      BY <1>4, <2>1 DEF Portal
    <3> QED BY <1>2, <3>1, <3>2, CallLockAccounts DEF SessionTypeOK
  <2>2. CASE m = 1
    <3>1. PICK id \in DOMAIN lock_infos, d \in Accounts : CallTransferLock(c, id, d)
      BY <1>4, <2>2 DEF Portal
    <3> QED BY <1>1, <3>1, CallTransferLockAccounts
  <2>3. CASE m = 2
    <3> PICK id \in DOMAIN lock_infos, r \in NewReleases :
          \E i \in 1..Len(lock_infos[id].schedules) : ExtendLock(c, id, i, r)
      BY <1>4, <2>3 DEF Portal
    <3>1. PICK i \in 1..Len(lock_infos[id].schedules) : ExtendLock(c, id, i, r)
      OBVIOUS
    <3>2. UNCHANGED <<cspr, allowance, given, dust>>
      BY <1>4, <2>3 DEF Portal, NoPayment
    <3>3. \A u \in Tokens, a \in Accounts :
            bal'[u][a] + HeldBy(lock_infos', u, a) = bal[u][a] + HeldBy(lock_infos, u, a)
      BY <1>1, <3>1, ExtendLockAccounts
    <3> QED BY <1>1, <3>2, <3>3, NoPaymentAccounts
  <2>4. CASE m = 3
    <3>1. PICK id \in DOMAIN lock_infos : Claim(c, id)
      BY <1>4, <2>4 DEF Portal
    <3>2. UNCHANGED <<cspr, allowance, given, dust>>
      BY <1>4, <2>4 DEF Portal, NoPayment
    <3>3. \A u \in Tokens, a \in Accounts :
            bal'[u][a] + HeldBy(lock_infos', u, a) = bal[u][a] + HeldBy(lock_infos, u, a)
      BY <1>1, <3>1, ClaimAccounts
    <3> QED BY <1>1, <3>2, <3>3, NoPaymentAccounts
  <2>5. CASE m = 4
    <3>1. PICK t \in Tokens, h \in PackageHashes, n \in Approvals : Approve(c, t, h, n)
      BY <1>4, <2>5 DEF Portal
    <3> QED BY <3>1, ApproveAccounts
  <2> QED BY <2>1, <2>2, <2>3, <2>4, <2>5
<1>5. ASSUME DirectCall \/ UNCHANGED sessionVars
      PROVE  SessionTypeOK' /\ AllAccounted'
  <2>1. UNCHANGED <<bal, lock_infos, cspr, allowance, given, dust>>
    BY <1>5 DEF DirectCall, NoPayment, Initialize, SetAdmin, SetPauseContract, Tick,
                sessionVars, vars
  <2> QED BY <1>1, <2>1, NoPaymentAccounts
<1>6. SessionTypeOK' /\ AllAccounted'
  <2>1. SessionNext \/ UNCHANGED sessionVars
    OBVIOUS
  <2> QED BY <2>1, <1>3, <1>4, <1>5 DEF SessionNext
<1> QED BY <1>1, <1>6 DEF SessionInv

\* At first every account has all its tokens in its balance.
LEMMA SessionInitInv == SessionInit => SessionInv
<1> SUFFICES ASSUME SessionInit PROVE SessionInv
  OBVIOUS
<1>1. TypeInv
  BY InitHasType DEF SessionInit
<1>2. SessionTypeOK
  BY SessionAssumption DEF SessionInit, SessionTypeOK
<1>3. ASSUME NEW t \in Tokens, NEW a \in Accounts PROVE Accounted(t, a) = Supply
  <2>1. bal[t][a] = Supply
    BY DEF SessionInit, Init, Holders
  <2>2. given[t][a] = 0 /\ dust[t][a] = 0
    BY DEF SessionInit
  <2>3. HeldBy(lock_infos, t, a) = 0
    <3>1. DOMAIN lock_infos = {}
      BY DEF SessionInit, Init
    <3> QED BY <3>1, SumOfNone DEF HeldBy
  <2> QED BY <2>1, <2>2, <2>3, NumberAssumption DEF Accounted
<1> QED BY <1>1, <1>2, <1>3 DEF SessionInv, AllAccounted

\* NothingIsLost: whatever is sent and however often, every token of an account is in
\* its balance, in an open lock of its own, handed to somebody else, or dust.
THEOREM NothingLost == SessionSpec => []NothingIsLost
<1>1. SessionInv => NothingIsLost
  BY AccountedIsNothingLost DEF SessionInv
<1> QED BY <1>1, SessionInitInv, SessionStep, PTL DEF SessionSpec

-----------------------------------------------------------------------------
\* Fees

\* What the contract's lock leaves behind.
LEMMA LockIsNewLock ==
  ASSUME TypeInv, NEW c \in Accounts, NEW t \in Tokens, NEW a \in CliffAmounts,
         NEW d \in Durations, NEW g \in Gaps, NEW n \in Counts, Lock(c, t, a, d, g, n)
  PROVE  NewLockOf(c)
<1> DEFINE s == NewSchedules(now + d, g, n, a)
<1>1. a \in Nat /\ now + d \in Nat /\ g \in Nat /\ n \in Nat \ {0}
  BY LockMakes
<1>2. Total(s) <= a /\ Total(s) \in Nat
  BY <1>1, NewSchedulesType, NewTotal, TotalType
<1>3. /\ index \in DOMAIN lock_infos' \ DOMAIN lock_infos
      /\ lock_infos'[index].token_hash = t
      /\ lock_infos'[index].recipient = c
      /\ lock_infos'[index].schedules = s
  BY LockMakes, LocksType
<1>4. bal'[t][c] = bal[t][c] - a
  BY LockMovesTokens
<1>5. bal[t][c] \in Nat
  BY DEF TypeInv, TypeOK, Holders
<1> HIDE DEF s
<1>6. bal[t][c] - bal'[t][c] = a
  BY <1>1, <1>4, <1>5
<1>7. LockTotal(lock_infos'[index]) = Total(s)
  BY <1>3 DEF LockTotal, Total
<1> QED BY <1>2, <1>3, <1>6, <1>7 DEF NewLockOf

\* The purse of nobody but the payer shrinks, and by no more than the fee.
LEMMA FeeIsPaidByCaller ==
  ASSUME cspr \in [Accounts -> Nat], NEW c \in Accounts, NEW r \in Accounts, NEW n \in Nat,
         PayFee(c, r, n), NEW a \in Accounts, cspr'[a] < cspr[a]
  PROVE  a = c /\ cspr[a] - cspr'[a] = n
BY DEF PayFee

LEMMA FeeStep ==
  ASSUME SessionInv, [SessionNext]_sessionVars, NEW a \in Accounts, cspr'[a] < cspr[a]
  PROVE  cspr[a] - cspr'[a] >= MinFee /\ NewLockOf(a)
<1>1. cspr \in [Accounts -> Nat] /\ cspr' # cspr
  BY DEF SessionInv, SessionTypeOK
<1>2. PICK c \in Accounts, r \in Accounts, f \in Fees : LockWithFee(c, r, f)
  BY <1>1 DEF SessionNext, Portal, CallTransferLock, Approve, DirectCall, NoPayment, sessionVars
<1>3. f \in Nat /\ f >= MinFee /\ PayFee(c, r, f)
  BY <1>2, SessionAssumption DEF LockWithFee
<1>4. a = c /\ cspr[a] - cspr'[a] = f
  BY <1>1, <1>3, FeeIsPaidByCaller
<1>5. PICK t \in Tokens, n \in CliffAmounts, d \in Durations, g \in Gaps, k \in Counts :
        CallLock(c, t, n, d, g, k)
  BY <1>2 DEF LockWithFee
<1>6. NewLockOf(c)
  BY <1>5, LockIsNewLock DEF CallLock, SessionInv
<1> QED BY <1>3, <1>4, <1>6

\* FeeBuysLock: whoever loses CSPR has paid a fee of at least MinFee and has got
\* the lock for it in the same deploy.
THEOREM FeesBuyLocks == SessionSpec => FeeBuysLock
<1>1. SessionInv /\ [SessionNext]_sessionVars
        => [\A a \in Accounts :
              cspr'[a] < cspr[a] => cspr[a] - cspr'[a] >= MinFee /\ NewLockOf(a)]_sessionVars
  BY FeeStep
<1>2. SessionSpec => []SessionInv
  BY SessionInitInv, SessionStep, PTL DEF SessionSpec
<1> QED BY <1>1, <1>2, PTL DEF SessionSpec, FeeBuysLock
=============================================================================
