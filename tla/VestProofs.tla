------------------------------ MODULE VestProofs ------------------------------
(***************************************************************************)
(* Proofs about the vesting contract, for any accounts, tokens, arguments  *)
(* and bounds.                                                             *)
(***************************************************************************)
EXTENDS VestContract, DataLemmas

-----------------------------------------------------------------------------
\* Sequences of ids

\* An id that is listed has a first place in the list.
LEMMA PositionFinds ==
  ASSUME NEW ids \in Seq(Nat), NEW id, Listed(ids, id)
  PROVE  /\ Position(ids, id) \in 1..Len(ids)
         /\ ids[Position(ids, id)] = id
<1> DEFINE Places == {k \in 1..Len(ids) : ids[k] = id}
<1>1. Places \subseteq Nat /\ Places # {}
  BY DEF Listed
<1>2. PICK k \in Places : \A j \in Places : k <= j
  <2> HIDE DEF Places
  <2> QED BY <1>1, LeastNatural
<1>3. k \in 1..Len(ids) /\ ids[k] = id /\ \A j \in 1..(k - 1) : ids[j] # id
  BY <1>2
<1> QED BY <1>3 DEF Position

\* swap_remove gives a list that is one shorter and has the other ids.
LEMMA SwapRemoveType ==
  ASSUME NEW ids \in Seq(Nat), NEW k \in 1..Len(ids)
  PROVE  /\ SwapRemove(ids, k) \in Seq(Nat)
         /\ Len(SwapRemove(ids, k)) = Len(ids) - 1
<1> DEFINE n == Len(ids) - 1
           s == [j \in 1..n |-> IF j = k THEN ids[Len(ids)] ELSE ids[j]]
<1>1. n \in Nat
  OBVIOUS
<1>2. \A j \in 1..n : s[j] \in Nat
  OBVIOUS
<1>3. s \in Seq(Nat) /\ Len(s) = n
  <2> HIDE DEF n
  <2> QED BY <1>1, <1>2
<1> QED BY <1>3 DEF SwapRemove

\* No id is in the list twice.
Distinct(ids) == \A j, k \in 1..Len(ids) : ids[j] = ids[k] => j = k

\* Taking an id out of a list without repetitions takes out that id and no other.
LEMMA RemovedIds ==
  ASSUME NEW ids \in Seq(Nat), Distinct(ids), NEW id, Listed(ids, id)
  PROVE  LET rest == SwapRemove(ids, Position(ids, id))
         IN  /\ rest \in Seq(Nat)
             /\ Distinct(rest)
             /\ \A x : Listed(rest, x) <=> (Listed(ids, x) /\ x # id)
<1> DEFINE k == Position(ids, id)
           n == Len(ids)
           rest == SwapRemove(ids, k)
<1>1. k \in 1..n /\ ids[k] = id /\ n \in Nat
  BY PositionFinds
<1> HIDE DEF k
<1>2. rest \in Seq(Nat) /\ Len(rest) = n - 1
  BY <1>1, SwapRemoveType
<1>3. \A j \in 1..(n - 1) : rest[j] = IF j = k THEN ids[n] ELSE ids[j]
  BY DEF SwapRemove
<1> HIDE DEF rest
<1>4. \A j \in 1..(n - 1) : rest[j] # id
  BY <1>1, <1>3 DEF Distinct
<1>5. Distinct(rest)
  <2> DEFINE From(j) == IF j = k THEN n ELSE j
  <2>1. \A j \in 1..(n - 1) : From(j) \in 1..n /\ rest[j] = ids[From(j)]
    BY <1>1, <1>3
  <2>2. \A i, j \in 1..(n - 1) : From(i) = From(j) => i = j
    BY <1>1
  <2> HIDE DEF From
  <2>3. \A i, j \in 1..(n - 1) : rest[i] = rest[j] => i = j
    BY <2>1, <2>2 DEF Distinct
  <2> QED BY <2>3, <1>2 DEF Distinct
<1>6. ASSUME NEW x, Listed(rest, x) PROVE Listed(ids, x) /\ x # id
  <2>1. PICK j \in 1..(n - 1) : rest[j] = x
    BY <1>2, <1>6 DEF Listed
  <2>2. j \in 1..n /\ n \in 1..n
    BY <1>1, <2>1
  <2> QED BY <2>1, <2>2, <1>3, <1>4 DEF Listed
<1>7. ASSUME NEW x, Listed(ids, x), x # id PROVE Listed(rest, x)
  <2>1. PICK j \in 1..n : ids[j] = x
    BY <1>7 DEF Listed
  <2>2. CASE j = n
    <3>1. k \in 1..(n - 1) /\ rest[k] = x
      BY <1>1, <1>3, <1>7, <2>1, <2>2
    <3> QED BY <3>1, <1>2 DEF Listed
  <2>3. CASE j # n
    <3>1. j \in 1..(n - 1) /\ rest[j] = x
      BY <1>1, <1>3, <1>7, <2>1, <2>3
    <3> QED BY <3>1, <1>2 DEF Listed
  <2> QED BY <2>2, <2>3
<1> QED BY <1>2, <1>5, <1>6, <1>7 DEF rest, k

\* Appending an id that is not listed adds that id and no repetition.
LEMMA AppendedIds ==
  ASSUME NEW ids \in Seq(Nat), Distinct(ids), NEW id \in Nat, ~Listed(ids, id)
  PROVE  /\ Append(ids, id) \in Seq(Nat)
         /\ Distinct(Append(ids, id))
         /\ \A x : Listed(Append(ids, id), x) <=> (Listed(ids, x) \/ x = id)
<1> DEFINE n == Len(ids)
           more == Append(ids, id)
<1>1. /\ more \in Seq(Nat) /\ Len(more) = n + 1 /\ n \in Nat
      /\ more[n + 1] = id
      /\ \A j \in 1..n : more[j] = ids[j]
  OBVIOUS
<1> HIDE DEF more
<1>2. \A j \in 1..n : ids[j] # id
  BY DEF Listed
<1>3. \A j \in 1..(n + 1) : j \in 1..n \/ j = n + 1
  BY <1>1
<1>4. Distinct(more)
  BY <1>1, <1>2, <1>3 DEF Distinct
<1>5. ASSUME NEW x, Listed(more, x) PROVE Listed(ids, x) \/ x = id
  BY <1>1, <1>3, <1>5 DEF Listed
<1>6. ASSUME NEW x, Listed(ids, x) \/ x = id PROVE Listed(more, x)
  <2>1. \A j \in 1..n : j \in 1..(n + 1)
    BY <1>1
  <2>2. n + 1 \in 1..(n + 1)
    BY <1>1
  <2> QED BY <1>1, <1>6, <2>1, <2>2 DEF Listed
<1> QED BY <1>1, <1>4, <1>5, <1>6 DEF more

-----------------------------------------------------------------------------
\* The ledger

\* A payment the payer can make leaves balances that are natural numbers.
LEMMA PaymentType ==
  ASSUME NEW b \in [Tokens -> [Holders -> Nat]], NEW t \in Tokens,
         NEW p \in Holders, NEW r \in Holders, NEW n \in Nat, CanPay(b, t, p, n)
  PROVE  /\ TransferFrom(b, t, p, r, n) \in [Tokens -> [Holders -> Nat]]
         /\ Transfer(b, t, p, r, n) \in [Tokens -> [Holders -> Nat]]
BY DEF CanPay, TransferFrom, Transfer

-----------------------------------------------------------------------------
\* Schedules

\* The schedules that lock makes are schedules, for every number of releases.
LEMMA NewSchedulesType ==
  ASSUME NEW f \in Nat, NEW g \in Nat, NEW n \in Nat \ {0}, NEW c \in Nat
  PROVE  /\ NewSchedules(f, g, n, c) \in Seq(LockSchedule)
         /\ Len(NewSchedules(f, g, n, c)) = n
<1> DEFINE s == NewSchedules(f, g, n, c)
<1>1. \A i \in 1..n : (f + g * (i - 1)) % U64 \in Nat
  <2> SUFFICES ASSUME NEW i \in 1..n PROVE (f + g * (i - 1)) % U64 \in Nat
    OBVIOUS
  <2> DEFINE x == f + g * (i - 1)
  <2>1. x \in Nat
    OBVIOUS
  <2>2. U64 \in Nat \ {0}
    BY NumberAssumption
  <2> HIDE DEF x
  <2>3. x % U64 \in Nat
    BY <2>1, <2>2
  <2> QED BY <2>3 DEF x
<1>2. c \div n \in Nat
  OBVIOUS
<1>3. \A i \in 1..n : s[i] \in LockSchedule
  BY <1>1, <1>2 DEF NewSchedules, LockSchedule
<1>4. s = [i \in 1..n |-> s[i]]
  BY DEF NewSchedules
<1> HIDE DEF s
<1>5. s \in Seq(LockSchedule) /\ Len(s) = n
  BY <1>3, <1>4
<1> QED BY <1>5 DEF s

\* What a claim leaves of a list of schedules is a list of the same length.
LEMMA ClaimedType ==
  ASSUME NEW s \in Seq(LockSchedule)
  PROVE  Claimed(s) \in Seq(LockSchedule) /\ Len(Claimed(s)) = Len(s)
<1> DEFINE n == Len(s)
           r == Claimed(s)
<1>1. \A i \in 1..n : s[i] \in LockSchedule
  OBVIOUS
<1>2. \A i \in 1..n : r[i] \in LockSchedule
  BY <1>1 DEF Claimed, LockSchedule
<1>3. r = [i \in 1..n |-> r[i]] /\ n \in Nat
  BY DEF Claimed
<1> HIDE DEF n, r
<1>4. r \in Seq(LockSchedule) /\ Len(r) = n
  BY <1>2, <1>3
<1> QED BY <1>4 DEF n, r

\* So is a list of schedules with one release time changed.
LEMMA PostponedType ==
  ASSUME NEW s \in Seq(LockSchedule), NEW i \in 1..Len(s), NEW r \in Nat
  PROVE  /\ [s EXCEPT ![i].release = r] \in Seq(LockSchedule)
         /\ Len([s EXCEPT ![i].release = r]) = Len(s)
<1> DEFINE e == [s[i] EXCEPT !.release = r]
<1>1. e \in LockSchedule
  <2>1. s[i] \in LockSchedule
    OBVIOUS
  <2> QED BY <2>1 DEF LockSchedule
<1>2. [s EXCEPT ![i].release = r] = [s EXCEPT ![i] = e]
  OBVIOUS
<1> HIDE DEF e
<1> QED BY <1>1, <1>2

\* Some schedules' amounts add up to a natural number.
LEMMA AmountsSum ==
  ASSUME NEW s \in Seq(LockSchedule), NEW D \in SUBSET (1..Len(s))
  PROVE  SumFunctionOnSet(Amounts(s), D) \in Nat
<1>1. IsFiniteSet(D)
  <2>1. Len(s) \in Int
    OBVIOUS
  <2>2. IsFiniteSet(1..Len(s))
    BY <2>1, FS_Interval
  <2> QED BY <2>2, FS_Subset
<1>2. \A i \in D : Amounts(s)[i] \in Nat
  <2>1. \A i \in 1..Len(s) : s[i] \in LockSchedule
    OBVIOUS
  <2> QED BY <2>1 DEF Amounts, LockSchedule
<1> QED BY <1>1, <1>2, SumIsNat

LEMMA AmountToTransferType ==
  ASSUME NEW s \in Seq(LockSchedule)
  PROVE  AmountToTransfer(s) \in Nat
BY AmountsSum DEF AmountToTransfer, Due

-----------------------------------------------------------------------------
\* Type correctness

\* init runs once, and before it nothing is locked: without this the id of a
\* new lock could be one that is taken.
InitOnce ==
  /\ initialized => self_contract_hash \in PackageHashes
  /\ ~initialized => index = 0

TypeInv == TypeOK /\ InitOnce

LEMMA InitHasType == Init => TypeInv
<1> SUFFICES ASSUME Init PROVE TypeInv
  OBVIOUS
<1>1. bal \in [Tokens -> [Holders -> Nat]]
  BY NumberAssumption DEF Init
<1>2. DOMAIN lock_infos = {} /\ lock_infos \in [DOMAIN lock_infos -> VestInfo]
  BY DEF Init
<1>3. id_arr \in [Accounts -> Seq(Nat)]
  BY DEF Init
<1>4. initialized \in BOOLEAN /\ paused \in BOOLEAN
  BY Zenon DEF Init
<1>5. now = 0 /\ index = 0 /\ admin \in Accounts /\ self_contract_hash = NoHash
  BY DEF Init
<1>6. InitOnce
  BY DEF Init, InitOnce
<1> QED BY <1>1, <1>2, <1>3, <1>4, <1>5, <1>6, NumberAssumption DEF TypeInv, TypeOK

LEMMA LockKeepsType ==
  ASSUME TypeInv, NEW c \in Accounts, NEW t \in Tokens, NEW a \in CliffAmounts,
         NEW d \in Durations, NEW g \in Gaps, NEW n \in Counts, Lock(c, t, a, d, g, n)
  PROVE  TypeInv'
<1> USE DEF TypeInv, TypeOK, InitOnce
<1> DEFINE f == now + d
           lock == [id |-> index, lock_time |-> now, recipient |-> c, token_hash |-> t,
                    schedules |-> NewSchedules(f, g, n, a)]
<1>1. a \in Nat /\ f \in Nat /\ g \in Nat /\ n \in Nat \ {0} /\ now \in Nat /\ index \in Nat
  BY NumberAssumption DEF Lock
<1>2. lock \in VestInfo
  <2> HIDE DEF f
  <2>1. NewSchedules(f, g, n, a) \in Seq(LockSchedule)
    BY <1>1, NewSchedulesType
  <2> QED BY <2>1, <1>1 DEF VestInfo
<1>3. lock_infos' = [id \in DOMAIN lock_infos \cup {index} |->
                       IF id = index THEN lock ELSE lock_infos[id]]
  BY DEF Lock, UpdateStorage
<1>4. index' = index + 1 /\ index' \in 0..MaxLocks
  BY NumberAssumption DEF Lock
<1>5. lock_infos' \in [DOMAIN lock_infos' -> VestInfo]
  <2> HIDE DEF lock
  <2> QED BY <1>2, <1>3
<1>6. DOMAIN lock_infos' \subseteq 0..(index' - 1)
  <2>1. DOMAIN lock_infos' = DOMAIN lock_infos \cup {index}
    BY <1>3
  <2> QED BY <2>1, <1>1, <1>4
<1>7. id_arr' \in [Accounts -> Seq(Nat)]
  <2>1. id_arr' = [id_arr EXCEPT ![c] = Append(id_arr[c], index)]
    BY DEF Lock, UpdateStorage
  <2>2. Append(id_arr[c], index) \in Seq(Nat)
    BY <1>1
  <2> QED BY <2>1, <2>2
<1>8. bal' \in [Tokens -> [Holders -> Nat]]
  <2>1. c \in Holders /\ self_contract_hash \in Holders
    BY DEF Lock, Holders
  <2>2. bal' = TransferFrom(bal, t, c, self_contract_hash, a) /\ CanPay(bal, t, c, a)
    BY DEF Lock
  <2> QED BY <2>1, <2>2, <1>1, PaymentType
<1>9. /\ now' \in 0..MaxTime /\ initialized' \in BOOLEAN /\ paused' \in BOOLEAN
      /\ admin' \in Accounts /\ self_contract_hash' \in PackageHashes \cup {NoHash}
      /\ InitOnce'
  BY DEF Lock
<1> QED BY <1>4, <1>5, <1>6, <1>7, <1>8, <1>9

LEMMA ExtendLockKeepsType ==
  ASSUME TypeInv, NEW c \in Accounts, NEW id \in DOMAIN lock_infos, NEW r \in NewReleases,
         NEW i \in 1..Len(lock_infos[id].schedules), ExtendLock(c, id, i, r)
  PROVE  TypeInv'
<1> USE DEF TypeInv, TypeOK, InitOnce
<1> DEFINE old == lock_infos[id]
           s == [old.schedules EXCEPT ![i].release = r]
           lock == [old EXCEPT !.schedules = s]
<1>1. old \in VestInfo
  OBVIOUS
<1>2. r \in Nat
  BY NumberAssumption
<1>3. s \in Seq(LockSchedule)
  <2>1. old.schedules \in Seq(LockSchedule)
    BY <1>1 DEF VestInfo
  <2>2. i \in 1..Len(old.schedules)
    OBVIOUS
  <2> HIDE DEF old
  <2> QED BY <2>1, <2>2, <1>2, PostponedType
<1>4. lock \in VestInfo
  <2> HIDE DEF s
  <2> QED BY <1>1, <1>3 DEF VestInfo
<1>5. lock_infos' = [lock_infos EXCEPT ![id] = lock]
  BY DEF ExtendLock
<1>6. lock_infos' \in [DOMAIN lock_infos -> VestInfo] /\ DOMAIN lock_infos' = DOMAIN lock_infos
  <2> HIDE DEF lock
  <2> QED BY <1>4, <1>5
<1> QED BY <1>6 DEF ExtendLock

LEMMA TransferLockKeepsType ==
  ASSUME TypeInv, NEW c \in Accounts, NEW d \in Accounts, NEW id \in DOMAIN lock_infos,
         TransferLock(c, id, d)
  PROVE  TypeInv'
<1> USE DEF TypeInv, TypeOK, InitOnce
<1> DEFINE k == lock_infos[id].id
           rest == SwapRemove(id_arr[c], Position(id_arr[c], k))
           removed == [id_arr EXCEPT ![c] = rest]
<1>1. lock_infos[id] \in VestInfo /\ k \in Nat
  BY DEF VestInfo
<1>2. rest \in Seq(Nat)
  <2>1. id_arr[c] \in Seq(Nat) /\ Listed(id_arr[c], k)
    BY DEF TransferLock, UpdateStorageTransferLock
  <2> HIDE DEF k
  <2> QED BY <2>1, PositionFinds, SwapRemoveType
<1>3. removed \in [Accounts -> Seq(Nat)]
  <2> HIDE DEF rest
  <2> QED BY <1>2
<1>4. id_arr' \in [Accounts -> Seq(Nat)]
  <2>1. id_arr' = [removed EXCEPT ![d] = Append(removed[d], k)]
    BY DEF TransferLock, UpdateStorageTransferLock
  <2> HIDE DEF removed, k
  <2>2. Append(removed[d], k) \in Seq(Nat)
    BY <1>1, <1>3
  <2> QED BY <2>1, <2>2, <1>3
<1>5. lock_infos' \in [DOMAIN lock_infos -> VestInfo] /\ DOMAIN lock_infos' = DOMAIN lock_infos
  <2> DEFINE lock == [lock_infos[id] EXCEPT !.recipient = d]
  <2>1. lock \in VestInfo
    BY <1>1 DEF VestInfo
  <2>2. lock_infos' = [lock_infos EXCEPT ![id] = lock]
    BY DEF TransferLock, UpdateStorageTransferLock
  <2> HIDE DEF lock
  <2> QED BY <2>1, <2>2
<1> HIDE DEF k, rest, removed
<1> QED BY <1>4, <1>5 DEF TransferLock

LEMMA ClaimKeepsType ==
  ASSUME TypeInv, NEW c \in Accounts, NEW id \in DOMAIN lock_infos, Claim(c, id)
  PROVE  TypeInv'
<1> USE DEF TypeInv, TypeOK, InitOnce
<1> DEFINE lock == lock_infos[id]
           amount == AmountToTransfer(lock.schedules)
           rest == Claimed(lock.schedules)
           paid == [lock EXCEPT !.schedules = rest]
<1>1. lock \in VestInfo /\ lock.schedules \in Seq(LockSchedule) /\ lock.token_hash \in Tokens
  BY DEF VestInfo
<1>2. amount \in Nat /\ rest \in Seq(LockSchedule)
  <2> HIDE DEF lock
  <2> QED BY <1>1, AmountToTransferType, ClaimedType
<1>3. bal' \in [Tokens -> [Holders -> Nat]]
  <2>1. /\ CanPay(bal, lock.token_hash, Self, amount)
        /\ bal' = Transfer(bal, lock.token_hash, Self, c, amount)
    BY DEF Claim, CanClaim
  <2>2. Self \in Holders /\ c \in Holders
    BY HashAssumption DEF Holders
  <2> HIDE DEF lock, amount
  <2> QED BY <2>1, <2>2, <1>1, <1>2, PaymentType
<1>4. paid \in VestInfo
  <2> HIDE DEF rest, lock
  <2> QED BY <1>1, <1>2 DEF VestInfo
<1>5. CASE lock_infos' = [lock_infos EXCEPT ![id] = paid] /\ UNCHANGED id_arr
  <2> HIDE DEF paid
  <2>1. lock_infos' \in [DOMAIN lock_infos -> VestInfo] /\ DOMAIN lock_infos' = DOMAIN lock_infos
    BY <1>4, <1>5
  <2> HIDE DEF lock, amount, rest
  <2> QED BY <2>1, <1>3, <1>5 DEF Claim
<1>6. CASE /\ lock_infos' = [x \in DOMAIN lock_infos \ {id} |-> lock_infos[x]]
           /\ Listed(id_arr[c], id)
           /\ id_arr' = [id_arr EXCEPT ![c] = SwapRemove(id_arr[c], Position(id_arr[c], id))]
  <2>1. SwapRemove(id_arr[c], Position(id_arr[c], id)) \in Seq(Nat)
    BY <1>6, PositionFinds, SwapRemoveType
  <2>2. id_arr' \in [Accounts -> Seq(Nat)]
    BY <1>6, <2>1
  <2>3. /\ lock_infos' \in [DOMAIN lock_infos' -> VestInfo]
        /\ DOMAIN lock_infos' \subseteq DOMAIN lock_infos
    BY <1>6
  <2> HIDE DEF lock, amount, rest, paid
  <2> QED BY <2>2, <2>3, <1>3 DEF Claim
<1> QED BY <1>5, <1>6 DEF Claim, CanClaim

\* init, set_admin, set_pause_contract and the passing of time.
LEMMA OthersKeepType ==
  ASSUME TypeInv,
         \/ \E h \in PackageHashes : Initialize(h)
         \/ \E c, d \in Accounts : SetAdmin(c, d)
         \/ \E c \in Accounts : SetPauseContract(c)
         \/ Tick
         \/ UNCHANGED vars
  PROVE  TypeInv'
<1> USE DEF TypeInv, TypeOK, InitOnce
<1>1. ASSUME NEW h \in PackageHashes, Initialize(h) PROVE TypeInv'
  BY <1>1 DEF Initialize
<1>2. ASSUME NEW c \in Accounts, NEW d \in Accounts, SetAdmin(c, d) PROVE TypeInv'
  BY <1>2 DEF SetAdmin
<1>3. ASSUME NEW c \in Accounts, SetPauseContract(c) PROVE TypeInv'
  BY <1>3 DEF SetPauseContract
<1>4. CASE Tick
  BY <1>4, NumberAssumption DEF Tick
<1>5. CASE UNCHANGED vars
  BY <1>5 DEF vars
<1> HIDE DEF TypeInv, TypeOK, InitOnce
<1> QED BY <1>1, <1>2, <1>3, <1>4, <1>5

LEMMA TypeStep == TypeInv /\ [Next]_vars => TypeInv'
<1> SUFFICES ASSUME TypeInv, [Next]_vars PROVE TypeInv'
  OBVIOUS
<1>1. ASSUME NEW c \in Accounts, NEW t \in Tokens, NEW a \in CliffAmounts,
             NEW d \in Durations, NEW g \in Gaps, NEW n \in Counts, Lock(c, t, a, d, g, n)
      PROVE  TypeInv'
  BY <1>1, LockKeepsType
<1>2. ASSUME NEW c \in Accounts, NEW id \in DOMAIN lock_infos, NEW r \in NewReleases,
             NEW i \in 1..Len(lock_infos[id].schedules), ExtendLock(c, id, i, r)
      PROVE  TypeInv'
  BY <1>2, ExtendLockKeepsType
<1>3. ASSUME NEW c \in Accounts, NEW d \in Accounts, NEW id \in DOMAIN lock_infos,
             TransferLock(c, id, d)
      PROVE  TypeInv'
  BY <1>3, TransferLockKeepsType
<1>4. ASSUME NEW c \in Accounts, NEW id \in DOMAIN lock_infos, Claim(c, id)
      PROVE  TypeInv'
  BY <1>4, ClaimKeepsType
<1> QED BY <1>1, <1>2, <1>3, <1>4, OthersKeepType DEF Next

\* The storage of the vesting contract always has the types its code reads it
\* with, balances never fall below zero, and an id beyond the counter is never
\* in use: the conditions under which no deploy panics on malformed storage.
THEOREM TypeCorrect == Spec => []TypeOK
<1>1. TypeInv => TypeOK
  BY DEF TypeInv
<1> QED BY <1>1, InitHasType, TypeStep, PTL DEF Spec

-----------------------------------------------------------------------------
\* The id lists and the dictionary of locks

\* IdsMatchLocks in terms of what is listed, not of the places it is listed at.
OpenIsListed ==
  \A id \in DOMAIN lock_infos :
    lock_infos[id].id = id /\ Listed(id_arr[lock_infos[id].recipient], id)

ListedIsOpen ==
  \A a \in Accounts : \A x :
    Listed(id_arr[a], x) => x \in DOMAIN lock_infos /\ lock_infos[x].recipient = a

NoRepetition == \A a \in Accounts : Distinct(id_arr[a])

IdsInv == OpenIsListed /\ ListedIsOpen /\ NoRepetition

LEMMA IdsInvIsIdsMatchLocks == IdsInv <=> IdsMatchLocks
<1>1. ListedIsOpen <=> \A a \in Accounts : \A k \in 1..Len(id_arr[a]) :
                         /\ id_arr[a][k] \in DOMAIN lock_infos
                         /\ lock_infos[id_arr[a][k]].recipient = a
  BY DEF ListedIsOpen, Listed
<1>2. NoRepetition <=> \A a \in Accounts : \A j, k \in 1..Len(id_arr[a]) :
                         id_arr[a][j] = id_arr[a][k] => j = k
  BY DEF NoRepetition, Distinct
<1> QED BY <1>1, <1>2 DEF IdsInv, OpenIsListed, IdsMatchLocks

LEMMA LockKeepsIds ==
  ASSUME TypeInv, IdsInv, NEW c \in Accounts, NEW t \in Tokens, NEW a \in CliffAmounts,
         NEW d \in Durations, NEW g \in Gaps, NEW n \in Counts, Lock(c, t, a, d, g, n)
  PROVE  IdsInv'
<1> DEFINE more == Append(id_arr[c], index)
<1>1. /\ index \in Nat /\ index \notin DOMAIN lock_infos
      /\ id_arr \in [Accounts -> Seq(Nat)]
      /\ \A id \in DOMAIN lock_infos : lock_infos[id].recipient \in Accounts
  BY DEF TypeInv, TypeOK, VestInfo
<1>2. ~Listed(id_arr[c], index) /\ Distinct(id_arr[c])
  BY <1>1 DEF IdsInv, ListedIsOpen, NoRepetition
<1>3. Distinct(more) /\ \A x : Listed(more, x) <=> (Listed(id_arr[c], x) \/ x = index)
  BY <1>1, <1>2, AppendedIds
<1>4. id_arr' = [id_arr EXCEPT ![c] = more]
  BY DEF Lock, UpdateStorage
<1>5. /\ DOMAIN lock_infos' = DOMAIN lock_infos \cup {index}
      /\ \A id \in DOMAIN lock_infos : lock_infos'[id] = lock_infos[id]
      /\ lock_infos'[index].id = index /\ lock_infos'[index].recipient = c
  BY <1>1 DEF Lock, UpdateStorage
<1> HIDE DEF more
<1>6. id_arr'[c] = more /\ \A e \in Accounts : e # c => id_arr'[e] = id_arr[e]
  BY <1>1, <1>4
<1>7. OpenIsListed'
  BY <1>1, <1>3, <1>5, <1>6 DEF IdsInv, OpenIsListed
<1>8. ListedIsOpen'
  BY <1>1, <1>3, <1>5, <1>6 DEF IdsInv, ListedIsOpen
<1>9. NoRepetition'
  BY <1>3, <1>6 DEF IdsInv, NoRepetition
<1> QED BY <1>7, <1>8, <1>9 DEF IdsInv

LEMMA TransferLockKeepsIds ==
  ASSUME TypeInv, IdsInv, NEW c \in Accounts, NEW d \in Accounts,
         NEW id \in DOMAIN lock_infos, TransferLock(c, id, d)
  PROVE  IdsInv'
<1> DEFINE rest == SwapRemove(id_arr[c], Position(id_arr[c], id))
           removed == [id_arr EXCEPT ![c] = rest]
           more == Append(removed[d], id)
<1>1. /\ id \in Nat /\ id_arr \in [Accounts -> Seq(Nat)]
      /\ \A x \in DOMAIN lock_infos : /\ lock_infos[x] \in VestInfo
                                      /\ lock_infos[x].recipient \in Accounts
  BY DEF TypeInv, TypeOK, VestInfo
<1>2. lock_infos[id].id = id /\ lock_infos[id].recipient = c /\ Listed(id_arr[c], id)
  BY DEF IdsInv, OpenIsListed, TransferLock, GetLock
<1>3. /\ rest \in Seq(Nat) /\ Distinct(rest)
      /\ \A x : Listed(rest, x) <=> (Listed(id_arr[c], x) /\ x # id)
  BY <1>1, <1>2, RemovedIds DEF IdsInv, NoRepetition
<1>4. id_arr' = [removed EXCEPT ![d] = more]
  <2>1. [lock_infos[id] EXCEPT !.recipient = d].id = id
    BY <1>1, <1>2 DEF VestInfo
  <2> QED BY <2>1 DEF TransferLock, UpdateStorageTransferLock
<1>5. /\ DOMAIN lock_infos' = DOMAIN lock_infos
      /\ \A x \in DOMAIN lock_infos :
           /\ lock_infos'[x].id = lock_infos[x].id
           /\ lock_infos'[x].recipient = IF x = id THEN d ELSE lock_infos[x].recipient
  BY <1>1 DEF TransferLock, UpdateStorageTransferLock, VestInfo
<1> HIDE DEF rest
<1>6. /\ removed[c] = rest /\ removed \in [Accounts -> Seq(Nat)]
      /\ \A e \in Accounts : e # c => removed[e] = id_arr[e]
  BY <1>1, <1>3
<1> HIDE DEF removed
<1>7. ~Listed(removed[d], id) /\ Distinct(removed[d])
  BY <1>2, <1>3, <1>6 DEF IdsInv, ListedIsOpen, NoRepetition
<1>8. Distinct(more) /\ \A x : Listed(more, x) <=> (Listed(removed[d], x) \/ x = id)
  BY <1>1, <1>6, <1>7, AppendedIds
<1> HIDE DEF more
<1>9. id_arr'[d] = more /\ \A e \in Accounts : e # d => id_arr'[e] = removed[e]
  BY <1>4, <1>6
<1>10. \A e \in Accounts : \A x :
         Listed(id_arr'[e], x) <=> IF x = id THEN e = d ELSE Listed(id_arr[e], x)
  <2>1. \A e \in Accounts : \A x :
          Listed(removed[e], x) <=> (Listed(id_arr[e], x) /\ ~(e = c /\ x = id))
    BY <1>3, <1>6
  <2>2. \A e \in Accounts : e # c => ~Listed(id_arr[e], id)
    BY <1>2 DEF IdsInv, ListedIsOpen
  <2> QED BY <1>8, <1>9, <2>1, <2>2
<1>11. OpenIsListed'
  BY <1>1, <1>2, <1>5, <1>10 DEF IdsInv, OpenIsListed
<1>12. ListedIsOpen'
  BY <1>5, <1>10 DEF IdsInv, ListedIsOpen
<1>13. NoRepetition'
  BY <1>3, <1>6, <1>8, <1>9 DEF IdsInv, NoRepetition
<1> QED BY <1>11, <1>12, <1>13 DEF IdsInv

LEMMA ClaimKeepsIds ==
  ASSUME TypeInv, IdsInv, NEW c \in Accounts, NEW id \in DOMAIN lock_infos, Claim(c, id)
  PROVE  IdsInv'
<1> DEFINE rest == SwapRemove(id_arr[c], Position(id_arr[c], id))
           paid == Claimed(lock_infos[id].schedules)
<1>1. /\ id \in Nat /\ id_arr \in [Accounts -> Seq(Nat)]
      /\ \A x \in DOMAIN lock_infos : /\ lock_infos[x] \in VestInfo
                                      /\ lock_infos[x].recipient \in Accounts
  BY DEF TypeInv, TypeOK, VestInfo
<1>2. lock_infos[id].recipient = c
  BY DEF Claim, CanClaim, GetLock
<1>3. CASE lock_infos' = [lock_infos EXCEPT ![id].schedules = paid] /\ UNCHANGED id_arr
  <2> HIDE DEF paid
  <2>1. /\ DOMAIN lock_infos' = DOMAIN lock_infos
        /\ \A x \in DOMAIN lock_infos : /\ lock_infos'[x].id = lock_infos[x].id
                                        /\ lock_infos'[x].recipient = lock_infos[x].recipient
    BY <1>1, <1>3 DEF VestInfo
  <2> QED BY <1>3, <2>1 DEF IdsInv, OpenIsListed, ListedIsOpen, NoRepetition
<1>4. CASE /\ lock_infos' = [x \in DOMAIN lock_infos \ {id} |-> lock_infos[x]]
           /\ id_arr' = [id_arr EXCEPT ![c] = rest]
  <2>1. Listed(id_arr[c], id)
    BY <1>2 DEF IdsInv, OpenIsListed
  <2>2. /\ Distinct(rest)
        /\ \A x : Listed(rest, x) <=> (Listed(id_arr[c], x) /\ x # id)
    BY <1>1, <2>1, RemovedIds DEF IdsInv, NoRepetition
  <2> HIDE DEF rest
  <2>3. id_arr'[c] = rest /\ \A e \in Accounts : e # c => id_arr'[e] = id_arr[e]
    BY <1>1, <1>4
  <2>4. /\ DOMAIN lock_infos' = DOMAIN lock_infos \ {id}
        /\ \A x \in DOMAIN lock_infos' : lock_infos'[x] = lock_infos[x]
    BY <1>4
  <2>5. \A e \in Accounts : e # c => ~Listed(id_arr[e], id)
    BY <1>2 DEF IdsInv, ListedIsOpen
  <2>6. OpenIsListed'
    BY <1>1, <2>2, <2>3, <2>4 DEF IdsInv, OpenIsListed
  <2>7. ListedIsOpen'
    BY <2>2, <2>3, <2>4, <2>5 DEF IdsInv, ListedIsOpen
  <2>8. NoRepetition'
    BY <2>2, <2>3 DEF IdsInv, NoRepetition
  <2> QED BY <2>6, <2>7, <2>8 DEF IdsInv
<1> HIDE DEF rest, paid
<1>5. \/ lock_infos' = [lock_infos EXCEPT ![id].schedules = paid] /\ UNCHANGED id_arr
      \/ /\ lock_infos' = [x \in DOMAIN lock_infos \ {id} |-> lock_infos[x]]
         /\ id_arr' = [id_arr EXCEPT ![c] = rest]
  BY DEF Claim, CanClaim, rest, paid
<1> QED BY <1>3, <1>4, <1>5

LEMMA ExtendLockKeepsIds ==
  ASSUME TypeInv, IdsInv, NEW c \in Accounts, NEW id \in DOMAIN lock_infos,
         NEW r \in NewReleases, NEW i \in 1..Len(lock_infos[id].schedules),
         ExtendLock(c, id, i, r)
  PROVE  IdsInv'
<1>1. \A x \in DOMAIN lock_infos : lock_infos[x] \in VestInfo
  BY DEF TypeInv, TypeOK
<1>2. /\ DOMAIN lock_infos' = DOMAIN lock_infos /\ UNCHANGED id_arr
      /\ \A x \in DOMAIN lock_infos : /\ lock_infos'[x].id = lock_infos[x].id
                                      /\ lock_infos'[x].recipient = lock_infos[x].recipient
  BY <1>1 DEF ExtendLock, VestInfo
<1> QED BY <1>2 DEF IdsInv, OpenIsListed, ListedIsOpen, NoRepetition

\* Every account's list of ids is exactly the open locks it is the recipient
\* of, each once, however often locks are handed over, claimed and made: no
\* transfer_lock and no last claim panics on an id that is missing.
THEOREM IdsCorrect == Spec => []IdsMatchLocks
<1>1. Init => IdsInv
  <2> SUFFICES ASSUME Init PROVE IdsInv
    OBVIOUS
  <2>1. DOMAIN lock_infos = {} /\ \A a \in Accounts : id_arr[a] = << >>
    BY DEF Init
  <2> QED BY <2>1 DEF IdsInv, OpenIsListed, ListedIsOpen, NoRepetition, Listed, Distinct
<1>2. TypeInv /\ IdsInv /\ [Next]_vars => IdsInv'
  <2> SUFFICES ASSUME TypeInv, IdsInv, [Next]_vars PROVE IdsInv'
    OBVIOUS
  <2>1. ASSUME NEW c \in Accounts, NEW t \in Tokens, NEW a \in CliffAmounts,
               NEW d \in Durations, NEW g \in Gaps, NEW n \in Counts, Lock(c, t, a, d, g, n)
        PROVE  IdsInv'
    BY <2>1, LockKeepsIds
  <2>2. ASSUME NEW c \in Accounts, NEW id \in DOMAIN lock_infos, NEW r \in NewReleases,
               NEW i \in 1..Len(lock_infos[id].schedules), ExtendLock(c, id, i, r)
        PROVE  IdsInv'
    BY <2>2, ExtendLockKeepsIds
  <2>3. ASSUME NEW c \in Accounts, NEW d \in Accounts, NEW id \in DOMAIN lock_infos,
               TransferLock(c, id, d)
        PROVE  IdsInv'
    BY <2>3, TransferLockKeepsIds
  <2>4. ASSUME NEW c \in Accounts, NEW id \in DOMAIN lock_infos, Claim(c, id)
        PROVE  IdsInv'
    BY <2>4, ClaimKeepsIds
  <2>5. ASSUME \/ \E h \in PackageHashes : Initialize(h)
               \/ \E c, d \in Accounts : SetAdmin(c, d)
               \/ \E c \in Accounts : SetPauseContract(c)
               \/ Tick
               \/ UNCHANGED vars
        PROVE  IdsInv'
    <3>1. UNCHANGED <<lock_infos, id_arr>>
      BY <2>5 DEF Initialize, SetAdmin, SetPauseContract, Tick, vars
    <3> QED BY <3>1 DEF IdsInv, OpenIsListed, ListedIsOpen, NoRepetition
  <2> QED BY <2>1, <2>2, <2>3, <2>4, <2>5 DEF Next
<1>3. IdsInv => IdsMatchLocks
  BY IdsInvIsIdsMatchLocks
<1> QED BY <1>1, <1>2, <1>3, InitHasType, TypeStep, PTL DEF Spec

-----------------------------------------------------------------------------
\* What the schedules of a lock hold

Total(s) == SumFunctionOnSet(Amounts(s), 1..Len(s))

LEMMA TotalType ==
  ASSUME NEW s \in Seq(LockSchedule)
  PROVE  Total(s) \in Nat
BY AmountsSum DEF Total

\* The releases of a new lock hold what was paid in, but for the rest of the division.
LEMMA NewTotalAndDust ==
  ASSUME NEW f \in Nat, NEW g \in Nat, NEW n \in Nat \ {0}, NEW c \in Nat
  PROVE  /\ Total(NewSchedules(f, g, n, c)) + (c % n) = c
         /\ c % n \in Nat
<1> DEFINE s == NewSchedules(f, g, n, c)
<1>1. Len(s) = n /\ s \in Seq(LockSchedule)
  BY NewSchedulesType
<1>2. c \div n \in Int /\ n * (c \div n) + (c % n) = c /\ c % n \in Nat
  OBVIOUS
<1>3. \A i \in 1..n : Amounts(s)[i] = c \div n
  BY <1>1 DEF Amounts, NewSchedules
<1> HIDE DEF s
<1>4. IsFiniteSet(1..n) /\ Cardinality(1..n) = n
  BY FS_Interval
<1>5. SumFunctionOnSet(Amounts(s), 1..n) = Cardinality(1..n) * (c \div n)
  BY <1>2, <1>3, <1>4, SumOfConstant
<1>6. SumFunctionOnSet(Amounts(s), 1..n) = n * (c \div n)
  BY <1>4, <1>5
<1> QED BY <1>1, <1>2, <1>6 DEF Total, s

\* Rounding down, they hold at most what was paid in.
LEMMA NewTotal ==
  ASSUME NEW f \in Nat, NEW g \in Nat, NEW n \in Nat \ {0}, NEW c \in Nat
  PROVE  Total(NewSchedules(f, g, n, c)) <= c
<1> DEFINE s == NewSchedules(f, g, n, c)
<1>1. s \in Seq(LockSchedule) /\ Total(s) + (c % n) = c /\ c % n \in Nat
  BY NewSchedulesType, NewTotalAndDust
<1>2. Total(s) \in Nat
  BY <1>1, TotalType
<1> HIDE DEF s
<1> QED BY <1>1, <1>2 DEF s

\* A claim takes from the schedules exactly what it pays.
LEMMA ClaimedTotal ==
  ASSUME NEW s \in Seq(LockSchedule)
  PROVE  Total(Claimed(s)) = Total(s) - AmountToTransfer(s)
<1> DEFINE n == Len(s)
           r == Claimed(s)
<1>1. Len(r) = n /\ n \in Nat
  BY ClaimedType
<1>2. IsFiniteSet(1..n) /\ Due(s) \in SUBSET (1..n)
  BY <1>1, FS_Interval DEF Due
<1>3. \A i \in 1..n : s[i] \in LockSchedule
  OBVIOUS
<1>4. \A i \in 1..n : /\ Amounts(s)[i] = s[i].amount
                     /\ Amounts(s)[i] \in Int
  BY <1>3 DEF Amounts, LockSchedule
<1>5. \A i \in 1..n : Amounts(r)[i] = r[i].amount
  BY <1>1 DEF Amounts
<1>6. \A i \in 1..n : r[i].amount = IF i \in Due(s) THEN 0 ELSE s[i].amount
  BY <1>3 DEF Claimed, LockSchedule
<1> HIDE DEF r, n
<1>7. \A i \in 1..n : Amounts(r)[i] = IF i \in Due(s) THEN 0 ELSE Amounts(s)[i]
  BY <1>4, <1>5, <1>6
<1>8. SumFunctionOnSet(Amounts(r), 1..n)
        = SumFunctionOnSet(Amounts(s), 1..n) - SumFunctionOnSet(Amounts(s), Due(s))
  <2> DEFINE f == Amounts(s)
             g == Amounts(r)
             S == 1..n
             T == Due(s)
  <2>1. IsFiniteSet(S) /\ T \in SUBSET S
    BY <1>2
  <2>2. \A i \in S : f[i] \in Int
    BY <1>4
  <2>3. \A i \in S : g[i] = IF i \in T THEN 0 ELSE f[i]
    BY <1>7
  <2> HIDE DEF f, g, S, T
  <2>4. SumFunctionOnSet(g, S) = SumFunctionOnSet(f, S) - SumFunctionOnSet(f, T)
    BY <2>1, <2>2, <2>3, SumZeroedOn
  <2> QED BY <2>4 DEF f, g, S, T
<1>9. Total(r) = SumFunctionOnSet(Amounts(r), 1..n)
  BY <1>1 DEF Total
<1>10. Total(s) = SumFunctionOnSet(Amounts(s), 1..n)
  BY DEF Total, n
<1>11. AmountToTransfer(s) = SumFunctionOnSet(Amounts(s), Due(s))
  BY DEF AmountToTransfer
<1> QED BY Zenon, <1>8, <1>9, <1>10, <1>11 DEF r

LEMMA AllClaimedTotal ==
  ASSUME NEW s \in Seq(LockSchedule), AllClaimed(s)
  PROVE  Total(s) = 0
<1>1. IsFiniteSet(1..Len(s)) /\ Cardinality(1..Len(s)) \in Nat
  <2>1. Len(s) \in Int
    OBVIOUS
  <2>2. IsFiniteSet(1..Len(s))
    BY <2>1, FS_Interval
  <2> QED BY <2>2, FS_CardinalityType
<1>2. \A i \in 1..Len(s) : Amounts(s)[i] = 0
  BY DEF AllClaimed, Amounts
<1>3. SumFunctionOnSet(Amounts(s), 1..Len(s)) = Cardinality(1..Len(s)) * 0
  BY <1>1, <1>2, SumOfConstant
<1> QED BY <1>1, <1>3 DEF Total

\* Postponing a release leaves the amounts as they are.
LEMMA PostponedTotal ==
  ASSUME NEW s \in Seq(LockSchedule), NEW i \in 1..Len(s), NEW r \in Nat
  PROVE  Total([s EXCEPT ![i].release = r]) = Total(s)
<1> DEFINE q == [s EXCEPT ![i].release = r]
<1>1. Len(q) = Len(s)
  BY PostponedType
<1>2. \A k \in 1..Len(s) : s[k] \in LockSchedule
  OBVIOUS
<1>3. \A k \in 1..Len(s) : q[k].amount = s[k].amount
  BY <1>2 DEF LockSchedule
<1> HIDE DEF q
<1>4. Amounts(q) = Amounts(s)
  BY <1>1, <1>3 DEF Amounts
<1> QED BY <1>1, <1>4 DEF Total, q

-----------------------------------------------------------------------------
\* What all locks of a token hold

TotalOwed(locks, t) == SumFunctionOnSet(OwedIn(locks, t), DOMAIN locks)

LEMMA OwedType ==
  ASSUME NEW D, NEW locks \in [D -> VestInfo], NEW t
  PROVE  /\ OwedIn(locks, t) = [id \in D |-> OwedIn(locks, t)[id]]
         /\ \A id \in D :
              /\ OwedIn(locks, t)[id] = IF locks[id].token_hash = t
                                        THEN Total(locks[id].schedules) ELSE 0
              /\ OwedIn(locks, t)[id] \in Nat
<1>1. \A id \in D : locks[id].schedules \in Seq(LockSchedule)
  BY DEF VestInfo
<1>2. \A id \in D : Total(locks[id].schedules) \in Nat
  BY <1>1, TotalType
<1>3. \A id \in D : OwedIn(locks, t)[id] = IF locks[id].token_hash = t
                                           THEN Total(locks[id].schedules) ELSE 0
  BY DEF OwedIn, LockTotal, Total
<1>4. OwedIn(locks, t) = [id \in D |-> OwedIn(locks, t)[id]]
  BY DEF OwedIn
<1> QED BY <1>2, <1>3, <1>4

\* A new lock adds what it holds.
LEMMA OwedWithNewLock ==
  ASSUME NEW D, IsFiniteSet(D), NEW locks \in [D -> VestInfo], NEW id, id \notin D,
         NEW more \in [D \cup {id} -> VestInfo], \A x \in D : more[x] = locks[x], NEW t
  PROVE  TotalOwed(more, t) = TotalOwed(locks, t) + OwedIn(more, t)[id]
<1> DEFINE f == OwedIn(locks, t)
           g == OwedIn(more, t)
<1>1. \A x \in D : f[x] \in Int /\ f[x] = IF locks[x].token_hash = t
                                           THEN Total(locks[x].schedules) ELSE 0
  BY OwedType
<1>2. \A x \in D \cup {id} : g[x] \in Int /\ g[x] = IF more[x].token_hash = t
                                                    THEN Total(more[x].schedules) ELSE 0
  BY OwedType
<1> HIDE DEF f, g
<1>3. \A x \in D : g[x] = f[x]
  BY <1>1, <1>2
<1>4. SumFunctionOnSet(g, D \cup {id}) = SumFunctionOnSet(f, D) + g[id]
  BY <1>1, <1>2, <1>3, SumGrows
<1> QED BY <1>4 DEF TotalOwed, f, g

\* A lock that changes changes the sum by the difference.
LEMMA OwedWithChangedLock ==
  ASSUME NEW D, IsFiniteSet(D), NEW locks \in [D -> VestInfo], NEW id \in D,
         NEW next \in [D -> VestInfo], \A x \in D \ {id} : next[x] = locks[x], NEW t
  PROVE  TotalOwed(next, t) = TotalOwed(locks, t) + OwedIn(next, t)[id] - OwedIn(locks, t)[id]
<1> DEFINE f == OwedIn(locks, t)
           g == OwedIn(next, t)
<1>1. \A x \in D : f[x] \in Int /\ f[x] = IF locks[x].token_hash = t
                                           THEN Total(locks[x].schedules) ELSE 0
  BY OwedType
<1>2. \A x \in D : g[x] \in Int /\ g[x] = IF next[x].token_hash = t
                                           THEN Total(next[x].schedules) ELSE 0
  BY OwedType
<1> HIDE DEF f, g
<1>3. \A x \in D \ {id} : f[x] = g[x]
  BY <1>1, <1>2
<1>4. SumFunctionOnSet(g, D) = SumFunctionOnSet(f, D) + g[id] - f[id]
  BY <1>1, <1>2, <1>3, SumChangeAt
<1> QED BY <1>4 DEF TotalOwed, f, g

\* A lock that is cleared takes away what it held.
LEMMA OwedWithoutLock ==
  ASSUME NEW D, IsFiniteSet(D), NEW locks \in [D -> VestInfo], NEW id \in D, NEW t
  PROVE  TotalOwed([x \in D \ {id} |-> locks[x]], t) = TotalOwed(locks, t) - OwedIn(locks, t)[id]
<1> DEFINE E == D \ {id}
           less == [x \in E |-> locks[x]]
<1>1. IsFiniteSet(E) /\ id \notin E /\ E \cup {id} = D
  BY FS_RemoveElement
<1>2. less \in [E -> VestInfo] /\ locks \in [E \cup {id} -> VestInfo]
  BY <1>1
<1>3. \A x \in E : locks[x] = less[x]
  OBVIOUS
<1> HIDE DEF E, less
<1>4. TotalOwed(locks, t) = TotalOwed(less, t) + OwedIn(locks, t)[id]
  BY <1>1, <1>2, <1>3, OwedWithNewLock
<1>5. OwedIn(locks, t)[id] \in Nat /\ \A x \in E : OwedIn(less, t)[x] \in Int
  BY <1>2, OwedType
<1>6. TotalOwed(less, t) \in Int
  <2>1. DOMAIN less = E
    BY <1>2
  <2> QED BY <1>1, <1>5, <2>1, SumIsInt DEF TotalOwed
<1> QED BY <1>4, <1>5, <1>6 DEF E, less

LEMMA TotalOwedType ==
  ASSUME NEW D, IsFiniteSet(D), NEW locks \in [D -> VestInfo], NEW t
  PROVE  TotalOwed(locks, t) \in Nat
<1>1. \A id \in D : OwedIn(locks, t)[id] \in Nat
  BY OwedType
<1>2. DOMAIN locks = D
  OBVIOUS
<1> QED BY <1>1, <1>2, SumIsNat DEF TotalOwed

-----------------------------------------------------------------------------
\* Custody

Covered == \A t \in Tokens : TotalOwed(lock_infos, t) <= bal[t][Self]

CustodyInv == self_contract_hash \in {Self, NoHash} => Covered

LEMMA CustodyInvIsCustody == CustodyInv <=> Custody
BY DEF CustodyInv, Covered, Custody, Outstanding, TotalOwed

\* The locks that are there are finitely many.
LEMMA LocksType ==
  ASSUME TypeInv
  PROVE  /\ IsFiniteSet(DOMAIN lock_infos)
         /\ lock_infos \in [DOMAIN lock_infos -> VestInfo]
         /\ bal \in [Tokens -> [Holders -> Nat]]
         /\ Self \in Holders
         /\ index \in Nat /\ index \notin DOMAIN lock_infos
<1>1. index \in Nat /\ index - 1 \in Int /\ 0 \in Int
  BY DEF TypeInv, TypeOK
<1>2. IsFiniteSet(0..(index - 1)) /\ DOMAIN lock_infos \in SUBSET (0..(index - 1))
  BY <1>1, FS_Interval DEF TypeInv, TypeOK
<1>3. IsFiniteSet(DOMAIN lock_infos)
  BY <1>2, FS_Subset
<1>4. index \notin DOMAIN lock_infos
  BY <1>1, <1>2
<1>5. Self \in Holders
  BY HashAssumption DEF Holders
<1> QED BY <1>1, <1>3, <1>4, <1>5 DEF TypeInv, TypeOK

\* What an account pays in arrives, and what is paid out leaves.
LEMMA PaymentAtSelf ==
  ASSUME NEW b \in [Tokens -> [Holders -> Nat]], NEW t \in Tokens, NEW c \in Accounts,
         NEW n \in Nat, NEW u \in Tokens
  PROVE  /\ TransferFrom(b, t, c, Self, n)[u][Self]
              = IF u = t THEN b[u][Self] + n ELSE b[u][Self]
         /\ Transfer(b, t, Self, c, n)[u][Self]
              = IF u = t THEN b[u][Self] - n ELSE b[u][Self]
<1>1. Self \in Holders /\ c \in Holders /\ c # Self
  BY HashAssumption DEF Holders
<1> QED BY <1>1 DEF TransferFrom, Transfer

\* The lemmas on sums, of the locks before and after a step.
LEMMA OwedChange ==
  ASSUME TypeInv, NEW id \in DOMAIN lock_infos,
         lock_infos' \in [DOMAIN lock_infos -> VestInfo],
         \A x \in DOMAIN lock_infos \ {id} : lock_infos'[x] = lock_infos[x], NEW t
  PROVE  TotalOwed(lock_infos', t)
           = TotalOwed(lock_infos, t) + OwedIn(lock_infos', t)[id] - OwedIn(lock_infos, t)[id]
<1> DEFINE D == DOMAIN lock_infos
           locks == lock_infos
           next == lock_infos'
<1>1. /\ IsFiniteSet(D) /\ locks \in [D -> VestInfo] /\ id \in D
      /\ next \in [D -> VestInfo] /\ \A x \in D \ {id} : next[x] = locks[x]
  BY LocksType
<1> HIDE DEF D, locks, next
<1>2. TotalOwed(next, t) = TotalOwed(locks, t) + OwedIn(next, t)[id] - OwedIn(locks, t)[id]
  BY <1>1, OwedWithChangedLock
<1> QED BY <1>2 DEF locks, next

LEMMA OwedEntry ==
  ASSUME NEW locks, NEW id \in DOMAIN locks, NEW t
  PROVE  OwedIn(locks, t)[id]
           = IF locks[id].token_hash = t THEN Total(locks[id].schedules) ELSE 0
BY DEF OwedIn, LockTotal, Total

LEMMA LockKeepsCustody ==
  ASSUME TypeInv, CustodyInv, NEW c \in Accounts, NEW t \in Tokens,
         NEW a \in CliffAmounts, NEW d \in Durations, NEW g \in Gaps, NEW n \in Counts,
         Lock(c, t, a, d, g, n), self_contract_hash \in {Self, NoHash}
  PROVE  Covered'
<1> DEFINE D == DOMAIN lock_infos
           s == NewSchedules(now + d, g, n, a)
<1>1. self_contract_hash = Self /\ Covered
  BY HashAssumption DEF Lock, TypeInv, InitOnce, CustodyInv
<1>2. a \in Nat /\ now + d \in Nat /\ g \in Nat /\ n \in Nat \ {0}
  BY NumberAssumption DEF Lock, TypeInv, TypeOK
<1>3. s \in Seq(LockSchedule) /\ Total(s) <= a /\ Total(s) \in Nat
  BY <1>2, NewSchedulesType, NewTotal, TotalType
<1>4. /\ DOMAIN lock_infos' = D \cup {index}
      /\ \A id \in D : lock_infos'[id] = lock_infos[id]
      /\ lock_infos'[index].token_hash = t
      /\ lock_infos'[index].schedules = s
  BY LocksType DEF Lock, UpdateStorage
<1>5. lock_infos' \in [D \cup {index} -> VestInfo]
  BY <1>4, LockKeepsType DEF TypeInv, TypeOK
<1>6. bal' = TransferFrom(bal, t, c, Self, a)
  BY <1>1 DEF Lock
<1> SUFFICES ASSUME NEW u \in Tokens
             PROVE  TotalOwed(lock_infos', u) <= bal'[u][Self]
  BY DEF Covered
<1> HIDE DEF s
<1>7. TotalOwed(lock_infos', u) = TotalOwed(lock_infos, u) + OwedIn(lock_infos', u)[index]
  <2> DEFINE locks == lock_infos
             more == lock_infos'
  <2>1. /\ IsFiniteSet(D) /\ locks \in [D -> VestInfo] /\ index \notin D
        /\ more \in [D \cup {index} -> VestInfo] /\ \A id \in D : more[id] = locks[id]
    BY <1>4, <1>5, LocksType
  <2> HIDE DEF D, locks, more
  <2>2. TotalOwed(more, u) = TotalOwed(locks, u) + OwedIn(more, u)[index]
    BY <2>1, OwedWithNewLock
  <2> QED BY <2>2 DEF locks, more
<1>8. OwedIn(lock_infos', u)[index] = IF t = u THEN Total(s) ELSE 0
  BY <1>4, <1>5, OwedType
<1>9. TotalOwed(lock_infos, u) \in Nat /\ TotalOwed(lock_infos, u) <= bal[u][Self]
  BY <1>1, LocksType, TotalOwedType DEF Covered
<1>10. bal'[u][Self] = (IF u = t THEN bal[u][Self] + a ELSE bal[u][Self]) /\ bal[u][Self] \in Nat
  BY <1>2, <1>6, LocksType, PaymentAtSelf
<1> QED BY <1>2, <1>3, <1>7, <1>8, <1>9, <1>10

LEMMA ExtendLockKeepsCustody ==
  ASSUME TypeInv, CustodyInv, NEW c \in Accounts, NEW id \in DOMAIN lock_infos,
         NEW r \in NewReleases, NEW i \in 1..Len(lock_infos[id].schedules),
         ExtendLock(c, id, i, r)
  PROVE  CustodyInv'
<1> DEFINE D == DOMAIN lock_infos
           s == lock_infos[id].schedules
           q == [s EXCEPT ![i].release = r]
<1>1. r \in Nat /\ s \in Seq(LockSchedule) /\ i \in 1..Len(s)
  BY LocksType, NumberAssumption DEF VestInfo
<1>2. Total(q) = Total(s)
  <2> HIDE DEF s
  <2> QED BY <1>1, PostponedTotal
<1>3. /\ DOMAIN lock_infos' = D
      /\ \A x \in D \ {id} : lock_infos'[x] = lock_infos[x]
      /\ lock_infos'[id].token_hash = lock_infos[id].token_hash
      /\ lock_infos'[id].schedules = q
  BY LocksType DEF ExtendLock, VestInfo
<1>4. lock_infos' \in [D -> VestInfo]
  BY <1>3, ExtendLockKeepsType DEF TypeInv, TypeOK
<1> HIDE DEF s, q
<1>5. ASSUME NEW u \in Tokens
      PROVE  TotalOwed(lock_infos', u) = TotalOwed(lock_infos, u)
  <2>1. TotalOwed(lock_infos', u)
          = TotalOwed(lock_infos, u) + OwedIn(lock_infos', u)[id] - OwedIn(lock_infos, u)[id]
    BY <1>3, <1>4, LocksType, OwedChange
  <2>2. OwedIn(lock_infos', u)[id] = OwedIn(lock_infos, u)[id]
    BY <1>2, <1>3, OwedEntry DEF s
  <2>3. TotalOwed(lock_infos, u) \in Nat /\ OwedIn(lock_infos, u)[id] \in Nat
    BY LocksType, TotalOwedType, OwedType
  <2> QED BY <2>1, <2>2, <2>3
<1>6. UNCHANGED <<bal, self_contract_hash>>
  BY DEF ExtendLock
<1> QED BY <1>5, <1>6 DEF CustodyInv, Covered

LEMMA TransferLockKeepsCustody ==
  ASSUME TypeInv, CustodyInv, NEW c \in Accounts, NEW d \in Accounts,
         NEW id \in DOMAIN lock_infos, TransferLock(c, id, d)
  PROVE  CustodyInv'
<1>1. /\ DOMAIN lock_infos' = DOMAIN lock_infos
      /\ \A x \in DOMAIN lock_infos :
           /\ lock_infos'[x].token_hash = lock_infos[x].token_hash
           /\ lock_infos'[x].schedules = lock_infos[x].schedules
  BY LocksType DEF TransferLock, UpdateStorageTransferLock, VestInfo
<1>2. \A u \in Tokens : OwedIn(lock_infos', u) = OwedIn(lock_infos, u)
  BY <1>1 DEF OwedIn, LockTotal
<1>3. \A u \in Tokens : TotalOwed(lock_infos', u) = TotalOwed(lock_infos, u)
  BY <1>1, <1>2 DEF TotalOwed
<1>4. UNCHANGED <<bal, self_contract_hash>>
  BY DEF TransferLock
<1> QED BY <1>3, <1>4 DEF CustodyInv, Covered

LEMMA ClaimKeepsCustody ==
  ASSUME TypeInv, CustodyInv, NEW c \in Accounts, NEW id \in DOMAIN lock_infos,
         Claim(c, id), self_contract_hash \in {Self, NoHash}
  PROVE  Covered'
<1> DEFINE D == DOMAIN lock_infos
           t == lock_infos[id].token_hash
           s == lock_infos[id].schedules
           rest == Claimed(s)
           amount == AmountToTransfer(s)
<1>1. lock_infos[id] \in VestInfo /\ t \in Tokens /\ s \in Seq(LockSchedule)
  BY LocksType DEF VestInfo
<1>2. /\ amount \in Nat /\ rest \in Seq(LockSchedule)
      /\ Total(rest) = Total(s) - amount /\ Total(s) \in Nat
  <2> HIDE DEF s
  <2> QED BY <1>1, AmountToTransferType, ClaimedType, ClaimedTotal, TotalType
<1>3. Covered
  BY DEF Claim, CanClaim, CustodyInv
<1>4. bal' = Transfer(bal, t, Self, c, amount)
  BY DEF Claim, CanClaim
<1>5. \/ lock_infos' = [lock_infos EXCEPT ![id].schedules = rest]
      \/ AllClaimed(rest) /\ lock_infos' = [x \in D \ {id} |-> lock_infos[x]]
  BY DEF Claim
<1> SUFFICES ASSUME NEW u \in Tokens
             PROVE  TotalOwed(lock_infos', u) <= bal'[u][Self]
  BY DEF Covered
<1> DEFINE owed == TotalOwed(lock_infos, u)
           entry == OwedIn(lock_infos, u)[id]
<1>6. owed \in Nat /\ owed <= bal[u][Self] /\ bal[u][Self] \in Nat
  BY <1>3, LocksType, TotalOwedType DEF Covered
<1>7. entry = IF t = u THEN Total(s) ELSE 0
  BY OwedEntry
<1> HIDE DEF amount, rest
<1>8. bal'[u][Self] = IF u = t THEN bal[u][Self] - amount ELSE bal[u][Self]
  <2>1. bal \in [Tokens -> [Holders -> Nat]] /\ t \in Tokens /\ amount \in Nat
    BY <1>1, <1>2, LocksType
  <2> HIDE DEF t, s
  <2>2. Transfer(bal, t, Self, c, amount)[u][Self]
          = IF u = t THEN bal[u][Self] - amount ELSE bal[u][Self]
    BY <2>1, PaymentAtSelf
  <2> QED BY Zenon, <1>4, <2>2
\* The lock loses what the contract pays, whether it stays or is cleared.
<1>9. TotalOwed(lock_infos', u) = IF t = u THEN owed - amount ELSE owed
  <2>1. CASE lock_infos' = [lock_infos EXCEPT ![id].schedules = rest]
    <3>1. /\ lock_infos' \in [D -> VestInfo]
          /\ \A x \in D \ {id} : lock_infos'[x] = lock_infos[x]
          /\ id \in DOMAIN lock_infos'
          /\ lock_infos'[id].token_hash = t /\ lock_infos'[id].schedules = rest
      <4>1. [lock_infos[id] EXCEPT !.schedules = rest] \in VestInfo
        BY <1>1, <1>2 DEF VestInfo
      <4> QED BY <1>1, <2>1, <4>1, LocksType DEF VestInfo
    <3>2. TotalOwed(lock_infos', u) = owed + OwedIn(lock_infos', u)[id] - entry
      BY <3>1, OwedChange
    <3>3. OwedIn(lock_infos', u)[id] = IF t = u THEN Total(rest) ELSE 0
      BY <3>1, OwedEntry
    <3> HIDE DEF owed, entry, t, s
    <3> QED BY <1>2, <1>6, <1>7, <3>2, <3>3
  <2>2. CASE AllClaimed(rest) /\ lock_infos' = [x \in D \ {id} |-> lock_infos[x]]
    <3>1. Total(rest) = 0
      BY <1>2, <2>2, AllClaimedTotal
    <3>2. TotalOwed(lock_infos', u) = owed - entry
      <4> DEFINE locks == lock_infos
                 less == [x \in D \ {id} |-> locks[x]]
      <4>1. IsFiniteSet(D) /\ locks \in [D -> VestInfo] /\ id \in D
        BY LocksType
      <4>2. lock_infos' = less
        BY <2>2
      <4> HIDE DEF D, locks
      <4>3. TotalOwed(less, u) = TotalOwed(locks, u) - OwedIn(locks, u)[id]
        BY <4>1, OwedWithoutLock
      <4> QED BY Zenon, <4>2, <4>3 DEF locks
    <3> HIDE DEF owed, entry, t, s
    <3> QED BY <1>2, <1>6, <1>7, <3>1, <3>2
  <2> QED BY <1>5, <2>1, <2>2
<1> HIDE DEF owed, entry, t, s
<1> QED BY <1>2, <1>6, <1>8, <1>9

\* Before init nothing is locked, whatever hash the contract is given then.
LEMMA InitializeCovers ==
  ASSUME TypeInv, NEW h \in PackageHashes, Initialize(h)
  PROVE  Covered'
<1>1. index = 0 /\ DOMAIN lock_infos \subseteq 0..(index - 1)
  BY DEF Initialize, TypeInv, TypeOK, InitOnce
<1>2. DOMAIN lock_infos = {}
  BY <1>1
<1>3. lock_infos' = lock_infos /\ bal' = bal
  BY DEF Initialize
<1>4. \A t \in Tokens : TotalOwed(lock_infos, t) = 0
  BY <1>2, SumOfNone DEF TotalOwed
<1>5. \A t \in Tokens : bal[t][Self] \in Nat
  BY LocksType
<1> QED BY <1>3, <1>4, <1>5 DEF Covered

\* A contract that was given its own package hash holds, of every token, at
\* least what the open locks have still to pay, whatever is locked, postponed,
\* handed over and claimed in whatever order: no claim is paid from another
\* lock's deposit.
THEOREM CustodyCorrect == Spec => []Custody
<1>1. Init => CustodyInv
  <2> SUFFICES ASSUME Init PROVE Covered
    BY DEF CustodyInv
  <2>1. DOMAIN lock_infos = {} /\ \A t \in Tokens : bal[t][Self] \in Nat
    BY InitHasType, LocksType DEF Init
  <2>2. \A t \in Tokens : TotalOwed(lock_infos, t) = 0
    BY <2>1, SumOfNone DEF TotalOwed
  <2> QED BY <2>1, <2>2 DEF Covered
<1>2. TypeInv /\ CustodyInv /\ [Next]_vars => CustodyInv'
  <2> SUFFICES ASSUME TypeInv, CustodyInv, [Next]_vars PROVE CustodyInv'
    OBVIOUS
  <2>1. ASSUME NEW c \in Accounts, NEW t \in Tokens, NEW a \in CliffAmounts,
               NEW d \in Durations, NEW g \in Gaps, NEW n \in Counts, Lock(c, t, a, d, g, n)
        PROVE  CustodyInv'
    <3>1. UNCHANGED self_contract_hash
      BY <2>1 DEF Lock
    <3> QED BY <2>1, <3>1, LockKeepsCustody DEF CustodyInv
  <2>2. ASSUME NEW c \in Accounts, NEW id \in DOMAIN lock_infos, NEW r \in NewReleases,
               NEW i \in 1..Len(lock_infos[id].schedules), ExtendLock(c, id, i, r)
        PROVE  CustodyInv'
    BY <2>2, ExtendLockKeepsCustody
  <2>3. ASSUME NEW c \in Accounts, NEW d \in Accounts, NEW id \in DOMAIN lock_infos,
               TransferLock(c, id, d)
        PROVE  CustodyInv'
    BY <2>3, TransferLockKeepsCustody
  <2>4. ASSUME NEW c \in Accounts, NEW id \in DOMAIN lock_infos, Claim(c, id)
        PROVE  CustodyInv'
    <3>1. UNCHANGED self_contract_hash
      BY <2>4 DEF Claim
    <3> QED BY <2>4, <3>1, ClaimKeepsCustody DEF CustodyInv
  <2>5. ASSUME NEW h \in PackageHashes, Initialize(h)
        PROVE  CustodyInv'
    BY <2>5, InitializeCovers DEF CustodyInv
  <2>6. ASSUME \/ \E c, d \in Accounts : SetAdmin(c, d)
               \/ \E c \in Accounts : SetPauseContract(c)
               \/ Tick
               \/ UNCHANGED vars
        PROVE  CustodyInv'
    <3>1. UNCHANGED <<lock_infos, bal, self_contract_hash>>
      BY <2>6 DEF SetAdmin, SetPauseContract, Tick, vars
    <3> QED BY <3>1 DEF CustodyInv, Covered
  <2> QED BY <2>1, <2>2, <2>3, <2>4, <2>5, <2>6 DEF Next
<1>3. CustodyInv => Custody
  BY CustodyInvIsCustody
<1> QED BY <1>1, <1>2, <1>3, InitHasType, TypeStep, PTL DEF Spec

-----------------------------------------------------------------------------
\* What is due can be claimed

\* Of what the contract owes in a lock's token, the lock's own releases are a part,
\* and of these the ones that are due.
LEMMA DueIsOwed ==
  ASSUME TypeInv, NEW id \in DOMAIN lock_infos
  PROVE  AmountToTransfer(lock_infos[id].schedules)
           <= TotalOwed(lock_infos, lock_infos[id].token_hash)
<1> DEFINE D == DOMAIN lock_infos
           locks == lock_infos
           t == locks[id].token_hash
           s == locks[id].schedules
           others == [x \in D \ {id} |-> locks[x]]
<1>1. IsFiniteSet(D) /\ locks \in [D -> VestInfo] /\ id \in D /\ s \in Seq(LockSchedule)
  BY LocksType DEF VestInfo
<1>2. OwedIn(locks, t)[id] = Total(s)
  BY OwedEntry
<1>3. TotalOwed(locks, t) \in Nat /\ TotalOwed(others, t) \in Nat
  <2>1. IsFiniteSet(D \ {id}) /\ others \in [D \ {id} -> VestInfo]
    BY <1>1, FS_RemoveElement
  <2> QED BY <1>1, <2>1, TotalOwedType
<1> HIDE DEF D, locks, t, s
<1>4. TotalOwed(others, t) = TotalOwed(locks, t) - OwedIn(locks, t)[id]
  <2>1. IsFiniteSet(D) /\ locks \in [D -> VestInfo] /\ id \in D
    BY <1>1
  <2> QED BY <2>1, OwedWithoutLock
<1>5. /\ AmountToTransfer(s) \in Nat /\ Total(s) \in Nat
      /\ Total(Claimed(s)) = Total(s) - AmountToTransfer(s) /\ Total(Claimed(s)) \in Nat
  BY <1>1, AmountToTransferType, ClaimedType, ClaimedTotal, TotalType
<1> HIDE DEF others
<1>6. AmountToTransfer(s) <= TotalOwed(locks, t)
  BY <1>2, <1>3, <1>4, <1>5
<1> QED BY <1>6 DEF locks, t, s

\* A release in the past that holds something is part of what a claim pays.
LEMMA OverdueIsDue ==
  ASSUME TypeInv, NEW s \in Seq(LockSchedule), Overdue(s)
  PROVE  AmountToTransfer(s) # 0
<1>1. PICK i \in 1..Len(s) : s[i].amount # 0 /\ s[i].release < now
  BY DEF Overdue
<1>2. now \in Nat /\ \A k \in 1..Len(s) : s[k] \in LockSchedule
  BY DEF TypeInv, TypeOK
<1>3. IsFiniteSet(Due(s)) /\ Due(s) \subseteq 1..Len(s)
  <2>1. Due(s) \subseteq 1..Len(s)
    BY DEF Due
  <2>2. IsFiniteSet(1..Len(s))
    BY FS_Interval
  <2> QED BY <2>1, <2>2, FS_Subset
<1>4. \A k \in Due(s) : Amounts(s)[k] = s[k].amount /\ Amounts(s)[k] \in Nat
  BY <1>2, <1>3 DEF Amounts, LockSchedule
<1>5. i \in Due(s)
  BY <1>1, <1>2 DEF Due, LockSchedule
<1> DEFINE f == Amounts(s)
           S == Due(s)
<1>6. IsFiniteSet(S) /\ (\A k \in S : f[k] \in Nat) /\ i \in S /\ f[i] # 0
  BY <1>1, <1>3, <1>4, <1>5
<1> HIDE DEF f, S
<1>7. SumFunctionOnSet(f, S) = f[i] + SumFunctionOnSet(f, S \ {i})
  <2>1. \A k \in S : f[k] \in Int
    BY <1>6
  <2> QED BY <1>6, <2>1, SumTakeOut
<1>8. SumFunctionOnSet(f, S \ {i}) \in Nat
  BY <1>6, FS_RemoveElement, SumIsNat
<1>9. SumFunctionOnSet(f, S) # 0
  BY <1>6, <1>7, <1>8
<1> QED BY <1>9 DEF AmountToTransfer, f, S

\* While the contract is not paused and has its own package hash, the recipient of a
\* lock with a release in the past can claim it: the contract has the tokens because it
\* covers all locks at once, and the lock that the claim clears is in its recipient's list.
THEOREM DueCanBeClaimed == Spec => []DueIsClaimable
<1>1. TypeInv /\ IdsMatchLocks /\ Custody => DueIsClaimable
  <2> SUFFICES ASSUME TypeInv, IdsMatchLocks, Custody, ~paused, self_contract_hash = Self,
                      NEW id \in DOMAIN lock_infos,
                      Overdue(lock_infos[id].schedules)
               PROVE  CanClaim(lock_infos[id].recipient, id)
    BY DEF DueIsClaimable
  <2> DEFINE c == lock_infos[id].recipient
             t == lock_infos[id].token_hash
             amount == AmountToTransfer(lock_infos[id].schedules)
  <2>1. index \in Nat /\ id \in 0..(index - 1)
    BY LocksType DEF TypeInv, TypeOK
  <2>2. initialized /\ GetLock(c, id)
    BY <2>1 DEF TypeInv, InitOnce, GetLock
  <2>3. Listed(id_arr[c], id)
    BY DEF IdsMatchLocks
  <2>4. CanPay(bal, t, Self, amount)
    <3>1. t \in Tokens /\ lock_infos[id].schedules \in Seq(LockSchedule)
      BY LocksType DEF VestInfo
    <3>2. TotalOwed(lock_infos, t) <= bal[t][Self]
      BY <3>1, CustodyInvIsCustody DEF CustodyInv, Covered
    <3>3. amount <= TotalOwed(lock_infos, t)
      BY DueIsOwed
    <3>4. amount \in Nat /\ TotalOwed(lock_infos, t) \in Nat /\ bal[t][Self] \in Nat
      BY <3>1, LocksType, TotalOwedType, AmountToTransferType
    <3> HIDE DEF amount, t
    <3> QED BY <3>2, <3>3, <3>4 DEF CanPay
  <2>5. amount # 0
    BY OverdueIsDue, LocksType DEF VestInfo
  <2> QED BY <2>2, <2>3, <2>4, <2>5 DEF CanClaim
<1>2. Spec => []TypeInv
  BY InitHasType, TypeStep, PTL DEF Spec
<1> QED BY <1>1, <1>2, IdsCorrect, CustodyCorrect, PTL
=============================================================================
