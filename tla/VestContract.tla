----------------------------- MODULE VestContract -----------------------------
(***************************************************************************)
(* The vesting contract of control_erc20_contract/src/vest.rs: tokens are  *)
(* locked with a release schedule, a lock can be handed to another account,*)
(* one of its releases can be postponed, and its recipient claims what is  *)
(* due.  One action is one successful deploy; a deploy that reverts leaves *)
(* the contract as it was and is a stuttering step.                        *)
(***************************************************************************)
EXTENDS Integers, Sequences, FiniteSets, Functions, Erc20Ledger

CONSTANTS
  Accounts,       \* account hashes that sign deploys
  Tokens,         \* contract hashes of ERC-20 tokens
  Self,           \* the contract package hash the tokens know this contract by
  PackageHashes,  \* hashes that init may be given; Self is the right one
  NoHash,         \* KEY_NAME_SELF_CONTRACT_HASH before init has written it
  U64,            \* 2^64: u64 sums wrap around at this value
  Supply,         \* tokens of each kind that each account starts with
  MaxTime,        \* bound: the last block time of the model
  MaxLocks,       \* bound: how many locks are ever made
  CliffAmounts, Durations, Gaps, Counts,   \* bound: the arguments of lock
  NewReleases                              \* bound: the arguments of extend_lock

ASSUME HashAssumption ==
  /\ Self \in PackageHashes
  /\ NoHash \notin PackageHashes
  /\ PackageHashes \cap Accounts = {}
  /\ IsFiniteSet(Tokens) /\ IsFiniteSet(Accounts)

ASSUME NumberAssumption ==
  /\ U64 \in Nat \ {0} /\ Supply \in Nat /\ MaxTime \in Nat /\ MaxLocks \in Nat
  /\ MaxTime < U64
  /\ CliffAmounts \subseteq Nat /\ Durations \subseteq Nat /\ Gaps \subseteq Nat
  /\ Counts \subseteq Nat /\ NewReleases \subseteq Nat

VARIABLES
  now,                 \* the block time
  initialized,         \* KEY_NAME_INITIALIZED
  paused,              \* KEY_NAME_PAUSED
  admin,               \* KEY_NAME_ADMIN
  self_contract_hash,  \* KEY_NAME_SELF_CONTRACT_HASH
  index,               \* KEY_NAME_INDEX, the id of the next lock
  lock_infos,          \* KEY_NAME_DIC_LOCK_INFOS: lock id -> VestInfo
  id_arr,              \* the named key of an account: the ids of its locks
  bal                  \* the token contracts: bal[token][holder]

vars == <<now, initialized, paused, admin, self_contract_hash, index,
          lock_infos, id_arr, bal>>

Holders == Accounts \cup PackageHashes

-----------------------------------------------------------------------------
\* Data

LockSchedule == [release : Nat, amount : Nat]

\* The dictionary of locks is a function on the ids whose entry is not empty:
\* an entry that was cleared and one that was never written both make
\* get_lock revert.
VestInfo == [id : Nat, lock_time : Nat, recipient : Accounts, token_hash : Tokens,
             schedules : Seq(LockSchedule)]

\* Mutated NewSchedules: every release gets the whole amount.
NewSchedulesUndivided(first_unlock, time_between_locks, number_of_locks, cliff_amount) ==
  [i \in 1..number_of_locks |->
     [release |-> (first_unlock + time_between_locks * (i - 1)) % U64,
      amount  |-> cliff_amount]]

\* The schedules that lock() pushes: u64 addition wraps in a release build,
\* U256 division rounds down.
NewSchedules(first_unlock, time_between_locks, number_of_locks, cliff_amount) ==
  [i \in 1..number_of_locks |->
     [release |-> (first_unlock + time_between_locks * (i - 1)) % U64,
      amount  |-> cliff_amount \div number_of_locks]]

\* id_arr.iter().position(|x| *x == id): the first place of the id.
Position(ids, id) ==
  CHOOSE k \in 1..Len(ids) : ids[k] = id /\ \A j \in 1..(k - 1) : ids[j] # id

\* Mutated SwapRemove: the last id is dropped, whichever was asked for.
PopLast(ids, k) == SubSeq(ids, 1, Len(ids) - 1)

\* id_arr.swap_remove(k): the last id takes the place of the removed one.
SwapRemove(ids, k) ==
  [j \in 1..(Len(ids) - 1) |-> IF j = k THEN ids[Len(ids)] ELSE ids[j]]

\* position(..).unwrap() panics, and the deploy reverts, when the id is missing.
Listed(ids, id) == \E k \in 1..Len(ids) : ids[k] = id

\* Mutated Due: only the first release, the cliff, is looked at.
DueAfterCliff(schedules) == {i \in 1..Len(schedules) : now >= schedules[1].release}

\* The places of the schedules whose release time has come, and what they hold: a
\* release is due from its very second on (`timestamp >= s.release`).
Due(schedules) == {i \in 1..Len(schedules) : now >= schedules[i].release}

Amounts(schedules) == [i \in 1..Len(schedules) |-> schedules[i].amount]

AmountToTransfer(schedules) == SumFunctionOnSet(Amounts(schedules), Due(schedules))

\* Mutated Claimed: what was paid stays recorded.
ClaimedNotZeroed(schedules) == schedules

\* The schedules after a claim: what was due is set to zero.
Claimed(schedules) ==
  [i \in 1..Len(schedules) |->
     IF i \in Due(schedules) THEN [schedules[i] EXCEPT !.amount = 0] ELSE schedules[i]]

\* Mutated AllClaimed: a lock is finished as soon as one of its releases is empty.
AnyClaimed(schedules) == \E i \in 1..Len(schedules) : schedules[i].amount = 0

AllClaimed(schedules) == \A i \in 1..Len(schedules) : schedules[i].amount = 0

\* get_lock: the id is not beyond the counter, the entry is there and not
\* empty, and the caller is its recipient.
GetLock(caller, lock_id) ==
  /\ lock_id <= index
  /\ lock_id \in DOMAIN lock_infos
  /\ lock_infos[lock_id].recipient = caller

\* The lock is stored under its id, which joins the caller's list
\* (update_storage).
UpdateStorage(caller, lock) ==
  /\ lock_infos' = [id \in DOMAIN lock_infos \cup {lock.id} |->
                      IF id = lock.id THEN lock ELSE lock_infos[id]]
  /\ id_arr' = [id_arr EXCEPT ![caller] = Append(@, lock.id)]

\* The id moves from one list to the other.  The old owner's list is written
\* back before the new owner's is read, so a lock can be handed to its own
\* recipient (update_storage_transfer_lock).
UpdateStorageTransferLock(old_owner, new_owner, lock_id, lock) ==
  /\ Listed(id_arr[old_owner], lock.id)
  /\ LET removed == [id_arr EXCEPT ![old_owner] = SwapRemove(@, Position(@, lock.id))]
     IN  id_arr' = [removed EXCEPT ![new_owner] = Append(@, lock.id)]
  /\ lock_infos' = [lock_infos EXCEPT ![lock_id] = lock]

-----------------------------------------------------------------------------
\* call(), run once when the contract is deployed by the first admin.
Init ==
  /\ now = 0
  /\ initialized = FALSE
  /\ paused = FALSE
  /\ admin \in Accounts
  /\ self_contract_hash = NoHash
  /\ index = 0
  /\ lock_infos = [id \in {} |-> {}]
  /\ id_arr = [a \in Accounts |-> << >>]
  /\ bal = [t \in Tokens |-> [h \in Holders |-> IF h \in Accounts THEN Supply ELSE 0]]

\* Mutated Initialize: it can be called again.
InitializeAgain(conthash) ==
  /\ initialized' = TRUE
  /\ self_contract_hash' = conthash
  /\ index' = 0
  /\ UNCHANGED <<now, paused, admin, lock_infos, id_arr, bal>>

\* init: once, by anybody, with a package hash that is not checked.
Initialize(conthash) ==
  /\ ~initialized
  /\ initialized' = TRUE
  /\ self_contract_hash' = conthash
  /\ index' = 0
  /\ UNCHANGED <<now, paused, admin, lock_infos, id_arr, bal>>

Lock(caller, tokh, cliff_amount, cliff_durtime, time_between_locks, number_of_locks) ==
  LET first_unlock == now + cliff_durtime
      lock == [id         |-> index,
               lock_time  |-> now,
               recipient  |-> caller,
               token_hash |-> tokh,
               schedules  |-> NewSchedules(first_unlock, time_between_locks,
                                           number_of_locks, cliff_amount)]
  IN  /\ index < MaxLocks
      /\ ~paused
      /\ initialized
      /\ first_unlock < U64                                  \* checked_add
      /\ number_of_locks # 0
      /\ time_between_locks * (number_of_locks - 1) < U64    \* checked_mul
      /\ CanPay(bal, tokh, caller, cliff_amount)
      /\ bal' = TransferFrom(bal, tokh, caller, self_contract_hash, cliff_amount)
      /\ UpdateStorage(caller, lock)
      /\ index' = index + 1
      /\ UNCHANGED <<now, initialized, paused, admin, self_contract_hash>>

\* schedules are numbered from 0 in the code, from 1 here.
ExtendLock(caller, lock_id, i, new_release) ==
  /\ ~paused
  /\ initialized
  /\ GetLock(caller, lock_id)
  /\ i \in 1..Len(lock_infos[lock_id].schedules)
  /\ lock_infos[lock_id].schedules[i].release <= new_release
  /\ lock_infos' = [lock_infos EXCEPT ![lock_id].schedules[i].release = new_release]
  /\ UNCHANGED <<now, initialized, paused, admin, self_contract_hash, index, id_arr, bal>>

TransferLock(caller, lock_id, new_owner) ==
  /\ ~paused
  /\ initialized
  /\ GetLock(caller, lock_id)
  /\ UpdateStorageTransferLock(caller, new_owner, lock_id,
                               [lock_infos[lock_id] EXCEPT !.recipient = new_owner])
  /\ UNCHANGED <<now, initialized, paused, admin, self_contract_hash, index, bal>>

\* claim() goes through: none of its checks, unwraps and transfers fails.
CanClaim(caller, lock_id) ==
  /\ ~paused
  /\ initialized
  /\ GetLock(caller, lock_id)
  /\ LET lock == lock_infos[lock_id]
         amount == AmountToTransfer(lock.schedules)
     IN  /\ amount # 0
         /\ CanPay(bal, lock.token_hash, Self, amount)
         /\ AllClaimed(Claimed(lock.schedules)) => Listed(id_arr[caller], lock_id)

Claim(caller, lock_id) ==
  /\ CanClaim(caller, lock_id)
  /\ LET lock == lock_infos[lock_id]
         amount == AmountToTransfer(lock.schedules)
         rest == Claimed(lock.schedules)
     IN  /\ bal' = Transfer(bal, lock.token_hash, Self, caller, amount)
         /\ \/ /\ ~AllClaimed(rest)
               /\ lock_infos' = [lock_infos EXCEPT ![lock_id].schedules = rest]
               /\ UNCHANGED id_arr
            \/ /\ AllClaimed(rest)                            \* clear_entry
               /\ lock_infos' = [id \in DOMAIN lock_infos \ {lock_id} |-> lock_infos[id]]
               /\ id_arr' = [id_arr EXCEPT ![caller] = SwapRemove(@, Position(@, lock_id))]
  /\ UNCHANGED <<now, initialized, paused, admin, self_contract_hash, index>>

SetAdmin(caller, account) ==
  /\ caller = admin
  /\ admin' = account
  /\ UNCHANGED <<now, initialized, paused, self_contract_hash, index, lock_infos, id_arr, bal>>

SetPauseContract(caller) ==
  /\ caller = admin
  /\ paused' = ~paused
  /\ UNCHANGED <<now, initialized, admin, self_contract_hash, index, lock_infos, id_arr, bal>>

\* The chain: the block time moves on between deploys.
Tick ==
  /\ now < MaxTime
  /\ now' = now + 1
  /\ UNCHANGED <<initialized, paused, admin, self_contract_hash, index, lock_infos, id_arr, bal>>

Next ==
  \/ \E h \in PackageHashes : Initialize(h)
  \/ \E c \in Accounts, t \in Tokens, a \in CliffAmounts, d \in Durations, g \in Gaps,
        n \in Counts : Lock(c, t, a, d, g, n)
  \/ \E c \in Accounts, id \in DOMAIN lock_infos, r \in NewReleases :
       \E i \in 1..Len(lock_infos[id].schedules) : ExtendLock(c, id, i, r)
  \/ \E c, d \in Accounts, id \in DOMAIN lock_infos : TransferLock(c, id, d)
  \/ \E c \in Accounts, id \in DOMAIN lock_infos : Claim(c, id)
  \/ \E c, d \in Accounts : SetAdmin(c, d)
  \/ \E c \in Accounts : SetPauseContract(c)
  \/ Tick

Spec == Init /\ [][Next]_vars

\* Nothing in the contract runs by itself: a lock is paid out because its
\* recipient keeps sending claims.  Each of them may meet a pause or come
\* while the lock belongs to somebody else, hence strong fairness.
Fairness ==
  \A c \in Accounts, id \in 0..(MaxLocks - 1) :
    SF_vars(id \in DOMAIN lock_infos /\ Claim(c, id))

FairSpec == Spec /\ Fairness

-----------------------------------------------------------------------------
\* Properties

TypeOK ==
  /\ now \in 0..MaxTime
  /\ initialized \in BOOLEAN /\ paused \in BOOLEAN
  /\ admin \in Accounts
  /\ self_contract_hash \in PackageHashes \cup {NoHash}
  /\ index \in 0..MaxLocks
  /\ DOMAIN lock_infos \subseteq 0..(index - 1)
  /\ lock_infos \in [DOMAIN lock_infos -> VestInfo]
  /\ id_arr \in [Accounts -> Seq(Nat)]
  /\ bal \in [Tokens -> [Holders -> Nat]]

\* The id lists and the dictionary agree: an account lists a lock exactly when
\* it is the recipient of that lock, the lock is still open, and no id is
\* listed twice.  lock, transfer_lock and claim each write both, in different
\* orders, and transfer_lock and claim panic on an id that is not listed.
IdsMatchLocks ==
  /\ \A id \in DOMAIN lock_infos : /\ lock_infos[id].id = id
                                   /\ Listed(id_arr[lock_infos[id].recipient], id)
  /\ \A a \in Accounts : \A k \in 1..Len(id_arr[a]) :
       /\ id_arr[a][k] \in DOMAIN lock_infos
       /\ lock_infos[id_arr[a][k]].recipient = a
  /\ \A a \in Accounts : \A j, k \in 1..Len(id_arr[a]) :
       id_arr[a][j] = id_arr[a][k] => j = k

\* What the open locks of a token still hold.
LockTotal(lock) == SumFunctionOnSet(Amounts(lock.schedules), 1..Len(lock.schedules))

OwedIn(locks, token) ==
  [id \in DOMAIN locks |-> IF locks[id].token_hash = token THEN LockTotal(locks[id]) ELSE 0]

Outstanding(token) == SumFunctionOnSet(OwedIn(lock_infos, token), DOMAIN lock_infos)

\* A contract initialised with its own package hash holds at least what all
\* open locks of a token have still to pay out: no claim of one lock is ever
\* paid from another lock's deposit.
Custody ==
  self_contract_hash \in {Self, NoHash} =>
    \A t \in Tokens : Outstanding(t) <= bal[t][Self]

\* A release whose time has passed and that still holds something.  In the very second
\* of a release the code pays as well, while control_erc20_contract/README.md:47 and :58
\* have the timestamp be "greater than" the release.
Overdue(schedules) ==
  \E i \in 1..Len(schedules) : schedules[i].amount # 0 /\ schedules[i].release < now

\* While the contract is not paused, a recipient with a release in the past can claim
\* it: none of the checks, panics and transfers on the way of claim() fails, and the
\* contract still has the tokens, whatever was claimed, postponed and handed over.
DueIsClaimable ==
  (~paused /\ self_contract_hash = Self) =>
    \A id \in DOMAIN lock_infos :
      Overdue(lock_infos[id].schedules) => CanClaim(lock_infos[id].recipient, id)

\* A release that is due is paid, or postponed by its recipient, in the end,
\* even if the lock changes hands and the contract is paused again and again,
\* as long as it is not paused for good.  "Due" is the code's reading (vest.rs:332).
DueRelease(id, i) ==
  /\ id \in DOMAIN lock_infos
  /\ i \in 1..Len(lock_infos[id].schedules)
  /\ lock_infos[id].schedules[i].amount # 0
  /\ lock_infos[id].schedules[i].release <= now

DueIsPaid ==
  ([]<>~paused /\ [](self_contract_hash \in {Self, NoHash})) =>
    \A id \in 0..(MaxLocks - 1), i \in UNION {1..n : n \in Counts} :
      DueRelease(id, i) ~> ~DueRelease(id, i)

\* vest.rs:188 calls cliff_durtime the "time from now until first unlock": in a
\* new lock nothing is released before its first release.
CliffComesFirst ==
  [][\A id \in DOMAIN lock_infos' \ DOMAIN lock_infos :
       \A i \in 1..Len(lock_infos'[id].schedules) :
         lock_infos'[id].schedules[1].release <= lock_infos'[id].schedules[i].release]_vars

\* The repository's README.md:3-5 has the contract release "those tokens", the ones sent to it,
\* according to the schedule: once nothing is left in any lock that could be
\* released, nothing is left over.
NothingLeftOver ==
  (\A id \in DOMAIN lock_infos : AllClaimed(lock_infos[id].schedules)) =>
    \A t \in Tokens : bal[t][Self] = 0

=============================================================================
