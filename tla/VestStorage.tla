------------------------------ MODULE VestStorage ------------------------------
(***************************************************************************)
(* The vesting contract as it is stored: a map of named keys, in which the *)
(* id list of an account appears with its first lock, and a dictionary of  *)
(* byte entries that are overwritten, emptied and never deleted.  Checked  *)
(* to implement VestContract, where the entries are records and every      *)
(* account has a list.                                                     *)
(***************************************************************************)
EXTENDS VestLayout, FiniteSets, Erc20Ledger

CONSTANTS Accounts, Tokens, Self, PackageHashes, NoHash, U64, Supply,
          MaxTime, MaxLocks, CliffAmounts, Durations, Gaps, Counts, NewReleases

\* The names that the contract's own keys have; those of the id lists are
\* account hashes, 64 hexadecimal digits.
Names == {"admin-account", "initialized", "paused",
          "dic_locker_infos", "self_contract_hash", "index"}

ASSUME NamesAssumption == Accounts \cap Names = {}

ASSUME NumberAssumption ==
  /\ U64 \in Nat \ {0} /\ MaxTime \in Nat /\ MaxLocks \in Nat
  /\ CliffAmounts \subseteq Nat /\ Durations \subseteq Nat /\ Gaps \subseteq Nat
  /\ Counts \subseteq Nat /\ NewReleases \subseteq Nat

VARIABLES
  now,   \* the block time
  keys,  \* the contract's named keys: name -> value
  dict,  \* the dictionary "dic_locker_infos": item key -> bytes
  bal    \* the token contracts

storageVars == <<now, keys, dict, bal>>

-----------------------------------------------------------------------------
\* Storage

\* get_key reverts on a name that is not there.  "admin-account", "initialized" and
\* "paused" are made when the contract is deployed, "dic_locker_infos",
\* "self_contract_hash" and "index" together by init, and the list of an account
\* with its first lock.
has_key(name) == name \in DOMAIN keys

\* set_key and dictionary_put: a key is made, or what it stands for overwritten.
Put(f, key, value) ==
  [k \in DOMAIN f \cup {key} |-> IF k = key THEN value ELSE f[k]]

\* The first 15 characters of the contract's own hash and the id: the hash does
\* not change after init, so that ids and item keys correspond.
make_lock_key_id(lock_id) == <<keys["self_contract_hash"], lock_id>>

entry(lock_id) == dict[make_lock_key_id(lock_id)]

\* The id joins the account's list, which is made if need be.
PushId(ks, user_key, id) ==
  Put(ks, user_key, Append(IF user_key \in DOMAIN ks THEN ks[user_key] ELSE << >>, id))

-----------------------------------------------------------------------------
\* The names are the keys; what they stand for is this.
StoredHash == IF has_key("self_contract_hash") THEN keys["self_contract_hash"] ELSE NoHash

StoredIndex == IF has_key("index") THEN keys["index"] ELSE 0

LockInfos ==
  LET open == {k \in DOMAIN dict : dict[k] # clear_entry}
  IN  [id \in {k[2] : k \in open} |-> unpack(entry(id))]

IdLists == [a \in Accounts |-> IF has_key(a) THEN keys[a] ELSE << >>]

Vest == INSTANCE VestContract
          WITH initialized        <- keys["initialized"],
               paused             <- keys["paused"],
               admin              <- keys["admin-account"],
               self_contract_hash <- StoredHash,
               index              <- StoredIndex,
               lock_infos         <- LockInfos,
               id_arr             <- IdLists

\* An id leaves the list of an account: get_key reverts when the account has
\* none, unwrap panics when the id is not in it.
CanRemoveId(user_key, id) == has_key(user_key) /\ Vest!Listed(keys[user_key], id)

RemoveId(ks, user_key, id) ==
  Put(ks, user_key, Vest!SwapRemove(ks[user_key], Vest!Position(ks[user_key], id)))

is_id_valid(lock_id) == has_key("index") /\ lock_id <= keys["index"]

is_valid_entry(src) == src # << >>

\* get_lock, whose result is unpack(entry(lock_id)).
get_lock(caller, lock_id) ==
  /\ is_id_valid(lock_id)
  /\ has_key("dic_locker_infos")
  /\ make_lock_key_id(lock_id) \in DOMAIN dict
  /\ is_valid_entry(entry(lock_id))
  /\ unpack_recipient(entry(lock_id)) = caller
  /\ CanUnpack(entry(lock_id))

-----------------------------------------------------------------------------
Init ==
  /\ now = 0
  /\ \E a \in Accounts :
       keys = [k \in {"admin-account", "initialized", "paused"} |->
                 IF k = "admin-account" THEN a ELSE FALSE]
  /\ dict = [k \in {} |-> << >>]
  /\ bal = [t \in Tokens |->
              [h \in Accounts \cup PackageHashes |-> IF h \in Accounts THEN Supply ELSE 0]]

\* Mutated init: nothing but the counter is looked at.
init_again(conthash) ==
  /\ keys' = Put(Put(Put(Put(keys, "dic_locker_infos", "uref"), "self_contract_hash", conthash),
                     "index", 0), "initialized", TRUE)
  /\ UNCHANGED <<now, dict, bal>>

\* new_dictionary fails when the contract has the name already.
init(conthash) ==
  /\ ~keys["initialized"]
  /\ ~has_key("dic_locker_infos")
  /\ keys' = Put(Put(Put(Put(keys, "dic_locker_infos", "uref"), "self_contract_hash", conthash),
                     "index", 0), "initialized", TRUE)
  /\ UNCHANGED <<now, dict, bal>>

lock(caller, tokh, cliff_amount, cliff_durtime, time_between_locks, number_of_locks) ==
  LET first_unlock == now + cliff_durtime
      id   == keys["index"]
      info == [id |-> id, lock_time |-> now, recipient |-> caller, token_hash |-> tokh,
               schedules |-> Vest!NewSchedules(first_unlock, time_between_locks,
                                               number_of_locks, cliff_amount)]
  IN  /\ ~keys["paused"]
      /\ has_key("dic_locker_infos")
      /\ id < MaxLocks
      /\ first_unlock < U64
      /\ number_of_locks # 0
      /\ time_between_locks * (number_of_locks - 1) < U64
      /\ CanPay(bal, tokh, caller, cliff_amount)
      /\ bal' = TransferFrom(bal, tokh, caller, keys["self_contract_hash"], cliff_amount)
      /\ dict' = Put(dict, make_lock_key_id(id), pack(info))
      /\ keys' = Put(PushId(keys, caller, id), "index", id + 1)
      /\ UNCHANGED now

extend_lock(caller, lock_id, i, new_release) ==
  /\ ~keys["paused"]
  /\ get_lock(caller, lock_id)
  /\ LET info == unpack(entry(lock_id))
     IN  /\ i \in 1..Len(info.schedules)
         /\ info.schedules[i].release <= new_release
         /\ dict' = Put(dict, make_lock_key_id(lock_id),
                        pack([info EXCEPT !.schedules[i].release = new_release]))
  /\ UNCHANGED <<now, keys, bal>>

\* The list of the old owner is stored before that of the new one is read.
transfer_lock(caller, lock_id, new_owner) ==
  /\ ~keys["paused"]
  /\ get_lock(caller, lock_id)
  /\ LET info == unpack(entry(lock_id))
     IN  /\ CanRemoveId(caller, info.id)
         /\ keys' = PushId(RemoveId(keys, caller, info.id), new_owner, info.id)
         /\ dict' = Put(dict, make_lock_key_id(lock_id),
                        pack([info EXCEPT !.recipient = new_owner]))
  /\ UNCHANGED <<now, bal>>

claim(caller, lock_id) ==
  /\ ~keys["paused"]
  /\ get_lock(caller, lock_id)
  /\ LET info   == unpack(entry(lock_id))
         amount == Vest!AmountToTransfer(info.schedules)
         rest   == Vest!Claimed(info.schedules)
     IN  /\ amount # 0
         /\ CanPay(bal, info.token_hash, Self, amount)
         /\ bal' = Transfer(bal, info.token_hash, Self, caller, amount)
         /\ \/ /\ ~Vest!AllClaimed(rest)
               /\ dict' = Put(dict, make_lock_key_id(lock_id),
                              pack([info EXCEPT !.schedules = rest]))
               /\ UNCHANGED keys
            \/ /\ Vest!AllClaimed(rest)
               /\ CanRemoveId(caller, lock_id)
               /\ dict' = Put(dict, make_lock_key_id(lock_id), clear_entry)
               /\ keys' = RemoveId(keys, caller, lock_id)
  /\ UNCHANGED now

set_admin(caller, account) ==
  /\ caller = keys["admin-account"]
  /\ keys' = Put(keys, "admin-account", account)
  /\ UNCHANGED <<now, dict, bal>>

set_pause_contract(caller) ==
  /\ caller = keys["admin-account"]
  /\ keys' = Put(keys, "paused", ~keys["paused"])
  /\ UNCHANGED <<now, dict, bal>>

\* The chain: the block time moves on between deploys.
Tick ==
  /\ now < MaxTime
  /\ now' = now + 1
  /\ UNCHANGED <<keys, dict, bal>>

\* Any id and any place may be asked for, those that do not exist included.
Next ==
  \/ \E h \in PackageHashes : init(h)
  \/ \E c \in Accounts, t \in Tokens, a \in CliffAmounts, d \in Durations, g \in Gaps,
        n \in Counts : lock(c, t, a, d, g, n)
  \/ \E c \in Accounts, id \in 0..MaxLocks, i \in UNION {1..(n + 1) : n \in Counts},
        r \in NewReleases : extend_lock(c, id, i, r)
  \/ \E c, d \in Accounts, id \in 0..MaxLocks : transfer_lock(c, id, d)
  \/ \E c \in Accounts, id \in 0..MaxLocks : claim(c, id)
  \/ \E c, d \in Accounts : set_admin(c, d)
  \/ \E c \in Accounts : set_pause_contract(c)
  \/ Tick

Spec == Init /\ [][Next]_storageVars

-----------------------------------------------------------------------------
\* Properties

\* What is read back from the entries and the named keys behaves as the locks
\* and the lists of VestContract: no field is lost or misplaced between pack and
\* unpack, an emptied entry is no lock, and an account without a key has an
\* empty list.
StorageKept == Vest!Spec

\* The entry of a finished lock stays empty: a lock that was paid out does not
\* come back, whoever claims or hands it over once more, and no later lock is
\* stored under its id.
FinishedForGood ==
  [][\A k \in DOMAIN dict : dict[k] = clear_entry => dict'[k] = clear_entry]_storageVars
=============================================================================
