# Verification of the vesting and staking contracts

This directory keeps TLA+ models of the two Casper smart contracts of this
repository, the configurations under which TLC checks them, and proofs that
TLAPS checks for every value of the models' constants.

## 1. The system

| Part | Source | State | Operations |
|---|---|---|---|
| Vesting contract | `src/control_erc20_contract/src/vest.rs`, `main.rs` | named keys `admin`, `paused`, `initialized`, `index`, `self_contract_hash`; the dictionary lock id -> `VestInfo`; one named key per account with the ids of its locks | `init`, `lock`, `extend_lock`, `transfer_lock`, `claim`, `set_admin`, `set_pause_contract` |
| Staking contract | `src/LockStaking/src/stake.rs`, `pool.rs`, `main.rs` | named keys `admin`, `initialized`, `index`, `self_contract_hash`; the dictionaries pool id -> `StakePool` and (pool, account) -> `UserInfo` | `init`, `add_pool`, `deposit`, `withdraw`, `stop_reward`, `save_me`, `emergency_withdraw`, `set_admin` |
| ERC-20 calls | `interact_token.rs` of both, `session/lock_wasm_portal.rs` | the balances and allowances kept by the token contracts, which are not in the repository | `transfer_from`, `transfer`, `approve` |
| Byte layout | `pack`/`unpack` in `vest.rs` and `pool.rs` | none | struct <-> dictionary entry |
| Session code | `src/session/*.rs` | none of its own; the purses of accounts | `lock_w_fee`: pays a fee in CSPR, then calls `lock`; the portal: `lock`, `transfer_lock`, `extend_lock`, `claim` or a token's `approve`, by number |
| Named keys | `utils.rs` of both, the same code | the contract's named keys | `get_key`, `set_key` |
| Other helpers | `address.rs`, `constants.rs`, `lib.rs` | none | argument wrappers, names, error codes |

**Interaction.** Both contracts hold other people's ERC-20 tokens and know
their balance only through the tokens: `lock`, `deposit` and `add_pool` draw
tokens in with `transfer_from`, to the package hash that was written by `init`
and that nobody checks; `claim`, `withdraw`, `stop_reward`, `save_me` and
`emergency_withdraw` pay out with `transfer`, from the contract's own package.
The two contracts share no state. Within a contract all locks, or all pools, of
one token share one balance, and this is where most of what can go wrong would
be felt: not by the account whose numbers are wrong but by the last one to be
paid.

**What runs when.** A deploy runs alone and either commits or reverts with all
its writes, token calls included, so that nothing is left half done and there is
nothing to recover. The models assume that a token contract only moves balances
when it is called. A token that calls back would
run inside an operation (`withdraw` transfers before it writes its entries,
`stake.rs:257-273`); such re-entrant calls are not modelled. The hard behaviours are

- *long sequences of operations* by several accounts, each of which rewrites
  several pieces of storage that must agree (dictionary and id lists; pool and
  user entries);
- *time*: block time moves between deploys and every operation on a pool or a
  lock means something else before, at and after its start, release or end;
- *numbers*: release builds wrap `u64`, `U256` panics, division rounds down and
  can be by zero;
- *retries*: whoever has not seen a deploy succeed sends it again, and nothing
  tells the contract a second wish from a repetition;
- *layout*: structs are written to and read from dictionary entries byte by
  byte at offsets that are written out by hand, and an entry cannot be deleted,
  only emptied;
- *progress*: nothing runs by itself, and a panic that can be reached once and
  never left locks tokens in for good.

**What makes each part correct.** *Vesting*: the id lists are the open locks of
each account (otherwise `position().unwrap()` panics and a lock is stuck); the
balance covers all open locks; what is due can be claimed and is paid if it is
claimed; nothing is paid early, twice, or to somebody else. *Staking*: the
divisor `total_staked` is the sum of the stakes; a debt never exceeds what was
accrued (otherwise a stake is stuck); stakes and earned rewards of all pools
are covered; what a user earned does not shrink by what others do; a pool that
is over pays nothing more; in every second the stakers share that second's
reward in proportion to their stakes. *Layout*: what is read back is what was
written. *Sessions*: whatever deploys are sent, and sent again, each token of an
account can be accounted for, and CSPR are paid only for a lock. *Ledger*: tokens move, they are not made.

## 2. Modules

| Module | Models |
|---|---|
| `Erc20Ledger` | the effect of the two token calls on `bal[token][holder]`, external to the repository |
| `VestContract` | the vesting contract, one action per entry point, on records and lists, and its properties |
| `TimeLockedEscrow` | what the vesting contract promises, without its storage: tranches with a holder, a due time and an amount |
| `VestEscrow` | the refinement mapping from `VestContract` to `TimeLockedEscrow` |
| `EntryBytes` | bytes of dictionary entries |
| `VestLayout` | `pack` and `unpack` of `VestInfo` |
| `VestStorage` | the vesting contract once more, on named keys and byte entries, and the refinement mapping to `VestContract` |
| `Sessions` | the session programs composed with `VestContract`: purses, allowances, fees, repeated deploys, and where each account's tokens went |
| `StakeContract` | the staking contract, one action per entry point, `update_pool` as an operator inside them, and its properties |
| `StakeLayout` | `pack` and `unpack` of `StakePool` and `UserInfo` |
| `RewardSharing` | what the staking contract promises, without its accounting per share: a second's reward goes to those staked in that second |
| `StakeRewards` | the refinement mapping from `StakeContract` to `RewardSharing` |
| `StakeSolvency` | what the staking contract is committed to: all that its pools may still pay, in whole units and without the clock |
| `MCVest`, `MCVestStorage`, `MCSessions`, `MCStake` | values for TLC |
| `DataLemmas` | lemmas on sums over finite sets and on the fields of byte entries |
| `VestProofs` | theorems about `VestContract` |
| `EscrowProofs` | theorems about the refinement `VestEscrow` |
| `StorageProofs` | theorems about `VestStorage` and its refinement |
| `SessionProofs` | theorems about `Sessions` |
| `StakeProofs` | theorems about `StakeContract` |
| `SolvencyProofs` | theorems about `StakeSolvency`, and `Solvency` from them |
| `LayoutProofs` | the theorem about `StakeLayout` |

The refinements, from the code's storage to what it is for:

    VestStorage  --StorageKept-->  VestContract  --EscrowKept-->  TimeLockedEscrow
    Sessions     --SessionsAreVest-->  VestContract
    StakeContract  --SharingKept-->  RewardSharing

**Actions.** An action is a deploy that succeeds: its guard collects all checks,
`unwrap`s, checked arithmetic and panics on the way, including those of the
token calls (`CanPay`), and its primed variables are what the deploy leaves
behind. A deploy that reverts is a stuttering step. `Tick` moves block time on;
any number of deploys fit into one block time. Where a property says that an
operation cannot be stopped, the operation's guard has a name of its own
(`CanClaim`, `CanWithdraw`, `CanEmergencyWithdraw`); the rest of the action only
says what each variable becomes, so that the action is possible exactly where its
guard holds.

**State.** In `VestContract` and `StakeContract` variables have the names of the
named keys. A dictionary is a function on the ids that have a non-empty entry: a
cleared lock entry (`clear_entry`) and one that was never written both make
`get_lock` revert. An account's named key that is missing is the empty list. In
`StakeContract`, an entry that is missing is `NoStake`, as
`get_user_info_for_pool` returns it. Schedules are numbered from 1, from 0 in the
code. `precision` and `total_reward`, which never change, are not stored twice.

**Storage.** `VestStorage` does not take these simplifications for granted. Its
state is a map of named keys, in which the keys made by `init` and the list of
an account are missing until they are first written, and a dictionary of byte
sequences in which a finished lock leaves an empty entry behind. Its actions read
an entry with `get_lock` (all six checks, in the code's order), `unpack` it,
change the record, `pack` it and put it back, and may be asked for any id, one
that does not exist included. A byte is a pair of a value and a place in it
(`EntryBytes`): `to_le` writes a value's bytes, `from_le` reads them back as that
value only if they are all there, in order, and as `Garbled` otherwise. That keeps
every offset of the code and leaves out only the arithmetic of binary digits.
`StorageKept` says that the records and lists that one reads back behave as
`VestContract`. `StakeLayout` does the same for pools and users with one function
each, applied to every state of a run (`EntriesReadBack`).

**Sessions.** Users send `lock_w_fee` (`LockWithFee`), the portal with a number
(`Portal`), and what has no program directly (`DirectCall`). Each is one deploy:
if `lock` fails after the fee was sent, both are undone. `transfer_from` uses up
what the owner has approved for the contract's own package (`SpendAllowance`);
`approve` replaces what was approved before. Nothing distinguishes a repeated
deploy from a new one, so a retry is the same action again. A portal deploy with
any other number than 0 to 4 succeeds and does nothing, a stuttering step.
Gas is not paid from the purses. `CallLock` and `CallTransferLock` are the
contract's entry points with what a session's deploy adds to them: the allowance, and
two history variables, `dust` (what a division dropped of an account's deposits) and
`given` (what was in the locks that an account handed on, less what it was handed).
With them `NothingIsLost` can say of each account and token that balance, open locks,
`given` and `dust` make up what it started with.

**The promise of the staking contract.** In `RewardSharing` there is no share per
token, no debt and no `last_reward_timestamp`: time passes second by second, and
in each the stakers of a running pool earn that second's reward in proportion
to their stakes, each exact up to `Slack` units; who changes a stake is paid what
it has earned; `Stop` gives the rest of the reward to the owner.
`StakeRewards` maps what an account has earned to what a `withdraw` would pay it
now. The contract accounts lazily, with one division for the pool and one for
the user, over periods of any length: both are rounded down, hence `Slack` 2. The
mapping holds where the contract keeps its promise: pools that pay the token they
take (`stop_reward` refunds in the wrong one otherwise), start when they are
added (`stake_early`) and no `save_me`; the run is made so. One step does not
fit the ideal: `emergency_withdraw` lowers `total_staked` without `update_pool`,
so the time since the last update is shared among those who stay, the leaver's
part included. `Forfeit` allows that, and bounds it by what the leaver goes without.

**Numbers.** `U64` and `MaxU256` are constants: `u64` additions of release
times and the `u64` differences in `update_pool` and `stop_reward` are taken
modulo `U64`, as in the release build; where the code has `checked_add` and
`checked_mul` the action has a guard; `U256` arithmetic that does not fit is a
guard (`Fits`). `10^precision` is the constant function `Scale`; `U256` division
is `\div`.

**History variables** (no action's code effect depends on them): `given` and
`dust` in `Sessions`, above. In `StakeContract`, `taken[t]` is what left the contract by `save_me` and by refunds of
`stop_reward` in another token than the reward's, `roundings[t]` counts the
`reward_debt`s of token `t` that were rounded down. They say by how much
`Solvency` may be missed and why.

**Abstracted.** Gas; return values; the text of hashes and dictionary keys. A
user's key in the staking contract holds 15 hexadecimal digits of the account hash
(`stake.rs:519`): accounts are assumed to differ in them. A lock's key holds 15
digits of the contract's hash and its id, which is a pair in `VestStorage`.

## 3. What the runs check

TLC finishes each within a minute and a half with two workers.

| Run | Question | Bounds |
|---|---|---|
| `vest_core` | storage consistent, all locks covered, what is due is claimable, and every run is a run of the escrow | 2 accounts, 2 locks of 1 or 2 releases; 5 tokens in 2 releases (rounding), 1 token in 2 (a lock of zeros), releases now, later, and postponed past each other |
| `vest_storage` | the bytes and named keys implement `VestContract`; a finished lock's entry stays empty | 3 locks of 2 releases of one token each, lists of length 3 under `swap_remove`, hand-overs to oneself and to accounts without a key; the package hash given to `init` may be wrong |
| `vest_live` | what is due is paid in the end | 2 locks of 2 releases, fairness below |
| `vest_wrap` | *violated*: no release comes before the first one | `U64` = 3, so that the addition in `vest.rs:218` wraps |
| `vest_dust` | *violated*: nothing is left in the contract when no lock holds anything any more | 5 tokens in 2 releases, 1 token in 2 |
| `sessions` | every token of an account is in its balance or its open locks, was handed on or dropped by a division; no CSPR without a lock | 2 accounts with 6 tokens each, 2 locks of 3 tokens in 2 releases (rounding), approvals of 3 for the contract or another package; fees of 2 and 3 with `MinFee` 3, a purse of 4 |
| `stake_core` | sums, debts, solvency, kept earnings, no pay after the end | 2 accounts, a pool of 2 seconds that pays 4 of the token it stakes, stakes of 1 and 2, a share of 4 units per token so that some products divide evenly and others do not |
| `stake_tokens` | debts, solvency, kept earnings, no pay after the end for two tokens, pools that take stakes before they start, `save_me`; withdrawals go through if each token they pay is there, all that pools may still pay is covered | one pool, either token on either side, start now or in a second, end two seconds after the start, at it or one before it |
| `stake_sharing` | two pools on one balance of one token share rewards as `RewardSharing`; withdrawals are stopped by overflow only, stakes can be taken back even then; entries are read back | pools of two seconds that pay 25, stakes of 20; `MaxU256` = 700000, so that some products of stake and share per token overflow, as they can for a precision of 36, and deposits and withdrawals then panic |
| `stake_refund` | *violated*: stakes are there unless the admin took them | two tokens |
| `stake_early` | *violated*: a pool that was stopped hands out nothing more | start in one second |
| `stake_zero` | *violated*: a staked pool can be brought up to date | a pool stopped at its start |

**Why small is enough.** No code compares accounts, tokens or ids except for
equality, nor treats a third account differently from a second: two accounts
give every pair (owner and staker, old and new recipient, oneself). Each lock
is touched on its own; two of them share a balance and a list, and three exercise
`swap_remove` at the front, in the middle and at the end. An entry's bytes depend
on one lock only, and two schedules make the second one's offset count. A pool's arithmetic
depends on time only through the order of `now`, `start_time`, `end_time` and
`last_reward_timestamp`, and three or four instants give all orders; amounts are
chosen so that divisions leave remainders and stakers have unequal shares.
`SYMMETRY` is used for accounts except in `vest_live`, where it would be unsound.
Fees are in units of 10^9 motes because TLC's numbers have 32 bits; the theorems
hold for any `MinFee`.

**Bounds.** `MaxTime`, `MaxLocks`, `MaxPools`, `MaxRoundings`, `MaxTaken`
and the sets of arguments. `MaxRoundings` stops deposits and withdrawals once two debts
of a token were rounded down, which keeps the reachable states few; runs in which
nothing is rounded go on. The models never deadlock for TLC's purposes:
`set_admin` is always possible.

**Fairness** (`vest_live` only). Nothing in the contract runs by itself: a lock
is paid because its recipient sends claims. `FairSpec` assumes that each account
keeps sending claims for each lock (`SF` on `Claim`, strong because a pause or
a hand-over can come between any two attempts). It assumes nothing of the admin
and nothing of time: `DueIsPaid` asks only for releases that are due already, in
a contract that is unpaused again and again.

**Disagreements found.** Five runs show one each; `PROJECT.json` quotes the lines.

- `vest_wrap`: the sum at `vest.rs:218` is unchecked and wraps around, where its
  two neighbours are checked; a late release becomes due at once.
- `vest_dust`: the remainder of `cliff_amount / number_of_locks` is taken from
  the depositor and never released. The trace is the extreme case: one token in
  two releases makes two zeros, a lock that can neither be claimed nor cleared.
- `stake_refund`: `stop_reward` refunds unpaid *reward* in the *staking* token.
- `stake_early`: a pool stopped before its start is refunded in full, and pays
  its whole reward again at the first update from its start time on, since
  `u64` differences wrap around in numerator and divisor.
- `stake_zero`: a pool stopped in the second it starts divides by zero
  afterwards; its stakers can only use `emergency_withdraw`.

One more, of one second, is disclosed without a run: `claim` pays a release from its
own second on (`timestamp >= s.release`, `vest.rs:332`), while
`control_erc20_contract/README.md:47-48` and `:58` have it pay if the timestamp is
"greater than" the release. The models do what the code does, so that "due" in
`EscrowKept` and `DueIsPaid` includes that second. `DueIsClaimable` is stated only for
releases that are past (`Overdue`), which are claimable by either reading.

Smaller ones, not worth a run: `extend_lock` accepts the release time that is
set already; the comment of `is_id_valid` says "less than" where the code lets
the counter itself through (the missing entry stops it, `vest.rs:422`); both
READMEs pass the package hash to `init` as a string, in the vesting contract's
under a name that `init` does not read, and the staking contract reads a `Key`.

**Rounding in the staking contract.** `reward_debt` is rounded down when it is
recorded and `pending` is rounded down when it is paid, so a user can gain one
unit for every debt that was rounded. `Solvency` allows exactly that and no
more, which bounds this cost and does not rule it out. Without the allowance it is
false: two stakers of one pool can be promised
one unit more than the contract holds, and the last withdrawal reverts.

## 4. What is proved

About the vesting contract:

| Theorem | States | Argument |
|---|---|---|
| `TypeCorrect` | `TypeOK` always | inductive invariant `TypeInv` |
| `IdsCorrect` | `IdsMatchLocks` always | inductive invariant `IdsInv`, under `TypeInv` |
| `CustodyCorrect` | `Custody` always | inductive invariant `CustodyInv`, under `TypeInv` |
| `DueCanBeClaimed` | `DueIsClaimable` always: of releases that are past | from the three above |
| `EscrowImplemented` | `EscrowKept` while the hash is the contract's own and no release wraps | each step is a step of the escrow or none |
| `ReleasesDoNotWrap` | no release wraps if all locks' last releases fit in a `u64` | inductive under `TypeInv` |
| `EscrowCorrect` | `EscrowKept`, from assumptions on constants | the two above |
| `FinishedStaysFinished` | `FinishedForGood` | inductive invariant `EntriesNumbered` |
| `StorageImplemented` | `StorageKept` | inductive invariant `StorageInv`; each step is a step of `VestContract` or none |

About the session programs:

| Theorem | States | Argument |
|---|---|---|
| `SessionsAreVest` | `SessionSpec => Spec` | each program takes a step of `VestContract` or none |
| `SessionsKeepCustody` | `Custody` under the sessions | `SessionsAreVest`, `CustodyCorrect` |
| `NothingLost` | `NothingIsLost` always | inductive invariant `SessionInv` |
| `FeesBuyLocks` | `FeeBuysLock` | `SessionInv` holds in the state before the step |

About the staking contract:

| Theorem | States | Argument |
|---|---|---|
| `StakeTypeCorrect` | `TypeOK` always | inductive invariant `TypeInv` of `StakeProofs` |
| `TotalStakedCorrect` | `TotalStakedIsSum` always | inductive under `TypeInv` |
| `DebtsCorrect` | `DebtCovered` always | inductive under `TypeInv` |
| `StakeCanBeRecovered` | `StakeIsRecoverable` always | from `TypeInv` and `TotalStakedIsSum` |
| `StakeCanBeWithdrawn` | `StakeIsWithdrawable` always | from the invariants above and `TimesFit` |
| `EarnedKept` | `EarnedIsKept` | each step, from `TypeInv`, `TimesFit` and `TotalStakedIsSum` before and after it |
| `EndedPoolStaysOver` | `EndedPoolIsOver` | each step, under `TypeInv` |
| `CommitmentsAreCovered` | `CommitmentsCovered` always | inductive invariant `SolvencyInv` |
| `SolvencyCorrect` | `Solvency` always | what is owed is part of what is committed |
| `EntriesAreReadBack` | `EntriesReadBack` always | `pack` and `unpack` field by field, from the types |

They hold for any sets of accounts, tokens and arguments and any bounds, under the
assumptions these modules state: `HashAssumption` (package hashes are not account
hashes, `Self` is one of them, accounts and tokens are finite), `NumberAssumption`
and `SessionAssumption` (ranges of numbers), `NamesAssumption` (no account's name
is the name of one of the contract's own keys). In `StakeContract`,
`NumberAssumption` says that times are `u64`, as the block time and the arguments
of `add_pool` are in the code; the theorems on earnings, withdrawals and solvency
need that.

**Vesting, on records and lists.**

- `TypeInv` is `TypeOK` with `InitOnce`: before `init` nothing is locked, after
  it the contract's hash is a package hash. Without it `init` could set `index`
  back under open locks, and `lock` would reuse an id.
- `IdsInv` restates `IdsMatchLocks` without places in lists: an account lists
  an id exactly if that lock is open and its own, and no list repeats an id. What
  `SwapRemove` and `Append` do to a list without repetitions (`RemovedIds`,
  `AppendedIds`) is all the steps need. Handing a lock to its own recipient is
  the delicate case: the second write must read the first.
- `CustodyInv`: the sum of all releases of all open locks of a token is at most
  the balance. A new lock adds at most what was paid (`NewTotal`: all of it but the
  remainder of the division, `NewTotalAndDust`);
  a claim takes out of the sum exactly what it pays (`ClaimedTotal`), whether the
  lock stays or is cleared (`AllClaimedTotal`); the rest leaves the sum alone.
- `DueCanBeClaimed` joins the three: what is past is due (`OverdueIsDue`), what is due of a lock is part of what the lock
  holds, and that of what the contract owes (`DueIsOwed`), so that the transfer goes
  through by `Custody`; and `position().unwrap()` finds the id by `IdsMatchLocks`.
- `DataLemmas` derives what is used of `SumFunctionOnSet` (empty set, taking an
  element out, changing one, constants, zeroing a part) from its definition as a
  fold. Induction over finite sets is replaced by a smallest counterexample
  (`SmallestSubset`), which rests on the well-foundedness of `<` alone.

**Vesting as an escrow.** A lock funds a tranche for every release that is not zero,
with at least what they add up to; `claim` pays the lock's due tranches, whole, and
leaves the others; `extend_lock` postpones one tranche or, for a release that was
paid, none; `transfer_lock` hands all of them over. `EscrowImplemented` has two
hypotheses because the statement is false without them: a contract that was given
another package's hash takes deposits that it cannot pay back, and `vest_wrap` shows
a release that comes before its time. `EscrowCorrect` replaces them by conditions on
what the contract is given: `PackageHashes = {Self}`, and `ReleasesFit`, by which
the last release of every lock that can be made is a `u64`. The constants of
`vest_core` satisfy both.

**Vesting on bytes and names.** `StorageInv` says what storage looks like between
deploys: which named keys exist, that items are numbered under the one hash the
contract has (`EntriesNumbered`), and that each item is empty or the bytes of a lock.
`unpack` reads what `pack` wrote (`LockReadsBack`); for the schedules, whose number
is not fixed, this rests on lemmas about `FlattenSeq`. The community modules define
that by recursion, which the provers cannot do induction on; the lemmas show instead
that its defining equation has one solution, by a smallest counterexample, and what
that solution is. Then each action of `VestStorage` is followed through: what
`get_lock` finds is a lock of the caller, what is put back is read back and touches
no other lock (`LockStored`, `LockCleared`), and a list that is written under an
account's name is no other account's and none of the contract's own keys, which is
what `NamesAssumption` is for. With `CustodyCorrect` and the rest this carries over
to storage: the theorems about `VestContract` hold of the records and lists that
`VestStorage` reads back, whose constants fulfil the same assumptions.

**Sessions.**

- `SessionInv` is `AllAccounted`, which is `NothingIsLost` with the sums named, with
  `TypeInv` and the types of purses, allowances and history variables. What an account
  holds is a sum over its open locks, and every deploy changes that sum in one
  place: `HeldWithNewLock`, `HeldWithChangedLock`, `HeldWithoutLock`. A lock moves what was
  paid into the payer's sum and its `dust`, no more and no less (`NewTotalAndDust`);
  a claim moves what it pays from the sum to the balance (`ClaimedTotal`), whether the
  lock stays or is cleared; a hand-over moves the lock's total from one sum to the
  other, and to oneself changes neither; and since the package hash is no account's
  (`LockMovesTokens`), nobody else's balance changes.
- `FeesBuyLocks` rests on `NewTotal` again: the new lock's releases hold at most what
  left the balance of the account that paid the fee.

**Staking.**

- The contract's `deposit`, `withdraw` and `emergency_withdraw` differ in
  what they pay but do the same to storage: `Restaked` says that the caller's stake
  and the pool's total change by the same amount, that shares do not shrink and that
  no more debt is recorded than has accrued. `TotalStakedCorrect` follows by
  `SumChangeAt`, `DebtsCorrect` because what a stake has accrued grows with the
  shares (`AccruedGrows`). Neither needs that differences of times do not wrap around.
- `StakeCanBeWithdrawn` goes through `withdraw` check by check: the divisor of
  `update_pool` is not zero, since a period that is positive does not wrap to zero;
  `pending` is not negative, since the debt was covered before the update and shares
  grew; the stake is part of the total (`StakeInTotal`). What can stop a withdrawal
  is in the premise: a product too large for a `U256`, or tokens that are not there,
  where `LeavingPays` is what `withdraw` would pay of a token: stake, reward, both or none.
  `emergency_withdraw` has only the last of these (`StakeCanBeRecovered`).
- `EarnedKept`: `SharesAt(pool, t)` is the reward per share that `update_pool`
  would compute at time `t`, in ordinary arithmetic; `SharesComputed` shows that the
  wrapping arithmetic of the code computes it for a pool whose end is after its
  start and fits (`TimesFit`) and that has a total to divide by, which every pool
  with a staker has because the total is the sum (`StakerCounts`). It grows with
  time (`SharesGrow`), is unchanged by an update and what is written after it
  (`UpdatedShares`: an updated pool is up to date or past its end), and grows when
  `emergency_withdraw` leaves fewer to share (`FewerShare`).
- `EndedPoolStaysOver` has no hypothesis. The property speaks of the pools that do not
  end before they start, and that is a state of the pool alone: for them a pool that
  was brought up to date at its end or later has no second left to share
  (`EndedSharesNothing`). The other pools can share again.
  Both `u64` differences wrap around there, in numerator and divisor alike, be it that
  `stop_reward` set the end (`stake_early`, where `StopEndsPool` fails) or that
  `add_pool` was given it so.
- `Solvency` is not inductive: what can be claimed now says nothing of what the next
  second adds. `CommitmentsCovered` is the strengthening. It counts all that a
  pool may still pay, in whole units: its stakes, what all stakes together have accrued
  less their debts, rounded up, and the reward of the seconds that no update has paid
  for. `update_pool` only moves reward from "left" to "accrued", losing what
  it rounds down; so time and updates drop out of the argument, and only payments
  remain. A stake that changes from n to m takes out what n had accrued and puts in
  what m has, and one unit more if that was rounded down, which `roundings`
  counts; what changes hands is the difference of the stakes and at most what was
  pending. `stop_reward` refunds exactly the reward left, for which the pool
  must be up to date (`UpToNow`). Claims by everybody together never exceed what is
  promised, by rounding down twice against rounding up once (`ClaimsArePromised`).

**Only model-checked.** `DueIsPaid` is liveness and out of the prover's reach. The
refinement `SharingKept` is not proved yet (section 5).

## 5. The plan, and what is not modelled

What is left to do:

1. *The proof of* `SharingKept`. It needs the conditions of the run as hypotheses:
   pools that pay the token they take and never start later than they are added, no
   `save_me`, the contract's own hash. The slack of 2 units per second and staker is
   what the run's scale gives. In general, one unit is lost with each of the two
   divisions at either end of a period and `amount / Scale` with the division by
   `total_staked`, so that 3 is right for any scale that is at least the total staked.
2. *Storage of the staking contract*: named keys and entries as in `VestStorage`,
   around `StakeLayout`. Its entries are never cleared and its keys are all made
   by `init`, so that there is less to go wrong.

Not modelled: `address.rs` (it tags a hash as an account's or a package's for the
token's arguments; the models' accounts and package hashes are disjoint for that
reason), `constants.rs` and `lib.rs` (names and error numbers) and `unpack_owner`
and `get_account_hash_from_string`, which nothing calls. They keep no state. The
integration tests were read for what they assert. Tokens that call back are not
modelled (section 1). Four hazards have no property:
`set_pause_contract` sent twice undoes itself, which is what it is for; the
portal's silent success for an unknown number changes nothing that a model could
look at; the code gives no meaning to a collision of two accounts' keys in
the staking contract; and no line of the repository bounds what `save_me` takes, which
`Solvency` and `CommitmentsCovered` therefore set aside.
