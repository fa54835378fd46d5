------------------------------- MODULE Sessions -------------------------------
(***************************************************************************)
(* The vesting contract together with what its users run (session/): the   *)
(* portal, one program that approves tokens, locks, hands over, postpones  *)
(* and claims, and lock_w_fee, which pays a fee in CSPR and locks in one   *)
(* deploy.  Users send these deploys in any order and send one again when  *)
(* they have not seen it succeed; a token lets itself be taken only as far *)
(* as its owner has approved.  A program that fails anywhere reverts as a  *)
(* whole, transfer of the fee included.                                    *)
(***************************************************************************)
EXTENDS VestContract

CONSTANTS
  MinFee,         \* 3_000_000_000 motes
  Purse,          \* the motes each account starts with
  Fees,           \* bound: the fees that lock_w_fee is given
  Approvals       \* bound: the amounts of approve

ASSUME SessionAssumption ==
  /\ MinFee \in Nat /\ Purse \in Nat
  /\ Fees \subseteq Nat /\ Approvals \subseteq Nat

VARIABLES
  cspr,       \* cspr[account]: its main purse
  allowance,  \* the token contracts: allowance[token][owner][spender]
  \* history, read by properties only
  given,      \* given[token][account]: what was in the locks it handed to others,
              \* less what was in the locks that others handed to it
  dust        \* dust[token][account]: what the divisions of lock() left of its deposits

sessionVars == <<vars, cspr, allowance, given, dust>>

\* A deploy that moves no CSPR and approves, locks and hands over nothing.
NoPayment == UNCHANGED <<cspr, allowance, given, dust>>

\* transfer_from is called by the contract: what its owner has approved for the
\* contract's package must cover the amount and shrinks by it.
SpendAllowance(token, owner, amount) ==
  /\ amount <= allowance[token][owner][Self]
  /\ allowance' = [allowance EXCEPT ![token][owner][Self] = @ - amount]

\* The contract's entry point lock, called by a session of `caller`.
CallLock(caller, token_hash, amount_to_transfer, cliff_durtime, time_between_locks, num_locks) ==
  /\ Lock(caller, token_hash, amount_to_transfer, cliff_durtime, time_between_locks, num_locks)
  /\ SpendAllowance(token_hash, caller, amount_to_transfer)
  /\ dust' = [dust EXCEPT ![token_hash][caller] = @ + (amount_to_transfer % num_locks)]
  /\ UNCHANGED given

\* The contract's entry point transfer_lock.
CallTransferLock(caller, lock_id, new_owner) ==
  /\ TransferLock(caller, lock_id, new_owner)
  /\ LET lock   == lock_infos[lock_id]
         handed == [given EXCEPT ![lock.token_hash][caller] = @ + LockTotal(lock)]
     IN  given' = [handed EXCEPT ![lock.token_hash][new_owner] = @ - LockTotal(lock)]
  /\ UNCHANGED <<cspr, allowance, dust>>

\* "approve" of a token: what was approved before is replaced.
Approve(caller, token_hash, spender, amount) ==
  /\ allowance' = [allowance EXCEPT ![token_hash][caller][spender] = amount]
  /\ UNCHANGED <<vars, cspr, given, dust>>

\* The fee goes to whatever account the caller names, itself included.
PayFee(caller, recip, amount) ==
  /\ amount <= cspr[caller]
  /\ cspr' = [cspr EXCEPT ![caller] = @ - amount, ![recip] = @ + amount]

\* Mutated LockWithFee: any fee will do.
LockForAnyFee(caller, recip, amount) ==
  /\ PayFee(caller, recip, amount)
  /\ \E t \in Tokens, a \in CliffAmounts, d \in Durations, g \in Gaps, n \in Counts :
       CallLock(caller, t, a, d, g, n)

LockWithFee(caller, recip, amount) ==
  /\ amount >= MinFee
  /\ PayFee(caller, recip, amount)
  /\ \E t \in Tokens, a \in CliffAmounts, d \in Durations, g \in Gaps, n \in Counts :
       CallLock(caller, t, a, d, g, n)

\* The portal, by the number of the entry point.  The portal's own fee is
\* commented out; any other number ends the deploy without having done anything.
Portal(caller, entry_point) ==
  \/ /\ entry_point = 0
     /\ \E t \in Tokens, a \in CliffAmounts, d \in Durations, g \in Gaps, n \in Counts :
          CallLock(caller, t, a, d, g, n)
     /\ UNCHANGED cspr
  \/ /\ entry_point = 1
     /\ \E id \in DOMAIN lock_infos, d \in Accounts : CallTransferLock(caller, id, d)
  \/ /\ entry_point = 2
     /\ \E id \in DOMAIN lock_infos, r \in NewReleases :
          \E i \in 1..Len(lock_infos[id].schedules) : ExtendLock(caller, id, i, r)
     /\ NoPayment
  \/ /\ entry_point = 3
     /\ \E id \in DOMAIN lock_infos : Claim(caller, id)
     /\ NoPayment
  \/ /\ entry_point = 4
     /\ \E t \in Tokens, s \in PackageHashes, a \in Approvals : Approve(caller, t, s, a)

\* What has no program of its own is called directly.
DirectCall ==
  /\ \/ \E h \in PackageHashes : Initialize(h)
     \/ \E c, d \in Accounts : SetAdmin(c, d)
     \/ \E c \in Accounts : SetPauseContract(c)
     \/ Tick
  /\ NoPayment

SessionInit ==
  /\ Init
  /\ cspr = [a \in Accounts |-> Purse]
  /\ allowance = [t \in Tokens |-> [a \in Accounts |-> [h \in PackageHashes |-> 0]]]
  /\ given = [t \in Tokens |-> [a \in Accounts |-> 0]]
  /\ dust = [t \in Tokens |-> [a \in Accounts |-> 0]]

SessionNext ==
  \/ \E c, r \in Accounts, f \in Fees : LockWithFee(c, r, f)
  \/ \E c \in Accounts, n \in 0..4 : Portal(c, n)
  \/ DirectCall

SessionSpec == SessionInit /\ [][SessionNext]_sessionVars

-----------------------------------------------------------------------------
\* Properties

\* What the open locks of an account still hold of a token.
HeldIn(locks, token, account) ==
  [id \in DOMAIN locks |->
     IF locks[id].token_hash = token /\ locks[id].recipient = account
     THEN LockTotal(locks[id]) ELSE 0]

Held(token, account) ==
  SumFunctionOnSet(HeldIn(lock_infos, token, account), DOMAIN lock_infos)

\* Whatever deploys are sent, by whom and how often, no account loses track of a token:
\* each is in its balance or in an open lock of its own, or it has handed the lock that
\* held it to somebody else, or a division of lock() dropped it.  A lock that is sent a
\* second time is paid for and makes a second lock that holds all of it; an allowance
\* that was left standing buys locks for its owner and nobody else; and claims, hand-overs
\* (to oneself too), postponements and a late init neither swallow a lock nor add to one.
NothingIsLost ==
  \A t \in Tokens : \A a \in Accounts :
    bal[t][a] + Held(t, a) + given[t][a] + dust[t][a] = Supply

\* A lock of account `a` itself is made, for at most what `a` pays in tokens.
NewLockOf(a) ==
  LET lock == lock_infos'[index]
      t    == lock.token_hash
  IN  /\ index \in DOMAIN lock_infos' \ DOMAIN lock_infos
      /\ lock.recipient = a
      /\ LockTotal(lock) <= bal[t][a] - bal'[t][a]

\* An account's purse shrinks only by the fee for a lock, at least MinFee, and
\* then the lock is there, its own, and paid from its own tokens.
FeeBuysLock ==
  [][\A a \in Accounts :
       cspr'[a] < cspr[a] => cspr[a] - cspr'[a] >= MinFee /\ NewLockOf(a)]_sessionVars
=============================================================================
