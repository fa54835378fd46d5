------------------------------ MODULE VestEscrow ------------------------------
(***************************************************************************)
(* The vesting contract implements the time-locked escrow: the schedules   *)
(* of the open locks that still hold an amount are the tranches.           *)
(***************************************************************************)
EXTENDS VestContract

\* The schedules that have not been paid out, as <<lock id, place>>.
Unpaid ==
  UNION {{id} \X {i \in 1..Len(lock_infos[id].schedules) :
                     lock_infos[id].schedules[i].amount # 0} : id \in DOMAIN lock_infos}

UnpaidTranches ==
  [k \in Unpaid |->
     LET lock == lock_infos[k[1]]
     IN  [lock   |-> k[1],
          holder |-> lock.recipient,
          token  |-> lock.token_hash,
          due    |-> lock.schedules[k[2]].release,
          amount |-> lock.schedules[k[2]].amount]]

Escrow == INSTANCE TimeLockedEscrow
            WITH clock <- now, tranches <- UnpaidTranches, Vault <- Self

\* Every run of a contract that was initialised with its own package hash, and
\* in which no release time wraps around, is a run of the escrow: tokens leave
\* the contract only as tranches that are due, each once and to its recipient.
\* "Due" is the code's reading, from the second of the release on;
\* control_erc20_contract/README.md:47 says "greater than".
EscrowKept == Escrow!EscrowSpec

=============================================================================
