--------------------------- MODULE TimeLockedEscrow ---------------------------
(***************************************************************************)
(* What the vesting contract promises, without its storage: tokens paid in *)
(* become tranches, each owed to a holder from a due time on; a tranche is *)
(* paid out whole, once, to its holder and not before it is due; it can be *)
(* postponed and handed over, with the other tranches of its lock, in the  *)
(* meantime; and nothing else takes tokens out of the vault.               *)
(***************************************************************************)
EXTENDS Integers, Functions

CONSTANTS Accounts, Tokens, Vault

VARIABLES
  clock,
  tranches,  \* key -> [lock, holder, token, due, amount]
  bal        \* bal[token][holder]

escrowVars == <<clock, tranches, bal>>

Sum(ts, keys) == SumFunctionOnSet([k \in keys |-> ts[k].amount], keys)

\* `amount` of a token goes from one holder to another and nothing else moves.
Moves(token, from, to, amount) ==
  bal' = [bal EXCEPT ![token][from] = @ - amount, ![token][to] = @ + amount]

EscrowInit ==
  /\ clock = 0
  /\ DOMAIN tranches = {}
  /\ \A t \in Tokens : bal[t][Vault] = 0

\* A depositor pays in at least what the new tranches add up to.
Fund(holder, token) ==
  LET new  == DOMAIN tranches' \ DOMAIN tranches
      paid == bal[token][holder] - bal'[token][holder]
  IN  /\ DOMAIN tranches \subseteq DOMAIN tranches'
      /\ tranches = Restrict(tranches', DOMAIN tranches)
      /\ \A k \in new : /\ tranches'[k].holder = holder
                        /\ tranches'[k].token = token
                        /\ tranches'[k].due >= clock
      /\ Sum(tranches', new) <= paid
      /\ Moves(token, holder, Vault, paid)
      /\ UNCHANGED clock

\* Everything that is due of one lock is paid to its holder and is gone.
PayOut(holder, token, l) ==
  LET due == {k \in DOMAIN tranches : tranches[k].lock = l /\ tranches[k].due <= clock}
  IN  /\ due # {}
      /\ \A k \in due : tranches[k].holder = holder /\ tranches[k].token = token
      /\ tranches' = Restrict(tranches, DOMAIN tranches \ due)
      /\ Moves(token, Vault, holder, Sum(tranches, due))
      /\ UNCHANGED clock

Postpone(k) ==
  /\ DOMAIN tranches' = DOMAIN tranches
  /\ tranches'[k].due >= tranches[k].due
  /\ tranches' = [tranches EXCEPT ![k].due = tranches'[k].due]
  /\ UNCHANGED <<clock, bal>>

HandOver(l, holder) ==
  /\ tranches' = [k \in DOMAIN tranches |->
                    IF tranches[k].lock = l THEN [tranches[k] EXCEPT !.holder = holder]
                                            ELSE tranches[k]]
  /\ UNCHANGED <<clock, bal>>

Wait ==
  /\ clock' > clock
  /\ UNCHANGED <<tranches, bal>>

EscrowNext ==
  \/ \E h \in Accounts, t \in Tokens : Fund(h, t)
  \/ \E h \in Accounts, t \in Tokens, k \in DOMAIN tranches : PayOut(h, t, tranches[k].lock)
  \/ \E k \in DOMAIN tranches : Postpone(k)
  \/ \E k \in DOMAIN tranches, h \in Accounts : HandOver(tranches[k].lock, h)
  \/ Wait

EscrowSpec == EscrowInit /\ [][EscrowNext]_escrowVars

=============================================================================
