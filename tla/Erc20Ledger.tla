----------------------------- MODULE Erc20Ledger -----------------------------
(***************************************************************************)
(* The ERC-20 token contracts, as both contracts of this repository use    *)
(* them: interact_token.rs calls the entry points "transfer_from" and      *)
(* "transfer" of a token by its hash and gets nothing back.  The tokens    *)
(* are not in the repository; what is modelled is the effect the callers   *)
(* rely on.  A ledger is a function bal[token][holder].                    *)
(*                                                                         *)
(* A token call that cannot be carried out reverts, and on Casper a revert *)
(* inside a called contract aborts the whole deploy with every write it    *)
(* has made.  The models therefore use CanPay as a guard of the action     *)
(* that makes the call.  The allowance that transfer_from needs as well is *)
(* in Sessions; without one the call reverts, a step that changes nothing. *)
(***************************************************************************)
EXTENDS Integers

\* The payer holds enough of the token for the call not to revert.
CanPay(bal, token, payer, amount) == amount <= bal[token][payer]

\* interact_erc20::transfer_from: owner pays the contract package `spender`.
TransferFrom(bal, token, owner, spender, amount) ==
  [bal EXCEPT ![token][owner] = @ - amount, ![token][spender] = @ + amount]

\* interact_erc20::transfer: the calling contract package `self` pays recipient.
Transfer(bal, token, self, recipient, amount) ==
  [bal EXCEPT ![token][self] = @ - amount, ![token][recipient] = @ + amount]
=============================================================================
