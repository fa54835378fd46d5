----------------------------- MODULE MCVestStorage -----------------------------
(* Values for model checking the storage of the vesting contract. *)
EXTENDS VestStorage, TLC

\* No action compares accounts except for equality.
AccountSymmetry == Permutations(Accounts)

=============================================================================
