-------------------------------- MODULE MCVest --------------------------------
(* Values for model checking the vesting contract. *)
EXTENDS VestEscrow, TLC

\* No action compares accounts except for equality.
AccountSymmetry == Permutations(Accounts)

=============================================================================
