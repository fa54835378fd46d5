------------------------------ MODULE MCSessions ------------------------------
(* Values for model checking the vesting contract with its session programs. *)
EXTENDS Sessions, TLC

\* No action compares accounts except for equality.
AccountSymmetry == Permutations(Accounts)

=============================================================================
