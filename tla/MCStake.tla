-------------------------------- MODULE MCStake --------------------------------
(* Values for model checking the staking contract. *)
EXTENDS StakeRewards, StakeLayout, StakeSolvency, TLC

CONSTANT Unit   \* one whole share per staked token, in units of acc_token_per_share

\* No action compares accounts except for equality.
AccountSymmetry == Permutations(Accounts)

\* The precisions of add_pool, 18..=36, are replaced by one; what matters of
\* 10^18 is that it divides some products evenly and others not.
OnePrecision == {18}
UnitScale == [p \in OnePrecision |-> Unit]

\* add_pool asks only for a start and an end that are not in the past: a pool that
\* starts later may end when it starts or before.
AnyLengths == {-1, 0, 2}

=============================================================================
