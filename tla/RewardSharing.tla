----------------------------- MODULE RewardSharing -----------------------------
(***************************************************************************)
(* What the staking contract promises, without its accounting per share:   *)
(* in every second between the start and the end of a pool its stakers     *)
(* earn that second's part of the reward, each in proportion to its stake. *)
(* Who changes its stake is paid exactly what it has earned, and nothing   *)
(* that anybody else does takes any of it away.                            *)
(***************************************************************************)
EXTENDS Integers, FiniteSets, Functions

CONSTANTS
  Accounts, Tokens, Vault,
  Slack    \* a staker's second is exact up to so many token units of rounding

VARIABLES
  clock,
  terms,   \* pool -> [owner, start, end, reward, stakes, pays]
  staked,  \* staked[pool][account]
  earned,  \* earned[pool][account]: what the account would be paid now
  bal      \* bal[token][holder]

sharingVars == <<clock, terms, staked, earned, bal>>

Stakers(p) == {a \in Accounts : staked[p][a] # 0}

TotalStake(p) == SumFunctionOnSet(staked[p], Accounts)

TotalEarned(p) == SumFunctionOnSet(earned[p], Accounts)

\* `ledger` after one holder has paid `amount` of a token to another.
Pays(ledger, token, from, to, amount) ==
  [ledger EXCEPT ![token][from] = @ - amount, ![token][to] = @ + amount]

SharingInit ==
  /\ clock = 0
  /\ DOMAIN terms = {} /\ DOMAIN staked = {} /\ DOMAIN earned = {}
  /\ \A t \in Tokens : bal[t][Vault] = 0

\* The owner of a new pool pays its whole reward in.
Open(p, owner) ==
  /\ p \notin DOMAIN terms
  /\ DOMAIN terms' = DOMAIN terms \cup {p}
  /\ terms = Restrict(terms', DOMAIN terms)
  /\ terms'[p].owner = owner
  /\ clock <= terms'[p].start
  /\ bal' = Pays(bal, terms'[p].pays, owner, Vault, terms'[p].reward)
  /\ staked' = [q \in DOMAIN terms' |->
                  IF q = p THEN [a \in Accounts |-> 0] ELSE staked[q]]
  /\ earned' = [q \in DOMAIN terms' |->
                  IF q = p THEN [a \in Accounts |-> 0] ELSE earned[q]]
  /\ UNCHANGED clock

\* An account stakes more, or takes some of its stake out: it is paid what it
\* has earned so far, and begins to earn anew.
ChangeStake(p, a, stake) ==
  /\ stake # staked[p][a] /\ stake >= 0
  /\ staked' = [staked EXCEPT ![p][a] = stake]
  /\ earned' = [earned EXCEPT ![p][a] = 0]
  /\ bal' = Pays(Pays(bal, terms[p].pays, Vault, a, earned[p][a]),
                 terms[p].stakes, a, Vault, stake - staked[p][a])
  /\ UNCHANGED <<clock, terms>>

\* An account takes its stake out and goes without what it has earned; nobody
\* else loses by it, and all together gain at most what it has left behind, up to
\* one unit of rounding each.
Forfeit(p, a) ==
  /\ staked[p][a] # 0
  /\ staked' = [staked EXCEPT ![p][a] = 0]
  /\ earned'[p][a] = 0
  /\ \A b \in Accounts \ {a} : earned'[p][b] >= earned[p][b]
  /\ TotalEarned(p)' <= TotalEarned(p) + Cardinality(Stakers(p))
  /\ earned' = [earned EXCEPT ![p] = earned'[p]]
  /\ bal' = Pays(bal, terms[p].stakes, Vault, a, staked[p][a])
  /\ UNCHANGED <<clock, terms>>

\* The owner ends a pool that runs, and gets back the reward of the time left.
Stop(p) ==
  LET t == terms[p]
      left == t.end - clock
  IN  /\ t.start <= clock /\ clock < t.end
      /\ terms' = [terms EXCEPT ![p].end = clock]
      /\ bal' = Pays(bal, t.pays, Vault, t.owner, (left * t.reward) \div (t.end - t.start))
      /\ UNCHANGED <<clock, staked, earned>>

\* In one second the account `a` of a pool that runs earns the share
\* staked / TotalStake of reward / (end - start).
EarnsShare(p, a) ==
  LET t == terms[p]
      parts == (t.end - t.start) * TotalStake(p)
      error == (earned'[p][a] - earned[p][a]) * parts - t.reward * staked[p][a]
  IN  -(Slack * parts) < error /\ error < Slack * parts

Pass ==
  /\ clock' = clock + 1
  /\ DOMAIN earned' = DOMAIN earned
  /\ \A p \in DOMAIN terms : \A a \in Accounts :
       IF terms[p].start <= clock /\ clock < terms[p].end /\ a \in Stakers(p)
       THEN EarnsShare(p, a)
       ELSE earned'[p][a] = earned[p][a]
  /\ UNCHANGED <<terms, staked, bal>>

SharingNext ==
  \/ \E p \in DOMAIN terms', a \in Accounts : Open(p, a)
  \/ \E p \in DOMAIN terms, a \in Accounts : ChangeStake(p, a, staked'[p][a])
  \/ \E p \in DOMAIN terms, a \in Accounts : Forfeit(p, a)
  \/ \E p \in DOMAIN terms : Stop(p)
  \/ Pass

SharingSpec == SharingInit /\ [][SharingNext]_sharingVars

=============================================================================
