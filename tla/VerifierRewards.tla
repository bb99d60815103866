--------------------------- MODULE VerifierRewards ---------------------------
(***************************************************************************)
(* MAMV Coin rewards for a settled task (contracts/tokenomics/             *)
(* VerifierRewards.sol and the mint of MMVCoin.sol).  The marketplace      *)
(* calls onTaskFinalized at the end of the transaction that settles a task,*)
(* so a revert here reverts the settlement.  The callbacks into the        *)
(* marketplace (getTaskMeta, getEvaluators, getEvaluation) are the         *)
(* arguments evaluators, evaluation and final.                             *)
(***************************************************************************)
EXTENDS Integers, FiniteSets

CONSTANT RewardConfigs  \* the values configureRewards may set, [base, tolerance]

ASSUME RewardConstants ==
  RewardConfigs \subseteq [base : Nat, tolerance : Nat]

VARIABLES
  rewardConfig,  \* baseRewardPerTask and toleranceBps
  rewardsPaid,   \* tasks whose reward was handled
  minted         \* account => MAMV Coin minted to it

rewardVars == <<rewardConfig, rewardsPaid, minted>>

RewardsInit(accounts) ==
  /\ rewardConfig \in RewardConfigs
  /\ rewardsPaid = {}
  /\ minted = [a \in accounts |-> 0]

Diff(a, b) == IF a > b THEN a - b ELSE b - a

\* The evaluators a final score rewards: they revealed, gave evidence, and were close.
Winners(evaluation, evaluators, final) ==
  {ev \in evaluators :
     /\ evaluation[ev].revealed
     /\ evaluation[ev].evidence
     /\ Diff(evaluation[ev].score, final) <= rewardConfig.tolerance}

\* "uneven split": the base reward must be a multiple of the number of winners.
SplitsEvenly(amount, winners) ==
  winners # {} => (amount \div Cardinality(winners)) * Cardinality(winners) = amount

onTaskFinalized(id, winners) ==
  /\ id \notin rewardsPaid
  /\ SplitsEvenly(rewardConfig.base, winners)
  /\ rewardsPaid' = rewardsPaid \union {id}
  /\ minted' = [a \in DOMAIN minted |->
                  IF a \in winners
                  THEN minted[a] + rewardConfig.base \div Cardinality(winners)
                  ELSE minted[a]]
  /\ UNCHANGED rewardConfig

configureRewards ==
  /\ rewardConfig' \in RewardConfigs \ {rewardConfig}
  /\ UNCHANGED <<rewardsPaid, minted>>
=============================================================================
