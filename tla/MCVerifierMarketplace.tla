------------------------ MODULE MCVerifierMarketplace ------------------------
(***************************************************************************)
(* Small instances of VerifierMarketplace.  The constants of a run may     *)
(* grant more than one behaviour can use: MCSpec takes of them the         *)
(* behaviours of two scenarios, told apart by whether the owner set a      *)
(* staking manager.  Without it, three users run one task whose settings   *)
(* vary; with it, two users who stake and unbond take part in two          *)
(* overlapping tasks that lock their stakes.                               *)
(***************************************************************************)
EXTENDS VerifierMarketplace, TLC

CONSTANT Stakers  \* the users who may stake

\* Two reachable states with stakes that some permutation of Users maps to each other have
\* the other users without one, so one of Stakers does.
Symmetry == Permutations(Users)

\* Commit for one tick, reveal for one, dispute for none or one.
DisputeSchedule == {<<1, 1, 1>>}
BothSchedules == {<<1, 1, 0>>, <<1, 1, 1>>}

OneOfTwo == {<<1, 2>>}
OneOfTwoOrTwoOfThree == {<<1, 2>>, <<2, 3>>}

StakingOff == [on |-> FALSE, enforced |-> FALSE, lock |-> 0, threshold |-> 500]
StakingOn == [on |-> TRUE, enforced |-> TRUE, lock |-> 2, threshold |-> 500]

Staking == {StakingOn}
StakingOrNot == {StakingOff, StakingOn}

\* One, two or three winners share a base of 6 evenly, which two cannot do with 5.
EvenRewards == {[base |-> 6, tolerance |-> 250], [base |-> 6, tolerance |-> 800]}
TwoRewards == {[base |-> 6, tolerance |-> 250], [base |-> 5, tolerance |-> 800]}

-----------------------------------------------------------------------------
(* The two scenarios, as predicates of every state of theirs.              *)

Created == {id \in TaskIds : tasks[id].state # "None"}

Window(id) == tasks[id].disputeDeadline - tasks[id].revealDeadline

OneTask ==
  /\ nextTaskId <= 2
  /\ \A u \in Users : stakes[u] = NoStake
  /\ \A id \in Created : tasks[id].maxEvals = 3 /\ Window(id) = 1

TwoTasks ==
  /\ config.protocolFeeBps = 0 /\ rewardConfig.base = 6
  /\ \A u \in Users \ Stakers : stakes[u] = NoStake
  /\ \A id \in Created :
       /\ tasks[id].maxEvals = 2 /\ Window(id) = 0
       /\ tasks[id].finalScore # 5200
       /\ \A u \in Users :
            /\ evals[id][u].revealed => evals[id][u].evidence
            /\ evals[id][u].committed => evals[id][u].commitHash[3] # 5200

Scenario == IF config.staking.on THEN TwoTasks ELSE OneTask

MCInit == MarketInit /\ Scenario

MCNext == MarketNext /\ config'.staking = config.staking /\ Scenario'

MCSpec == MCInit /\ [][MCNext]_allVars
=============================================================================
