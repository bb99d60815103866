------------------------- MODULE VerifierMarketplace -------------------------
(***************************************************************************)
(* The marketplace of verification tasks (contract VerifierMarketplace in  *)
(* contracts/VerificationMarketplace.sol), with the contracts its          *)
(* transactions call: StakingManager, whose owner it is after deployment,  *)
(* and VerifierRewards.  A task goes                                       *)
(*    Open -> Reveal -> Provisional [-> Disputed] -> Resolved              *)
(* Verifiers commit a hash and a WETH bond while it is Open, open the hash *)
(* in Reveal, and are paid when it is Resolved.                            *)
(*                                                                         *)
(* Abstractions.  A hash is the tuple it binds (salts make it hiding; its  *)
(* equality is what the contract uses).  Of a bundle only whether it counts*)
(* as evidence is kept.  miningContract and mamvAnchor are unset, and      *)
(* lastActivityTimestamp, which only a view reads, is left out.            *)
(***************************************************************************)
EXTENDS StakingManager, VerifierRewards, Sequences

CONSTANTS
  MaxTasks,         \* tasks created: bounds nextTaskId
  Scores,           \* scores in basis points that are revealed or resolved to
  Schedules,        \* <<commit, reveal, dispute>>: lengths of the windows a requester asks for
  EvalBounds,       \* <<minEvals, maxEvals>> a requester asks for
  FeePools,         \* fees a requester offers
  EvidenceChoices,  \* whether a revealed bundle counts as evidence
  BondChoices,      \* values the owner sets, one set for each setter
  FeeBpsChoices,
  NonRevealChoices,
  RewardsChoices,   \* is the rewards distributor set
  StakingChoices    \* [on, enforced, lock, threshold]: arguments of setStakingManager

TaskIds == 1..MaxTasks

NoUser == "none"

ASSUME MarketTerms ==
  /\ MaxTasks \in Nat
  /\ Schedules \subseteq (Nat \ {0}) \X (Nat \ {0}) \X Nat
  /\ \A b \in EvalBounds : b[1] \in 1..b[2] /\ b[2] \in 1..10

ASSUME MarketAmounts ==
  /\ FeePools \subseteq Nat \ {0}
  /\ BondChoices \subseteq Nat

ASSUME MarketShares ==
  /\ Scores \subseteq 0..10000
  /\ FeeBpsChoices \subseteq 0..2000
  /\ NonRevealChoices \subseteq 0..10000

ASSUME MarketSettings ==
  /\ EvidenceChoices \subseteq BOOLEAN
  /\ RewardsChoices \subseteq BOOLEAN
  /\ StakingChoices \subseteq [on : BOOLEAN, enforced : BOOLEAN, lock : Nat, threshold : 0..10000]
  /\ NoUser \notin Users

VARIABLES
  tasks,       \* task id => Task
  evals,       \* task id => account => Evaluation
  nextTaskId,
  config,      \* what the owner sets
  reputation,  \* account => the five reputation counters
  marketWeth,  \* WETH held by the contract
  posted       \* history variable: the bonds posted for a task (the contract does not record them)

marketVars == <<tasks, evals, nextTaskId, config, reputation, marketWeth, posted>>

TaskStates == {"None", "Open", "Reveal", "Provisional", "Disputed", "Resolved"}

\* A task id the mapping has no entry for reads as this record.
NoTask ==
  [state |-> "None", commitDeadline |-> 0, revealDeadline |-> 0, disputeDeadline |-> 0,
   minEvals |-> 0, maxEvals |-> 0, feePool |-> 0, evaluators |-> <<>>,
   finalScore |-> 0, finalBundle |-> NoUser, payoutPool |-> 0,
   payoutsSettled |-> FALSE, wasDisputed |-> FALSE, rewardsPaid |-> FALSE]

\* What a commit hash binds: keccak256(taskId, msg.sender, scoreBps, bundleHash, salt).
Commitment(id, u, score) == <<id, u, score>>

NoHash == <<>>

NoEvaluation ==
  [committed |-> FALSE, commitHash |-> NoHash, revealed |-> FALSE, score |-> 0,
   evidence |-> FALSE, lockedStake |-> 0]

NoReputation == [total |-> 0, accurate |-> 0, earned |-> 0, against |-> 0, won |-> 0]

Config ==
  [evalBond : BondChoices, protocolFeeBps : FeeBpsChoices, nonRevealSlashBps : NonRevealChoices,
   rewardsOn : RewardsChoices, staking : StakingChoices]

MarketInit ==
  /\ StakingInit
  /\ now = 0
  /\ RewardsInit(Users)
  /\ tasks = [id \in TaskIds |-> NoTask]
  /\ evals = [id \in TaskIds |-> [u \in Users |-> NoEvaluation]]
  /\ nextTaskId = 1
  /\ config \in Config
  /\ reputation = [u \in Users |-> NoReputation]
  /\ marketWeth = 0
  /\ posted = [id \in TaskIds |-> 0]

-----------------------------------------------------------------------------
(* Views of a task.                                                        *)

Evaluators(id) == {tasks[id].evaluators[i] : i \in 1..Len(tasks[id].evaluators)}

Revealers(id) == {u \in Evaluators(id) : evals[id][u].revealed}

\* scores[revealedCount / 2] of the sorted scores: the element with at most that
\* many smaller ones and more than that many not greater.
M_Median(score, revealers) ==
  CHOOSE m \in {score[u] : u \in revealers} : \A u \in revealers : score[u] <= m

Median(score, revealers) ==
  LET k == Cardinality(revealers) \div 2 IN
  CHOOSE m \in {score[u] : u \in revealers} :
    /\ Cardinality({u \in revealers : score[u] < m}) <= k
    /\ Cardinality({u \in revealers : score[u] <= m}) > k

\* The evidence closest to the final score, the earliest committed of equals.
FinalEvidence(id, final) ==
  LET order == tasks[id].evaluators
      Candidate(i) == evals[id][order[i]].revealed /\ evals[id][order[i]].evidence
      Dist(i) == Diff(evals[id][order[i]].score, final)
      best == {i \in 1..Len(order) :
                 /\ Candidate(i)
                 /\ \A j \in 1..Len(order) : Candidate(j) =>
                      Dist(i) < Dist(j) \/ (Dist(i) = Dist(j) /\ i <= j)}
  IN  IF best = {} THEN NoUser ELSE order[CHOOSE i \in best : TRUE]

-----------------------------------------------------------------------------
(* Before settlement.                                                      *)

createTask(schedule, bounds, feePool) ==
  /\ nextTaskId \in TaskIds
  /\ now + schedule[1] + schedule[2] + schedule[3] < MaxTime
  /\ marketWeth' = marketWeth + feePool
  /\ tasks' = [tasks EXCEPT ![nextTaskId] =
        [NoTask EXCEPT !.state = "Open",
                       !.commitDeadline = now + schedule[1],
                       !.revealDeadline = now + schedule[1] + schedule[2],
                       !.disputeDeadline = now + schedule[1] + schedule[2] + schedule[3],
                       !.minEvals = bounds[1],
                       !.maxEvals = bounds[2],
                       !.feePool = feePool]]
  /\ nextTaskId' = nextTaskId + 1
  /\ UNCHANGED <<evals, config, reputation, posted, stakingVars, rewardVars, now>>

M_AcceptsCommits(t) ==
  /\ t.state \in {"Open", "Reveal"}
  /\ Len(t.evaluators) < t.maxEvals

AcceptsCommits(t) ==
  /\ t.state = "Open"
  /\ now <= t.commitDeadline
  /\ Len(t.evaluators) < t.maxEvals

\* The stake lockStake takes for an evaluation; 0 when staking is not in use.
StakeToLock == IF config.staking.on THEN config.staking.lock ELSE 0

LockStakeFor(u) ==
  /\ (config.staking.on /\ config.staking.enforced) => hasVerifierStake(stakes[u])
  /\ IF StakeToLock > 0
     THEN lockStake(u, StakeToLock)
     ELSE UNCHANGED stakingVars

\* A verifier commits to a score of its own, or sends a hash it saw on chain.
commitEvaluation(id, u, hash) ==
  /\ AcceptsCommits(tasks[id])
  /\ ~evals[id][u].committed
  /\ LockStakeFor(u)
  /\ marketWeth' = marketWeth + config.evalBond
  /\ posted' = [posted EXCEPT ![id] = @ + config.evalBond]
  /\ evals' = [evals EXCEPT ![id][u] =
        [@ EXCEPT !.committed = TRUE, !.commitHash = hash, !.lockedStake = StakeToLock]]
  /\ LET all == Append(tasks[id].evaluators, u) IN
     tasks' = [tasks EXCEPT ![id].evaluators = all,
                            ![id].state = IF Len(all) = tasks[id].maxEvals THEN "Reveal" ELSE @]
  /\ UNCHANGED <<nextTaskId, config, reputation, rewardVars, now>>

openReveal(id) ==
  /\ tasks[id].state = "Open"
  /\ now > tasks[id].commitDeadline
  /\ tasks' = [tasks EXCEPT ![id].state = "Reveal"]
  /\ UNCHANGED <<evals, nextTaskId, config, reputation, marketWeth, posted,
                 stakingVars, rewardVars, now>>

revealEvaluation(id, u, score, evidence) ==
  /\ tasks[id].state = "Reveal"
  /\ now <= tasks[id].revealDeadline
  /\ evals[id][u].committed
  /\ ~evals[id][u].revealed
  /\ evals[id][u].commitHash = Commitment(id, u, score)
  /\ evals' = [evals EXCEPT ![id][u] =
        [@ EXCEPT !.revealed = TRUE, !.score = score, !.evidence = evidence]]
  /\ UNCHANGED <<tasks, nextTaskId, config, reputation, marketWeth, posted,
                 stakingVars, rewardVars, now>>

EnoughReveals(id) == Cardinality(Revealers(id)) >= tasks[id].minEvals

ProtocolFee(id) == (tasks[id].feePool * config.protocolFeeBps) \div 10000

NonRevealSlash == (config.evalBond * config.nonRevealSlashBps) \div 10000

\* What finalize sends: the fee and the slashed part of the bonds to the owner,
\* the rest of the bonds to the evaluators.
FinalizeTransfers(id) ==
  LET committed == Cardinality(Evaluators(id))
      silent == committed - Cardinality(Revealers(id))
  IN  ProtocolFee(id)
        + Cardinality(Revealers(id)) * config.evalBond
        + silent * (config.evalBond - NonRevealSlash)
        + silent * NonRevealSlash

finalize(id) ==
  /\ tasks[id].state = "Reveal"
  /\ now > tasks[id].revealDeadline
  /\ EnoughReveals(id)
  /\ FinalizeTransfers(id) <= marketWeth
  /\ LET median == Median([u \in Users |-> evals[id][u].score], Revealers(id)) IN
     tasks' = [tasks EXCEPT ![id].state = "Provisional",
                            ![id].finalScore = median,
                            ![id].finalBundle = FinalEvidence(id, median),
                            ![id].payoutPool = tasks[id].feePool - ProtocolFee(id)]
  /\ marketWeth' = marketWeth - FinalizeTransfers(id)
  /\ posted' = [posted EXCEPT ![id] = 0]
  /\ UNCHANGED <<evals, nextTaskId, config, reputation, stakingVars, rewardVars, now>>

markDisputed(id) ==
  /\ tasks[id].state = "Provisional"
  /\ tasks' = [tasks EXCEPT ![id].state = "Disputed", ![id].wasDisputed = TRUE]
  /\ reputation' = [u \in Users |->
        IF u \in Revealers(id) THEN [reputation[u] EXCEPT !.against = @ + 1] ELSE reputation[u]]
  /\ UNCHANGED <<evals, nextTaskId, config, marketWeth, posted, stakingVars, rewardVars, now>>

-----------------------------------------------------------------------------
(* Settlement: _settleTask, shared by finalizeUndisputed and markResolved. *)

M_HoldsLock(id, u) == config.staking.on /\ evals[id][u].lockedStake > 0 /\ evals[id][u].revealed

\* The locks of a task are touched only while a staking manager is set.
HoldsLock(id, u) == config.staking.on /\ evals[id][u].lockedStake > 0

IsSlashed(id, u, final, disputed) ==
  /\ HoldsLock(id, u)
  /\ disputed
  /\ evals[id][u].revealed
  /\ Diff(evals[id][u].score, final) > config.staking.threshold

M_RestOfLock(id, u, cut) == evals[id][u].lockedStake

\* What is left to unlock of the lock of an evaluation after a slash.
RestOfLock(id, u, cut) ==
  IF cut >= evals[id][u].lockedStake THEN 0 ELSE evals[id][u].lockedStake - cut

\* The evaluators of a task are distinct, so the loop over them acts on each alone.
SettleStakes(id, final, disputed) ==
  LET hit == {u \in Evaluators(id) : IsSlashed(id, u, final, disputed)}
      cut == [u \in Users |-> IF u \in hit THEN SlashAmount(stakes[u]) ELSE 0]
      slashed == [u \in Users |-> IF u \in hit THEN Slashed(stakes[u]) ELSE stakes[u]]
      holding == {u \in Evaluators(id) : HoldsLock(id, u)}
  IN  /\ \A u \in hit : CanSlash(stakes[u])
      /\ \A u \in holding : CanUnlock(slashed[u], RestOfLock(id, u, cut[u]))
      /\ stakes' = [u \in Users |->
            IF u \in holding THEN Unlocked(slashed[u], RestOfLock(id, u, cut[u])) ELSE stakes[u]]
      /\ slashedPool' = slashedPool + SumFunction(cut)
      /\ totalStaked' = [t \in StakeTypes |->
            totalStaked[t]
              - SumFunction([u \in Users |-> IF stakes[u].stakeType = t THEN cut[u] ELSE 0])]
      /\ evals' = [evals EXCEPT ![id] = [u \in Users |->
            IF u \in holding THEN [@[u] EXCEPT !.lockedStake = 0] ELSE @[u]]]
      /\ UNCHANGED <<ethBalance, wallet>>

IsAccurate(id, u, final) == Diff(evals[id][u].score, final) <= 250

Weight(id, u, final) == IF IsAccurate(id, u, final) THEN 120 ELSE 100

M_Share(id, u, final) ==
  (tasks[id].payoutPool * Weight(id, u, final))
    \div SumFunction([v \in Evaluators(id) |-> Weight(id, v, final)])

\* Revealers share the payout pool by weight, rounded down.
Share(id, u, final) ==
  (tasks[id].payoutPool * Weight(id, u, final))
    \div SumFunction([v \in Revealers(id) |-> Weight(id, v, final)])

\* A dispute that moves the score by less than 5% counts as won by the evaluators.
Defended(id, final) == tasks[id].state = "Disputed" /\ Diff(tasks[id].finalScore, final) < 500

Credit(id, final) ==
  reputation' = [u \in Users |->
    IF u \notin Revealers(id) THEN reputation[u]
    ELSE [reputation[u] EXCEPT
            !.total = @ + 1,
            !.accurate = @ + (IF IsAccurate(id, u, final) THEN 1 ELSE 0),
            !.earned = @ + Share(id, u, final),
            !.won = @ + (IF Defended(id, final) THEN 1 ELSE 0)]]

Settle(id, final, bundle, disputed) ==
  /\ ~tasks[id].payoutsSettled
  /\ SettleStakes(id, final, disputed)
  /\ LET paid == SumFunction([u \in Revealers(id) |-> Share(id, u, final)]) IN
     /\ paid <= marketWeth
     /\ marketWeth' = marketWeth - paid
  /\ Credit(id, final)
  /\ IF config.rewardsOn
     THEN /\ ~tasks[id].rewardsPaid
          /\ onTaskFinalized(id, Winners(evals[id], Evaluators(id), final))
     ELSE UNCHANGED rewardVars
  /\ tasks' = [tasks EXCEPT ![id] =
        [@ EXCEPT !.state = "Resolved",
                  !.finalScore = final,
                  !.finalBundle = bundle,
                  !.payoutsSettled = TRUE,
                  !.rewardsPaid = tasks[id].rewardsPaid \/ config.rewardsOn]]
  /\ UNCHANGED <<nextTaskId, config, posted, now>>

finalizeUndisputed(id) ==
  /\ tasks[id].state = "Provisional"
  /\ now > tasks[id].disputeDeadline
  /\ Settle(id, tasks[id].finalScore, tasks[id].finalBundle, FALSE)

markResolved(id, newFinalScore) ==
  /\ tasks[id].state = "Disputed"
  /\ Settle(id, newFinalScore, FinalEvidence(id, newFinalScore), TRUE)

-----------------------------------------------------------------------------
(* The owner's setters.                                                    *)

OwnerSets(newConfig) ==
  /\ config' = newConfig
  /\ UNCHANGED <<tasks, evals, nextTaskId, reputation, marketWeth, posted,
                 stakingVars, rewardVars, now>>

setBonds == \E b \in BondChoices : OwnerSets([config EXCEPT !.evalBond = b])

setProtocolFeeBps == \E bps \in FeeBpsChoices : OwnerSets([config EXCEPT !.protocolFeeBps = bps])

setNonRevealSlashBps ==
  \E bps \in NonRevealChoices : OwnerSets([config EXCEPT !.nonRevealSlashBps = bps])

setRewardsDistributor == \E on \in RewardsChoices : OwnerSets([config EXCEPT !.rewardsOn = on])

setStakingManager == \E s \in StakingChoices : OwnerSets([config EXCEPT !.staking = s])

-----------------------------------------------------------------------------

Create ==
  \E schedule \in Schedules, bounds \in EvalBounds, feePool \in FeePools :
    createTask(schedule, bounds, feePool)

\* Hashes an account can send: its own commitments and those already on chain.
Hashes(id, u) ==
  ({Commitment(id, u, score) : score \in Scores}
    \union {evals[i][v].commitHash : i \in TaskIds, v \in Users}) \ {NoHash}

Commit(id) == \E u \in Users : \E hash \in Hashes(id, u) : commitEvaluation(id, u, hash)

Reveal(id) ==
  \E u \in Users, score \in Scores, evidence \in EvidenceChoices :
    revealEvaluation(id, u, score, evidence)

Resolve(id) == \E score \in Scores : markResolved(id, score)

Setters ==
  \/ setBonds
  \/ setProtocolFeeBps
  \/ setNonRevealSlashBps
  \/ setRewardsDistributor
  \/ setStakingManager
  \/ configureRewards /\ UNCHANGED <<marketVars, stakingVars, now>>

MarketCall ==
  \/ Create
  \/ \E id \in TaskIds :
       \/ Commit(id)
       \/ openReveal(id)
       \/ Reveal(id)
       \/ finalize(id)
       \/ finalizeUndisputed(id)
       \/ markDisputed(id)
       \/ Resolve(id)
  \/ Setters

\* After deployment the owner of StakingManager is the marketplace: OwnerCall is no
\* step of its own, it happens inside the transactions above.
MarketNext ==
  \/ MarketCall
  \/ StakerCall /\ UNCHANGED <<marketVars, rewardVars>>
  \/ Tick /\ UNCHANGED <<marketVars, rewardVars>>

allVars == <<vars, marketVars, rewardVars>>

MarketSpec == MarketInit /\ [][MarketNext]_allVars

\* Time passes, and anyone may (and the evaluators, to be paid, will) send the
\* permissionless transactions; the owner resolves what it marked as disputed.
MarketFairness ==
  /\ WF_allVars(Tick /\ UNCHANGED <<marketVars, rewardVars>>)
  /\ \A id \in TaskIds :
       /\ WF_allVars(openReveal(id))
       /\ WF_allVars(finalize(id))
       /\ WF_allVars(finalizeUndisputed(id))
       /\ WF_allVars(Resolve(id))

FairMarketSpec == MarketSpec /\ MarketFairness

-----------------------------------------------------------------------------

Task ==
  [state : TaskStates, commitDeadline : Nat, revealDeadline : Nat, disputeDeadline : Nat,
   minEvals : 0..10, maxEvals : 0..10, feePool : Nat, evaluators : Seq(Users),
   finalScore : 0..10000, finalBundle : Users \union {NoUser}, payoutPool : Nat,
   payoutsSettled : BOOLEAN, wasDisputed : BOOLEAN, rewardsPaid : BOOLEAN]

Evaluation ==
  [committed : BOOLEAN, commitHash : (TaskIds \X Users \X Scores) \union {NoHash},
   revealed : BOOLEAN, score : 0..10000, evidence : BOOLEAN, lockedStake : Nat]

\* The variables stay in the ranges of their Solidity types; marketWeth \in Nat says
\* that no accepted transaction of the marketplace pays more than it holds.
MarketTypeOK ==
  /\ TypeOK
  /\ tasks \in [TaskIds -> Task]
  /\ evals \in [TaskIds -> [Users -> Evaluation]]
  /\ nextTaskId \in 1..(MaxTasks + 1)
  /\ config \in Config
  /\ reputation \in [Users -> [total : Nat, accurate : Nat, earned : Nat, against : Nat, won : Nat]]
  /\ marketWeth \in Nat
  /\ posted \in [TaskIds -> Nat]
  /\ rewardConfig \in RewardConfigs
  /\ rewardsPaid \subseteq TaskIds
  /\ minted \in [Users -> Nat]

\* What the contract owes for a task.
Owed(id) ==
  CASE tasks[id].state \in {"Open", "Reveal"} -> tasks[id].feePool + posted[id]
    [] tasks[id].state \in {"Provisional", "Disputed"} -> tasks[id].payoutPool
    [] OTHER -> 0

\* Shares are rounded down: each settled task may leave less than a wei per revealer.
Dust(id) == IF tasks[id].state = "Resolved" THEN Cardinality(Revealers(id)) - 1 ELSE 0

\* The contract holds the fee and the bonds of every unfinalized task and the
\* payout pool of every unsettled one, whatever the others did with theirs, and
\* settlement (_settleTask) leaves nothing behind but rounding.
EscrowIsExact ==
  LET owed == SumFunction([id \in TaskIds |-> Owed(id)])
      dust == SumFunction([id \in TaskIds |-> Dust(id)])
  IN  owed <= marketWeth /\ marketWeth <= owed + dust

\* Stake locked in StakingManager belongs to evaluations of tasks that are not resolved:
\* a settlement, whether it slashes or not, whether the evaluator revealed or not and
\* however the slash rounds, leaves nothing locked for its task (_settleTask).  Less may
\* be locked than the tasks recorded, since slash takes half of the locks of all tasks.
LocksAreReleased ==
  \A u \in Users :
    stakes[u].lockedAmount <=
      SumFunction([id \in TaskIds |->
        IF tasks[id].state = "Resolved" THEN 0 ELSE evals[id][u].lockedStake])

\* Once one evaluation of a task is revealed no evaluation is added to it and no
\* commitment in it changes: nobody scores after seeing the scores of others.
CommitPrecedesReveal ==
  \A id \in TaskIds : Revealers(id) # {} =>
    /\ tasks'[id].evaluators = tasks[id].evaluators
    /\ \A u \in Users : evals'[id][u].commitHash = evals[id][u].commitHash

\* Sending the hash another verifier has on chain, of this task or an earlier one,
\* never yields an evaluation: two revealed evaluations have different hashes.
NoFreeRiding ==
  \A i, j \in TaskIds : \A u \in Revealers(i), v \in Revealers(j) :
    evals[i][u].commitHash = evals[j][v].commitHash => i = j /\ u = v

\* finalize reads its sorted array at revealedCount / 2: a score that a majority
\* of the revealers gave is the provisional score whatever the others revealed.
MajorityDecides ==
  \A id \in TaskIds : tasks[id].state = "Provisional" =>
    \A s \in Scores :
      2 * Cardinality({u \in Revealers(id) : evals[id][u].score = s}) > Cardinality(Revealers(id))
        => tasks[id].finalScore = s

\* The published evidence supports the published score, after a dispute too: no
\* revealed evidence is closer to the final score, and it is missing only if all is.
EvidenceSupportsScore ==
  \A id \in TaskIds : tasks[id].state \in {"Provisional", "Disputed", "Resolved"} =>
    LET given == {u \in Revealers(id) : evals[id][u].evidence}
        best == tasks[id].finalBundle
        Dist(u) == Diff(evals[id][u].score, tasks[id].finalScore)
    IN  IF given = {} THEN best = NoUser
        ELSE best \in given /\ \A u \in given : Dist(best) <= Dist(u)

\* The reputation counters agree with the history of the tasks: each task is
\* settled and each dispute counted once, and neither rate of
\* getVerifierReputation exceeds 100%.
ReputationMatchesHistory ==
  \A u \in Users :
    LET revealedIn == {id \in TaskIds : u \in Revealers(id)} IN
    /\ reputation[u].total =
         Cardinality({id \in revealedIn : tasks[id].state = "Resolved"})
    /\ reputation[u].against = Cardinality({id \in revealedIn : tasks[id].wasDisputed})
    /\ reputation[u].accurate <= reputation[u].total
    /\ reputation[u].won <= reputation[u].against

\* What is published and recorded of a task follows from the reveals alone: copied
\* hashes, minority scores, missing evidence and disputes do not bend it.
SettlementIsFair ==
  /\ MarketTypeOK
  /\ NoFreeRiding
  /\ MajorityDecides
  /\ EvidenceSupportsScore
  /\ ReputationMatchesHistory

\* A settlement mints the whole base reward or nothing: rounding the shares of
\* the winners (VerifierRewards.sol:144) never loses part of it.
MintsWholeReward == SumFunction(minted') - SumFunction(minted) \in {0, rewardConfig.base}

\* What no step of the marketplace may do: touch a commitment once one is revealed, or
\* mint part of a reward.
RoundsAreFair == [][CommitPrecedesReveal /\ MintsWholeReward]_allVars

\* A task whose evaluators revealed in sufficient number is settled, with or without a
\* dispute and a slash, whatever stakers and the owner's setters do meanwhile: no step of
\* finalize or _settleTask (transfers, unlocks, mint) reverts for ever.  It presumes what
\* the instance grants: a base reward the winners can share evenly, and no other task
\* that locks stake of the same verifiers.
RevealedTasksResolve ==
  \A id \in TaskIds :
    (tasks[id].state = "Reveal" /\ EnoughReveals(id)) ~> (tasks[id].state = "Resolved")
=============================================================================
