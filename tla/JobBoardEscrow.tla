--------------------------- MODULE JobBoardEscrow ----------------------------
(***************************************************************************)
(* Jobs whose budget is held until validators pass the work               *)
(* (contracts/aiagent/JobBoardEscrow.sol): the owner posts a job with its  *)
(* money, splits it into weighted milestones, awards it to an agent and    *)
(* names a validator per request; passing responses release milestones or  *)
(* the remainder, and a dispute settles the rest by a proposed share.      *)
(* The calls of a job's owner, its agent and a request's validator check   *)
(* that the sender is that account and record no other, so accounts are    *)
(* not parameters.  Transfers that fail revert the call, which then does   *)
(* not happen; the calls without a reentrancy guard write nothing that the *)
(* rest of an interrupted payout reads.                                    *)
(***************************************************************************)
EXTENDS Integers, FiniteSets, Functions

CONSTANTS
  Eth,               \* paymentToken of a job paid in ETH: the zero address
  Currencies,        \* ETH and the ERC20 tokens jobs are paid in
  RequestHashes,
  MaxJobs,           \* jobs posted: bounds nextJobId
  Budgets,
  MilestonePlans,    \* the weights addMilestones may be given, functions on 0..n-1
  PassThresholds,    \* 0 asks for the default
  DefaultThresholds, \* values the contract's owner may set
  Scores,            \* scores a validator may give
  PayoutBps,         \* shares a dispute may propose
  SevenDays,         \* the dispute window at deployment, in ticks
  DisputeWindows,    \* values the contract's owner may set, in ticks
  Gifts,             \* ETH sent to the contract by itself
  MaxGifts,          \* bound of the gifts explored
  MaxProofs,         \* bound of the proofs explored: nothing reads them
  LastBlock          \* last block timestamp explored

ASSUME JobConstants ==
  /\ Eth \in Currencies
  /\ IsFiniteSet(Currencies)
  /\ MaxJobs \in Nat
  /\ Budgets \subseteq Nat
  /\ \A weights \in MilestonePlans :
       /\ IsFiniteSet(DOMAIN weights)
       /\ weights \in [0..(Cardinality(DOMAIN weights) - 1) -> Nat]
  /\ PassThresholds \subseteq Nat
  /\ DefaultThresholds \subseteq Nat
  /\ Scores \subseteq Nat
  /\ PayoutBps \subseteq Nat
  /\ SevenDays \in Nat
  /\ DisputeWindows \subseteq Nat
  /\ Gifts \subseteq Nat
  /\ MaxGifts \in Nat
  /\ MaxProofs \in Nat
  /\ LastBlock \in Nat

VARIABLES
  jobs,                 \* job id => Job record
  nextJobId,
  requests,             \* request hash => the job and milestone it is about
  responses,            \* request hash => the validator's score
  proofs,               \* <<job id, milestone>> pairs a proof was submitted for
  escrow,               \* currency => what the contract holds of it
  defaultPassThreshold,
  disputeWindowSeconds,
  blockTime,            \* block.timestamp
  paid,                 \* history variable: job id => what its agent and its owner were paid
  gifts                 \* history variable: ETH received outside postJob

boardVars == <<jobs, nextJobId, requests, responses, proofs, escrow, defaultPassThreshold,
               disputeWindowSeconds, blockTime, paid, gifts>>

JobIds == 1..MaxJobs

AllBps == 10000

NoWeights == [i \in {} |-> 0]

\* A job posted with a budget; the deadline is checked when it is posted and never read.
NewJob(currency, budget, milestoneCount, passThreshold) ==
  [currency |-> currency, budget |-> budget, milestoneCount |-> milestoneCount,
   weights |-> NoWeights, milestonesAdded |-> milestoneCount = 0, released |-> {},
   awardedAt |-> 0, passThreshold |-> passThreshold, totalReleased |-> 0, closed |-> FALSE,
   disputeOpen |-> FALSE, disputePayoutBps |-> 0]

\* An id the mapping has no entry for.
NoJob == [NewJob(Eth, 0, 0, 0) EXCEPT !.milestonesAdded = FALSE]

NoRequest == [job |-> 0, milestone |-> 0]

NoScore == -1

JobsInit ==
  /\ jobs = [id \in JobIds |-> NoJob]
  /\ nextJobId = 1
  /\ requests = [h \in RequestHashes |-> NoRequest]
  /\ responses = [h \in RequestHashes |-> NoScore]
  /\ proofs = {}
  /\ escrow = [c \in Currencies |-> 0]
  /\ defaultPassThreshold = 70
  /\ disputeWindowSeconds = SevenDays
  /\ blockTime = 1
  /\ paid = [id \in JobIds |-> [agent |-> 0, owner |-> 0]]
  /\ gifts = 0

Posted(id) == id < nextJobId

\* award sets the agent and the time together, once.
Awarded(id) == jobs[id].awardedAt # 0

InDisputeWindow(id) == blockTime <= jobs[id].awardedAt + disputeWindowSeconds

\* A share of the budget, rounded down.
Share(job, bps) == (job.budget * bps) \div AllBps

payout(id, toAgent, toOwner) ==
  LET currency == jobs[id].currency
  IN  /\ escrow[currency] >= toAgent + toOwner
      /\ escrow' = [escrow EXCEPT ![currency] = @ - (toAgent + toOwner)]
      /\ paid' = [paid EXCEPT ![id] = [agent |-> @.agent + toAgent, owner |-> @.owner + toOwner]]

-----------------------------------------------------------------------------

setDisputeWindowSeconds(newWindow) ==
  /\ newWindow > 0
  /\ disputeWindowSeconds' = newWindow
  /\ UNCHANGED <<jobs, nextJobId, requests, responses, proofs, escrow, defaultPassThreshold,
                 blockTime, paid, gifts>>

setDefaultPassThreshold(newThreshold) ==
  /\ newThreshold <= 100
  /\ defaultPassThreshold' = newThreshold
  /\ UNCHANGED <<jobs, nextJobId, requests, responses, proofs, escrow, disputeWindowSeconds,
                 blockTime, paid, gifts>>

postJob(currency, budget, milestoneCount, passThreshold) ==
  /\ nextJobId <= MaxJobs
  /\ budget > 0
  /\ passThreshold <= 100
  /\ escrow' = [escrow EXCEPT ![currency] = @ + budget]
  /\ jobs' = [jobs EXCEPT ![nextJobId] =
       NewJob(currency, budget, milestoneCount,
              IF passThreshold = 0 THEN defaultPassThreshold ELSE passThreshold)]
  /\ nextJobId' = nextJobId + 1
  /\ UNCHANGED <<requests, responses, proofs, defaultPassThreshold, disputeWindowSeconds,
                 blockTime, paid, gifts>>

M_addMilestones(id, weights) ==
  /\ Posted(id)
  /\ ~jobs[id].milestonesAdded
  /\ DOMAIN weights = 0..(jobs[id].milestoneCount - 1)
  /\ \A i \in DOMAIN weights : weights[i] > 0
  /\ jobs' = [jobs EXCEPT ![id].weights = weights, ![id].milestonesAdded = TRUE]
  /\ UNCHANGED <<nextJobId, requests, responses, proofs, escrow, defaultPassThreshold,
                 disputeWindowSeconds, blockTime, paid, gifts>>

addMilestones(id, weights) ==
  /\ Posted(id)
  /\ ~jobs[id].milestonesAdded
  /\ DOMAIN weights = 0..(jobs[id].milestoneCount - 1)
  /\ \A i \in DOMAIN weights : weights[i] > 0
  /\ SumFunction(weights) = AllBps
  /\ jobs' = [jobs EXCEPT ![id].weights = weights, ![id].milestonesAdded = TRUE]
  /\ UNCHANGED <<nextJobId, requests, responses, proofs, escrow, defaultPassThreshold,
                 disputeWindowSeconds, blockTime, paid, gifts>>

award(id) ==
  /\ Posted(id)
  /\ ~Awarded(id)
  /\ jobs[id].milestonesAdded
  /\ jobs' = [jobs EXCEPT ![id].awardedAt = blockTime]
  /\ UNCHANGED <<nextJobId, requests, responses, proofs, escrow, defaultPassThreshold,
                 disputeWindowSeconds, blockTime, paid, gifts>>

\* A later proof replaces an earlier one, also when the job is closed.
submitProof(id, milestone) ==
  /\ Awarded(id)
  /\ milestone <= jobs[id].milestoneCount
  /\ Cardinality(proofs \union {<<id, milestone>>}) <= MaxProofs
  /\ proofs' = proofs \union {<<id, milestone>>}
  /\ UNCHANGED <<jobs, nextJobId, requests, responses, escrow, defaultPassThreshold,
                 disputeWindowSeconds, blockTime, paid, gifts>>

requestValidation(id, milestone, h) ==
  /\ Awarded(id)
  /\ ~jobs[id].closed
  /\ milestone <= jobs[id].milestoneCount
  /\ requests[h] = NoRequest
  /\ requests' = [requests EXCEPT ![h] = [job |-> id, milestone |-> milestone]]
  /\ UNCHANGED <<jobs, nextJobId, responses, proofs, escrow, defaultPassThreshold,
                 disputeWindowSeconds, blockTime, paid, gifts>>

submitValidation(h, score) ==
  /\ requests[h] # NoRequest
  /\ responses[h] = NoScore
  /\ score <= 100
  /\ responses' = [responses EXCEPT ![h] = score]
  /\ UNCHANGED <<jobs, nextJobId, requests, proofs, escrow, defaultPassThreshold,
                 disputeWindowSeconds, blockTime, paid, gifts>>

\* The designated validator's answer to request h lets this milestone of the job be paid.
PassedBy(h, id, milestone) ==
  /\ requests[h] = [job |-> id, milestone |-> milestone]
  /\ responses[h] # NoScore
  /\ responses[h] >= jobs[id].passThreshold

\* finalize of one of the milestones.
finalizeMilestone(id, milestone, h) ==
  LET amount == Share(jobs[id], jobs[id].weights[milestone])
      total == jobs[id].totalReleased + amount
  IN  /\ Posted(id)
      /\ ~jobs[id].closed
      /\ milestone < jobs[id].milestoneCount
      /\ PassedBy(h, id, milestone)
      /\ milestone \notin jobs[id].released
      /\ jobs' = [jobs EXCEPT ![id].released = @ \union {milestone},
                              ![id].totalReleased = total,
                              ![id].closed = total >= jobs[id].budget]
      /\ payout(id, amount, 0)
      /\ UNCHANGED <<nextJobId, requests, responses, proofs, defaultPassThreshold,
                     disputeWindowSeconds, blockTime, gifts>>

\* finalize of the whole job, whose index is the number of milestones: pays the remainder,
\* also while a dispute is open.
finalizeJob(id, h) ==
  /\ Posted(id)
  /\ ~jobs[id].closed
  /\ PassedBy(h, id, jobs[id].milestoneCount)
  /\ jobs' = [jobs EXCEPT ![id].totalReleased = jobs[id].budget, ![id].closed = TRUE]
  /\ payout(id, jobs[id].budget - jobs[id].totalReleased, 0)
  /\ UNCHANGED <<nextJobId, requests, responses, proofs, defaultPassThreshold,
                 disputeWindowSeconds, blockTime, gifts>>

\* The share already paid is rounded down before it is compared with the proposal.
openDispute(id, proposedPayoutBps) ==
  /\ Awarded(id)
  /\ ~jobs[id].closed
  /\ ~jobs[id].disputeOpen
  /\ InDisputeWindow(id)
  /\ proposedPayoutBps <= AllBps
  /\ proposedPayoutBps >= (jobs[id].totalReleased * AllBps) \div jobs[id].budget
  /\ jobs' = [jobs EXCEPT ![id].disputeOpen = TRUE, ![id].disputePayoutBps = proposedPayoutBps]
  /\ UNCHANGED <<nextJobId, requests, responses, proofs, escrow, defaultPassThreshold,
                 disputeWindowSeconds, blockTime, paid, gifts>>

acceptDispute(id) ==
  LET targetPayout == Share(jobs[id], jobs[id].disputePayoutBps)
  IN  /\ jobs[id].disputeOpen
      /\ ~jobs[id].closed
      /\ InDisputeWindow(id)
      /\ targetPayout >= jobs[id].totalReleased
      /\ jobs' = [jobs EXCEPT ![id].totalReleased = targetPayout, ![id].closed = TRUE]
      /\ payout(id, targetPayout - jobs[id].totalReleased, jobs[id].budget - targetPayout)
      /\ UNCHANGED <<nextJobId, requests, responses, proofs, defaultPassThreshold,
                     disputeWindowSeconds, blockTime, gifts>>

\* After the window of an unaccepted dispute the owner takes what is left.
reclaimRemainder(id) ==
  /\ jobs[id].disputeOpen
  /\ ~jobs[id].closed
  /\ ~InDisputeWindow(id)
  /\ jobs' = [jobs EXCEPT ![id].closed = TRUE]
  /\ payout(id, 0, jobs[id].budget - jobs[id].totalReleased)
  /\ UNCHANGED <<nextJobId, requests, responses, proofs, defaultPassThreshold,
                 disputeWindowSeconds, blockTime, gifts>>

\* ETH sent to the contract without a call.
receive(amount) ==
  /\ gifts + amount <= MaxGifts
  /\ escrow' = [escrow EXCEPT ![Eth] = @ + amount]
  /\ gifts' = gifts + amount
  /\ UNCHANGED <<jobs, nextJobId, requests, responses, proofs, defaultPassThreshold,
                 disputeWindowSeconds, blockTime, paid>>

NextBlock ==
  /\ blockTime < LastBlock
  /\ blockTime' = blockTime + 1
  /\ UNCHANGED <<jobs, nextJobId, requests, responses, proofs, escrow, defaultPassThreshold,
                 disputeWindowSeconds, paid, gifts>>

JobsNext ==
  \/ \E newWindow \in DisputeWindows : setDisputeWindowSeconds(newWindow)
  \/ \E newThreshold \in DefaultThresholds : setDefaultPassThreshold(newThreshold)
  \/ \E currency \in Currencies, budget \in Budgets, plan \in MilestonePlans,
        passThreshold \in PassThresholds :
       postJob(currency, budget, Cardinality(DOMAIN plan), passThreshold)
  \/ \E id \in JobIds :
       \/ \E weights \in MilestonePlans : addMilestones(id, weights)
       \/ award(id)
       \/ \E bps \in PayoutBps : openDispute(id, bps)
       \/ acceptDispute(id)
       \/ reclaimRemainder(id)
       \/ \E milestone \in 0..jobs[id].milestoneCount : submitProof(id, milestone)
       \/ \E h \in RequestHashes :
            \/ \E milestone \in 0..jobs[id].milestoneCount :
                 requestValidation(id, milestone, h) \/ finalizeMilestone(id, milestone, h)
            \/ finalizeJob(id, h)
  \/ \E h \in RequestHashes, score \in Scores : submitValidation(h, score)
  \/ \E amount \in Gifts : receive(amount)
  \/ NextBlock

JobsSpec == JobsInit /\ [][JobsNext]_boardVars

-----------------------------------------------------------------------------

\* The records of the contract have their types.
JobsTypeOK ==
  /\ \A id \in JobIds :
       /\ jobs[id].currency \in Currencies
       /\ jobs[id].budget \in Nat /\ jobs[id].totalReleased \in Nat
       /\ jobs[id].awardedAt \in Nat /\ jobs[id].milestoneCount \in Nat
       /\ jobs[id].released \subseteq DOMAIN jobs[id].weights
       /\ paid[id] \in [agent : Nat, owner : Nat]
  /\ nextJobId \in 1..(MaxJobs + 1)
  /\ escrow \in [Currencies -> Nat]
  /\ gifts \in Nat /\ blockTime \in Nat

\* What the contract still has to pay out for a job.
Owed(c, job) ==
  IF job.currency = c /\ ~job.closed THEN job.budget - job.totalReleased ELSE 0

\* Jobs share one purse per currency: it holds the unpaid part of every open job and the
\* gifts, nothing more and nothing less, so no job is ever paid from another's budget.
EscrowCoversJobs ==
  \A c \in Currencies :
    escrow[c] = SumFunction([id \in JobIds |-> Owed(c, jobs[id])]) + (IF c = Eth THEN gifts ELSE 0)

\* What the released milestones of a job add up to, each rounded down.
Earned(job) ==
  SumFunction([i \in DOMAIN job.weights |->
    IF i \in job.released THEN Share(job, job.weights[i]) ELSE 0])

\* The agent is paid what passed and no less: a milestone is released by a passing response to
\* a request about it, an open job has paid its released milestones, finalize and acceptDispute
\* never end below that, and only a passed job or an agreed dispute pays anything else.
AgentEarnsWhatPassed ==
  \A id \in JobIds :
    /\ \A i \in jobs[id].released : \E h \in RequestHashes : PassedBy(h, id, i)
    /\ jobs[id].totalReleased >= Earned(jobs[id])
    /\ jobs[id].totalReleased # Earned(jobs[id]) =>
         /\ jobs[id].closed
         /\ \/ /\ jobs[id].totalReleased = jobs[id].budget
               /\ \E h \in RequestHashes : PassedBy(h, id, jobs[id].milestoneCount)
            \/ /\ jobs[id].disputeOpen
               /\ jobs[id].totalReleased = Share(jobs[id], jobs[id].disputePayoutBps)

\* totalReleased, kept apart from the transfers, is what the agent was sent; agent and owner
\* together get the budget of a closed job, and the owner is refunded in a dispute only.
BudgetIsSplit ==
  \A id \in JobIds :
    /\ paid[id].agent = jobs[id].totalReleased
    /\ paid[id].agent + paid[id].owner <= jobs[id].budget
    /\ paid[id].owner > 0 => jobs[id].closed /\ jobs[id].disputeOpen
    /\ jobs[id].closed => paid[id].agent + paid[id].owner = jobs[id].budget

\* The books of JobBoardEscrow.sol are in order whatever milestones, disputes and deadlines
\* come in which order: no check of finalize compares totalReleased with the budget, the
\* weights that were checked in addMilestones and the rounding have to keep it within.
JobsAreExact ==
  /\ JobsTypeOK
  /\ EscrowCoversJobs
  /\ AgentEarnsWhatPassed
  /\ BudgetIsSplit
=============================================================================
