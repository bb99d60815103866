# A verification project for MAMV

MAMV pays several independent verifiers to score a piece of AI output, settles on the
median of their scores, and lets anyone dispute the result with money at stake. This
directory holds TLA+ models of its smart contracts and of the services and libraries
around them, TLC configurations that check them on small instances, and theorems about
the contracts that hold stakes, bonds and fees, about the pipeline and its refinement, and
about the services, whose proofs TLAPS checks for every instance.

Paths below are relative to the repository. `contracts/` stands for
`contracts/contracts/`, the Solidity sources.

    tlc -workers 2 -config MCVaults.cfg MCVaults.tla   # any run: its cfg and its module
    tlapm PipelineProofs.tla                           # any module of proofs

Contents: 1 inventory, 2 modules and code, 3 runs, 4 fairness and refinement, 5 proofs,
6 where code and documentation disagree, 7 what is not modelled, 8 plan.


## 1. Inventory

### The contracts (they hold the money and decide)

| Component | State it keeps | Operations | Talks to |
|---|---|---|---|
| `StakingManager` | per account one record: type, amount, locked amount, unbonding amount and time, active; total per type; pool of slashed ETH | stake, add, start and complete unbonding; by the owner: lock, unlock, slash, distribute | owned by the marketplace after `scripts/deploy.ts` |
| `VerifierMarketplace` (file `VerificationMarketplace.sol`) | per task its phase, deadlines, evaluators, score, payout; per task and verifier the commitment and the revealed score; reputation counters; one WETH balance for everything | create, commit, open reveal, reveal, finalize, mark disputed, finalize undisputed, mark resolved; owner's setters | calls `StakingManager` (lock, slash, unlock), `VerifierRewards` (mint), optionally `VerifierMining` and `MAMVAnchor` |
| `VerifierRewards`, `MMVCoin` | base reward, tolerance, rewarded tasks, coin balances | `onTaskFinalized`, `configureRewards` | called inside the marketplace's settlement, calls its views back |
| `BondVaultWETH` | per user bond and locked bond; per task and user the lock; one WETH balance | deposit, withdraw; by authorised contracts: lock, unlock, slash, reward, fund; pause | authorised for marketplace and ladder, called by neither yet |
| `AuditorRegistry` | per account stake, lock, activity, expert flag; the list of auditors; expert count | stake, unstake, expert registration; by the owner: lock, two slashes, reward, thresholds | read by the ladder |
| `BundleRegistry` | evidence bundles and branch metadata | register bundle, branch, batch | read by the ladder |
| `DisputeLadder` | per dispute its parties, bonds, status, level; per round its jury, votes, winner, deadlines; pending juror rewards; one WETH balance; owner's windows, sizes, fees | open, respond, defend, L0 check, default, VRF callback, evidence, voting, tally, appeal, finalize, claim; setters, pause | reads both registries, requests randomness from a VRF coordinator |
| `VerifierRegistry` | per verifier stake, status, reputation, counters, times; settings; authorised callers | register, deposit, withdraw, exit, (de)activate, slash, record results; setters | called by `ReceiptDisputeManager` |
| `ReceiptDisputeManager` | receipts, one dispute per receipt, bonds in ETH, windows, amounts | submit, challenge, respond, finalize, resolve, expire | calls `VerifierRegistry` |
| `JobBoardEscrow` | per job its currency, budget, milestones with weights, what was released, award, dispute; per request hash the job and milestone it is about and the validator's score; one balance per currency | post, add milestones, award, submit proof, request and submit validation, finalize a milestone or the job, open and accept a dispute, reclaim; owner's window and threshold | ERC20 tokens |
| `AIAgentRegistry`, `AgentStaking`, `AutomatedEvaluator` | agents and their stakes, evaluation requests | see section 7 | among themselves |
| `VerifierMining`, `VerifyStaking`, `MAMVAnchor` | epochs and rewards; staked tokens; one result per task | hooks of the settlement, claims | called by the marketplace if set |
| others | `DisputeResolver(V2)`, `AuditorRegistryV2`, `BLSSlashingManager`, insurance, cross-chain, DeFi, governance, badges | see section 7 | |

### The services (they run on the way to the chain)

| Component | State it keeps | Operations | Talks to |
|---|---|---|---|
| Verification pipeline (`api/src/routes`, `services/jobQueue.ts`, `idempotency.ts`, `verifier-node/src/services/jobProcessor.ts`) | in memory: idempotency keys, requests in flight, each node's commitments and reveal timers; on disk: evidence; in Redis: the jobs | accept a request, create its task, queue and answer; take, evaluate, commit, schedule and reveal; retry, stall, crash; purge evidence | the marketplace, Bull, Redis |
| Webhooks (`api/src/services/webhooks.ts`) | subscriptions and their counts, deliveries | subscribe, change, remove, deliver with retries | subscribers over HTTP |
| Records (`recordsService.ts`) | cache of records, last indexed block, two flags | index a range of blocks, list | the marketplace's events |
| Validator service (`services/validator`) with `validationStore.ts` | processed requests and receipts in memory and in a file; the API's requests, receipts and summaries | poll, run a plugin, mark, save, post | the API's validation routes |
| Provider routing (`modelRouter.ts`, `trust.ts`, `providerControl.ts`, `circuitBreaker.ts`, `retry.ts`) | breaker, penalty and slash of each model | ask several models at once, retry, decide a quorum | providers |
| Reliable client (`verifier-node/src/providers/reliability.ts`) | breaker, counts, cache of idempotent answers | execute with retries and time-outs | a provider |
| Decision gate (`mamvVerifier.ts`, `decisionGate.ts`, `mmvRateLimiter.ts`) | request windows, calls in flight | limit, ask the model, gate, sign an attestation | a model, a signer |
| Verification programs (`src/programs`, two `programRegistry.ts`) | the registry of each process, the program directory | load, list, resolve, announce, run, verify | API, nodes, command line |
| Metering (`packages/genail-integration`) | counters, call log, provenance of one execution | check, call, record, throw | the runtime's executor |

### Documents and scores (pure data that several programs must read alike)

| Component | Operations |
|---|---|
| Evidence bundles (`evidenceBundler.ts`, `evidenceBundlerV2.ts`, `ipfsStorageV2.ts`, `privacyMode.ts`, `transparency.ts`) | build, hash, sign, check, encrypt for recipients, open, store, fetch from gateways |
| Assessment receipts (`shared/receipt.ts`, `possibilitySpace.ts`, `onchainVerify.ts`) | build, hash, annotate, validate, compare with the chain |
| Portable receipts (`packages/receipt-verifier`) | create, sign, anchor, verify offline and on chain |
| GenAIL receipts and evidence (`packages/genail-integration`) | parse a program, run, hash, bundle, validate, submit, wait |
| Scoring (`scorer.ts`, `merkleVotes.ts`, `consistencyChecker.ts`, `blsScorer.ts`, `claim_graph`) | similarity, peers, outliers, quorum, verdict, score; Merkle votes; claim graph; branch scores, faults, slash |

### How the parts interact

An Ethereum transaction is atomic: it happens as a whole or reverts as a whole, calls into
other contracts included. So **one transaction is one action**, `require` and checked
subtractions are its guards, and a revert anywhere in it, also in a callee, means the
action is not enabled. What is concurrent is the *order* of transactions: between any two
calls of one user any other account, the owner and the clock may act. Every model of a
contract interleaves all accounts, the owner's setters and time.

A TypeScript process runs one callback at a time and gives way at every `await`. So **a
handler is one action per stretch between two awaits**: what it read before an await may
be stale after it, the awaited call may fail, and the process may crash there. What is in
memory is lost in a crash, what is in Redis, on the chain or in a file is not.

Documents are made in one place and checked in another; between the two they may be
stored, encrypted, mixed up or changed. The models of documents have an honest producer, a
channel that can substitute one document for another or change a field, and the checks of
the code; the question is always what an accepted document says about the issued ones.

### Hard behaviours and the properties that answer them

Names in code font after "in" are the properties the runs list; each is a conjunction of
the named parts given here.

- *Books kept twice by hand.* Totals next to records, locks per user next to locks per
  task, counts next to flags, a balance next to what is owed: `FullyBacked`,
  `TotalsAgree` (in `StakesAreSound`); `VaultExact`, `LocksAddUp` (in `BondsAreSound`);
  `RegistryBacked`, `ExpertsCounted`, `ActiveMatchesStake` (in `RegistryIsSound`);
  `EscrowIsExact`; `LadderSolvent`, `StatusMatchesPhase` (in
  `LadderIsSound`); `FundsMatchClaims`, `CountersMatchReceipts` (in `ReceiptsAreSound`);
  `EscrowCoversJobs`, `BudgetIsSplit` (in `JobsAreExact`).
  Off the chain: `SummariesAddUp` (in `HistoryIsKept`), `DeliveriesAreCounted`,
  `MeteringAddsUp` (in `MeteringHolds`), `StatisticsAddUp` (in `RepliesAddUp`),
  `PenaltyMatchesSlash` (in `RoutingIsSafe`).
- *Rounding.* Slashes and shares are rounded down in two quantities that must stay in
  order: `LockedWithinStake`, `TotalCoversLocked`, `LocksStayCovered`; shares of a budget
  are released one by one and never compared with it (`BudgetIsSplit`,
  `AgentEarnsWhatPassed`, in `JobsAreExact`); quorums and thresholds
  of weights in `OutliersAreAMinority`, `ReliableIsBacked`, `AnswersHaveQuorum`; penalties and
  minima of a slash rate cut to basis points (`SlashFitsTheFaults`, in `ScoresAreSound`).
- *Order of calls.* Overwritten records (`InactiveHoldsNothing`), commits after reveals
  (`RoundsAreFair`), copied hashes and disputes racing a settlement (`SettlementIsFair`),
  calls after the end and answers racing deadlines (`DisputesRunTheirCourse`,
  `ReceiptsKeepTheirTerms`), a job finalized, settled by agreement and reclaimed
  (`JobsAreExact`), rate limits across re-registration (`ReceiptsAreSpaced`).
- *State read at one time and used at another.* Juries drawn by index from a registry that
  changes (`ImpartialJury`); locks of several tasks settled one by one
  (`LocksAreReleased`); the idempotency map (`AnswersAreKept`, and `OneTaskPerKey`, which
  the code does not keep); a breaker and a cache used after an await (`RoutingIsSafe`,
  `RepliesAddUp`); the rate limit (`OutputsAreGated`); an announced program that another
  process loads (`ProgramsRunAsAnnounced`); overlapping polls and indexing runs
  (`NeverReverified`, `IndexMatchesTheChain`).
- *Crashes, stalls, retries.* A node or the API dies between two writes, a job is run
  twice, a confirmation is lost: `SealedJobsAreOnChain`, `ImplementsLifecycle`,
  `EvidenceIsRetained`, `HistoryIsKept`, `OpenedIsCommitted`.
- *Documents that refer to each other.* `AcceptedAreTheSigned`, `HashFixesTheAssessment`,
  `VerdictFollowsTheChain`, `IssuedReceiptsAreValid`, `ValidPortableIsSigned`,
  `GenailDocumentsAreOneRuns`, `VotesAreProvable`, and `NoVerdictOutsideEvidence`
  (in `ProgramsRunAsAnnounced`). What the checks of the code leave open beyond these is in
  section 6.
- *Progress.* A revert in a callee stops a settlement for ever (`RevealedTasksResolve`);
  rounds and jobs must end (`RoundsConclude`, `JobsSettle`). Section 6 has promises of
  progress that the code does not keep.

`PROJECT.json` lists each hazard at its line with the properties that cover it.


## 2. Modules and code

| Module | Models | Composition |
|---|---|---|
| `StakingManager`, `BondVaultWETH`, `AuditorRegistry`, `JobBoardEscrow` | the contracts of these names | each on its own (`Spec`, `VaultSpec`, `RegistrySpec`, `JobsSpec`); `MCVaults` runs the four side by side |
| `VerifierRewards` | `tokenomics/VerifierRewards.sol`, the mint of `MMVCoin.sol` | operators and state, no specification of its own |
| `VerifierMarketplace` | `VerificationMarketplace.sol` | extends `StakingManager` and `VerifierRewards`; the owner's calls to `StakingManager` happen inside its transactions |
| `BundleRegistry` | `BundleRegistry.sol` | read by the ladder |
| `DisputeLadder` | `DisputeLadder.sol` | extends both registries; `LadderNext` interleaves all three |
| `VerifierRegistry`, `ReceiptDisputeManager` | the contracts of these names | the second calls the first inside its transactions |
| `TaskLifecycle` | what the pipeline promises about a task | abstract; `VerificationPipeline` implements it |
| `VerificationPipeline` | API routes, queue, idempotency, node's job processor, evidence retention | API, workers and the part of the marketplace they use |
| `WebhookDelivery`, `RecordIndexer`, `ValidatorService`, `ProviderRouting`, `ReliableClient`, `DecisionGate`, `ProgramRuns`, `MeteredRuntime` | the services of section 1 | each on its own; `MCServices` runs them side by side |
| `EvidenceBundles`, `EvidenceExchange` | what a bundle is and the checks on it; the node, its store, its gateways and its readers | the second extends the first |
| `AssessmentReceipts`, `PortableReceipts`, `GenailReceipts`, `ReceiptExchange` | three formats with their hashes and checks; issuing, changing, checking | the last extends the others |
| `ClaimGraphs`, `ResponseScoring`, `BlsScoring`, `Evaluation` | claim graph; score of answers; score of branches; the state machine that asks, scores and settles | the last extends the others |
| `SumTheorems` | nothing: sums over finite sets and shares rounded down | used by the proofs |
| `VaultProofs`, `LadderProofs`, `ReceiptProofs`, `MarketplaceProofs` | the theorems about contracts | each extends its component; `VaultProofs` is about `BondVaultWETH` and `JobBoardEscrow`, `LadderProofs` about `AuditorRegistry` too, `ReceiptProofs` about `VerifierRegistry` and `ReceiptDisputeManager`, `MarketplaceProofs` about `StakingManager` too |
| `PipelineProofs` | the theorems about the pipeline, with the refinement | extends `VerificationPipeline` |
| `ServiceProofs` | the theorems about the services | extends all eight |
| `DocumentProofs` | the theorems about evidence bundles, the three receipt formats and the scores | extends `EvidenceExchange`, `ReceiptExchange` and `Evaluation` |
| `MCVaults`, `MCVerifierMarketplace`, `MCDisputeLadder`, `MCReceiptDisputes`, `MCVerificationPipeline`, `MCServices`, `MCDocuments` | values of constants, initial states of small instances | extend what they check |

State and actions carry the names of the code's variables and functions. Mappings are
functions over a set of accounts, structs and objects are records, `address(0)` and unset
entries are a distinguished value. Functions with the same guards and effect share an
action (`deposit` and `depositETH`; the six ways to open a dispute; `castVote` and
`submitAuditVote`). `map` in `PROJECT.json` gives the lines of every definition.

Operators named `M_...` are variants of the definition that follows them with a plausible
mistake (a guard dropped, a reset forgotten). No specification uses them; each shows that
some property would notice the mistake.

Three modules run several components in one model: `MCVaults`, `MCServices` and
`MCDocuments` have a variable `system`, chosen in the initial state, and a behaviour moves
that component alone (of the job board in one of two bounds, `OneJob` and `TwoJobs`). They share nothing in the code, so nothing is lost by it, and the
invariants of the others hold in their initial states.
`MCDisputeLadder` and `MCVerificationPipeline` do the same with two instances of one module
(`instance`): the second has other constants (`INSTANCE ... WITH`), or actors that stay
idle. `MCVerifierMarketplace` takes two scenarios, `OneTask` without and `TwoTasks` with a
staking manager, out of the behaviours its constants grant: predicates that all states of a
behaviour satisfy, so that each varies what its hazards need and nothing else.

What is abstracted in the contracts:

- **Hashes** are the tuple they bind. A salt hides and an equality test compares; the
  contracts do nothing else with them. `Hashes(id, u)` lets a verifier send any commitment
  of its own and any hash already on chain.
- **Amounts** are naturals. Solidity 0.8 reverts where a subtraction would be negative, so
  a `TypeOK` with `Nat` is a real claim: no accepted transaction gets there. Overflow of
  256 bits is out of reach of any money and not modelled.
- **Time** is a natural number that advances at any moment; only comparisons with
  deadlines matter, so a window of one tick has a before, an at and an after.
- **Randomness** is a nondeterministic choice of one index per juror.
- **History variables** record what the code forgets but a property needs: `posted` (bonds
  of a task), `reserve` (funded minus paid), `slashedUsers`, `slashedUnlocked`,
  `minStakeChanged`, `changed`, `paid` and `gifts`. They are marked where they are declared, and no guard
  reads them but the bounds on `reserve` and `gifts`.
- Left out as read by nothing that decides: reputation in the auditor registry, evidence
  tiers, margins, URIs, operators' metadata, and events.

What is abstracted in the services:

- **Answers of the outside world** (a model, a subscriber, a chain that confirms or not, a
  plugin) are nondeterministic choices at the await that waits for them; each may also
  fail.
- **Salt, score and bundle** of a run of the node are one number, that of the run: the code
  draws a fresh salt in every run, and the properties ask only which run's salt is held
  and which is on the chain.
- **Bull** is external and modelled from how the code uses it: attempts with a backoff,
  a lock that expires while a worker is busy (a stall), a bounded number of stalls, and
  every process that registers a handler may take a job.
- **Clocks** of windows, breakers and penalties are counted in ticks; half-life and
  recovery are powers and bounds of them.

What is abstracted in documents and scores:

- **Hashes, signatures and ciphers are injective**: a hash is a record of what was hashed,
  a signature of key and content, and a ciphertext of plaintext and recipients. What each
  of them covers, and what is normalised before, is taken from the code field by field.
- **Texts** are short sequences of segments: a claim (its words, numbers and whether it
  is negated) and its citations. A line end that the code rewrites is a text of its own
  (`Lf`). Recognising numbers, names, dates and domains in a text is left out.
- **A task's bundle is made once** (`makeBundle`): a bound, the node makes one per run.


## 3. Runs

Every instance of a contract uses two or three accounts, because the hazards need two
actors, or an actor and its copy, and three verifiers for a median with an outlier.
Amounts are chosen odd or unequal so that rounding happens.

| Run | Instance | Shows |
|---|---|---|
| `vaults` | three systems: two bond holders, two tasks, amounts 1 and 2, rewards up to 1 beyond the reserve; two stakers, stakes of 1 and 3, minimum 1 and 3 by type; two auditors with 3 WETH, thresholds 1 and 5 that change to 2; a job of 7 wei with every operation, whole, with two milestones of 3333 and 6667 bps (2 and 4 wei) or with weights that must be refused; two jobs, in ETH and in a token, that share the contract under fixed settings; 427 thousand states | `BondsAreSound`, `StakesAreSound`, `RegistryIsSound`, `JobsAreExact`: all that is claimed of the books of the four contracts |
| `market` | `OneTask`: one task, three verifiers, three scores (one within 250 bps of another, one within 1000), evidence or not, fee at 0 and the maximum, two reward configurations; `TwoTasks`: two overlapping tasks, two verifiers with a lock of 2 out of a stake of 4, staking and unbonding in between; 513 thousand states | the escrow, what is published and recorded of a task, that nobody commits after a reveal, that no lock outlives its task |
| `market_liveness` | one task with locks, disputes, slashes, the distributor switched on and off, two tolerances; 12 thousand states | settlement is never blocked |
| `ladder` | `juries`: levels 0 and 1 (appeals cost 1, 2 and 3, and the parties post 1), juries of 2 from 3 auditors of whom one is the verifier itself and an expert, random indices, bundles and branches registered and overwritten, auditors joining and leaving; `owner`: one dispute at level 1 with ties and defaults, bonds of 3, every setter and pause at any moment, fees up to their bound; 826 thousand states | impartial juries; solvency, and agreement of status and phase; ballots, finality and the race of answer and default |
| `ladder_liveness` | one dispute, levels 0 to 3 (every appeal bond 1), no setter; 85 thousand states | rounds conclude |
| `receipts` | a verifier and a challenger, two receipts, stakes of 1 and 2 around a minimum that changes from 2 to 1, delays and windows that change; 910 thousand states | funds, counters, statuses and spacing; finality and cool-down |
| `receipt_unanswered` | one receipt, one challenge, a stake of 4 | **violation** of `UnansweredDisputesResolve` |
| `pipeline` | `requests`: two requests with one key, on the new route or the old, and one node; `nodes`: one request and two nodes, so that a stalled job is run by both; the API as another worker, two attempts, one stall, one fault of any kind (crash of the node or the API, lost confirmation, failed write or transaction, expired lock), windows of one tick each and a retention of one, so that evidence is purged while reveals are still accepted; 939 thousand states | answers stay true and are what a replay gets; a sealed job is on the chain; evidence of what was sealed is kept for the retention period; the pipeline implements `TaskLifecycle`; every job settles |
| `pipeline_keys` | two requests with one key, two tasks | **violation** of `OneTaskPerKey` |
| `services` | eight systems, each with two overlapping calls, polls, deliveries or callers and a failure or restart where the code has one; six program builds in two directories; 1.2 million states | nine properties, one or two per service |
| `program_returns` | the fixture program of the tests | **violation** of `LoadedProgramsReturn` |
| `documents` | three systems: four bundles in three versions, two readers with keys, a second node, two gateways; six assessments with and without their optional parts, four portable receipts of three verifiers, each signed by any of their keys, four GenAIL runs that differ in a scalar, a nested value, a program or an output, with two changes on the way; four models of three providers with every combination of their answers and four standings, and every tree of up to three branches; 293 thousand states | what a check accepts was issued, as far as hashes and signatures reach; a score follows from the answers |

Bounds and why they are enough:

- `MaxTime` ends the clock; where a run could end before a deadline, `Tick` is enabled as
  long as one lies ahead (ladder, receipts), or a task is created only if its last
  deadline can still pass (market). So every deadline is reached and overrun. In the
  pipeline, windows of one tick and a reveal delay of one keep the proportions of the
  defaults (3600 s, 3600 s, 3700 s): a reveal can be too early, in time and too late. A
  retention of one is not in proportion (7 days by default): it is shorter than the two
  windows together, the case in which evidence is purged before its task is over.
- `InitialWallet`, `InitialWeth`, `InitialFunds`, `OwnerEth` bound the money; the smallest
  values that allow the minimum stake, a second deposit and an odd slash.
- `AppealBonds`, and the bonds the parties post (`Bonds`), decide how far a dispute climbs. With bonds that rise
  `ladder` stays on levels 0 and 1, where juries are drawn, appealed and drawn again under
  a registry that changes; `ladder_liveness` goes through all four. That nothing depends on
  the level is proved: the three theorems about the ladder hold for every level.
- `MaxTasks`, `MaxDisputes`, `MaxReceipts` bound the counters. Two tasks overlap in
  `TwoTasks`; two receipts make the spacing. Disputes of the ladder share only
  the balance and the owner's settings, and `LadderSolvent` is a sum over them; one
  dispute with every setter reaches each way a split is rounded.
- One non-reveal slash is enough for `market`: what `finalize` sends in all does not depend
  on how a bond is split between its evaluator and the owner (lemma `FinalizePays`).
- `MaxLock` and `MaxOverdraft` of the vault cut two quantities that could otherwise grow
  for ever: locks per task, which slashes leave behind, and rewards beyond the reserve.
- `MaxFaults` of the pipeline is one fault of any kind at any moment: the code's promises
  after a fault do not depend on a second one, except the bounded attempts and stalls,
  which are counted and reach their bound with `Attempts = 2` and `MaxStalls = 1`.
- `MaxSends`, `MaxCalls`, `MaxQueries`, `MaxTicks`, `MaxGateTime`, `MaxAtOnce`, `MaxNow`,
  `MaxBlock` end the services' runs after two or three overlapping operations; limits,
  thresholds and time-outs are set to 1 to 3 so that each is reached and passed.
  `MaxIssued`, `MaxChanges`, `MaxPolls`, `MaxCalls` bound the documents: two issued
  receipts can be mixed up, and two changes can hide each other.
- `Amounts`, `Values`, `Bonds`, `Scores`, `Requests`, `Params`, `AnswersOf` and the like
  are the arguments a caller may choose; every choice is taken in every state that
  accepts it.
- Symmetry is declared over accounts and tasks where no constant names one of them and no
  liveness is checked.
- The ladder's initial states (`MCInit`) are after deployment, with auditors staked and,
  in two of the three instances, a bundle registered: states that `stake` and
  `registerBundle` reach.
- `CHECK_DEADLOCK FALSE` is set where the system may really stop: every dispute or receipt
  is final and its deadlines have passed, or a dispute is stuck (section 6); all requests
  are answered and all jobs settled; all documents are made and read.


## 4. Fairness and refinement

The contracts have no scheduler: nothing happens unless an account sends a transaction.
Weak fairness is assumed of exactly these.

- *Time passes* (`Tick`), for the contracts.
- *Functions anyone may call, in the interest of somebody involved.* `openReveal`,
  `finalize`, `finalizeUndisputed` of a task (its evaluators are paid by them); `Advance`
  of a dispute: L0 check, default, callback of the coordinator, start and close of voting,
  tally, finalize (no `onlyOwner`; the winner is paid by them); `finalizeReceipt` and
  `finalizeExpiredDispute`.
- *The owner resolves what it marked as disputed* (`Resolve` of a task): `markDisputed` and
  `markResolved` are called by the same resolver.

Nothing is assumed of verifiers, jurors, parties, stakers or the owner's setters: they may
stay silent for ever. Each fair action stays enabled until taken, so weak fairness is
enough, and each is stated per task or dispute.

In the pipeline the event loops run and awaited calls end (`ApiStep` per request,
`NodeStep` per node), and Bull's timers fire (`BackoffEnds` and `StallFound` per job). The
API process, which registers a handler for the same jobs, takes what waits (`apiProcess`
per job). Nothing is assumed of crashes, faults, reveals or the clock, and none of nodes
taking a job: `JobsSettle` holds because the API's own handler takes it, which is why a
job can be settled without an evaluation (section 6).

Preconditions the liveness properties state because the code gives no way out without
them: enough reveals (`RevealedTasksResolve`), one vote (`RoundsConclude`).

**Refinement.** `TaskLifecycle` says what a task goes through without queue, retries,
stalls or crashes: created, queued, settled, once and in this order; a node seals at most
one evaluation while the task takes them, and opens it at most once after that.
`VerificationPipeline` implements it (`ImplementsLifecycle`, a property of `pipeline`)
under the mapping `StageOf`: a job that waits, runs or is delayed is *queued*, so
everything the queue does between is a stutter; `sealed`, `closed` and `opened` are what
is on the chain, so a second run after a crash or a stall must be a stutter too.


## 5. Proofs

All theorems hold for every value of the constants under the assumptions named in the
modules: finite sets of accounts, tasks and currencies, natural amounts, positive minimum
stakes, shares of at most a whole (`StakingConstants`, `VaultConstants`, `RegistryConstants`,
`JobConstants`, `LadderConstants`; `RegistryAccounts`, `RegistryAmounts`, `RegistrySettings`, `RegistryShares`,
`ReceiptBounds`, `ReceiptEconomics`, `ReceiptWindows`; `MarketTerms`, `MarketAmounts`,
`MarketShares`, `MarketSettings`, `RewardConstants`), and what the services say of theirs.
TLC evaluates the same assumptions on every run. `StakesStaySound`, `BondsStaySound`,
`RegistryStaysSound` and `JobsStayExact` state all that the run `vaults` checks, each
collecting the theorems named below; the theorems about the marketplace state all that
`market` checks, those about the ladder all that `ladder` checks, those about receipts all
that `receipts` checks, those about the pipeline all that `pipeline` checks but for
`JobsSettle`, those about the services all that `services` checks, and those about documents
all that `documents` checks but for the part of `ScoresAreSound` about ranges of scores.
What TLC adds on these runs is that the interesting cases are reachable and that the
mutants are noticed.

**StakingManager** (first part of `MarketplaceProofs`): `LocksAreCovered`, `ClosedPositionsAreEmpty`,
`EveryWeiIsOwed`, `TotalsAreSums`, `StakingTyped`, `PayoutsWait`. The invariant is
`StakesGood /\ Ledger`. `StakesGood` says of each record that it is well typed, its lock
is covered and, if inactive, it is empty. None of the three parts is inductive alone: a
slash halves the lock and takes the same from the stake, so coverage is what makes the
subtraction legal; and `stakeAsVerifier` overwrites an inactive record, so `FullyBacked`
is preserved only because that record is empty. `Ledger` says that ETH and totals are sums
over the records. An action changes one record, so it is enough (`LedgerStep`) that it
moves ETH, pool and totals by what it changes there. `PayoutsWait` is an action property,
proved from the invariant for each action that pays; no run checks it, its theorem does.

**BondVaultWETH** (first part of `VaultProofs`): `BondsCoverLocks`, `VaultHoldsBonds`, `LocksAgree`,
`VaultTyped`. The heart is `ShareLeavesCover`: if a slash takes `s` of a bond `a` and
`l * s \div a` of the lock `l <= a`, then what stays locked, which is rounded up, is still
covered, since its exact value is at most the integer `a - s` and rounding adds less than
one. `BondInv` needs nothing else; `Books` adds the two sums.

**AuditorRegistry** (first part of `LadderProofs`): `RegistryTyped`, `EveryStakeIsHeld`,
`LocksKeepTheirStake`, `ExpertsAreCounted`, `ActivityFollowsStake`. Types and backing are
inductive together with the expert count: the registry's WETH stays natural because it
covers every stake, the count because an expert is one of those counted. Locks use
`ShareLeavesCover` again, and `ShareWithin` for accounts whose lock the other slash has
left above their stake. `ActivityFollowsStake`, and with it `RegistryStaysSound`, assumes a
positive `InitialMinStake`: with a minimum of zero every account reaches it and none is
active.

**DisputeLadder** (`LadderProofs`): `JuriesAreImpartial`, `LadderStaysSound`,
`DisputesRunTheirCourseAlways`. Any number of disputes, auditors and bundles, any random
words, and an owner who changes windows, sizes, bonds and fees between any two steps.

- `LadderInv` joins the registry's `Counted` and `Backed` (the list of auditors is what
  juries are drawn from) with four parts about the ladder. `DisputesOK` relates each dispute
  to its round (`PairOK`): the status agrees with the phase, the voters are jurors, a round
  that waits for its jury has no votes, a jury that sits has the size of its round and no
  party in it. `RequestsOK`: a request that the coordinator has not answered is of the
  current level of a dispute whose round waits. Without it a late answer could replace a
  jury that has voted. `SettingsOK` bounds what the owner can set, of which the books need
  that both fees together stay within the whole. `Books` says that the contract holds the
  bonds of disputes not finalized and the rewards not claimed.
- A function changes one dispute and its round (`Moved`, from `Change` and `Funded`), opens
  one, or settles one. There is a lemma per function, `...Moves`, and `NextLadder` says that
  every step of the system is one of these (`Kinds`) and keeps the invariant.
- That juries are impartial is about three loops of the contract. `KeptFacts`: the loops
  that collect candidates keep order and repeat nobody. `DrawnFacts`: the draws, each of
  which takes the first index from a random one on that was not used, give different
  auditors, none of them a party. `SeatFacts`: putting experts in place of jurors that are
  none changes neither their number nor these facts. A fold is a function chosen to satisfy a recursion, so
  `FoldSolution` first shows that the recursion has a solution; the loops are then
  sequences of states with an invariant.
- `finalize` is where the books could fail: the two bonds go to a winner, the treasury and the
  jurors in shares rounded down, one for each juror who is paid. `PaidWithin` and
  `RewardsWithin` show that the parts add up to `TotalBond` at most, in each outcome, and
  `FinalizeKeeps` that the rewards grow by what the bonds lose or less.
- `DisputesRunTheirCourse` is an action property: each move says what it leaves alone
  (`Course`), and `RequestsOK` is what `fulfillRandomWords` needs for it.

**JobBoardEscrow** (second part of `VaultProofs`): `PursesCoverJobs`, `JobsStayExact`. The invariant is
`BoardInv`: each job's record is sound with the payments made for it (`SoundJob`), what it
released was passed (`EarnedByPassing`), a record past `nextJobId` is empty, and the purses
cover the jobs. `finalize` pays the share of a milestone without looking at the budget; that
the purse suffices and `budget - totalReleased` is never negative rests on
`EarnedWithinBudget`: an open job has released the sum of the shares of its released
milestones, each rounded down, and a sum of parts rounded down stays within the whole
when the weights add up to `AllBps` (`SumScaled`), which `addMilestones` checked once. An
action changes one record, so `PursesFollow` moves one term of the sum. `AgentEarnsWhatPassed`
needs that hashes and responses are given once, so that what passed stays passed.

**VerifierRegistry and ReceiptDisputeManager** (`ReceiptProofs`): `ReceiptsStaySound`,
`ClaimsAreHeld`, `ResultsAreCountedOnce`, `ReceiptsKeepTerms`. `ReceiptInv` relates the two
contracts record by record. `SoundVerifier`: a verifier that is not registered has no
stake, and an active one has at least the minimum while nobody changed it. `SoundReceipt`:
the flags of a receipt and the status of its dispute are at the same stage, a receipt that
is final without a dispute is past its deadline, and an open dispute holds no bond of the
verifier. `Counted`: the counters of a verifier are the numbers of its receipts that ended
so; it is not inductive without `SoundReceipt`, which says that what is counted was not
counted before. `Spaced`: a receipt was submitted no later than its verifier asked to
leave; while the delays are unchanged, `minReceiptInterval` after the verifier's last
activity is at least the gap after its receipts, and a verifier that is unregistered again
submitted its last one a `withdrawDelay` ago. So the gap survives leaving and registering
again. The two ledgers
are sums over stakes and over held bonds; `SumGrown` lets the second grow with the sequence
of disputes. `ReceiptsKeepTerms` is an action property and needs that a final receipt has a
dispute that ended or none.

**VerifierMarketplace** (`MarketplaceProofs`):
`SettlementsStayFair`, `RoundsStayFair`, `EscrowStaysExact`, `LocksStayReleased`. There is
one lemma per function and invariant, `...KeepsTasks`, `...KeepsEscrow`, `...KeepsLocks`.

- `MarketInv` is `StakesGood` and `Ledger` of the staking manager, whose functions run inside
  those of the marketplace, and `TasksGood`: of each task what its phase implies for its
  record, evaluations and bonds (`SoundTask`), and of each account which tasks its
  reputation counts (`SoundReputation`). `SettlementIsFair` follows from parts of it that a
  settlement must carry from one phase to the next: a revealed evaluation opens the hash of
  its own task and account, so hashes that were copied do not open (`SoundEvaluation`); the
  list of evaluators names each account that committed once, so the loops of the contract
  are sets (`ListsCommitted`); a provisional score is a median of the reveals, and a score
  that a majority gave is the only median (`MajorityIsMedian`); the evidence published is
  the closest (`Supported`, from `EvidenceIsClosest`, by the least index). A settlement
  slashes and unlocks within the stakes (`SettleKeepsStakes`), whose heart is
  `SettledStakeIsGood`: what is left of a lock after a slash that takes half of all locks.
- `RoundsStayFair` is an action property. Commits end when a reveal is possible, by the
  phase; and what a settlement mints is the whole base reward, since `onTaskFinalized`
  accepts no remainder (`RewardsAreWhole`).
- `EscrowStaysExact`: a finalize sends what was posted and the fee (`FinalizePays`), a
  settlement the payout pool but for less than a wei for each revealer
  (`SharesMakeThePool`). `EscrowGood` adds to `EscrowIsExact` that a task which is not
  finalized has posted one bond per commitment. The contract does not record what a bond was
  when it was posted, so the theorem has a hypothesis, `BondStays`: the owner changes the
  bond only while no task is open or in its reveal phase. Section 6 says what happens else.
- `LocksStayReleased`: a settlement frees at least what its task recorded as locked, whatever
  slashes for other tasks took meanwhile, and `LocksGood` adds that a task which is settled,
  or any while no staking manager is set, records nothing. Its hypothesis is `StakingStays`:
  the owner unsets the staking manager only while no task runs.

**Verification pipeline** (`PipelineProofs`): `PipelineInvariant`, `AnswersAreKeptAlways`,
`SealedJobsAreOnChainAlways`, `EvidenceStaysRetained`, `PipelineImplementsLifecycle`.
Any number of requests, keys and nodes, of attempts, stalls and faults.

- `PipelineInv` says of each record what it implies about the others. `JobGood`: the runs of
  a job are its failed attempts, its stalls and the run going on, so the number of a run is
  one of `Runs` and the salt of two runs is never the same. `RequestGood`: a handler that is
  about to queue its task has created it and nobody has queued it; no two handlers have the
  same task (`OneHandlerPerTask`), which rests on tasks being numbered as they are created.
  `WorkGood`: a node that waits for a confirmation has its commitment on the chain, not
  opened and with no reveal pending; without it `SealedJobsAreOnChain` is not inductive, as
  the handler schedules the reveal without asking the chain, and another worker may have
  been given the job meanwhile.
- `EvidenceStaysRetained` has no hypothesis about windows and retention, since nothing in the
  code relates them. `EvidenceKept` says that a file is of a task created before it
  (`FilesGood`), so what the retention job deletes belongs to a task older than the
  retention period, and that until then the file of the run that sealed is there
  (`FilesKept`), whatever other runs of the job stored or failed to store. What follows for
  windows that are longer is in section 6.
- The refinement maps each step to one of `TaskLifecycle` or to none. `StageFrom` gives the
  stage of a task from its two records; a step changes one record of one task
  (`StageUpdated`), so it is enough to see how that one moves: `JobsSeen` for the queue,
  whose every step is a stutter or *settled*, `QueueSeen`, `CreateSeen`, `SealSeen`,
  `OpenSeen` and `CloseSeen` for the others. That a second run of a job seals nothing again
  is what the marketplace checks; that it seals only what was queued needs the invariant.

**Services** (`ServiceProofs`), each theorem about the service alone:

- `ReceiptsAreKept`, `ProcessedIsFinal` (`ValidatorService`). `ValidatorInv` adds that
  memory and file of a validator agree between two steps (`SoundDb`), so a restart takes
  nothing back, and that a poll which is posting has its receipt in the file. A receipt's id
  starts with its request, so writing one replaces none of another request. A summary counts
  a set of receipts, and the set grows by one.
- `CountsAreThoseOfDeliveries` (`WebhookDelivery`). What `failureCount` counts is a set of
  pairs of a delivery and one of its failures (`FailedPosts`); `Reached` bounds the posts
  that arrived by the attempts made. Assumes finitely many subscriptions.
- `IndexIsAView` (`RecordIndexer`). The properties speak of the cache; that overlapping
  requests never put an older view into it rests on what each has read before its await
  (`SoundIndexer`): its range ends at a block that was mined, every task settled before the
  range is kept or known to be missed, and while it builds, so is every task settled up to
  its end that it has not left to do.
- `MeteringIsExact` (`MeteredRuntime`). `AddsUp` says of counters and log that they are of
  the same calls; tokens are summed as the cardinality of a set of units. Assumes finitely
  many slots.
- `RoutersStaySafe` (`ProviderRouting`), an action property. `ProbesAreInFlight` is
  inductive with the types of the breakers: a half-open breaker has let calls through only
  in the query in flight (`FirstAsked`: of the calls a query makes to one model the first is
  never refused), and the end of any call to a model takes its breaker out of half open
  (`ProbeEnds`). `SlashesFit` needs that a slash is at most the recovery time, or a late
  failure could shorten it. `QuorumIsTwoThirds` is linear arithmetic.
- `RepliesStayTrue` (`ReliableClient`). Results are numbered in the order in which they came
  (`ResultsNumbered`), so a new one is new and the number of successes grows with the set.
- `AnnouncedProgramsRun` (`ProgramRuns`). A registry holds at most one record of a name and
  version, each allowed and as pinned when it was hashed (`SoundRegistry`); what was read of
  a program before its files were hashed again is of one plugin (`SoundProcess`); what the
  API announced names a version even where the caller left it open (`Announced`). Assumes
  (`ProgramIdentities`) that a manifest which passes `loadManifest` has an id and a version.
- `AttestationsAreEarned` (`DecisionGate`). `AttestedOutputsCleared` carries each check to
  the step that relies on it (`SoundAsk`, `Cleared`). `RateIsBounded` is the hard part: the
  limiter counts in windows that start with a call, so a minute may see the end of one
  window and the start of the next. `SoundWindow` says that a window's count is of the calls
  since its start, and that the minute before its start saw less than the limit; any minute
  lies within two such stretches (`CallsCovered`), hence below twice the limit.

**Evidence bundles and receipts** (`DocumentProofs`): `AcceptedStayTheSigned`,
`OpenedStaysCommitted`, `HashesFixAssessments`, `VerdictsFollowTheChain`,
`IssuedReceiptsStayValid`, `PortableStaysSigned`, `GenailStaysOneRuns`. Any requests and
parameters, any number of documents and of changes to the copy. Hashes and signatures are
injective (section 2); everything else is what the code hashes, signs and compares. Each
invariant says what a document that was made is, and what a copy keeps whoever handled it:

- `ExchangeInv`. A bundle the node made is signed for all it says (`SoundBundle`); a damaged
  one keeps the signature, so a reader recovers somebody else (`SignatureChecked`). The
  command line writes the payload and then the header, and may die in between, so the
  files on disk are of two encryptions; `FilesOK` says that they are of one if they have one
  key. A recipient without an envelope for the payload's key gets nothing, and with one gets
  what the header commits to (`DecryptedIsCommitted`). Normalising twice is normalising once
  (`CanonicalFields`), so the signature still says what it said when no text had a line end
  to rewrite.
- `AssessmentInv`. An issued receipt carries its own hash, and its lists are lists.
  `HashFixesFields`: equal hashes, equal fields of `HASH_FIELDS` up to what
  `normalizeHashValue` sorts; that sorting loses no item is `InOrderPermutes`, from the
  ranks of the items being a bijection (`RankIsBijection`). `BuiltIsValid` goes through the
  checks of `validateReceipt` one by one: each either holds of what `buildReceipt` writes or
  is a part of `CallerWasRight`.
- `PortableInv`. A copy always carries a signature that was issued. It verifies only if that
  is over its own payload, so the payload is the issued one, whatever else was mixed up.
- `GenailInv`. The same with the content hash, which leaves out the integrity block
  (`Stamping`). For the receipt: equal fingerprints mean equal sources after
  `normalizeSource`, and `KeptCodes` says, by induction on the number of lines, that what it
  keeps are the codes of the lines that are not empty; so the settings read off the two
  programs are the same (`SettingsAreCode`). `CanonicalHashFixes` says when two objects have
  one hash: when they agree in their keys, their scalars, and in what is nested at keys that
  occur at the top. With `AcceptedReceipt`, which lists what the validation compares, this
  makes the property an equivalence: it also says what two runs with one receipt may differ in.

Their assumptions on the constants (TLC evaluates them): a request has answers, a
percentage and texts that are texts, and the model's markers for what is absent or missing
are no values of a bundle (`RequestsAssumption`, `MarkersAssumption`); a context's program
is what `parseGenAILProgram` makes of its source, and what a line sets is read off its code
before any comment, as the pattern of `extractProgramMetadata` does (`ContextsAssumption`);
parameters have the types of `BuildReceiptParams` (`ParamsAssumption`); a receipt from
before context versions is one the older builder made: the required fields, its own hash,
its verdict at half of the score (`OldReceiptsAssumption`).

**Scores** (`DocumentProofs`): `OutliersStayAMinority`, `ReliableStaysBacked`,
`VotesStayProvable`, `SlashesFitTheFaults`. Any models, texts and standings, any number of
answers; any evidence, branches, budgets and stakes. The machine computes each result once,
so its invariants (`ScoringInv`, `TreeInv`) only say of what the result was computed; the
work is in the functions.

- *Outliers.* An answer is thrown out if its peer score lies below the weighted median by
  a multiple of the weighted median deviation. Those below a weighted median weigh at most
  half (`MedianSplits`); that is all the property needs, whatever the deviation is.
- *Reliable verdicts.* The verdict asks for two thirds of the kept weight in one cluster.
  With the first property the kept weight is at least half of what counts, hence the third
  of all; the cluster's seed and its providers are those `AgreementClusters` returns.
- *Votes.* Each level of the Merkle tree has half as many nodes, so the tree ends in one
  (`IsTree`, `TopIsRoot`); going up from a leaf, the hash of the proof so far is the node at
  the place `PathOf` gives (`HashAbove`), by induction on the level; at the top that is the
  root. For the order: the leaves of two lists of the same votes, both sorted, agree at
  every place, since a sorted list cannot have a leaf sooner than another has it without
  more leaves before it (`NoLeafSooner`, a count of places).
- *Slashes.* Averages of percentages are percentages (`AverageWithin`), and so are roots and
  cosines (`RootWithin`, `CosineWithin`), so a branch's legitimacy is in its range
  (`LegitimacyWithin`). D is a share of the legitimate branches and zero if the truth
  contradicts none; U is a weighted mean of deficits and zero if every branch is legitimate
  (`DisagreementWithin`, `SeverityWithin`). With U zero the rate is at most a tenth
  (`FaultRateFits`), each hard trigger only raises it (`SlashRateFits`), and rounding the
  slash down keeps it within the stake (`SlashOfRate`).

Their assumptions: a text has finitely many words and weights are not negative
(`AnswersAssumption`, `StandingsAssumption`; `getEffectiveWeight` returns a weight or 0);
source scores and relevance lie between 0 and 1 (`EvidenceAssumption`, `shared/types.ts:312`);
branches are records of `DecisionBranch` with a confidence in its range, budgets and stakes
are not negative (`BranchesAssumption`, `BudgetsAssumption`, `StakeAssumption`); gamma is 2
or 3 (`GammaAssumption`).

**SumTheorems**: `SumFunction` of the community modules is a fold, that is, a function
chosen to satisfy a recursion on subsets. The module proves that for finite sets the
recursion has a solution, that the sum may start with any element, and from that the facts
the ledgers use: a sum of naturals is a natural and bounds its terms (`SumBounds`), a sum
of zeros is zero, and changing a function at one point changes its sum by the difference
(`SumChanged`). Induction is stated over sets (`SetInduction`, from the well-foundedness
of the naturals), because the installed provers do not instantiate theorems that take an
operator.

**Only model-checked**: `EvaluationTypeOK` and `ScoresAreNumbers` (in `ScoresAreSound`), that scores, ratios and components of the claim
graph are in their ranges and a score is a number: the claim graph is folded over the
texts' claims in an order `SortSeq` makes, about which this prover cannot do induction, so
its module keeps to TLC. And liveness under fairness (`RoundsConclude`, `JobsSettle`,
`RevealedTasksResolve`), which is out of its reach as is `ENABLED`.


## 6. Where code and documentation disagree

Three disagreements are runs whose property TLC finds violated:

- `receipt_unanswered`. `docs/VERIFIER_LIFECYCLE.md:35` ends an unanswered dispute with
  `finalizeExpiredDispute`. The slash it causes is sent to the dispute manager itself
  (`ReceiptDisputeManager.sol:218`, `VerifierRegistry.sol:244`), which has no `receive`, so
  the transaction reverts, as does every decision for a challenger that slashes more than
  zero. This is why `receipts` uses stakes small enough that a slash can round to zero, as
  well as larger ones.
- `pipeline_keys`. `docs/api.md:11` promises that a reused idempotency key returns the
  task first created. The key is looked up before the awaits that create the task
  (`api/src/routes/v1/verify.ts:117`) and recorded with the 201 answer (`:290`), so a second
  request in between, or after a failure past `createTask`, creates and pays for another.
- `program_returns`. A program with a possibility space is always rejected by the receipt
  schema (`src/programs/registry.ts:296`), and the shipped program and the fixture of
  `verifier-node/test/programRegistry.test.ts:141` are such.

Others were met while modelling and are stated here, not as runs. Where a property
presumes their absence it says so.

Contracts:

- *Marketplace.* `finalize` refunds the current `evalBond` (`:400`), not the one posted, so
  `setBonds` between commit and finalize pays too much or too little; `EscrowIsExact` is
  checked with the bond fixed and proved for a bond that changes while no task holds any
  (docs/economic-security.md:49 speaks of the posted bond).
  `StakingManager.slash` takes half of *all* locks of a verifier while the settlement
  (`:493`) accounts for the lock of one task: with three overlapping tasks a later unlock
  can revert. `setStakingManager` to zero leaves the locks of tasks settled meanwhile
  (`:487`). A base reward the winners cannot share evenly reverts the settlement
  (`VerifierRewards.sol:145`). A task with too few reveals never ends (`:366`). Slashed ETH
  stays in the pool, since the owner, the marketplace, never calls
  `distributeSlashedFunds`.
- *BondVaultWETH.* `slashBond` leaves the locks per task alone (`:263`), so after a slash
  they exceed the total (`LocksAddUp` speaks of users not slashed; the comment at `:51` of
  all). `payReward` checks the balance only (`:298`), so rewards may be paid out of
  deposits, and a negative `reserve` is what they took.
- *AuditorRegistry.* An expert that falls below `minHumanExpertStake` stays an expert while
  active (`:79`; the comment at `:19` says otherwise). `slash` with `to` leaves the lock.
- *DisputeLadder.* `:22` describes every round as going from jury selection to evidence,
  but a random word whose index falls on a party is spent without a replacement
  (`:740-785`), and with too few jurors the callback reverts; the coordinator does not
  repeat it and nothing else leaves `SELECTING_JURY`, so dispute and bonds stay for ever
  although enough other auditors are active. After the response deadline default and L0
  check race, with different outcomes (`:543`; docs/disputes.md:34). `registerBranch` may
  overwrite a branch under dispute (`BundleRegistry.sol:146`). A ballot nobody voted in can
  be closed but not tallied (`:1015`). When nobody voted, as at L0, the jurors' part stays
  in the contract (`:1234`; ARCHITECTURE.md:71). Jurors are paid out of the bonds of a tie
  or of an undefended dispute too (`:1220`; SECURITY.md:735 bounds rewards by what was
  slashed). `closeVoting` after the last vote reverts, the last vote having closed the
  ballot (`:971`; `DisputeLadder.test.ts:236` expects it to be allowed).
- *JobBoardEscrow.* The share a dispute must propose is compared with the part released so
  far rounded down to basis points (`:422`), so a proposal can be accepted by `openDispute`
  whose target lies below what is released; `acceptDispute` then reverts (`:442`). With a
  budget of 7 and 2 released, 2857 bps pass and aim at 1. `finalize` pays while a dispute is
  open (`:366`), and acceptance reverts afterwards too. A dispute is opened by the owner and
  reclaimed by the owner once the window is over (`:462`), without a word of the agent; and
  without a dispute in the window, what no validator passes stays in the contract, as does
  the budget of a job that is never awarded: the deadline (`:157`) is checked when the job is
  posted and never read again.
- *VerifierRegistry.* Registering again after a full withdrawal restarts the rate limit, so
  `minReceiptInterval` is not enforced when the withdrawal delay is shorter
  (`ReceiptsAreSpaced` states what holds; docs/VERIFIER_LIFECYCLE.md:18). Nothing ties the
  delay to open disputes. A `RESPONDED` dispute has no time limit. Slashing an
  `UNREGISTERED` account makes it `SLASHED`; a `SLASHED` verifier can leave through
  `setActive(false)`.

Services:

- *Pipeline.* No service calls `openReveal`, so with fewer than `maxEvals` commits every
  reveal reverts (docs/getting-started.md:72 has reveals follow by themselves).
  `REVEAL_DELAY_MS` is a fixed 3700 s whatever windows a request asks for, and so is
  `RETENTION_DAYS` (`verifier-node/src/index.ts:46`): neither `api/src/utils/time.ts` nor
  `createTask` bounds a deadline, so with windows longer than the retention the evidence is
  purged while reveals are still accepted, and a dispute that lasts longer outlives it too. `docs/privacy.md:43` promises no more than `EvidenceIsRetained` states;
  `pipeline` is checked with windows longer than the retention. The API's own
  handler competes for `verify` jobs and completes them without an evaluation. The mock
  queue files a job under organisation and id, and the node looks it up by id alone, so the
  status is never updated (`tests/e2e/hello_receipt.test.ts` expects `completed`); mock
  receipts carry `receipt_hash_version`, which `receipt.v1.schema.json` forbids.
- *Records and webhooks.* `initializeRecordsService` and `refreshRecords` are never called,
  and only tests use `WebhookService`.
- *Validator.* A repeated test-suite check counts twice, so a score can be 150. The
  example of docs/VALIDATOR_SERVICE.md, without `expectedOutputHash`, always fails.
- *Programs.* docs/PROGRAMS.md hashes id, version and entrypoint; the code hashes claim
  domain, provenance and possibility space too, and rejects the document's example. The
  module is required before its files are hashed, so for an unpinned version code and hash
  may differ.
- *Decision gate.* The candidate's own score is read by its position in the model's list
  (`decisionGate.ts:50`), not by its index; `overall_score` is not validated; the
  candidates' `outputHash` is made otherwise than `selectedOutputHash`.

Documents and scores:

- *Bundles.* Version 0.3 set through `EVIDENCE_BUNDLE_VERSION` always throws, for want of
  replay. `toScoreBps(1)` is 10000, 1 being read as a fraction. Texts with carriage returns
  lose their signature when encrypted and opened, and an encrypted bundle's transcript does
  not verify. The identifier pinata returns differs from the node's, and `local://` ones
  cannot be fetched. A gateway that answers 200 with something other than JSON ends the
  retrieval. docs/SECURITY.md:317 has the retrieval verify a bundle by a hash match, but
  `verifyBundleIntegrity` (`ipfsStorageV2.ts:272`) checks that fields are present and, as
  its comment admits, not the identifier: every bundle that has them is reported as verified.
  What the other checks of a reader add is `AcceptedAreTheSigned`: a damaged bundle is
  refused for its signature, another bundle of the node is not.
- *Assessment receipts.* docs/ALLUSION_VERIFICATION.md:40 makes the allusion assessment part
  of the canonical payload. It is not in `RECEIPT_HASH_FIELDS` (`shared/receipt.ts:442`), nor
  are the reference consistency checks, so both can be added, changed or dropped without a
  change of the hash, and `receiptsMatch` ignores them too, where its comment (`:950`) names
  the chain context and the signature only. `HashFixesTheAssessment` leaves out exactly
  these two and the annotations. `world_assessments` and `evidence_relations` are sorted by an `id`
  they do not have, so the order the comment at `shared/receipt.ts:524` calls irrelevant
  changes the hash. `performFullVerification` never recomputes the receipt's own hash. A
  receipt built with a possibility space but without the other version-2 fields is refused
  by `validateReceipt`. The trace's length limit drops the conclusion.
- *GenAIL.* The hashes of inputs and outputs drop what is nested (`receipt.ts:41`; README.md:219)
  unless its key occurs at the top as well, so a receipt validates against other runs than
  its own (README.md:235); `GenailDocumentsAreOneRuns` says exactly which.
  `validateReceiptIntegrity` recomputes no hash (README.md:231), the evidence signature is
  never checked, `worthy_threshold_bps` never used, `#` in a prompt ends it, and a failure
  to store evidence after submitting loses the `task_id`.
- *Scoring.* Consistency is NaN for answers without words. Slashed answers still move the
  peer scores. The weight of a claim is that of the answer at the claim's number modulo the
  number of answers. A math proof with every provider slashed still scores 50, "mixed".
  Lines of sources become claims. The overlap of the two penalties is a bonus
  (docs/BLS_SYSTEM.md:508), `checkFabricatedQuote` is always false, and extra empty
  branches dilute U. `calculateAgreement`, `scoreFactualQA`, `analyzeCitations`,
  `calculateLengthConsistency` are never called, and `evaluateBLS` and
  `updateWithGroundTruth` only exported.


## 7. What is not modelled

`components` in `PROJECT.json` names every part with its reason. In short:

- Planned (section 8): agents and their stakes, mining and token staking, the control around
  `BLSSlashingManager`, and messages between chains.
- Superseded: `DisputeResolver` and `DisputeResolverV2`, which the ladder replaces. Their
  effect on the marketplace, `markResolved` with some score, is modelled as an arbitrary
  decision.
- Thin extensions of audited libraries (governance), arithmetic on 256-bit numbers
  (bonding curve, yield), displays (badges, applications), stateless checks of requests
  (tenancy, premiums), recognition of numbers, names and dates in texts, tools run by hand.
- External, modelled only by how the code uses them: WETH, the VRF coordinator, Bull and
  Redis, model providers, IPFS gateways, subscribers, the requester and resolver accounts.
  Reentrancy is not modelled: the functions that call out are guarded or finish their
  updates first, and accounts are plain.


## 8. Plan

Done, in this order: the money of verification, the disputes about it, the services from
request to reveal, the documents they hand on, the scores in them, and the job board.

Next to model:

1. `AgentStaking` and `AIAgentRegistry`: stakes and locks of agents, as in the other vaults.
2. `VerifierMining`, `MAMVAnchor` and `VerifyStaking`: the hooks of the settlement, claims
   of past epochs after `setEpochRewards` (`VerifierMining.sol:149`).
3. The cross-chain contracts: lost, repeated and reordered messages.
4. An abstract specification of an escrow (money in, owed, out) that the marketplace, the
   ladder, the receipts and the job board refine, with the mapping from their balances.

Next to prove:

1. What `EvaluationTypeOK` says of the claim graph, once its folds are recursive functions.
2. The refinement of the escrow specification above, from the books of `MarketplaceProofs`,
   `LadderProofs`, `ReceiptProofs` and `VaultProofs`.
