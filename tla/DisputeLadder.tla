---------------------------- MODULE DisputeLadder ----------------------------
(***************************************************************************)
(* Disputes about evidence bundles (contracts/DisputeLadder.sol): a bonded *)
(* challenge, a response window, a mechanical L0 check, then juries of     *)
(* growing size drawn from the active auditors by a VRF, votes, appeals by *)
(* the loser, and payouts.  Composed with the two registries the ladder    *)
(* reads: bundles can be registered and auditors can join and leave while  *)
(* a dispute runs.                                                         *)
(*                                                                         *)
(* rounds[d] is the current round of dispute d (roundIndex equals          *)
(* currentLevel and nothing reads an earlier round).  Left out: what only  *)
(* views return (hashes, scores, marginBps, invalidBranchCount,            *)
(* fabricationProven, evidence tiers).                                     *)
(***************************************************************************)
EXTENDS AuditorRegistry, BundleRegistry

CONSTANTS
  Parties,          \* accounts that open and defend disputes
  Bonds,            \* bond amounts explored
  FaultTypes,
  ChallengedBranches, \* branches a dispute may name (0: the whole bundle)
  Levels,           \* levels of the jury rounds: 1..3 in the code
  Verdicts,         \* votes explored, among Winners
  EvidenceBy,       \* sides that submit evidence in this instance
  InitialConfig,    \* windows, bonds and sizes set before the explored behaviour
  InitialFees,      \* treasuryFeeBps and jurorRewardBps at the start
  OwnerValues,      \* setter => the values the owner may pass it in this instance
  MaxDisputes

Winners == {"UNDECIDED", "CHALLENGER", "VERIFIER"}

MAX_BRANCHES_PER_BUNDLE == 20

SUPPORT_REQUIRED_BPS == 7500

MaxLevel == 3

\* What the owner configures, in its Solidity types: times, sizes and amounts are unsigned.
Configs ==
  [challengeWindow : Nat, responseWindow : Nat, useVrf : BOOLEAN, treasury : Accounts,
   minChallengeBond : Nat, appealBonds : [1..MaxLevel -> Nat], jurySizes : [1..MaxLevel -> Nat],
   evidenceWindows : [1..MaxLevel -> Nat], voteWindows : [1..MaxLevel -> Nat],
   appealWindows : [0..MaxLevel -> Nat], humanExpertWeightMultiplier : Nat]

ASSUME LadderConstants ==
  /\ Verdicts \subseteq Winners
  /\ Parties \subseteq Accounts
  /\ Submitters \subseteq Accounts
  /\ Bonds \subseteq Nat
  /\ InitialConfig \in Configs
  /\ InitialFees \in [treasury : Nat, juror : Nat]
  /\ InitialFees.treasury + InitialFees.juror <= 10000
  /\ OwnerValues \in [bonds : SUBSET Nat, jurySizes : SUBSET Nat, windows : SUBSET Nat,
                      multipliers : SUBSET Nat, treasuries : SUBSET Accounts,
                      vrf : SUBSET BOOLEAN, feeBps : SUBSET Nat, pauses : SUBSET BOOLEAN]
  /\ MaxDisputes \in Nat

VARIABLES
  disputes,        \* sequence of disputes; the index is the disputeId
  rounds,          \* the current round of each dispute
  vrfRequests,     \* <<dispute, level>> the coordinator has not answered yet
  pendingRewards,  \* account => juror rewards to claim
  ladderWeth,      \* WETH the ladder holds
  paused,
  config,
  fees

ladderVars == <<disputes, rounds, vrfRequests, pendingRewards, ladderWeth, paused, config, fees>>

ladderSystemVars == <<ladderVars, registryVars, bundleVars, wethOf, now>>

NoRound == [phase |-> "NONE", jurySize |-> 0, jurors |-> {}, evidence |-> {}, votes |-> <<>>,
            winner |-> "UNDECIDED", evidenceDeadline |-> 0, voteDeadline |-> 0,
            appealDeadline |-> 0]

LadderInit ==
  /\ disputes = <<>>
  /\ rounds = <<>>
  /\ vrfRequests = {}
  /\ pendingRewards = [a \in Accounts |-> 0]
  /\ ladderWeth = 0
  /\ paused = FALSE
  /\ config = InitialConfig
  /\ fees = InitialFees

Ids == DOMAIN disputes

-----------------------------------------------------------------------------
\* Opening and answering.

\* All six entry points end in _openDispute; ETH is wrapped on the way.
openDispute(who, b, branchId, fault, bond) ==
  /\ ~paused
  /\ Len(disputes) < MaxDisputes
  /\ bond >= config.minChallengeBond
  /\ bundles[b] # NoBundle
  /\ who # bundles[b].owner
  /\ now <= bundles[b].submittedAt + config.challengeWindow
  /\ wethOf[who] >= bond
  /\ wethOf' = [wethOf EXCEPT ![who] = @ - bond]
  /\ ladderWeth' = ladderWeth + bond
  /\ disputes' = Append(disputes,
       [status |-> "OPEN", bundle |-> b, branchId |-> branchId, faultType |-> fault,
        challenger |-> who, verifier |-> bundles[b].owner, challengeBond |-> bond,
        defenseBond |-> 0, currentLevel |-> 0, hasResponded |-> FALSE,
        responseDeadline |-> now + config.responseWindow])
  /\ rounds' = Append(rounds, NoRound)
  /\ UNCHANGED <<vrfRequests, pendingRewards, paused, config, fees, registryVars,
                 bundleVars, now>>

postDefenseBond(d, bond) ==
  LET v == disputes[d].verifier
  IN  /\ ~paused
      /\ disputes[d].status # "FINALIZED"
      /\ bond > 0
      /\ wethOf[v] >= bond
      /\ wethOf' = [wethOf EXCEPT ![v] = @ - bond]
      /\ ladderWeth' = ladderWeth + bond
      /\ disputes' = [disputes EXCEPT ![d].defenseBond = @ + bond]
      /\ UNCHANGED <<rounds, vrfRequests, pendingRewards, paused, config, fees,
                     registryVars, bundleVars, now>>

respondToDispute(d) ==
  /\ ~paused
  /\ disputes[d].status = "OPEN"
  /\ now <= disputes[d].responseDeadline
  /\ ~disputes[d].hasResponded
  /\ disputes' = [disputes EXCEPT ![d].hasResponded = TRUE]
  /\ UNCHANGED <<rounds, vrfRequests, pendingRewards, ladderWeth, paused, config, fees,
                 registryVars, bundleVars, wethOf, now>>

\* The round is decided and its appeal window opens.
Resolved(round, level, winner) ==
  [round EXCEPT !.phase = "RESOLVED", !.winner = winner,
                !.appealDeadline = now + config.appealWindows[level]]

M_resolveForNonResponse(d) ==
  /\ ~paused
  /\ disputes[d].status = "OPEN"
  /\ now > disputes[d].responseDeadline
  /\ rounds' = [rounds EXCEPT ![d] = Resolved(@, 0, "CHALLENGER")]
  /\ disputes' = [disputes EXCEPT ![d].status = "ROUND_RESOLVED"]
  /\ UNCHANGED <<vrfRequests, pendingRewards, ladderWeth, paused, config, fees,
                 registryVars, bundleVars, wethOf, now>>

resolveForNonResponse(d) ==
  /\ ~paused
  /\ disputes[d].status = "OPEN"
  /\ ~disputes[d].hasResponded
  /\ now > disputes[d].responseDeadline
  /\ rounds' = [rounds EXCEPT ![d] = Resolved(@, 0, "CHALLENGER")]
  /\ disputes' = [disputes EXCEPT ![d].status = "ROUND_RESOLVED"]
  /\ UNCHANGED <<vrfRequests, pendingRewards, ladderWeth, paused, config, fees,
                 registryVars, bundleVars, wethOf, now>>

-----------------------------------------------------------------------------
\* The jury.

Party(d, a) == a \in {disputes[d].challenger, disputes[d].verifier}

\* One random word: the first index from it on that is not used yet.  An index that
\* turns out to be a party's is not marked used and the word is spent.
DrawJuror(d, drawn, word) ==
  LET n == activeAuditorCount
      free == {k \in 0..(n - 1) : (word + k) % n \notin drawn.used}
      idx == (word + CHOOSE k \in free : \A j \in free : k <= j) % n
  IN  IF free = {} \/ Party(d, activeAuditorAt(idx)) THEN drawn
      ELSE [jurors |-> Append(drawn.jurors, activeAuditorAt(idx)), used |-> drawn.used \union {idx}]

\* The jurors the random words pick, fewer than the words when some are spent on a party.
DrawnJurors(d, words) ==
  FoldLeft(LAMBDA drawn, word : DrawJuror(d, drawn, word), [jurors |-> <<>>, used |-> {}],
           words).jurors

LeastOf(m, n) == IF m < n THEN m ELSE n

TargetExpertCount(size) ==
  LeastOf(LeastOf((size * config.humanExpertWeightMultiplier) \div 10, size \div 2),
          Len(getActiveHumanExperts))

M_ReplacementExperts(d, jury) ==
  Kept(getActiveHumanExperts, Accounts \ Range(jury))

\* Active experts that may still be seated, in the order of the registry.
ReplacementExperts(d, jury) ==
  Kept(getActiveHumanExperts, {a \in Accounts \ Range(jury) : ~Party(d, a)})

\* _prioritizeHumanExperts: the first jurors that are no experts give way to experts
\* until the target is reached or no expert is left.
SeatExperts(d, jury) ==
  LET seats == Kept([i \in DOMAIN jury |-> i], {i \in DOMAIN jury : ~isHumanExpert[jury[i]]})
      needed == TargetExpertCount(Len(jury)) - (Len(jury) - Len(seats))
      experts == ReplacementExperts(d, jury)
      replaced == 1..LeastOf(needed, Len(experts))
  IN  [i \in DOMAIN jury |->
         IF \E k \in replaced : seats[k] = i
         THEN experts[CHOOSE k \in replaced : seats[k] = i]
         ELSE jury[i]]

\* Random words, taken modulo the number of active auditors where they are used.
Words(size) == [1..size -> 0..(IF activeAuditorCount = 0 THEN 0 ELSE activeAuditorCount - 1)]

\* What _selectJurors may return for some words, and whether some words make it revert: the
\* registry is too small or a word finds no juror.
Juries(d, size) ==
  IF activeAuditorCount < size THEN {}
  ELSE {jury \in {DrawnJurors(d, words) : words \in Words(size)} : Len(jury) = size}

SelectionFails(d, size) ==
  \/ activeAuditorCount < size
  \/ \E words \in Words(size) : Len(DrawnJurors(d, words)) # size

\* _assignJury: the evidence window opens.
WithJury(d, round, level, jury) ==
  [round EXCEPT !.jurors = Range(SeatExperts(d, jury)),
                !.evidenceDeadline = now + config.evidenceWindows[level],
                !.phase = "EVIDENCE"]

NewRound(level) == [NoRound EXCEPT !.phase = "SELECTING_JURY", !.jurySize = config.jurySizes[level]]

\* _escalateToNextLevel with _requestJuryVRF, on the dispute as the caller left it: with
\* the VRF the jury comes later, without it words derived from the block pick it at once
\* and a failed selection reverts the whole call.
Escalate(d, dispute) ==
  LET level == dispute.currentLevel + 1
  IN  /\ dispute.currentLevel < MaxLevel
      /\ disputes' = [disputes EXCEPT ![d] = [dispute EXCEPT !.currentLevel = level,
                                                             !.status = "ROUND_ACTIVE"]]
      /\ \/ /\ config.useVrf
            /\ rounds' = [rounds EXCEPT ![d] = NewRound(level)]
            /\ vrfRequests' = vrfRequests \union {<<d, level>>}
         \/ /\ ~config.useVrf
            /\ \E jury \in Juries(d, config.jurySizes[level]) :
                 rounds' = [rounds EXCEPT ![d] = WithJury(d, NewRound(level), level, jury)]
            /\ UNCHANGED vrfRequests

\* _runMechanicalChecks
MechanicalViolation(dispute) ==
  LET bundle == bundles[dispute.bundle]
      branch == IF dispute.branchId \in BranchIds THEN branches[dispute.bundle][dispute.branchId]
                ELSE NoBranch
  IN  /\ dispute.faultType \in {"UNJUSTIFIED_BRANCHING", "PROTOCOL_VIOLATION"}
      /\ \/ bundle.branchCount > bundle.declaredBudget
         \/ bundle.branchCount > MAX_BRANCHES_PER_BUNDLE
         \/ /\ dispute.branchId > 0
            /\ branch.confidenceBps >= SUPPORT_REQUIRED_BPS \/ branch.requiresSupport
            /\ ~branch.supportRoot

\* Not paused, and open to anyone once the verifier responded or the window closed.
runL0AutoCheck(d) ==
  /\ disputes[d].status = "OPEN"
  /\ disputes[d].hasResponded \/ now > disputes[d].responseDeadline
  /\ \/ /\ MechanicalViolation(disputes[d])
        /\ rounds' = [rounds EXCEPT ![d] = Resolved(@, 0, "CHALLENGER")]
        /\ disputes' = [disputes EXCEPT ![d].status = "ROUND_RESOLVED"]
        /\ UNCHANGED vrfRequests
     \/ /\ ~MechanicalViolation(disputes[d])
        /\ Escalate(d, disputes[d])
  /\ UNCHANGED <<pendingRewards, ladderWeth, paused, config, fees, registryVars,
                 bundleVars, wethOf, now>>

\* The coordinator answers each request once; an answer that reverts (wrong phase, no
\* jury found) is lost with the request.
fulfillRandomWords(d, level) ==
  /\ <<d, level>> \in vrfRequests
  /\ vrfRequests' = vrfRequests \ {<<d, level>>}
  /\ \/ /\ rounds[d].phase = "SELECTING_JURY"
        /\ \E jury \in Juries(d, rounds[d].jurySize) :
             rounds' = [rounds EXCEPT ![d] = WithJury(d, @, level, jury)]
     \/ /\ rounds[d].phase = "SELECTING_JURY" => SelectionFails(d, rounds[d].jurySize)
        /\ UNCHANGED rounds
  /\ UNCHANGED <<disputes, pendingRewards, ladderWeth, paused, config, fees,
                 registryVars, bundleVars, wethOf, now>>

-----------------------------------------------------------------------------
\* Evidence and votes.

\* The packet must repeat the hashes of the bundle, so only who submitted one is kept.
submitEvidence(d, side) ==
  /\ ~paused
  /\ rounds[d].phase = "EVIDENCE"
  /\ now <= rounds[d].evidenceDeadline
  /\ rounds' = [rounds EXCEPT ![d].evidence = @ \union {side}]
  /\ UNCHANGED <<disputes, vrfRequests, pendingRewards, ladderWeth, paused, config, fees, registryVars, bundleVars, wethOf, now>>

startVoting(d) ==
  /\ rounds[d].phase = "EVIDENCE"
  /\ now > rounds[d].evidenceDeadline
  /\ rounds' = [rounds EXCEPT ![d].phase = "VOTING",
                ![d].voteDeadline = now + config.voteWindows[disputes[d].currentLevel]]
  /\ UNCHANGED <<disputes, vrfRequests, pendingRewards, ladderWeth, paused, config, fees, registryVars, bundleVars, wethOf, now>>

IsJuror(round, a) == a \in round.jurors

HasVoted(round, juror) == juror \in DOMAIN round.votes

VotesCast(round) == Cardinality(DOMAIN round.votes)

\* The last vote closes the ballot.
WithVote(round, juror, winner) ==
  [round EXCEPT !.votes = [j \in DOMAIN round.votes \union {juror} |->
                             IF j = juror THEN winner ELSE round.votes[j]],
                !.phase = IF VotesCast(round) + 1 = round.jurySize THEN "TALLY_READY" ELSE @]

\* castVote and submitAuditVote: the jury is fixed, whatever the juror's stake by now.
castVote(d, juror, winner) ==
  /\ ~paused
  /\ rounds[d].phase = "VOTING"
  /\ now <= rounds[d].voteDeadline
  /\ IsJuror(rounds[d], juror)
  /\ ~HasVoted(rounds[d], juror)
  /\ rounds' = [rounds EXCEPT ![d] = WithVote(@, juror, winner)]
  /\ UNCHANGED <<disputes, vrfRequests, pendingRewards, ladderWeth, paused, config, fees, registryVars, bundleVars, wethOf, now>>

M_closeVoting(d) ==
  /\ rounds[d].phase = "VOTING"
  /\ VotesCast(rounds[d]) = rounds[d].jurySize
  /\ rounds' = [rounds EXCEPT ![d].phase = "TALLY_READY"]
  /\ UNCHANGED <<disputes, vrfRequests, pendingRewards, ladderWeth, paused, config, fees,
                 registryVars, bundleVars, wethOf, now>>

closeVoting(d) ==
  /\ rounds[d].phase = "VOTING"
  /\ now > rounds[d].voteDeadline \/ VotesCast(rounds[d]) = rounds[d].jurySize
  /\ rounds' = [rounds EXCEPT ![d].phase = "TALLY_READY"]
  /\ UNCHANGED <<disputes, vrfRequests, pendingRewards, ladderWeth, paused, config, fees, registryVars, bundleVars, wethOf, now>>

VotesFor(round, winner) == Cardinality({j \in DOMAIN round.votes : round.votes[j] = winner})

\* Undecided votes count for neither side.
Majority(round) ==
  LET challenger == VotesFor(round, "CHALLENGER")
      verifier == VotesFor(round, "VERIFIER")
  IN  IF challenger > verifier THEN "CHALLENGER"
      ELSE IF verifier > challenger THEN "VERIFIER"
      ELSE "UNDECIDED"

tally(d) ==
  /\ rounds[d].phase = "TALLY_READY"
  /\ VotesCast(rounds[d]) > 0
  /\ rounds' = [rounds EXCEPT ![d] = Resolved(@, disputes[d].currentLevel, Majority(@))]
  /\ disputes' = [disputes EXCEPT ![d].status = "ROUND_RESOLVED"]
  /\ UNCHANGED <<vrfRequests, pendingRewards, ladderWeth, paused, config, fees,
                 registryVars, bundleVars, wethOf, now>>

-----------------------------------------------------------------------------
\* Appeal and finalization.

WithBond(dispute, side, bond) ==
  IF side = "CHALLENGER" THEN [dispute EXCEPT !.challengeBond = @ + bond]
  ELSE [dispute EXCEPT !.defenseBond = @ + bond]

\* Only the side that lost the round, and after a tie neither.
Loser(d) ==
  CASE rounds[d].winner = "CHALLENGER" -> "VERIFIER"
    [] rounds[d].winner = "VERIFIER" -> "CHALLENGER"
    [] OTHER -> "UNDECIDED"

Account(dispute, side) == IF side = "CHALLENGER" THEN dispute.challenger ELSE dispute.verifier

appeal(d, bond) ==
  LET appellant == Account(disputes[d], Loser(d))
  IN  /\ ~paused
      /\ disputes[d].status = "ROUND_RESOLVED"
      /\ now <= rounds[d].appealDeadline
      /\ Loser(d) # "UNDECIDED"
      /\ disputes[d].currentLevel < MaxLevel
      /\ bond >= config.appealBonds[disputes[d].currentLevel + 1]
      /\ wethOf[appellant] >= bond
      /\ wethOf' = [wethOf EXCEPT ![appellant] = @ - bond]
      /\ ladderWeth' = ladderWeth + bond
      /\ Escalate(d, WithBond(disputes[d], Loser(d), bond))
      /\ UNCHANGED <<pendingRewards, paused, config, fees, registryVars, bundleVars,
                     now>>

TotalBond(dispute) == dispute.challengeBond + dispute.defenseBond

Bps(amount, bps) == (amount * bps) \div 10000

M_Remainder(dispute) == TotalBond(dispute) - Bps(TotalBond(dispute), fees.treasury)

\* What the parties share once the jurors' and the treasury's parts are off.
Remainder(dispute) ==
  TotalBond(dispute) - Bps(TotalBond(dispute), fees.juror) - Bps(TotalBond(dispute), fees.treasury)

\* _computePayouts
PayoutTo(dispute, winner, side) ==
  CASE winner = side -> Remainder(dispute)
    [] winner = "UNDECIDED" -> Remainder(dispute) \div 2
    [] OTHER -> 0

\* _distributeJurorRewards: nothing when nobody voted, as after L0.
RewardPerJuror(dispute, round) ==
  IF VotesCast(round) = 0 THEN 0
  ELSE Bps(TotalBond(dispute), fees.juror) \div VotesCast(round)

\* The balances after the payouts; the accounts may coincide.
Paid(dispute, winner) ==
  [a \in Accounts |->
     wethOf[a]
     + (IF a = dispute.challenger THEN PayoutTo(dispute, winner, "CHALLENGER") ELSE 0)
     + (IF a = dispute.verifier THEN PayoutTo(dispute, winner, "VERIFIER") ELSE 0)
     + (IF a = config.treasury THEN Bps(TotalBond(dispute), fees.treasury) ELSE 0)]

PaidOut(dispute, winner) ==
  PayoutTo(dispute, winner, "CHALLENGER") + PayoutTo(dispute, winner, "VERIFIER")
  + Bps(TotalBond(dispute), fees.treasury)

\* Not paused.  The transfers revert when the balance does not cover them.
finalize(d) ==
  LET dispute == disputes[d]
      winner == rounds[d].winner
  IN  /\ dispute.status = "ROUND_RESOLVED"
      /\ now > rounds[d].appealDeadline
      /\ ladderWeth >= PaidOut(dispute, winner)
      /\ disputes' = [disputes EXCEPT ![d].status = "FINALIZED"]
      /\ pendingRewards' = [a \in Accounts |->
           pendingRewards[a] + (IF HasVoted(rounds[d], a) THEN RewardPerJuror(dispute, rounds[d]) ELSE 0)]
      /\ ladderWeth' = ladderWeth - PaidOut(dispute, winner)
      /\ wethOf' = Paid(dispute, winner)
      /\ UNCHANGED <<rounds, vrfRequests, paused, config, fees, registryVars, bundleVars, now>>

claimRewards(a) ==
  /\ pendingRewards[a] > 0
  /\ ladderWeth >= pendingRewards[a]
  /\ pendingRewards' = [pendingRewards EXCEPT ![a] = 0]
  /\ ladderWeth' = ladderWeth - pendingRewards[a]
  /\ wethOf' = [wethOf EXCEPT ![a] = @ + pendingRewards[a]]
  /\ UNCHANGED <<disputes, rounds, vrfRequests, paused, config, fees, registryVars,
                 bundleVars, now>>

-----------------------------------------------------------------------------
\* The owner, who may change any of this while disputes run.

SetConfig(newConfig) ==
  /\ config' = newConfig
  /\ UNCHANGED <<disputes, rounds, vrfRequests, pendingRewards, ladderWeth, paused, fees, registryVars, bundleVars, wethOf, now>>

setMinChallengeBond(amount) == SetConfig([config EXCEPT !.minChallengeBond = amount])

setAppealBond(level, amount) == SetConfig([config EXCEPT !.appealBonds[level] = amount])

setJurySize(level, size) == SetConfig([config EXCEPT !.jurySizes[level] = size])

setTimeWindows(level, window) ==
  SetConfig([config EXCEPT !.evidenceWindows[level] = window, !.voteWindows[level] = window,
                           !.appealWindows[level] = window])

setHumanExpertWeightMultiplier(multiplier) ==
  /\ multiplier \in 1..10
  /\ SetConfig([config EXCEPT !.humanExpertWeightMultiplier = multiplier])

setChallengeWindow(window) == window > 0 /\ SetConfig([config EXCEPT !.challengeWindow = window])

setResponseWindow(window) == window > 0 /\ SetConfig([config EXCEPT !.responseWindow = window])

setTreasury(account) == SetConfig([config EXCEPT !.treasury = account])

setUseVrf(enabled) == SetConfig([config EXCEPT !.useVrf = enabled])

\* setTreasuryFeeBps and setJurorRewardBps keep the sum of both within the whole.
SetFees(newFees) ==
  /\ newFees.treasury + newFees.juror <= 10000
  /\ fees' = newFees
  /\ UNCHANGED <<disputes, rounds, vrfRequests, pendingRewards, ladderWeth, paused, config, registryVars, bundleVars, wethOf, now>>

setTreasuryFeeBps(bps) == SetFees([fees EXCEPT !.treasury = bps])

setJurorRewardBps(bps) == SetFees([fees EXCEPT !.juror = bps])

\* pause and unpause.
SetPaused(p) ==
  /\ paused # p
  /\ paused' = p
  /\ UNCHANGED <<disputes, rounds, vrfRequests, pendingRewards, ladderWeth, config, fees, registryVars, bundleVars, wethOf, now>>

Configure ==
  \/ \E amount \in OwnerValues.bonds :
       setMinChallengeBond(amount) \/ \E level \in Levels : setAppealBond(level, amount)
  \/ \E level \in Levels, size \in OwnerValues.jurySizes : setJurySize(level, size)
  \/ \E window \in OwnerValues.windows :
       \/ \E level \in Levels : setTimeWindows(level, window)
       \/ setChallengeWindow(window)
       \/ setResponseWindow(window)
  \/ \E multiplier \in OwnerValues.multipliers : setHumanExpertWeightMultiplier(multiplier)
  \/ \E account \in OwnerValues.treasuries : setTreasury(account)
  \/ \E enabled \in OwnerValues.vrf : setUseVrf(enabled)
  \/ \E bps \in OwnerValues.feeBps : setTreasuryFeeBps(bps) \/ setJurorRewardBps(bps)
  \/ \E p \in OwnerValues.pauses : SetPaused(p)

-----------------------------------------------------------------------------

\* Some deadline has not passed.
DeadlineAhead ==
  \/ \E b \in Bundles : bundles[b] # NoBundle /\ now <= bundles[b].submittedAt + config.challengeWindow
  \/ \E d \in Ids :
       \/ disputes[d].status = "OPEN" /\ now <= disputes[d].responseDeadline
       \/ rounds[d].phase = "EVIDENCE" /\ now <= rounds[d].evidenceDeadline
       \/ rounds[d].phase = "VOTING" /\ now <= rounds[d].voteDeadline
       \/ disputes[d].status = "ROUND_RESOLVED" /\ now <= rounds[d].appealDeadline

\* Time bound: once every deadline has passed, more time changes nothing.
Tick ==
  /\ DeadlineAhead
  /\ now' = now + 1
  /\ UNCHANGED <<ladderVars, registryVars, bundleVars, wethOf>>

\* What anyone may call to move dispute d on.
Advance(d) ==
  \/ resolveForNonResponse(d)
  \/ runL0AutoCheck(d)
  \/ \E level \in Levels : fulfillRandomWords(d, level)
  \/ startVoting(d)
  \/ closeVoting(d)
  \/ tally(d)
  \/ finalize(d)

LadderNext ==
  \/ \E who \in Parties, b \in Bundles, i \in ChallengedBranches, f \in FaultTypes, bond \in Bonds :
       openDispute(who, b, i, f, bond)
  \/ \E d \in Ids :
       \/ respondToDispute(d)
       \/ \E bond \in Bonds : postDefenseBond(d, bond) \/ appeal(d, bond)
       \/ \E side \in EvidenceBy : submitEvidence(d, side)
       \/ \E juror \in Accounts, winner \in Verdicts : castVote(d, juror, winner)
       \/ Advance(d)
  \/ \E a \in Accounts : claimRewards(a)
  \/ Configure
  \/ RegistryNext /\ UNCHANGED <<ladderVars, bundleVars, now>>
  \/ BundleNext /\ UNCHANGED <<ladderVars, registryVars, wethOf, now>>
  \/ Tick

LadderSpec ==
  RegistryInit /\ BundleInit /\ now = 0 /\ LadderInit /\ [][LadderNext]_ladderSystemVars

\* Anyone may call the functions of Advance (a keeper does), the coordinator answers, and
\* time passes; the parties, the jurors and the owner need not do anything.
FairLadderSpec ==
  /\ LadderSpec
  /\ WF_ladderSystemVars(Tick)
  /\ \A d \in 1..MaxDisputes : WF_ladderSystemVars(d \in Ids /\ Advance(d))

-----------------------------------------------------------------------------

Statuses == {"OPEN", "ROUND_ACTIVE", "ROUND_RESOLVED", "FINALIZED"}

Phases == {"NONE", "SELECTING_JURY", "EVIDENCE", "VOTING", "TALLY_READY", "RESOLVED"}

\* The records of the ladder keep their Solidity types.
LadderTypeOK ==
  /\ \A d \in Ids :
       /\ disputes[d].status \in Statuses
       /\ disputes[d].challenger \in Accounts
       /\ disputes[d].verifier \in Accounts
       /\ disputes[d].challengeBond \in Nat
       /\ disputes[d].defenseBond \in Nat
       /\ disputes[d].currentLevel \in 0..MaxLevel
       /\ rounds[d].phase \in Phases
       /\ rounds[d].winner \in Winners
       /\ rounds[d].jurors \subseteq Accounts
       /\ DOMAIN rounds[d].votes \subseteq rounds[d].jurors
  /\ Len(rounds) = Len(disputes)
  /\ pendingRewards \in [Accounts -> Nat]
  /\ wethOf \in [Accounts -> Nat]
  /\ ladderWeth \in Nat

\* The bonds of the disputes still to be finalized.
OpenBonds ==
  SumFunction([d \in Ids |-> IF disputes[d].status = "FINALIZED" THEN 0 ELSE TotalBond(disputes[d])])

\* finalize and claimRewards pay from one WETH balance that holds every dispute's bonds:
\* it always covers the bonds still at stake and the rewards still to be claimed, with
\* every split rounded down, whatever the owner sets the fees to in between.
LadderSolvent == ladderWeth >= OpenBonds + SumFunction(pendingRewards)

\* The status of a dispute, kept in one record, and the phase of its round, kept in
\* another, are changed by nine functions; they never disagree, and an unanswered
\* request always belongs to the round that waits for it.
StatusMatchesPhase ==
  /\ \A d \in Ids :
       CASE disputes[d].status = "OPEN" -> rounds[d].phase = "NONE" /\ disputes[d].currentLevel = 0
         [] disputes[d].status = "ROUND_ACTIVE" ->
              /\ rounds[d].phase \in {"SELECTING_JURY", "EVIDENCE", "VOTING", "TALLY_READY"}
              /\ disputes[d].currentLevel > 0
         [] OTHER -> rounds[d].phase = "RESOLVED"
  /\ \A r \in vrfRequests :
       disputes[r[1]].currentLevel = r[2] /\ rounds[r[1]].phase = "SELECTING_JURY"

\* A jury has its size and neither party on it, though the index drawn may be a party's
\* and experts replace jurors afterwards (_selectJurors, _prioritizeHumanExperts).
ImpartialJury ==
  \A d \in Ids : rounds[d].phase \in {"EVIDENCE", "VOTING", "TALLY_READY"} =>
    /\ Cardinality(rounds[d].jurors) = rounds[d].jurySize
    /\ \A juror \in rounds[d].jurors : ~Party(d, juror)

\* A verifier that answered in time does not lose at L0 unless the bundle itself fails
\* the mechanical check (respondToDispute against resolveForNonResponse).
AnsweredIsHeard ==
  [][\A d \in Ids : (/\ disputes[d].status = "OPEN" /\ disputes[d].hasResponded
                     /\ disputes'[d].status = "ROUND_RESOLVED")
                    => MechanicalViolation(disputes[d])]_ladderSystemVars

\* Nothing happens to a finalized dispute: no bond is taken for it any more, no late
\* vote or random word touches its round, and it is paid once.
FinalIsFinal ==
  [][\A d \in Ids : disputes[d].status = "FINALIZED"
                    => disputes'[d] = disputes[d] /\ rounds'[d] = rounds[d]]_ladderSystemVars

\* Within a round the jury stays as it was drawn and a vote stays as it was cast, though
\* auditors leave the registry and votes, deadlines and tallies interleave.
BallotsKept ==
  [][\A d \in Ids : (/\ disputes'[d].currentLevel = disputes[d].currentLevel
                     /\ rounds[d].phase \in {"EVIDENCE", "VOTING", "TALLY_READY"})
       => /\ rounds'[d].jurors = rounds[d].jurors
          /\ \A juror \in DOMAIN rounds[d].votes :
               /\ juror \in DOMAIN rounds'[d].votes
               /\ rounds'[d].votes[juror] = rounds[d].votes[juror]]_ladderSystemVars

\* The records of a dispute agree with each other and with the WETH held.
LadderIsSound == LadderTypeOK /\ StatusMatchesPhase /\ LadderSolvent

\* What no step of the ladder may do, in whatever order the parties, the jurors, the
\* coordinator and the clock come: ignore an answer, reopen a final dispute, or change a
\* jury or a vote.
DisputesRunTheirCourse == AnsweredIsHeard /\ FinalIsFinal /\ BallotsKept

\* A dispute whose round got a vote, or is resolved, does not stay there: it is finalized
\* or a side appeals to the next level, whatever the other jurors do.
RoundsConclude ==
  \A d \in 1..MaxDisputes, level \in 0..MaxLevel :
    (/\ d \in Ids /\ disputes[d].currentLevel = level
     /\ rounds[d].phase = "RESOLVED" \/ VotesCast(rounds[d]) > 0)
    ~> (d \in Ids /\ (disputes[d].status = "FINALIZED" \/ disputes[d].currentLevel > level))
=============================================================================
