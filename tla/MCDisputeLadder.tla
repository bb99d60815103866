--------------------------- MODULE MCDisputeLadder ---------------------------
(***************************************************************************)
(* Small instances of DisputeLadder.  They start after the deployment: the *)
(* auditors have staked as experts' stakes require, the verifier may have  *)
(* registered a bundle with one branch, and the owner has set windows,     *)
(* jury sizes and bonds a small instance can go through.                   *)
(*                                                                         *)
(* A run explores up to two instances, and the variable instance says which*)
(* one a behaviour belongs to: the one of the configuration's constants    *)
(* ("juries"), and one in which the owner uses every setter while a first  *)
(* round is decided ("owner").                                             *)
(***************************************************************************)
EXTENDS DisputeLadder

CONSTANTS
  Challenger, Verifier, A1, A2,
  Instances,         \* the instances of this run
  MCAuditors,        \* sequence of the staked auditors
  MCExperts,         \* those registered as human experts
  ChallengerWeth,    \* WETH of the parties: bounds the bonds they post
  VerifierWeth,
  Registered,        \* bundles the verifier registered before
  BranchConfidence,  \* of their branch, without support
  UseVrf,
  JurySize,
  AppealBonds        \* what an appeal to each level costs

\* The verifier is an auditor, and an expert, itself.
VerifierAudits == <<Verifier, A1, A2>>

TwoAuditors == <<A1, A2>>

PartyWeth(challenger, verifier) ==
  [a \in Accounts |-> CASE a = Challenger -> challenger
                       [] a = Verifier -> verifier
                       [] OTHER -> 0]

MCInitialWeth == PartyWeth(ChallengerWeth, VerifierWeth)

OwnerWeth == PartyWeth(3, 3)

\* With bonds of 1, appeals end at level 1 or go on to the last level.
RisingBonds == <<1, 2, 3>>

EvenBonds == <<1, 1, 1>>

MCConfig ==
  [challengeWindow |-> 1, responseWindow |-> 1, useVrf |-> UseVrf, treasury |-> Owner,
   minChallengeBond |-> 1, appealBonds |-> AppealBonds,
   jurySizes |-> [level \in 1..3 |-> JurySize], evidenceWindows |-> <<0, 0, 0>>,
   voteWindows |-> <<0, 0, 0>>, appealWindows |-> [level \in 0..3 |-> 0],
   humanExpertWeightMultiplier |-> 5]

MCFees == [treasury |-> 500, juror |-> 2000]

\* The owner changes nothing.
FixedValues ==
  [bonds |-> {}, jurySizes |-> {}, windows |-> {}, multipliers |-> {}, treasuries |-> {},
   vrf |-> {}, feeBps |-> {}, pauses |-> {}]

\* The owner may use every setter (the treasury only with its present value, which halves
\* the states), raise both fees up to the bound of their sum, and pause.
AllValues ==
  [bonds |-> {1}, jurySizes |-> {1}, windows |-> {1}, multipliers |-> {5}, treasuries |-> {Owner},
   vrf |-> {FALSE}, feeBps |-> {8000}, pauses |-> BOOLEAN]

ExpertStake == 5 * InitialMinStake

MCBundle == [owner |-> Verifier, branchCount |-> 1, declaredBudget |-> 1, submittedAt |-> 0]

MCBranch == [confidenceBps |-> BranchConfidence, supportRoot |-> FALSE,
             requiresSupport |-> BranchConfidence >= HIGH_CONFIDENCE_THRESHOLD]

VARIABLE instance

InitWith(auditors, experts, weth, registered) ==
  LET stakes == [a \in Accounts |-> IF a \in Range(auditors) THEN ExpertStake ELSE 0]
  IN  /\ minStake = InitialMinStake
      /\ minHumanExpertStake = ExpertStake
      /\ stakeOf = stakes
      /\ lockedStake = [a \in Accounts |-> 0]
      /\ active = [a \in Accounts |-> a \in Range(auditors)]
      /\ isHumanExpert = [a \in Accounts |-> a \in experts]
      /\ humanExpertCount = Cardinality(experts)
      /\ auditorList = auditors
      /\ registryWeth = SumFunction(stakes)
      /\ wethOf = weth
      /\ ownerEth = OwnerEth
      /\ minStakeChanged = FALSE
      /\ slashedUnlocked = {}
      /\ bundles = [b \in Bundles |-> IF b \in registered THEN MCBundle ELSE NoBundle]
      /\ branches = [b \in Bundles |-> [i \in BranchIds |->
                                         IF b \in registered THEN MCBranch ELSE NoBranch]]
      /\ now = 0
      /\ LadderInit

MCInit ==
  /\ instance \in Instances
  /\ CASE instance = "juries" -> InitWith(MCAuditors, MCExperts, MCInitialWeth, Registered)
       [] instance = "owner" -> InitWith(TwoAuditors, {}, OwnerWeth, Bundles)

OwnerInstance ==
  INSTANCE DisputeLadder WITH
    SlashRecipients <- {}, StakeAmounts <- {}, Submitters <- {}, BranchCounts <- {},
    Confidences <- {}, Bonds <- {3}, FaultTypes <- {"DISAGREEMENT"}, Levels <- {1},
    OwnerValues <- AllValues, Verdicts <- {"UNDECIDED"}

MCNext ==
  /\ UNCHANGED instance
  /\ \/ instance = "juries" /\ LadderNext
     \/ instance = "owner" /\ OwnerInstance!LadderNext

MCSpec == MCInit /\ [][MCNext]_<<instance, ladderSystemVars>>

\* FairLadderSpec from these initial states.
MCFairSpec ==
  /\ MCSpec
  /\ WF_ladderSystemVars(Tick)
  /\ \A d \in 1..MaxDisputes : WF_ladderSystemVars(d \in Ids /\ Advance(d))
=============================================================================
