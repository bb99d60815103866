------------------------------- MODULE BlsScoring -------------------------------
(***************************************************************************)
(* The branch legitimacy score of a decision tree and the slash that       *)
(* follows from it: verifier-node/src/scoring/blsScorer.ts, with the types *)
(* and the default configuration of shared/types.ts.                       *)
(*                                                                         *)
(* Abstractions.  Scores are integers in hundredths, the legitimacy and    *)
(* the slash rate in ten-thousandths, D and U in thousandths, each rounded *)
(* down.  A condition is [words, form]: its words and whether it is        *)
(* "formal" (the allowed grammar with an operator), "prose", "vague" (it   *)
(* says probably, seems, ...) or "empty".  A snippet of evidence is the    *)
(* set of the quotes it contains.  The exponent gamma is the integer Gamma *)
(* (2.7 by default, documented as 2.0 to 3.5).  Records of component       *)
(* scores that only repeat what they were computed from are left out.      *)
(***************************************************************************)
EXTENDS Integers, Sequences, FiniteSets, FiniteSetsExt, Functions

CONSTANTS
  Evidence,  \* id |-> [authority, relevance, quotes], in hundredths
  Gamma      \* slashing_params.gamma

ASSUME GammaAssumption == Gamma \in 2..3
\* Evidence: "0-1 source authority score"
ASSUME EvidenceAssumption ==
  \A id \in DOMAIN Evidence : Evidence[id].authority \in 0..100 /\ Evidence[id].relevance \in 0..100

\* DEFAULT_BLS_CONFIG, DEFAULT_BLS_WEIGHTS and DEFAULT_BLS_SLASHING_PARAMS
LegitThreshold == 6500
Weights == [evidence |-> 35, quote |-> 20, necessity |-> 15, clarity |-> 15, scope |-> 15]
BlsParams == [a |-> 1000, b |-> 6000, c |-> 500]
HardTriggers == [fabricated |-> 8000, noSupport |-> 5000, spam |-> 4000,
                 confidence |-> 75, redundancy |-> 30]
RedundancyThreshold == 85
LambdaExcess == 2

Within(low, high, v) == IF v < low THEN low ELSE IF v > high THEN high ELSE v

AtLeast(low, v) == IF v < low THEN low ELSE v

Root(n) == CHOOSE r \in 0..100 : r * r <= n /\ n < (r + 1) * (r + 1)

Average(f) == SumFunction(f) \div Cardinality(DOMAIN f)

-----------------------------------------------------------------------------
(* Components of a branch's score.                                         *)

\* The source score and relevance of an id; 0 counts as not set.
Authority(id) == IF Evidence[id].authority = 0 THEN 50 ELSE Evidence[id].authority
Relevance(id) == IF Evidence[id].relevance = 0 THEN 50 ELSE Evidence[id].relevance

\* Ids that no evidence has are skipped.
computeEvidenceQuality(branch) ==
  LET ids == branch.supports
      known == {i \in DOMAIN ids : ids[i] \in DOMAIN Evidence}
      score == [i \in known |-> Root(Authority(ids[i]) * Relevance(ids[i]))]
  IN IF known = {} THEN 0 ELSE Average(score)

computeQuoteAttribution(branch) ==
  LET Mismatched(q) == \/ q.evidence_id \notin DOMAIN Evidence
                       \/ q.text \notin Evidence[q.evidence_id].quotes
      bad == Cardinality({i \in DOMAIN branch.quotes : Mismatched(branch.quotes[i])})
  IN IF branch.quotes = <<>> THEN 100
     ELSE 100 - (100 * bad) \div Len(branch.quotes)

\* cosineSimilarity of the sets of words
CosineSimilarity(a, b) ==
  IF a = {} \/ b = {} THEN 0
  ELSE LET both == Cardinality(a \cap b)
       IN Root((both * both * 10000) \div (Cardinality(a) * Cardinality(b)))

computeNecessity(branch, branches) ==
  LET others == {i \in DOMAIN branches : branches[i].id # branch.id}
      dup == Max({0} \cup {CosineSimilarity(branch.condition.words,
                                            branches[i].condition.words) : i \in others})
  IN 100 - Within(0, 100, ((dup - RedundancyThreshold) * 100)
                             \div (100 - RedundancyThreshold))

computeConditionClarity(branch) ==
  LET form == branch.condition.form
  IN CASE form \in {"empty", "vague"} -> 0
       [] form = "formal" /\ branch.parseable -> 100
       [] (form = "formal") # branch.parseable -> 50
       [] OTHER -> 0

\* Ids that no evidence has count as 0 here.
estimateEntailment(branch) ==
  LET ids == branch.supports
      score == [i \in DOMAIN ids |-> IF ids[i] \in DOMAIN Evidence
                                    THEN (Authority(ids[i]) * Relevance(ids[i])) \div 100 ELSE 0]
  IN IF ids = <<>> THEN 0 ELSE Average(score)

computeScopeCorrectness(branch, entailment) ==
  100 - Within(0, 100, branch.confidence - entailment)

\* What computeBranchLegitimacy stores in the branch.
computeBranchLegitimacy(branch, branches) ==
  LET necessity == computeNecessity(branch, branches)
      scope == computeScopeCorrectness(branch, estimateEntailment(branch))
  IN [necessity |-> necessity,
      legitimacy |-> Weights.evidence * computeEvidenceQuality(branch)
                       + Weights.quote * computeQuoteAttribution(branch)
                       + Weights.necessity * necessity
                       + Weights.clarity * computeConditionClarity(branch)
                       + Weights.scope * scope]

-----------------------------------------------------------------------------
(* The tree.  tree is [branches, budget, covered], scores[i] what was      *)
(* stored in branch i.                                                     *)

\* computeBLS, in hundredths of a point.  Going over the budget divides it.
computeBLS(tree, scores) ==
  LET K == Len(tree.branches)
      excess == AtLeast(0, K - tree.budget)
      base == AtLeast(1, tree.budget)
      factor == IF tree.covered THEN 10 ELSE 7
  IN IF K = 0 THEN 0
     ELSE (((Average([i \in 1..K |-> scores[i].legitimacy]) * factor) \div 10) * base) \div (base + excess)

\* The weight of branch i in the severity, times the budget: a branch beyond
\* the budget weighs more the further out it is.
BranchWeight(tree, i) ==
  LET base == AtLeast(1, tree.budget)
  IN IF Len(tree.branches) > tree.budget /\ i - 1 >= tree.budget
     THEN base + LambdaExcess * (i - 1 - tree.budget) ELSE base

\* classifyFaults: D, the share of the legitimate branches that the truth
\* contradicts, and U, the mean deficit of the branches.
classifyFaults(tree, scores, truth) ==
  LET K == Len(tree.branches)
      legit == {i \in 1..K : scores[i].legitimacy >= LegitThreshold}
      wrong == {i \in legit : truth[i] = "wrong"}
      Deficit(i) == AtLeast(0, LegitThreshold - scores[i].legitimacy)
      weighted == SumFunction([i \in 1..K |-> BranchWeight(tree, i) * Deficit(i)])
      total == SumFunction([i \in 1..K |-> BranchWeight(tree, i)])
  IN [D |-> IF legit = {} THEN 0 ELSE (1000 * Cardinality(wrong)) \div Cardinality(legit),
      U |-> IF K = 0 THEN 0
            ELSE Within(0, 1000, (1000 * weighted) \div (LegitThreshold * total)),
      legit |-> Cardinality(legit)]

checkFabricatedQuote(tree) == FALSE

checkHighConfidenceNoSupport(tree) ==
  \E i \in DOMAIN tree.branches :
    /\ tree.branches[i].confidence > HardTriggers.confidence
    /\ tree.branches[i].supports = <<>>

checkSpamRedundancy(tree, scores) ==
  LET redundant == {i \in DOMAIN tree.branches : scores[i].necessity < 50}
  IN 100 * Cardinality(redundant) > HardTriggers.redundancy * Len(tree.branches)

\* b * U^gamma, in ten-thousandths
UnjustifiedPenalty(U) ==
  LET square == (U * U) \div 1000
      power == IF Gamma = 2 THEN square ELSE (square * U) \div 1000
  IN (BlsParams.b * power) \div 1000

\* The slash rate of computeSlashing, in ten-thousandths.
SlashRate(faults, tree, scores) ==
  LET D == faults.D
      U == faults.U
      sD == (((BlsParams.a * D) \div 1000) * D) \div 1000
      overlap == (((BlsParams.c * D) \div 1000) * U) \div 1000
      rate == Within(0, 10000, sD + UnjustifiedPenalty(U) - overlap)
      minima == (IF checkFabricatedQuote(tree) THEN {HardTriggers.fabricated} ELSE {})
                  \cup (IF checkHighConfidenceNoSupport(tree)
                        THEN {HardTriggers.noSupport} ELSE {})
                  \cup (IF checkSpamRedundancy(tree, scores)
                        THEN {HardTriggers.spam} ELSE {})
  IN Max({rate} \cup minima)

computeSlashing(stake, faults, tree, scores) ==
  (stake * SlashRate(faults, tree, scores)) \div 10000
================================================================================
