------------------------------- MODULE Evaluation -------------------------------
(***************************************************************************)
(* What the verifier node scores, as state machines: the answers to one    *)
(* prompt, which arrive in any order while the standing of the models      *)
(* changes (jobProcessor.ts hands them to scoreVerification), and decision *)
(* trees, which are built, evaluated and later held against the truth      *)
(* (evaluateBLS, updateWithGroundTruth).  In each behaviour one of the two *)
(* happens; subject says which.                                            *)
(*                                                                         *)
(* Bounds: the answers and branches each behaviour may see are Answers and *)
(* BranchChoices, a tree has at most MaxBranches branches.                 *)
(***************************************************************************)
EXTENDS ResponseScoring, BlsScoring

CONSTANTS
  TaskTypes,
  Models,         \* the models that are asked
  AnswersOf,      \* the responses each may give
  Standings,      \* the weights the models may have, each a function on model ids
  BranchChoices, MaxBranches, Budgets,
  Stake,          \* what an evaluator has at stake
  NotYet          \* not computed

\* any answer of any model
ModelResponse == UNION {AnswersOf[m] : m \in Models}

\* A text has finitely many words, and getEffectiveWeight is not negative.
ASSUME AnswersAssumption == \A r \in ModelResponse : IsFiniteSet(RawTokens(r.text))
ASSUME StandingsAssumption ==
  \A standing \in Standings : \A r \in ModelResponse : standing[ModelId(r)] \in Nat

DecisionBranch(b) ==
  /\ DOMAIN b = {"id", "condition", "parseable", "confidence", "supports", "quotes"}
  /\ b.parseable \in BOOLEAN /\ b.confidence \in 0..100
  /\ b.condition.form \in {"formal", "prose", "vague", "empty"}
  /\ IsFiniteSet(b.condition.words)
  /\ b.supports \in Seq(ToSet(b.supports)) /\ b.quotes \in Seq(ToSet(b.quotes))
  /\ \A i \in DOMAIN b.quotes : DOMAIN b.quotes[i] = {"evidence_id", "text"}

ASSUME BranchesAssumption == \A choice \in BranchChoices : DecisionBranch(choice)
ASSUME StakeAssumption == Stake \in Nat
ASSUME BudgetsAssumption == Budgets \subseteq Nat

VARIABLES
  subject,
  taskType, responses, weight, scored,
  tree, scores, settled

evaluationVars == <<subject, taskType, responses, weight, scored, tree, scores, settled>>

EvaluationInit ==
  /\ subject \in {"answers", "tree"}
  /\ taskType \in IF subject = "answers" THEN TaskTypes ELSE {"general"}
  /\ weight \in IF subject = "answers" THEN Standings ELSE {NotYet}
  /\ tree \in [branches : {<<>>},
               budget : IF subject = "tree" THEN Budgets ELSE {0},
               covered : IF subject = "tree" THEN BOOLEAN ELSE {FALSE}]
  /\ responses = <<>> /\ scored = NotYet /\ scores = NotYet /\ settled = NotYet

\* A model answers; queryMultipleModels lists the answers as they come.
Answer(m, r) ==
  /\ subject = "answers" /\ scored = NotYet
  /\ \A i \in DOMAIN responses : ModelId(responses[i]) # m
  /\ responses' = Append(responses, r)
  /\ UNCHANGED <<subject, taskType, weight, scored, tree, scores, settled>>

\* The weights are read once, when the score is computed.
Score ==
  /\ subject = "answers" /\ scored = NotYet /\ responses # <<>>
  /\ \E result \in scoreVerification(taskType, responses, weight) : scored' = result
  /\ UNCHANGED <<subject, taskType, responses, weight, tree, scores, settled>>

\* A branch gets an id of its own.
AddBranch(choice) ==
  LET K == Len(tree.branches)
  IN /\ subject = "tree" /\ scores = NotYet /\ K < MaxBranches
     /\ tree' = [tree EXCEPT !.branches = Append(@, [choice EXCEPT !.id = K + 1])]
     /\ UNCHANGED <<subject, taskType, responses, weight, scored, scores, settled>>

\* evaluateBLS stores the scores in the branches of the tree.
EvaluateBLS ==
  /\ subject = "tree" /\ scores = NotYet
  /\ scores' = [i \in DOMAIN tree.branches |->
                  computeBranchLegitimacy(tree.branches[i], tree.branches)]
  /\ UNCHANGED <<subject, taskType, responses, weight, scored, tree, settled>>

\* updateWithGroundTruth reads the scores the tree carries.
UpdateWithGroundTruth(truth) ==
  LET faults == classifyFaults(tree, scores, truth)
  IN /\ subject = "tree" /\ scores # NotYet /\ settled = NotYet
     /\ settled' = [truth |-> truth, faults |-> faults,
                    bls |-> computeBLS(tree, scores),
                    slash |-> computeSlashing(Stake, faults, tree, scores)]
     /\ UNCHANGED <<subject, taskType, responses, weight, scored, tree, scores>>

EvaluationNext ==
  \/ \E m \in Models : \E r \in AnswersOf[m] : Answer(m, r)
  \/ Score
  \/ \E choice \in BranchChoices : AddBranch(choice)
  \/ EvaluateBLS
  \/ \E truth \in [DOMAIN tree.branches -> {"right", "wrong", "unknown"}] :
       UpdateWithGroundTruth(truth)

-----------------------------------------------------------------------------
(* The records that pass between the steps.                                *)

ScoringResult(s) ==
  /\ s.score = NaN \/ s.score \in 0..100
  /\ s.verdict \in {"reliable", "mixed", "unreliable"} /\ s.bft_quorum \in BOOLEAN
  /\ s.outliers \cup s.group \subseteq DOMAIN responses
  /\ \A f \in DOMAIN s.claim_graph.score_components :
       s.claim_graph.score_components[f] \in 0..Unit
  /\ s.claim_graph.agreement_ratio \in 0..Unit /\ s.claim_graph.citation_coverage \in 0..Unit

BranchingDecisionTree(t) ==
  /\ t.budget \in Nat /\ t.covered \in BOOLEAN
  /\ \A i \in DOMAIN t.branches : DecisionBranch(t.branches[i])

TenThousandths == 0..10000

SlashingCalculation ==
  [D : 0..1000, U : 0..1000, legit : 0..MaxBranches]

-----------------------------------------------------------------------------
(* Properties.                                                             *)

\* The answers, trees, scores and slashes are records of scorer.ts and types.ts.
EvaluationTypeOK ==
  /\ \A i \in DOMAIN responses : responses[i] \in ModelResponse
  /\ scored # NotYet => ScoringResult(scored)
  /\ BranchingDecisionTree(tree)
  /\ settled # NotYet => settled.faults \in SlashingCalculation

\* Every answer's vote, those of the slashed and of the outliers included,
\* can be proved against the root, and the root is the one the answers would
\* have had in the opposite order (buildMerkleVoteTree: "deterministic
\* regardless of the order models respond").
VotesAreProvable ==
  scored # NotYet =>
    LET votes == Votes(responses)
        merkle == buildMerkleVoteTree(votes)
    IN /\ \A i \in DOMAIN votes :
            verifyMerkleProof(HashLeaf(votes[i]), merkle.proofs[i], scored.vote_merkle_root)
       /\ buildMerkleVoteTree(Votes(Reverse(responses))).root = scored.vote_merkle_root

\* The answers scoreVerification throws out as outliers weigh at most half
\* of those that count: however the answers of slashed models move the peer
\* scores, a minority cannot throw out the majority.
OutliersAreAMinority ==
  scored # NotYet =>
    LET W == [i \in DOMAIN responses |-> weight[ModelId(responses[i])]]
        counting == {i \in DOMAIN responses : W[i] > 0}
    IN 2 * WeightOf(W, scored.outliers) <= WeightOf(W, counting)

\* A reliable verdict rests on two providers that are not slashed, whose
\* answers resemble one of them, and which hold two thirds of the weight that
\* was kept and so a third of all the weight that counts.
ReliableIsBacked ==
  scored # NotYet /\ scored.verdict = "reliable" =>
    LET W == [i \in DOMAIN responses |-> weight[ModelId(responses[i])]]
        backing == {i \in scored.group : W[i] > 0}
        kept == {i \in DOMAIN responses : W[i] > 0} \ scored.outliers
    IN /\ Cardinality({responses[i].provider : i \in backing}) >= 2
       /\ 3 * WeightOf(W, backing) >= 2 * WeightOf(W, kept)
       /\ 3 * WeightOf(W, backing) >= WeightOf(W, DOMAIN responses)
       /\ \E seed \in backing : \A i \in backing :
            TextSimilarity(responses[seed].text, responses[i].text) >= SimilarityThreshold

\* The score is a number, whatever bonus it earned, unless two of the answers
\* that count have no words, and then it is NaN (scoreVerification).
ScoresAreNumbers ==
  scored # NotYet =>
    LET wordless == {i \in DOMAIN responses : RawTokens(responses[i].text) = {"..."}
                                                /\ weight[ModelId(responses[i])] > 0}
    IN scored.score = NaN => Cardinality(wordless) >= 2

\* The branches are all legitimate, supported and distinct.
HonestTree ==
  /\ \A i \in DOMAIN scores : scores[i].legitimacy >= LegitThreshold
  /\ ~ checkHighConfidenceNoSupport(tree)
  /\ ~ checkSpamRedundancy(tree, scores)

Contradicted == \E i \in DOMAIN scores : settled.truth[i] = "wrong"

\* The slash is never more than the stake; a tree whose branches are all
\* legitimate, supported and distinct loses nothing when the truth contradicts
\* none of them and never more than a tenth; a confident branch without support
\* costs half of the stake or more, rounded down.
FairSlash(slash) ==
  /\ slash \in 0..Stake
  /\ HonestTree => 10 * slash <= Stake
  /\ HonestTree /\ ~ Contradicted => slash = 0
  /\ checkHighConfidenceNoSupport(tree) => slash >= Stake \div 2

\* The slash of updateWithGroundTruth fits the faults of the tree, and the score
\* of the tree is in its range.
SlashFitsTheFaults ==
  settled # NotYet => FairSlash(settled.slash) /\ settled.bls \in TenThousandths

\* Scores stay in their ranges, through empty answers and bonuses, and slashes
\* fit the faults.
ScoresAreSound == EvaluationTypeOK /\ ScoresAreNumbers /\ SlashFitsTheFaults
================================================================================
