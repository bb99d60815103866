---------------------------- MODULE ResponseScoring ----------------------------
(***************************************************************************)
(* The verdict on the answers several models gave to one prompt:           *)
(* verifier-node/src/scoring/scorer.ts, merkleVotes.ts,                    *)
(* consistencyChecker.ts and utils/score.ts.                               *)
(*                                                                         *)
(* Abstractions.  keccak256 is injective: a leaf's hash is the leaf, and   *)
(* the hash of a sorted pair is the set of the two.  Ratios are integers   *)
(* in ten-thousandths, rounded down, except the shares of weight, which    *)
(* are compared exactly.  A response is [provider, model, text, lead,      *)
(* policy]: lead is the conclusion scoreMathProof cuts out of the text and *)
(* policy the verdict scorePolicyCompliance finds in it.  weight[m] is     *)
(* getEffectiveWeight, 0 for a slashed model.  The confidence, reasoning   *)
(* and the list of claims are left out.                                    *)
(***************************************************************************)
EXTENDS ClaimGraphs

CONSTANTS
  ModelKey,   \* ModelKey[p][m]: the model id "provider:model"
  NaN         \* what 0/0 is

ModelId(r) == ModelKey[r.provider][r.model]

-----------------------------------------------------------------------------
(* Similarity.                                                             *)

\* A text split at white space: the words and the citations of its segments.
\* What is not a word counts here, so the set is never empty.
RawTokens(text) ==
  LET Of(seg) == (IF seg.claim = NoClaim THEN {} ELSE Tokens(seg.claim))
                   \cup {c.id : c \in ToSet(seg.cites)}
      all == UNION {Of(text[i]) : i \in DOMAIN text}
  IN IF all = {} THEN {"..."} ELSE all

\* calculateTextSimilarity
TextSimilarity(a, b) ==
  LET ta == RawTokens(a)  tb == RawTokens(b)
  IN Ratio(Cardinality(ta \cap tb), Cardinality(ta \cup tb))

\* calculateSimilarity: only words are left, and there may be none.
WordSimilarity(a, b) ==
  LET ta == RawTokens(a) \ {"..."}  tb == RawTokens(b) \ {"..."}
  IN IF ta \cup tb = {} THEN NaN
     ELSE Ratio(Cardinality(ta \cap tb), Cardinality(ta \cup tb))

\* calculateConsistency, 0..100 or NaN
calculateConsistency(responses) ==
  LET n == Len(responses)
      pairs == {p \in (1..n) \X (1..n) : p[1] < p[2]}
      Sim(p) == WordSimilarity(responses[p[1]].text, responses[p[2]].text)
  IN IF n < 2 THEN 100
     ELSE IF \E p \in pairs : Sim(p) = NaN THEN NaN
     ELSE (FoldSet(LAMBDA p, sum : sum + Sim(p), 0, pairs) \div Cardinality(pairs) + 50)
            \div 100

\* computePeerConsistencyScores
PeerScore(responses, i) ==
  LET peers == DOMAIN responses \ {i}
      total == SumFunction([j \in peers |-> TextSimilarity(responses[i].text,
                                                           responses[j].text)])
  IN IF peers = {} THEN Unit ELSE total \div Cardinality(peers)

-----------------------------------------------------------------------------
(* The Merkle tree of the votes.                                           *)

HashLeaf(vote) == {vote}

SortedPairHash(a, b) == {a, b}

M_SortedVotes(votes) == [i \in DOMAIN votes |-> [place |-> i, leaf |-> HashLeaf(votes[i])]]

\* The votes in the order of their leaves, and of their places where leaves
\* are equal.  Which order the digests have is arbitrary; it depends on the
\* leaves alone.
SortedVotes(votes) ==
  LET rawLeaves == {[place |-> i, leaf |-> HashLeaf(votes[i])] : i \in DOMAIN votes}
      digests == SetToSeq({v.leaf : v \in rawLeaves})
      Sooner(v, w) == LET d == RankIn(digests, v.leaf)  e == RankIn(digests, w.leaf)
                      IN d < e \/ (d = e /\ v.place < w.place)
  IN CHOOSE sorted \in SetToSeqs(rawLeaves) :
       \A k, l \in DOMAIN votes : k < l => Sooner(sorted[k], sorted[l])

\* The sibling of place i in a level; the last node of an odd level is its own.
Sibling(level, i) ==
  IF i % 2 = 0 THEN level[i - 1] ELSE IF i < Len(level) THEN level[i + 1] ELSE level[i]

NextLevel(level) ==
  [k \in 1..((Len(level) + 1) \div 2) |->
     SortedPairHash(level[2 * k - 1], Sibling(level, 2 * k - 1))]

\* The levels of the tree, from the leaves, which are level 0, to the root.
LevelsFrom(leaves) ==
  LET level[l \in 0..Len(leaves)] == IF l = 0 THEN leaves ELSE NextLevel(level[l - 1])
  IN level

\* the level the loop stops at, the first that is not longer than one node
TopOf(levels) ==
  CHOOSE l \in DOMAIN levels : /\ Len(levels[l]) <= 1
                               /\ \A m \in DOMAIN levels : m < l => Len(levels[m]) > 1

\* the places of the nodes above the k-th leaf
PathOf(levels, k) ==
  LET place[l \in DOMAIN levels] == IF l = 0 THEN k ELSE (place[l - 1] + 1) \div 2
  IN place

\* buildMerkleVoteTree: the root, and the proof of the i-th vote.
buildMerkleVoteTree(votes) ==
  LET sorted == SortedVotes(votes)
      levels == LevelsFrom([k \in DOMAIN sorted |-> sorted[k].leaf])
      top == TopOf(levels)
      Proof(path) == [l \in 1..top |-> Sibling(levels[l - 1], path[l - 1])]
      LeafOf(i) == CHOOSE k \in DOMAIN sorted : sorted[k].place = i
  IN [root |-> levels[top][1],
      proofs |-> [i \in DOMAIN votes |-> Proof(PathOf(levels, LeafOf(i)))]]

verifyMerkleProof(leaf, proof, root) ==
  LET computed[l \in 0..Len(proof)] ==
        IF l = 0 THEN leaf ELSE SortedPairHash(computed[l - 1], proof[l])
  IN computed[Len(proof)] = root

-----------------------------------------------------------------------------
(* Outliers and quorum.  S is a set of places in the responses, W their    *)
(* weights.                                                                *)

WeightOf(W, S) == SumFunction([i \in S |-> W[i]])

M_WeightedMedian(W, value, S) ==
  LET Below(v) == {i \in S : value[i] <= v}
  IN Min({v \in {value[i] : i \in S} : 2 * Cardinality(Below(v)) >= Cardinality(S)})

\* computeWeightedMedian: the least value that, with those below it, has half
\* of the weight.  The weights are positive.
WeightedMedian(W, value, S) ==
  LET Below(v) == {i \in S : value[i] <= v}
  IN Min({v \in {value[i] : i \in S} : 2 * WeightOf(W, Below(v)) >= WeightOf(W, S)})

AbsDiff(a, b) == IF a < b THEN b - a ELSE a - b

Most(a, b) == IF a > b THEN a ELSE b

Least(a, b) == IF a < b THEN a ELSE b

\* The score below which an answer is an outlier: the weighted median less
\* two and a half median deviations, at least 0.15.
OutlierThreshold(W, peer, S) ==
  LET median == WeightedMedian(W, peer, S)
      deviation == [i \in S |-> AbsDiff(peer[i], median)]
      mad == Most(WeightedMedian(W, deviation, S), 500)
  IN Most(0, median - Most((5 * mad) \div 2, 1500))

\* With fewer than three answers that count nobody is an outlier.
Outliers(W, peer, unslashed) ==
  IF Cardinality(unslashed) < 3 THEN {}
  ELSE {i \in unslashed : peer[i] < OutlierThreshold(W, peer, unslashed)}

\* findLargestWeightedAgreementCluster: for each answer those that resemble
\* it, and of these groups the heaviest.  Of equals the one with the least
\* key is taken; a key orders by the digests of the answers, so any may be.
AgreementClusters(W, responses, S) ==
  LET Around(seed) ==
        {i \in S : i = seed \/ TextSimilarity(responses[seed].text, responses[i].text)
                                 >= SimilarityThreshold}
      groups == {Around(seed) : seed \in S}
  IN {g \in groups : \A h \in groups : WeightOf(W, g) >= WeightOf(W, h)}

-----------------------------------------------------------------------------
(* Scores of the kinds of task, in ten-thousandths.                        *)

\* The answers whose conclusion resembles the next one's.
scoreMathProof(responses) ==
  LET n == Len(responses)
      close == {i \in 1..(n - 1) :
                  LET a == responses[i].lead  b == responses[i + 1].lead
                  IN TextSimilarity(a, b) > 7000}
  IN Ratio(Cardinality(close), Most(1, n - 1))

scorePolicyCompliance(responses) ==
  LET Saying(v) == Cardinality({i \in DOMAIN responses : responses[i].policy = v})
  IN Ratio(Most(Saying("compliant"), Saying("non-compliant")), Len(responses))

\* The weight the claims have: claim k is counted with the weight of the k-th
\* answer of the consensus, whoever made it.
WeightedAgreement(graph, W, order) ==
  LET n == Len(order)
      At(k) == W[order[1 + ((k - 1) % n)]]
      sum == SumOver(At, [k \in DOMAIN graph.claim_summary |-> k])
  IN IF graph.total_claims = 0 THEN 0
     ELSE Ratio(sum, Most(100, WeightOf(W, ToSet(order))))

FactualAccuracy(taskType, responses, graph, consistency, agreement) ==
  LET raw == CASE taskType \in {"factual-qa", "citation-check", "general"} ->
                    graph.score_components.final_score_bps
               [] taskType = "math-proof" -> scoreMathProof(responses)
               [] taskType = "policy-compliance" -> scorePolicyCompliance(responses)
               [] OTHER -> (100 * consistency + agreement
                              + graph.score_components.coverage_bps) \div 3
  IN IF graph.total_claims = 0 /\ raw > 5000 THEN 5000 ELSE raw

\* calculateSimilarityBonus
SimilarityBonus(consistency, responseCount) ==
  IF responseCount < 2 \/ consistency < 70 THEN 0
  ELSE (2 * (consistency - 70) + 3) \div 6

M_FinalScore(taskType, responses, graph, consistency, agreement) ==
  LET c == graph.score_components.citation_quality_bps
      f == FactualAccuracy(taskType, responses, graph, consistency, agreement)
      base == (300 * consistency + 3 * agreement + 2 * c + 2 * f) \div 10
  IN (base + 50) \div 100 + SimilarityBonus(consistency, Len(responses))

\* The final score, 0..100.  NaN spreads through the sums.
FinalScore(taskType, responses, graph, consistency, agreement) ==
  LET c == graph.score_components.citation_quality_bps
      f == FactualAccuracy(taskType, responses, graph, consistency, agreement)
      base == (300 * consistency + 3 * agreement + 2 * c + 2 * f) \div 10
      final == (base + 50) \div 100 + SimilarityBonus(consistency, Len(responses))
  IN IF consistency = NaN THEN NaN
     ELSE IF final > 100 THEN 100 ELSE final

-----------------------------------------------------------------------------
(* The whole score.                                                        *)

Votes(responses) ==
  [i \in DOMAIN responses |->
     <<ModelId(responses[i]), responses[i].text, PeerScore(responses, i)>>]

M_Verdict(score, quorum, diverse) ==
  IF score = NaN THEN "unreliable"
  ELSE IF score >= 80 /\ quorum THEN "reliable"
  ELSE IF score >= 50 THEN "mixed" ELSE "unreliable"

\* A comparison with NaN is false.
Verdict(score, quorum, diverse) ==
  IF score = NaN THEN "unreliable"
  ELSE IF score >= 80 /\ quorum /\ diverse THEN "reliable"
  ELSE IF score >= 50 THEN "mixed"
  ELSE "unreliable"

\* What scoreVerification reports, given the claim graph of the consensus and
\* the heaviest group of answers in it.
ScoringReport(taskType, responses, W, outliers, consensus, graph, group) ==
  LET order == SelectSeq([i \in DOMAIN responses |-> i], LAMBDA i : i \in consensus)
      consistency == calculateConsistency([k \in DOMAIN order |-> responses[order[k]]])
      agreement == Least(Unit, Most(graph.agreement_ratio, WeightedAgreement(graph, W, order)))
      score == FinalScore(taskType, responses, graph, consistency, agreement)
      quorum == /\ Cardinality(consensus) >= 2
                /\ 3 * WeightOf(W, group) >= 2 * WeightOf(W, consensus)
      providers == {responses[i].provider : i \in group}
  IN [score |-> score,
      verdict |-> Verdict(score, quorum, Cardinality(providers) >= 2),
      bft_quorum |-> quorum,
      outliers |-> outliers,
      group |-> group,
      vote_merkle_root |-> buildMerkleVoteTree(Votes(responses)).root,
      claim_graph |-> graph]

\* The claim graph of the answers in the consensus.
ConsensusGraph(responses, consensus) ==
  LET agreed == SelectSeq([i \in DOMAIN responses |-> [at |-> i, response |-> responses[i]]],
                          LAMBDA a : a.at \in consensus)
  IN buildClaimGraphAnalysis(
       [k \in DOMAIN agreed |-> [model_id |-> ModelId(agreed[k].response),
                                  text |-> agreed[k].response.text]])

\* The results scoreVerification may return, one for each of the heaviest
\* groups that are equally heavy.
scoreVerification(taskType, responses, weight) ==
  LET W == [i \in DOMAIN responses |-> weight[ModelId(responses[i])]]
      unslashed == {i \in DOMAIN responses : W[i] > 0}
      peer == [i \in DOMAIN responses |-> PeerScore(responses, i)]
      outliers == Outliers(W, peer, unslashed)
      kept == unslashed \ outliers
      consensus == IF Cardinality(kept) >= 2 THEN kept ELSE unslashed
      graph == ConsensusGraph(responses, consensus)
      groups == IF consensus = {} THEN {{}} ELSE AgreementClusters(W, responses, consensus)
  IN {ScoringReport(taskType, responses, W, outliers, consensus, graph, g) : g \in groups}
================================================================================
