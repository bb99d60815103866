------------------------------ MODULE ClaimGraphs ------------------------------
(***************************************************************************)
(* The claim graph of a set of answers: src/shared/claim_graph/index.ts.   *)
(*                                                                         *)
(* Abstractions.  A text is the sequence of segments splitIntoClaims cuts  *)
(* it into: [claim, cites], where claim is what stripCitationText leaves,  *)
(* in canonical form, or NoClaim when nothing is left.  A canonical claim  *)
(* is [words, neg, nums]: its words other than the negation cue and the    *)
(* numbers, whether the cue occurs, and the numbers in order.  SHA-256 is  *)
(* injective and hashClaim reads nothing but the claim's text, so a claim  *)
(* is its own id and its cluster's.  localeCompare on claims and on model  *)
(* ids is the order of ClaimOrder and ModelOrder; the order of digests is  *)
(* arbitrary and DigestOrder gives it.  Ratios are integers in             *)
(* ten-thousandths, rounded down; the subject, predicate and object, the   *)
(* highlights and the time of extraction are left out.                     *)
(***************************************************************************)
EXTENDS Integers, Sequences, FiniteSets, SequencesExt, FiniteSetsExt

CONSTANTS
  ClaimOrder,     \* the canonical claims, in localeCompare order
  DigestOrder,    \* the canonical claims, in the order of their digests
  ModelOrder,     \* the model ids "provider:model", in localeCompare order
  BonusDomains,   \* .gov and .edu domains
  PenaltyDomains, \* URL shorteners
  NoDomain,       \* the domain of a URL that does not parse
  NoClaim         \* a segment with no text beside its citations

ASSUME OrdersAssumption ==
  /\ IsInjective(ClaimOrder) /\ IsInjective(DigestOrder) /\ IsInjective(ModelOrder)
  /\ ToSet(ClaimOrder) = ToSet(DigestOrder)
  /\ NoClaim \notin ToSet(ClaimOrder)
ASSUME DomainsAssumption == NoDomain \notin BonusDomains \cup PenaltyDomains

Unit == 10000

\* The place of x in the sequence that orders its kind.
RankIn(order, x) == CHOOSE i \in DOMAIN order : order[i] = x

Ratio(a, b) == (a * Unit) \div b

SumOver(f(_), seq) == FoldLeft(LAMBDA sum, x : sum + f(x), 0, seq)

\* clampBps
Clamp(low, high, v) == IF v < low THEN low ELSE IF v > high THEN high ELSE v

-----------------------------------------------------------------------------
(* Extraction.                                                             *)

\* One pass of the loop of extractClaimsFromText.  Citations alone go to the
\* last claim; a text that starts with them loses them.
ExtractSegment(modelId, text, claims, i) ==
  LET seg == text[i]
  IN IF seg.claim # NoClaim
     THEN Append(claims, [id |-> seg.claim, model_id |-> modelId,
                          position |-> i - 1, citations |-> seg.cites])
     ELSE IF claims = <<>> THEN claims
     ELSE [claims EXCEPT ![Len(claims)].citations = @ \o seg.cites]

extractClaimsFromText(modelId, text) ==
  FoldLeft(LAMBDA claims, i : ExtractSegment(modelId, text, claims, i),
           <<>>, [i \in DOMAIN text |-> i])

\* tokenize: words of more than one letter, the cue and the numbers
Tokens(claim) ==
  claim.words \cup (IF claim.neg THEN {"not"} ELSE {}) \cup ToSet(claim.nums)

jaccardSimilarity(a, b) ==
  LET ta == Tokens(a)  tb == Tokens(b)
  IN IF ta = {} \/ tb = {} THEN 0
     ELSE Ratio(Cardinality(ta \cap tb), Cardinality(ta \cup tb))

-----------------------------------------------------------------------------
(* Clusters.                                                               *)

SimilarityThreshold == 6000

ClaimBefore(a, b) ==
  LET ca == RankIn(ClaimOrder, a.id)        cb == RankIn(ClaimOrder, b.id)
      ma == RankIn(ModelOrder, a.model_id)  mb == RankIn(ModelOrder, b.model_id)
  IN \/ ca < cb
     \/ ca = cb /\ ma < mb
     \/ ca = cb /\ ma = mb /\ a.position < b.position

\* The cluster a claim joins: the first of the most similar ones, 0 for none.
BestCluster(clusters, claim) ==
  LET Score(i) == jaccardSimilarity(claim.id, clusters[i].canonical_text)
      close == {i \in DOMAIN clusters : Score(i) >= SimilarityThreshold}
      best == {i \in close : \A j \in close : Score(i) >= Score(j)}
  IN IF close = {} THEN 0 ELSE Min(best)

AddNew(seq, x) == IF x \in ToSet(seq) THEN seq ELSE Append(seq, x)

AlignClaim(clusters, claim) ==
  LET k == BestCluster(clusters, claim)
  IN IF k = 0
     THEN Append(clusters, [canonical_text |-> claim.id, claim_ids |-> <<claim.id>>,
                            model_ids |-> <<claim.model_id>>,
                            citations |-> claim.citations])
     ELSE [clusters EXCEPT
             ![k].claim_ids = Append(@, claim.id),
             ![k].model_ids = AddNew(@, claim.model_id),
             ![k].citations = FoldLeft(AddNew, @, claim.citations)]

\* alignClaimClusters, without the prominence scores
alignClaimClusters(claims) == FoldLeft(AlignClaim, <<>>, SortSeq(claims, ClaimBefore))

\* The position counted for an id is that of the first claim with the id,
\* whichever model made it.
Prominence(claims, cluster) ==
  LET First(id) == claims[Min({i \in DOMAIN claims : claims[i].id = id})]
      positionScore == SumOver(LAMBDA id : Unit \div (1 + First(id).position),
                               cluster.claim_ids)
  IN 2 * Unit * Len(cluster.model_ids) + positionScore \div Len(cluster.claim_ids)

-----------------------------------------------------------------------------
(* Contradictions.                                                         *)

NoEdge == "none"

\* The severity of the edge detectContradiction draws, NoEdge for null.
detectContradiction(a, b) ==
  IF a.neg # b.neg /\ a.words = b.words /\ a.nums = b.nums THEN "HIGH"
  ELSE IF a.nums # <<>> /\ b.nums # <<>> /\ a.nums # b.nums THEN "MED"
  ELSE IF a.neg # b.neg THEN "HIGH"
  ELSE NoEdge

\* detectContradictions: every pair of claims whose ids are in a cluster.
ClusterContradictions(claims, cluster) ==
  LET members == SelectSeq(claims, LAMBDA c : c.id \in ToSet(cluster.claim_ids))
      Edge(i, j) == [a |-> members[i].id, b |-> members[j].id,
                     severity |-> detectContradiction(members[i].id, members[j].id)]
      from == [i \in DOMAIN members |->
                 [k \in 1..(Len(members) - i) |-> Edge(i, i + k)]]
  IN SelectSeq(FlattenSeq(from), LAMBDA e : e.severity # NoEdge)

detectContradictions(claims, clusters) ==
  FlattenSeq([i \in DOMAIN clusters |-> ClusterContradictions(claims, clusters[i])])

-----------------------------------------------------------------------------
(* Scores, in basis points.                                                *)

ClusterCitationScore(cluster, modelCount) ==
  LET cs == cluster.citations
      On(d) == Cardinality({i \in DOMAIN cs : cs[i].domain = d})
      domains == {cs[i].domain : i \in DOMAIN cs} \ {NoDomain}
      has == IF cs # <<>> THEN 5000 ELSE 0
      overlap == IF \E d \in domains : On(d) > 1 THEN 2000 ELSE 0
      coverage == (2000 * Len(cs)) \div (IF modelCount > 1 THEN modelCount ELSE 1)
      penalty == IF domains \cap PenaltyDomains # {} THEN 2000 ELSE 0
      bonus == IF domains \cap BonusDomains # {} THEN 2000 ELSE 0
  IN Clamp(0, Unit, has + overlap + coverage + bonus - penalty)

computeCitationQuality(clusters, modelCount) ==
  IF clusters = <<>> THEN 0
  ELSE SumOver(LAMBDA c : ClusterCitationScore(c, modelCount), clusters) \div Len(clusters)

SeverityWeights == [LOW |-> 500, MED |-> 1500, HIGH |-> 3000]

\* The five most prominent clusters.
CoreClusters(claims, clusters) ==
  LET Before(a, b) ==
        LET pa == Prominence(claims, a)  pb == Prominence(claims, b)
        IN \/ pa > pb
           \/ pa = pb /\ RankIn(DigestOrder, a.canonical_text)
                           < RankIn(DigestOrder, b.canonical_text)
      sorted == SortSeq(clusters, Before)
  IN SubSeq(sorted, 1, IF Len(sorted) < 5 THEN Len(sorted) ELSE 5)

ContradictionPenalty(core, contradictions) ==
  LET coreIds == UNION {ToSet(core[i].claim_ids) : i \in DOMAIN core}
      Cost(e) == IF e.a \in coreIds \/ e.b \in coreIds
                 THEN (3 * SeverityWeights[e.severity]) \div 2
                 ELSE SeverityWeights[e.severity]
  IN SumOver(Cost, contradictions)

scoreClaimGraph(claims, clusters, contradictions, modelCount) ==
  LET core == CoreClusters(claims, clusters)
      majority == (modelCount + 1) \div 2
      supported == SelectSeq(core, LAMBDA c : Len(c.model_ids) >= majority)
      coverage == IF core = <<>> THEN 0 ELSE Ratio(Len(supported), Len(core))
      penalty == ContradictionPenalty(core, contradictions)
      quality == computeCitationQuality(clusters, modelCount)
  IN [coverage_bps |-> Clamp(0, Unit, coverage),
      contradiction_penalty_bps |-> Clamp(0, Unit, penalty),
      citation_quality_bps |-> quality,
      final_score_bps |-> Clamp(0, Unit, coverage - penalty + (4 * quality) \div 10)]

\* The models that contradict a cluster's claims: of the models that made a
\* claim, claimModelMap remembers the last one only.
ContradictedBy(claims, cluster, contradictions) ==
  LET ids == ToSet(cluster.claim_ids)
      edges == {e \in ToSet(contradictions) : e.a \in ids \/ e.b \in ids}
      Last1(id) == claims[Max({i \in DOMAIN claims : claims[i].id = id})].model_id
  IN {Last1(id) : id \in {e.a : e \in edges} \cup {e.b : e \in edges}}

\* responses is a sequence of [model_id, text].
buildClaimGraphAnalysis(responses) ==
  LET n == Len(responses)
      claims == FlattenSeq([i \in DOMAIN responses |->
                   extractClaimsFromText(responses[i].model_id, responses[i].text)])
      clusters == alignClaimClusters(claims)
      contradictions == detectContradictions(claims, clusters)
      agreement == SumOver(LAMBDA c : Ratio(Len(c.model_ids), n), clusters)
      cited == SelectSeq(clusters, LAMBDA c : c.citations # <<>>)
  IN [score_components |-> scoreClaimGraph(claims, clusters, contradictions, n),
      claim_summary |-> [i \in DOMAIN clusters |->
         [supported_by |-> clusters[i].model_ids,
          contradicted_by |-> ContradictedBy(claims, clusters[i], contradictions)]],
      agreement_ratio |-> IF clusters = <<>> THEN 0 ELSE agreement \div Len(clusters),
      citation_coverage |-> IF clusters = <<>> THEN 0 ELSE Ratio(Len(cited), Len(clusters)),
      contradiction_count |-> Len(contradictions),
      total_claims |-> Len(claims)]
================================================================================
