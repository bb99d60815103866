-------------------------- MODULE AssessmentReceipts --------------------------
(***************************************************************************)
(* The portable receipt of one assessment: src/shared/receipt.ts, the      *)
(* possibility space it declares (possibilitySpace.ts) and the checks      *)
(* against the chain (onchainVerify.ts).                                   *)
(*                                                                         *)
(* A receipt is a function from the fields it has to their values, so that *)
(* an undefined field is one outside the domain.  Digests are injective    *)
(* and keep what they were taken of.  Identifiers are positive naturals,   *)
(* ordered as localeCompare orders them.  Fields nothing reads (texts,     *)
(* names of software, timings, the debug trace) are left out, and so are    *)
(* the checks of a space's texts and of its generation policy's numbers.   *)
(***************************************************************************)
EXTENDS Integers, Sequences, FiniteSets, SequencesExt

CONSTANTS
  Refused,          \* the builder threw
  BuiltinProgram    \* the possibility space of a request that names none

\* keccak256 of the canonical JSON of x
HashOf(x) == [hash |-> x]

Has(r, f) == f \in DOMAIN r
Pick(r, fields) == [f \in fields \cap DOMAIN r |-> r[f]]

\* the fields of r, and what rest has beyond them
Over(r, rest) ==
  [f \in DOMAIN r \cup DOMAIN rest |-> IF f \in DOMAIN r THEN r[f] ELSE rest[f]]

-----------------------------------------------------------------------------
(* The possibility space a program declares.                               *)

\* Canonical fields and their legacy aliases.
AliasOf == [worlds |-> "interpretation_alternatives", allowed_claim_types |-> "claim_types",
            allowed_verdicts |-> "assessment_outcomes"]

\* each canonical field, from itself, its alias, or the defaults; and each
\* alias derived from its canonical field
deriveLegacyPossibilitySpaceFields(space) ==
  LET of(f) == IF Has(space, f) THEN space[f]
               ELSE IF f # "worlds" /\ Has(space, AliasOf[f]) THEN space[AliasOf[f]]
               ELSE BuiltinProgram[f]
      aliases ==
        [f \in {AliasOf[c] : c \in DOMAIN AliasOf} |->
           IF f = "interpretation_alternatives"
           THEN [i \in DOMAIN of("worlds") |->
                   [id |-> of("worlds")[i].id, label |-> of("worlds")[i].interpretation]]
           ELSE of(CHOOSE c \in DOMAIN AliasOf : AliasOf[c] = f)]
  IN  Over([f \in DOMAIN AliasOf |-> of(f)], Over(aliases, space))

\* a field and its alias say the same
sameStrings(a, b) == Len(a) = Len(b) /\ \A x \in Range(a) \cup Range(b) :
  Cardinality({i \in DOMAIN a : a[i] = x}) = Cardinality({i \in DOMAIN b : b[i] = x})

validatePossibilitySpaceConsistency(space) ==
  {AliasOf[f] : f \in {c \in DOMAIN AliasOf \ {"worlds"} :
     Has(space, c) /\ Has(space, AliasOf[c]) /\ ~sameStrings(space[c], space[AliasOf[c]])}}
  \cup
  {a \in {"interpretation_alternatives"} :
     /\ Has(space, "worlds") /\ Has(space, a)
     /\ \/ ~sameStrings([i \in DOMAIN space.worlds |-> space.worlds[i].id],
                        [i \in DOMAIN space[a] |-> space[a][i].id])
        \/ \E w \in Range(space.worlds) :
             LET i == CHOOSE j \in DOMAIN space[a] :
                        /\ space[a][j].id = w.id
                        /\ \A k \in 1 .. j - 1 : space[a][k].id # w.id
             IN  (\E j \in DOMAIN space[a] : space[a][j].id = w.id)
                   => space[a][i].label # w.interpretation}

\* normalizeVerificationPossibilitySpace throws for an inconsistent space
interpretationIsDeclared(space, id) ==
  \E w \in Range(deriveLegacyPossibilitySpaceFields(space).worlds) : w.id = id

validateVerificationPossibilitySpace(space) ==
  IF validatePossibilitySpaceConsistency(space) # {}
  THEN validatePossibilitySpaceConsistency(space)
  ELSE LET full   == deriveLegacyPossibilitySpaceFields(space)
           worlds == full.worlds
       IN  {e \in {"worlds", "duplicate", "assumptions", "difference", "limit", "verdicts"} :
              CASE e = "worlds"      -> worlds = <<>>
                [] e = "duplicate"   -> \E i, j \in DOMAIN worlds : i < j /\ worlds[i].id = worlds[j].id
                [] e = "assumptions" -> \E i \in DOMAIN worlds : worlds[i].assumptions = <<>>
                [] e = "difference"  -> Len(worlds) > 1 /\ \E i \in DOMAIN worlds : ~worlds[i].differs
                [] e = "limit"       -> Len(worlds) > BuiltinProgram.max_worlds
                [] e = "verdicts"    -> full.allowed_verdicts = <<>>}

-----------------------------------------------------------------------------
(* The hash of a receipt.                                                  *)

\* RECEIPT_HASH_FIELDS, those of them that something reads.
HASH_FIELDS ==
  {"version", "receipt_version", "task_id", "generated_at", "input_hash", "output_hash",
   "score_bps", "verdict", "worthy", "context_version", "receipt_hash_version",
   "verification_context", "claims", "evidence_relations", "possibility_space",
   "world_assessments", "distinction_check", "stabilized_claims", "claim_rivalry_history",
   "selected_world_ids", "unresolved_world_ids", "metacognitive_assessment",
   "coherence_assessment", "distillation_watermark_assessment", "previous_receipt_id",
   "votes", "outliers", "quorum_status", "signer", "onchain_anchor", "program", "evidence",
   "provenance", "explain"}

\* What is written on a receipt once its hash was taken: the hash itself, its
\* copy, and what attests to the hash.
Annotations == {"receipt_hash", "receipt_id", "chain_context", "signature", "zk_proof"}

\* Two optional assessments of the interface that RECEIPT_HASH_FIELDS leaves out.
UnhashedAssessments == {"allusion_assessment", "reference_consistency_checks"}

\* The fields the interface declares: all of those that are not hashed.
VerificationReceipt == HASH_FIELDS \cup Annotations \cup UnhashedAssessments

\* The fields the interface does not declare optional.
RequiredFieldsOfReceipt ==
  {"version", "receipt_version", "task_id", "generated_at", "input_hash", "output_hash",
   "score_bps", "verdict", "worthy", "evidence", "provenance", "explain"}

\* the items by their keys, those with equal keys as they were
InOrder(items, key) ==
  [n \in DOMAIN items |->
     items[CHOOSE i \in DOMAIN items :
             Cardinality({j \in DOMAIN items :
                            key[j] < key[i] \/ (key[j] = key[i] /\ j <= i)}) = n]]

\* an item that lacks the field sorts first
sortById(items, field) ==
  InOrder(items, [i \in DOMAIN items |-> IF Has(items[i], field) THEN items[i][field] ELSE 0])

SortedIds(ids) == InOrder(ids, ids)

normalizeHashValue(field, value) ==
  CASE field \in {"selected_world_ids", "unresolved_world_ids"} -> SortedIds(value)
    [] field \in {"world_assessments", "stabilized_claims", "claims", "evidence_relations"} ->
         sortById(value, "id")
    [] field = "claim_rivalry_history" -> sortById(value, "claim_id")
    [] field = "distillation_watermark_assessment" ->
         [value EXCEPT !.sampleHashes = SortedIds(@), !.limitations = SortedIds(@)]
    [] field = "possibility_space" ->
         [f \in DOMAIN value |-> IF f \in {"worlds", "interpretation_alternatives"}
                                 THEN sortById(value[f], "id") ELSE value[f]]
    [] OTHER -> value

M_normalizeReceiptForHash(receipt) ==
  [f \in (HASH_FIELDS \ {"worthy"}) \cap DOMAIN receipt |-> normalizeHashValue(f, receipt[f])]

normalizeReceiptForHash(receipt) ==
  [f \in HASH_FIELDS \cap DOMAIN receipt |-> normalizeHashValue(f, receipt[f])]

computeReceiptHash(receipt) == HashOf(normalizeReceiptForHash(receipt))
verifyReceiptHash(receipt, expected) == computeReceiptHash(receipt) = expected
receiptsMatch(a, b) == verifyReceiptHash(a, computeReceiptHash(b))

\* an old receipt is marked, and its hash stays what it was only because the
\* marker is added for the caller and not before hashing
normalizeReceipt(receipt) ==
  IF Has(receipt, "context_version") THEN receipt
  ELSE Over([context_version |-> "legacy"], receipt)

-----------------------------------------------------------------------------
(* Building and validating.                                                *)

\* what an assessment must declare: its program, and a possibility space that
\* holds together and that declares the interpretation chosen
contextValidationErrors(context) ==
  {f \in {"verification_program_id", "evidence_scope", "policy_thresholds"} : ~Has(context, f)}
  \cup (IF Has(context, "possibility_space")
        THEN validateVerificationPossibilitySpace(context.possibility_space)
        ELSE {"possibility_space"})
  \cup {f \in {"interpretation"} :
          /\ Has(context, f) /\ Has(context, "possibility_space")
          /\ ~interpretationIsDeclared(context.possibility_space, context.interpretation)}

\* the context of a caller that passes none
DefaultContext(params) ==
  [verification_program_id |-> IF Has(params, "program") THEN params.program.id ELSE "builtin-score",
   evidence_scope |-> "submitted evidence bundle", policy_thresholds |-> <<>>,
   possibility_space |-> IF Has(params, "program") /\ Has(params.program, "possibility_space")
                         THEN params.program.possibility_space
                         ELSE deriveLegacyPossibilitySpaceFields(BuiltinProgram)]

M_ContextVersion(params) ==
  IF Has(params, "possibility_space") THEN "context-v2"
  ELSE IF Has(params, "metacognitive_assessment") THEN "context-v3" ELSE "context-v1"

\* which of the three layouts the receipt claims
ContextVersion(params) ==
  IF Has(params, "metacognitive_assessment") THEN "context-v3"
  ELSE IF Has(params, "possibility_space") THEN "context-v2" ELSE "context-v1"

\* fields the builder copies from its caller
CopiedFields ==
  {"claims", "evidence_relations", "previous_receipt_id", "possibility_space",
   "world_assessments", "distinction_check", "stabilized_claims", "claim_rivalry_history",
   "selected_world_ids", "unresolved_world_ids", "metacognitive_assessment",
   "coherence_assessment", "distillation_watermark_assessment"}

\* the part of a receipt that is there whatever the caller passed
ReceiptCore(params, context, now) ==
  LET models == params.models
  IN  [version |-> "current", receipt_version |-> "current", task_id |-> params.task_id,
       generated_at |-> now, input_hash |-> params.input_hash, output_hash |-> params.output_hash,
       score_bps |-> params.score_bps, verdict |-> params.score_bps >= 5000,
       worthy |-> params.score_bps >= params.worthy_threshold_bps,
       context_version |-> ContextVersion(params), receipt_hash_version |-> ContextVersion(params),
       votes |-> [i \in DOMAIN models |-> [model |-> models[i], support |-> params.score_bps >= 5000]],
       outliers |-> params.outliers,
       quorum_status |-> [met |-> IF Has(params, "bft_quorum") THEN params.bft_quorum
                                  ELSE params.score_bps >= 5000,
                          participant_count |-> Len(models)],
       onchain_anchor |-> "not_anchored",
       evidence |-> [bundle_hash |-> params.bundle_hash, bundle_uri |-> params.bundle_uri],
       provenance |-> params.llm_provider, explain |-> models,
       verification_context |-> context]

buildReceipt(params, now) ==
  LET context == IF Has(params, "verification_context") THEN params.verification_context
                 ELSE DefaultContext(params)
      base == Over(ReceiptCore(params, context, now),
                   Over(Pick(params, CopiedFields),
                        [f \in {"program"} \cap DOMAIN params |-> params.program.id]))
      hash == computeReceiptHash(base)
  IN  IF contextValidationErrors(context) # {} THEN Refused
      ELSE Over(base, [receipt_hash |-> hash, receipt_id |-> hash])

attachChainContext(receipt, context) == Over([chain_context |-> context], receipt)
attachSignature(receipt, signature) == Over([signature |-> signature], receipt)

\* what a context-v2 receipt has to carry
V2Fields == {"possibility_space", "world_assessments", "distinction_check",
             "stabilized_claims", "selected_world_ids", "unresolved_world_ids"}

ContextVersions == {"context-v1", "context-v2", "context-v3"}

\* the fields with an error; the parts a legacy receipt need not have are
\* looked at only when the receipt says which context it was made in
validateReceipt(r) ==
  LET legacy == r.receipt_version = "1.0" \/ ~Has(r, "context_version") \/ r.context_version = "legacy"
      requiredFields == {"task_id", "generated_at", "input_hash", "output_hash", "verdict", "worthy",
                         "evidence", "provenance"}
      a == r.distillation_watermark_assessment
  IN  {f \in {"receipt_version"} : r.receipt_version \notin {"current", "1.0"}}
      \cup {f \in requiredFields : ~Has(r, f)}
      \cup {f \in {"generated_at"} : Has(r, f) /\ r.generated_at <= 0}
      \cup {f \in {"score_bps"} : ~Has(r, f) \/ r.score_bps < 0 \/ r.score_bps > 10000}
      \cup {f \in {"bundle_uri"} : Has(r, "evidence") /\ r.evidence.bundle_uri = ""}
      \cup {f \in {"distillation_watermark_assessment"} : Has(r, f) /\
              (a.detected # (a.status = "signal_detected") \/ a.limitations = <<>>)}
      \cup (IF legacy THEN {} ELSE
              {f \in {"version"} : ~Has(r, f) \/ r.version # "current"}
              \cup {f \in {"explain"} : ~Has(r, f)}
              \cup {f \in {"context_version"} : r[f] \notin ContextVersions}
              \cup (IF r.context_version \notin ContextVersions THEN {}
                    ELSE IF Has(r, "verification_context")
                    THEN contextValidationErrors(r.verification_context)
                    ELSE {"verification_context"})
              \cup {f \in V2Fields : r.context_version = "context-v2" /\ ~Has(r, f)}
              \cup {f \in {"metacognitive_assessment"} : r.context_version = "context-v3" /\ ~Has(r, f)}
              \cup {f \in {"coherence_assessment"} : Has(r, f) /\ ~(r[f] >= 0 /\ r[f] <= 1)})

isVerificationReceipt(r) == validateReceipt(r) = {}

-----------------------------------------------------------------------------
(* Against the events of the marketplace.                                  *)

ToleranceSeconds == 60

M_verifyReceiptAgainstEvents(receipt, resolved, revealed) ==
  {c \in {"task", "bundle", "time"} :
     CASE c = "task"   -> receipt.task_id # resolved.taskId
       [] c = "bundle" -> \E e \in revealed : receipt.evidence.bundle_hash # e.bundleHash
       [] c = "time"   -> receipt.generated_at > resolved.timestamp + ToleranceSeconds}

\* the checks that fail; a Revealed event is optional
verifyReceiptAgainstEvents(receipt, resolved, revealed) ==
  {c \in {"task", "score", "bundle", "time"} :
     CASE c = "task"   -> receipt.task_id # resolved.taskId
       [] c = "score"  -> receipt.score_bps # resolved.finalScoreBps
       [] c = "bundle" -> \E e \in revealed : receipt.evidence.bundle_hash # e.bundleHash
       [] c = "time"   -> receipt.generated_at > resolved.timestamp + ToleranceSeconds}

verifyReceiptHashMatches(expected, receipt) == verifyReceiptHash(receipt, expected)
verifyContentHash(content, expected) == HashOf(content) = expected

buildChainContext(resolved) ==
  [finalized_at |-> resolved.timestamp, block_number |-> resolved.blockNumber]

\* contents: what the reader has of the bundle, the input and the output
performFullVerification(receipt, resolved, revealed, contents) ==
  verifyReceiptAgainstEvents(receipt, resolved, revealed)
  \cup {c \in DOMAIN contents :
          ~verifyContentHash(contents[c],
             CASE c = "bundleContent" -> receipt.evidence.bundle_hash
               [] c = "inputContent"  -> receipt.input_hash
               [] c = "outputContent" -> receipt.output_hash)}
===============================================================================
