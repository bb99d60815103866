---------------------------- MODULE EvidenceBundles ----------------------------
(***************************************************************************)
(* Evidence bundles as the verifier node makes, signs, traces, encrypts    *)
(* and checks them: verifier-node/src/evidence/evidenceBundler.ts,         *)
(* evidenceBundlerV2.ts, reasoningTrace.ts and src/shared/transparency.ts, *)
(* evidenceReplay.ts, privacyMode.ts.                                      *)
(*                                                                         *)
(* Abstractions.  Digests are injective: Digest(x) keeps x.  A text is a   *)
(* member of Texts, and Lf[t] is t with its line ends normalised.  Times,  *)
(* names of software and of models, temperatures and free text that no     *)
(* check reads are left out.  A bundle that JSON writes and reads again is *)
(* the same record, because undefined fields are dropped both by JSON and  *)
(* by canonicalize.  An absent field is Absent.                            *)
(***************************************************************************)
EXTENDS Integers, Sequences, FiniteSets

CONSTANTS
  Texts,        \* model outputs and explanations
  Lf,           \* Lf[t]: t with \r\n and \r replaced by \n
  Redacted,     \* the empty string
  MaxSteps,     \* REASONING_TRACE_MAX_STEPS
  Absent,       \* undefined
  Missing,      \* a field a document does not have
  Node,         \* the evaluator's address
  OtherNode,    \* another evaluator
  Nobody        \* whatever address a wrong signature recovers to

ASSUME TextsAssumption ==
  /\ Redacted \in Texts
  /\ Lf \in [Texts -> Texts]
  /\ \A t \in Texts : Lf[Lf[t]] = Lf[t]
  /\ Lf[Redacted] = Redacted
ASSUME MaxStepsAssumption == MaxSteps \in Nat
ASSUME AddressesAssumption == Node # OtherNode /\ Nobody \notin {Node, OtherNode}

\* keccak256 of the canonical JSON of x
Digest(x) == [digest |-> x]

-----------------------------------------------------------------------------
(* Parts of a bundle.                                                      *)

\* a model's answer as the bundle keeps it
createModelRun(response) ==
  [provider |-> response.provider, raw_output |-> response.text,
   output_hash |-> Digest(response.text), tokens_used |-> response.tokens]

toModelRuns(responses) == [i \in DOMAIN responses |-> createModelRun(responses[i])]

createEvidence(url, snippet) == [url |-> url, quote_hash |-> Digest(snippet)]

createClaim(text, support, contradictions) ==
  [text |-> text, support |-> support, contradictions |-> contradictions]

\* one claim per cluster of the claim graph, or, when it found none, the
\* sentences of the answers without evidence
toClaims(summaries, sentences) ==
  IF summaries # <<>>
  THEN [i \in DOMAIN summaries |->
         createClaim(summaries[i].text,
           [c \in DOMAIN summaries[i].citations |->
              createEvidence(summaries[i].citations[c], <<summaries[i].text, 0>>)],
           [c \in 1 .. summaries[i].contradicted |->
              createEvidence("internal", <<summaries[i].text, c>>)])]
  ELSE [i \in DOMAIN sentences |-> createClaim(sentences[i], <<>>, <<>>)]

\* Math.round(a * p / 100) of naturals
Rounded(a, p) == (2 * a * p + 100) \div 200

\* claim counts: the claims the ratio says are verified, and the
\* contradictions of the graph or, without any, the rest of the claims
toMetrics(graph, sentences, factual) ==
  LET total    == IF graph.total_claims # 0 THEN graph.total_claims ELSE Len(sentences)
      ratio    == IF factual > 100 THEN 100 ELSE factual
      verified == Rounded(total, ratio)
  IN  [supported_claim_ratio |-> ratio, total_claims |-> total,
       verified_claims |-> verified,
       contradicted_claims |-> IF graph.contradiction_count > 0
                               THEN graph.contradiction_count
                               ELSE total - verified]

buildProvenanceModelRuns(runs, prompt_hash) ==
  [i \in DOMAIN runs |-> [prompt_hash |-> prompt_hash, response_hash |-> runs[i].output_hash]]

\* each quoted source once
buildProvenanceSources(claims) ==
  UNION {{claims[i].support[j] : j \in DOMAIN claims[i].support} \cup
         {claims[i].contradictions[j] : j \in DOMAIN claims[i].contradictions}
           : i \in DOMAIN claims}

getVerdict(scoreBps) ==
  IF scoreBps >= 8000 THEN "reliable" ELSE IF scoreBps >= 5000 THEN "mixed" ELSE "unreliable"

\* a score of at most 1 is taken for a fraction, any other for a percentage
toScoreBps(score) == IF score <= 1 THEN score * 10000 ELSE score * 100

buildScoringTrace(rubric_hash, bps, explanation) ==
  [rubric_hash |-> rubric_hash, score_bps |-> bps, verdict |-> getVerdict(bps),
   reasoning_hash |-> Digest(explanation)]

calculateMetering(runs, retrievalCalls) ==
  [llm_calls |-> Len(runs),
   total_tokens |-> LET sum[i \in 0 .. Len(runs)] ==
                          IF i = 0 THEN 0 ELSE sum[i - 1] + runs[i].tokens_used
                    IN  sum[Len(runs)],
   retrieval_calls |-> retrievalCalls]

\* the limits a metering exceeds
checkMeteringLimits(metering, limits) ==
  {f \in {"llm_calls", "total_tokens", "retrieval_calls"} : metering[f] > limits[f]}

-----------------------------------------------------------------------------
(* The reasoning trace: hashes of the steps, in order, capped.             *)

\* addStep drops what comes after the cap, whatever it is
addStep(steps, step) == IF Len(steps) >= MaxSteps THEN steps ELSE Append(steps, step)

Added(steps, more) ==
  LET n == Len(steps) + Len(more)
      cap == IF Len(steps) > MaxSteps THEN Len(steps) ELSE MaxSteps
  IN  SubSeq(steps \o more, 1, IF n > cap THEN cap ELSE n)

RawStep(type, content, refs) == [step_type |-> type, content |-> content, evidence_refs |-> refs]

generateTraceFromModelRuns(steps, runs) ==
  Added(addStep(steps, RawStep("observation", Len(runs), {})),
        [i \in DOMAIN runs |->
           RawStep("inference", runs[i].raw_output, {runs[i].output_hash})])

\* the citations of a claim, then what they amount to
generateTraceFromClaims(steps, claims) ==
  LET of(c) == [j \in 1 .. Len(c.support) + 1 |->
                  IF j <= Len(c.support)
                  THEN RawStep("citation", c.support[j].quote_hash, {c.support[j].url})
                  ELSE RawStep("verification", <<Len(c.support), Len(c.contradictions)>>, {})]
      upto[i \in 0 .. Len(claims)] ==
        IF i = 0 THEN steps ELSE Added(upto[i - 1], of(claims[i]))
  IN  upto[Len(claims)]

generateTraceFromScoring(steps, metrics, bps) ==
  addStep(addStep(steps, RawStep("inference", metrics, {})),
          RawStep("conclusion", <<getVerdict(bps), bps>>, {}))

computeTraceHash(steps) == Digest([i \in DOMAIN steps |-> steps[i].thought_hash])

\* the commitment keeps the digest of each content, not the content
buildReasoningTraceCommitment(raw) ==
  LET steps == [i \in DOMAIN raw |->
                  [step_id |-> i, step_type |-> raw[i].step_type,
                   thought_hash |-> Digest(raw[i].content),
                   evidence_refs |-> raw[i].evidence_refs]]
  IN  [trace_version |-> "1.0", steps |-> steps, trace_hash |-> computeTraceHash(steps)]

generateReasoningTrace(enabled, runs, claims, metrics, bps) ==
  LET raw == generateTraceFromScoring(
               generateTraceFromClaims(generateTraceFromModelRuns(<<>>, runs), claims),
               metrics, bps)
  IN  IF enabled /\ raw # <<>> THEN buildReasoningTraceCommitment(raw) ELSE Absent

IsHash(x) == DOMAIN x = {"digest"}

\* what makes a trace well formed; the trace hash is not recomputed
validateReasoningTrace(trace) ==
  /\ trace # Absent
  /\ trace.trace_version = "1.0"
  /\ \A i \in DOMAIN trace.steps : IsHash(trace.steps[i].thought_hash)
  /\ IsHash(trace.trace_hash)

-----------------------------------------------------------------------------
(* Commitments to a model and its configuration, as sets of field and value *)
(* pairs; undefined fields and an empty configuration leave no pair.        *)

normalizeInferenceConfig(config) == {p \in config : p[2] # Absent}

normalizeModelCommitmentData(data) ==
  LET config == normalizeInferenceConfig(data.inference_config)
  IN  {<<f, data[f]>> : f \in {g \in {"provider", "model", "version"} : data[g] # Absent}}
      \cup (IF config # {} THEN {<<"inference_config", config>>} ELSE {})

computeModelCommitment(data) ==
  [model_commitment_hash |-> Digest(normalizeModelCommitmentData(data)),
   inference_config_hash |-> Digest(normalizeInferenceConfig(data.inference_config)),
   data |-> data]

\* the configuration hash and the data kept beside the hashes are not compared
verifyModelCommitment(commitment, expected) ==
  computeModelCommitment(expected).model_commitment_hash = commitment.model_commitment_hash

validateModelCommitment(commitment) ==
  /\ commitment # Absent
  /\ IsHash(commitment.model_commitment_hash)
  /\ IsHash(commitment.inference_config_hash)
  /\ commitment.data.provider # Absent /\ commitment.data.model # Absent

-----------------------------------------------------------------------------
(* The bundle.                                                             *)

Versions == {"0.1", "0.2", "0.3"}

\* what createEvidenceBundle was given beyond the required arguments
NoOptions == [program |-> Absent, metering |-> Absent, reasoningTrace |-> Absent,
              replay |-> Absent]

\* 0.1 has no extension, 0.2 has them, 0.3 needs replay metadata and is
\* refused without them
createBundleV2(version, task, prompt, rubric, runs, claims, metrics, bps, explanation, options) ==
  LET extended == version \in {"0.2", "0.3"}
  IN  IF version = "0.3" /\ options.replay = Absent THEN Absent
      ELSE [task_id |-> task, bundle_version |-> version, evaluator |-> Node,
            prompt_hash |-> prompt, rubric_hash |-> rubric,
            model_runs |-> runs, claims |-> claims, metrics |-> metrics,
            final_score_bps |-> bps, explanation |-> explanation,
            extension |->
              IF ~extended THEN Absent
              ELSE [input |-> prompt,
                    output |-> Digest(<<bps, getVerdict(bps), explanation>>),
                    provenance |-> <<buildProvenanceModelRuns(runs, prompt),
                                     buildProvenanceSources(claims)>>,
                    scoring_trace |-> buildScoringTrace(rubric, bps, explanation),
                    program |-> options.program, metering |-> options.metering,
                    reasoning_trace |-> options.reasoningTrace],
            replay |-> IF version = "0.3" THEN options.replay ELSE Absent,
            privacy |-> Absent, signatures |-> Absent]

\* the node's own builder: every version is without options, so 0.3 is refused
createEvidenceBundle(r) ==
  createBundleV2(r.version, r.task, r.prompt, r.rubric, toModelRuns(r.responses),
                 toClaims(r.summaries, r.sentences),
                 toMetrics(r.graph, r.sentences, r.factual), toScoreBps(r.score),
                 r.explanation, NoOptions)

Unsigned(bundle) == [bundle EXCEPT !.signatures = Absent]

M_hashEvidenceBundle(bundle) == Digest([bundle EXCEPT !.explanation = Absent])

\* every field but the signatures is part of the hash
hashEvidenceBundle(bundle) == Digest(bundle)

Message(bundle) ==
  [jobId |-> bundle.task_id, verifier |-> bundle.evaluator, promptHash |-> bundle.prompt_hash,
   score |-> bundle.final_score_bps, verdict |-> getVerdict(bundle.final_score_bps),
   bundleHash |-> hashEvidenceBundle(Unsigned(bundle))]

signEvidenceBundle(bundle, signer, domain) ==
  [bundle EXCEPT !.signatures = [signer |-> signer, domain |-> domain, message |-> Message(bundle)]]

\* the address a signature recovers to: its signer's only for what was signed
Recovered(bundle, domain) ==
  IF /\ bundle.signatures # Absent
     /\ bundle.signatures.message = Message(bundle)
     /\ bundle.signatures.domain = domain
  THEN bundle.signatures.signer ELSE Nobody

verifyBundleSignature(bundle, domain) ==
  bundle.signatures # Absent /\ Recovered(bundle, domain) = bundle.evaluator

\* the fields a document must have to parse
RequiredFields ==
  {"task_id", "bundle_version", "evaluator", "prompt_hash", "rubric_hash", "model_runs",
   "claims", "metrics", "final_score_bps", "explanation", "signatures"}

deserializeBundle(doc) ==
  /\ \A f \in RequiredFields : doc[f] # Missing
  /\ doc.bundle_version = "0.2" => doc.extension # Absent

\* the errors that apply to what the model keeps of a bundle
validateBundleStructure(doc) ==
  /\ doc.bundle_version \in Versions
  /\ doc.model_runs # Missing /\ doc.model_runs # <<>>
  /\ doc.claims # Missing /\ doc.metrics # Missing
  /\ doc.final_score_bps \in 0 .. 10000
  /\ doc.signatures \notin {Missing, Absent}
  /\ doc.bundle_version \in {"0.2", "0.3"} => doc.extension # Absent
  /\ doc.bundle_version = "0.3" => doc.replay # Absent

-----------------------------------------------------------------------------
(* Canonical bytes, transcripts and encryption.                            *)

\* line ends are normalised in every text before the canonical JSON is taken
WithOutput(run, text) == [run EXCEPT !.raw_output = text]

canonicalizeBundle(bundle) ==
  LET runs == bundle.model_runs
  IN  [bundle EXCEPT !.model_runs = [i \in DOMAIN runs |-> WithOutput(runs[i], Lf[runs[i].raw_output])],
                     !.explanation = Lf[@]]

computeBundleHash(bundle) == Digest(canonicalizeBundle(bundle))

\* the hashes of the outputs are those of the texts, and a replay recipe is
\* about this prompt and the first output
verifyTranscript(bundle) ==
  /\ \A i \in DOMAIN bundle.model_runs :
       bundle.model_runs[i].output_hash = Digest(bundle.model_runs[i].raw_output)
  /\ bundle.replay # Absent =>
       /\ bundle.replay.prompt_hash = bundle.prompt_hash
       /\ bundle.model_runs # <<>> => bundle.replay.output_hash = bundle.model_runs[1].output_hash
       /\ bundle.replay.messages # Absent =>
            bundle.replay.messages_hash = Digest(Lf[bundle.replay.messages])

\* outputs and transcript leave the bundle; their hashes and all the rest,
\* signature and explanation included, stay
redactBundle(bundle) ==
  [bundle EXCEPT !.model_runs = [i \in DOMAIN @ |-> WithOutput(@[i], Redacted)],
                 !.replay = IF @ = Absent THEN Absent ELSE [@ EXCEPT !.messages = Absent]]

\* the symmetric key, readable with the private key of one recipient
encryptSymmetricKeyForRecipient(key, recipient) == [recipient_pubkey |-> recipient, enc_key |-> key]

\* a payload opens with its own key only (the tag of AES-GCM)
Payload(key, plaintext) == [key |-> key, plaintext |-> plaintext]

M_encryptEvidenceBundle(bundle, recipients, key) ==
  [encryptedPayload |-> Payload(key, bundle),
   encryptedBundle |->
     [redactBundle(bundle) EXCEPT !.privacy =
        [encrypted_payload_hash |-> Digest(Payload(key, bundle)),
         plaintext_commitment_hash |-> computeBundleHash(bundle),
         key_envelopes |-> {encryptSymmetricKeyForRecipient(key, r) : r \in recipients}]]]

encryptEvidenceBundle(bundle, recipients, key) ==
  LET payload == Payload(key, canonicalizeBundle(bundle))
  IN  [encryptedPayload |-> payload,
       encryptedBundle |->
         [redactBundle(bundle) EXCEPT !.privacy =
            [encrypted_payload_hash |-> Digest(payload),
             plaintext_commitment_hash |-> computeBundleHash(bundle),
             key_envelopes |-> {encryptSymmetricKeyForRecipient(key, r) : r \in recipients}]]]

\* Absent stands for the errors: no envelope, wrong key, another commitment
decryptEvidenceBundle(encryptedBundle, payload, recipient) ==
  LET mine == {e \in encryptedBundle.privacy.key_envelopes : e.recipient_pubkey = recipient}
  IN  IF /\ mine # {}
         /\ \A e \in mine : e.enc_key = payload.key
         /\ encryptedBundle.privacy.plaintext_commitment_hash
              = computeBundleHash(payload.plaintext)
      THEN payload.plaintext ELSE Absent

\* a recipient states what it decrypted; the check is of signer and text only
signVerifiedPlaintextStatement(signer, commitment) ==
  [plaintext_commitment_hash |-> commitment, signer |-> signer,
   statement |-> commitment, signature |-> <<signer, commitment>>]

verifyVerifiedPlaintextStatement(statement) ==
  statement.signature = <<statement.signer, statement.statement>>
=============================================================================
