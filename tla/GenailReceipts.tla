---------------------------- MODULE GenailReceipts ----------------------------
(***************************************************************************)
(* Receipts and evidence of a GenAIL run:                                  *)
(* packages/genail-integration/src/receipt.ts, evidence.ts and the end of  *)
(* runtime.ts's execute.                                                   *)
(*                                                                         *)
(* A value is a scalar or, under Object(_), a function from keys to        *)
(* scalars; digests are injective.  Program text is a sequence of lines,   *)
(* each [code, comment, kind, name]: what the regular expressions see.     *)
(***************************************************************************)
EXTENDS Integers, Sequences, FiniteSets, SequencesExt

CONSTANTS
  None        \* undefined

Sha256(x) == [sha256 |-> x]

Object(keys) == [object |-> keys]
IsObject(v) == DOMAIN v = {"object"}
Scalar(x) == [scalar |-> x]

\* JSON.stringify with the top-level keys as its replacer: the replacer lists
\* the keys kept at every depth, so a nested key that is not also a key of
\* the object itself is dropped
computeCanonicalHash(obj) ==
  Sha256([k \in DOMAIN obj |->
    IF IsObject(obj[k])
    THEN Object([n \in DOMAIN obj[k].object \cap DOMAIN obj |-> obj[k].object[n]])
    ELSE obj[k]])

computeInputHash(inputs) == computeCanonicalHash(inputs)
computeOutputHash(outputs) == computeCanonicalHash(outputs)

-----------------------------------------------------------------------------
(* Programs.                                                               *)

\* lines without their comments, and no line that is then empty
normalizeSource(source) ==
  LET kept[n \in 0 .. Len(source)] ==
        IF n = 0 THEN <<>>
        ELSE IF source[n].code = "" THEN kept[n - 1]
        ELSE Append(kept[n - 1], source[n].code)
  IN  kept[Len(source)]

computeSourceHash(source) == Sha256(normalizeSource(source))

NamesOf(source, kind) == {source[i].name : i \in {j \in DOMAIN source : source[j].kind = kind}}
CountOf(source, kind) == Cardinality({i \in DOMAIN source : source[i].kind = kind})

\* each declaration once, each generate and message counted
extractProgramMetadata(source) ==
  LET models == NamesOf(source, "model")
      tools  == NamesOf(source, "call")
      variables == NamesOf(source, "set")
  IN  [models |-> models, tools |-> tools, variables |-> variables,
       generate_count |-> CountOf(source, "generate"), message_count |-> CountOf(source, "message"),
       complexity_score |-> Cardinality(models) * 10 + Cardinality(tools) * 5
         + Cardinality(variables) * 2 + CountOf(source, "generate") * 15
         + CountOf(source, "message") * 3]

parseGenAILProgram(source) ==
  [source |-> source, source_hash |-> computeSourceHash(source),
   metadata |-> extractProgramMetadata(source)]

\* five fields of scalars and of lists of strings: nothing nested is dropped
computeProgramFingerprint(program) ==
  Sha256([source_hash |-> program.source_hash, models |-> program.metadata.models,
          tools |-> program.metadata.tools, generate_count |-> program.metadata.generate_count,
          message_count |-> program.metadata.message_count])

\* a program without a model, or that never generates, is invalid
validateProgram(source) ==
  {e \in {"models", "generate"} :
     CASE e = "models"   -> extractProgramMetadata(source).models = {}
       [] e = "generate" -> extractProgramMetadata(source).generate_count = 0}

-----------------------------------------------------------------------------
(* Receipts.                                                               *)

MeteringOf(ctx) == [llm_calls |-> ctx.llm_calls, total_tokens |-> ctx.total_tokens]

\* the receipt's bundle hash has metering and the models among its nested
\* fields, so it commits to how many models answered and to nothing of them
ReceiptBundleHash(ctx) ==
  Sha256([execution_id |-> ctx.execution_id, input_hash |-> computeInputHash(ctx.inputs),
          output_hash |-> computeOutputHash(ctx.outputs),
          program_fingerprint |-> computeProgramFingerprint(ctx.program),
          model_calls |-> Len(ctx.model_calls)])

\* verification: what the API has answered, or None
buildGenailReceipt(ctx, verification) ==
  LET of(f, default) == IF verification = None THEN default ELSE verification[f]
  IN  [receipt_version |-> "1.0", execution_id |-> ctx.execution_id,
       task_id |-> of("task_id", None),
       program |-> [source_hash |-> ctx.program.source_hash,
                    fingerprint |-> computeProgramFingerprint(ctx.program)],
       input_hash |-> computeInputHash(ctx.inputs), output_hash |-> computeOutputHash(ctx.outputs),
       score_bps |-> of("score_bps", 0), verdict |-> of("verdict", FALSE),
       worthy |-> of("worthy", FALSE), metering |-> MeteringOf(ctx),
       model_calls |-> ctx.model_calls, bundle_hash |-> ReceiptBundleHash(ctx)]

computeGenailReceiptHash(receipt) ==
  Sha256([execution_id |-> receipt.execution_id, task_id |-> receipt.task_id,
          input_hash |-> receipt.input_hash, output_hash |-> receipt.output_hash,
          score_bps |-> receipt.score_bps, verdict |-> receipt.verdict, worthy |-> receipt.worthy,
          fingerprint |-> receipt.program.fingerprint, bundle_hash |-> receipt.bundle_hash])

\* the form of a receipt; no hash is computed again
validateReceiptIntegrity(receipt) ==
  {f \in {"receipt_version", "execution_id", "score_bps", "metering"} :
     CASE f = "receipt_version" -> receipt.receipt_version # "1.0"
       [] f = "execution_id"    -> receipt.execution_id = None
       [] f = "score_bps"       -> receipt.score_bps < 0 \/ receipt.score_bps > 10000
       [] f = "metering"        -> receipt.metering.llm_calls < 0 \/ receipt.metering.total_tokens < 0}

\* a receipt against the run it is said to be of
validateReceiptAgainstContext(receipt, ctx) ==
  {f \in {"input_hash", "output_hash", "fingerprint", "llm_calls"} :
     CASE f = "input_hash"  -> receipt.input_hash # computeInputHash(ctx.inputs)
       [] f = "output_hash" -> receipt.output_hash # computeOutputHash(ctx.outputs)
       [] f = "fingerprint" -> receipt.program.fingerprint # computeProgramFingerprint(ctx.program)
       [] f = "llm_calls"   -> receipt.metering.llm_calls # ctx.llm_calls}

\* JSON.parse, then the form: None stands for the exception
deserializeReceipt(receipt) == IF validateReceiptIntegrity(receipt) = {} THEN receipt ELSE None

-----------------------------------------------------------------------------
(* Evidence.                                                               *)

\* sensitive keys are masked, an object is only counted
redactSensitiveValues(obj, sensitive) ==
  [k \in DOMAIN obj |-> IF k \in sensitive THEN Scalar("[REDACTED]")
                        ELSE IF IsObject(obj[k]) THEN Scalar(Cardinality(DOMAIN obj[k].object))
                        ELSE obj[k]]

computeReasoningTraceHash(calls) == Sha256([i \in DOMAIN calls |-> calls[i].response])
generateStepSummaries(calls) == [i \in DOMAIN calls |-> calls[i].model]

\* everything of the bundle but its integrity block
ContentHash(bundle) == Sha256([f \in DOMAIN bundle \ {"integrity"} |-> bundle[f]])
BundleHash(bundle) ==
  Sha256(<<bundle.integrity.content_hash, bundle.execution_id, bundle.generated_at>>)

Unsealed == [content_hash |-> None, bundle_hash |-> None, signature |-> None]

EvidenceBody(ctx, options, now) ==
  [integrity |-> Unsealed, bundle_version |-> "0.3",
   execution_id |-> ctx.execution_id, generated_at |-> now,
   fingerprint |-> computeProgramFingerprint(ctx.program),
   source |-> IF options.include_source THEN normalizeSource(ctx.program.source) ELSE <<>>,
   input_hash |-> computeInputHash(ctx.inputs), output_hash |-> computeOutputHash(ctx.outputs),
   input_summary |-> IF options.include_summaries
                     THEN redactSensitiveValues(ctx.inputs, options.sensitive) ELSE None,
   metering |-> MeteringOf(ctx), model_provenance |-> ctx.model_calls,
   reasoning_trace |-> IF options.include_reasoning_trace
                       THEN <<computeReasoningTraceHash(ctx.model_calls),
                              generateStepSummaries(ctx.model_calls)>>
                       ELSE None]

buildGenailBundle(ctx, options, now) ==
  LET body   == EvidenceBody(ctx, options, now)
      hashed == [body EXCEPT !.integrity.content_hash = ContentHash(body)]
  IN  [hashed EXCEPT !.integrity.bundle_hash = BundleHash(hashed)]

signGenailBundle(bundle, key) ==
  [bundle EXCEPT !.integrity.signature = [by |-> key, over |-> bundle.integrity.bundle_hash]]

M_validateEvidenceIntegrity(bundle) ==
  {f \in {"bundle_hash"} : bundle.integrity.bundle_hash # BundleHash(bundle)}

\* both hashes again; the signature is not looked at
validateEvidenceIntegrity(bundle) ==
  {f \in {"bundle_version", "content_hash", "bundle_hash"} :
     CASE f = "bundle_version" -> bundle.bundle_version # "0.3"
       [] f = "content_hash"   -> bundle.integrity.content_hash # ContentHash(bundle)
       [] f = "bundle_hash"    -> bundle.integrity.bundle_hash # BundleHash(bundle)}

validateEvidenceAgainstContext(bundle, ctx) ==
  {f \in {"execution_id", "fingerprint", "input_hash", "output_hash", "model_calls"} :
     CASE f = "execution_id" -> bundle.execution_id # ctx.execution_id
       [] f = "fingerprint"  -> bundle.fingerprint # computeProgramFingerprint(ctx.program)
       [] f = "input_hash"   -> bundle.input_hash # computeInputHash(ctx.inputs)
       [] f = "output_hash"  -> bundle.output_hash # computeOutputHash(ctx.outputs)
       [] f = "model_calls"  -> Len(bundle.model_provenance) # Len(ctx.model_calls)}

deserializeEvidence(bundle) == IF validateEvidenceIntegrity(bundle) = {} THEN bundle ELSE None

\* only local storage, a data URI, is implemented; the others throw
storeEvidence(bundle, storage) ==
  IF storage = "local" THEN [uri |-> bundle, hash |-> bundle.integrity.bundle_hash] ELSE None
===============================================================================
