---------------------------- MODULE ReceiptExchange ----------------------------
(***************************************************************************)
(* The three receipt formats of the repository in the hands of others: a   *)
(* receipt is issued, copied, annotated, reordered by whoever parses and   *)
(* prints it, mixed up with another one, anchored, and checked by a reader *)
(* with the functions each format exports.  In a behaviour one format is   *)
(* in use.                                                                 *)
(*                                                                         *)
(* Bounds: MaxIssued receipts, MaxChanges changes of the copy.             *)
(***************************************************************************)
EXTENDS AssessmentReceipts, PortableReceipts, GenailReceipts

CONSTANTS
  Formats,         \* which of the three are looked at
  Params,          \* what buildReceipt is called with
  OldReceipts,     \* receipts of the time before context versions
  Fields,          \* what createReceipt is called with
  Verifiers,       \* who signs portable receipts: a function to their keys
  Contexts,        \* GenAIL runs
  Storages,        \* where the runtime is told to keep the evidence
  MaxIssued,
  MaxChanges,
  MaxPolls         \* polls that fit into waitForVerification's timeout

ASSUME ExchangeBounds == MaxIssued \in Nat /\ MaxChanges \in Nat /\ MaxPolls \in Nat

\* What a line sets is read off before any comment in it, so that it is a
\* function of the line's code; a line of nothing but a comment sets nothing.
ASSUME ContextsAssumption ==
  \A c \in Contexts :
    /\ c.program = parseGenAILProgram(c.program.source)
    /\ c.program.source \in Seq(Range(c.program.source))
    /\ \A i \in DOMAIN c.program.source :
         LET line == c.program.source[i]
         IN  /\ line.kind = "set" => line.code # ""
             /\ \A d \in Contexts : \A j \in DOMAIN d.program.source :
                  line.kind = "set" /\ d.program.source[j].code = line.code =>
                    d.program.source[j].kind = "set" /\ d.program.source[j].name = line.name

\* Lists of a receipt, or of a part of it, that stand for sets.
SetLists ==
  {"claims", "evidence_relations", "world_assessments", "stabilized_claims",
   "claim_rivalry_history", "selected_world_ids", "unresolved_world_ids"}
WorldLists == {"worlds", "interpretation_alternatives"}
DistillationLists == {"sampleHashes", "limitations"}

IsListBy(items, field) ==
  /\ items \in Seq(Range(items))
  /\ \A i \in DOMAIN items : Has(items[i], field) => items[i][field] \in Int

\* The lists of a receipt are lists, of identifiers or of items that have one.
ListsInField(f, v) ==
  /\ f \in {"selected_world_ids", "unresolved_world_ids"} => v \in Seq(Int)
  /\ f \in SetLists \ {"selected_world_ids", "unresolved_world_ids"} =>
       IsListBy(v, IF f = "claim_rivalry_history" THEN "claim_id" ELSE "id")
  /\ f = "possibility_space" => \A g \in WorldLists \cap DOMAIN v : IsListBy(v[g], "id")
  /\ f = "distillation_watermark_assessment" =>
       \A g \in DistillationLists : Has(v, g) /\ v[g] \in Seq(Int)

ListsAreLists(doc) == \A f \in DOMAIN doc : ListsInField(f, doc[f])

\* What buildReceipt is called with has the types its interface declares.
ASSUME ParamsAssumption == \A p \in Params : p.score_bps \in Int /\ ListsAreLists(p)

\* What is known of the receipts of the time before.
ASSUME OldReceiptsAssumption ==
  \A o \in OldReceipts :
    /\ RequiredFieldsOfReceipt \cup {"receipt_hash"} \subseteq DOMAIN o.doc
    /\ DOMAIN o.doc \subseteq VerificationReceipt
    /\ o.doc.receipt_hash = computeReceiptHash(o.doc)
    /\ o.doc.score_bps \in Int /\ o.doc.generated_at \in Int
    /\ o.doc.verdict = (o.doc.score_bps >= 5000)
    /\ ListsAreLists(o.doc)

VARIABLES
  format,    \* "assessment", "portable" or "genail"
  issued,    \* the receipts made, with what they were made of
  copy,      \* the copy that is passed on, or None
  changes,   \* how often it was changed
  chain,     \* what the chain says: events of a task, or anchored records
  polled     \* GenAIL: what waitForVerification has seen

receiptVars == <<format, issued, copy, changes, chain, polled>>

Room == Cardinality(issued) < MaxIssued
MayChange == copy # None /\ changes < MaxChanges

Copied(doc) == copy' = doc /\ changes' = changes + 1

-----------------------------------------------------------------------------
(* Assessments.                                                            *)

buildAssessment(p, now) ==
  /\ format = "assessment" /\ Room
  /\ LET r == buildReceipt(p, now)
     IN  /\ r # Refused
         /\ issued' = issued \cup {[params |-> p, doc |-> r]}
  /\ UNCHANGED <<format, copy, changes, chain, polled>>

\* the evaluator revealed and the task was resolved, as they were told or not
taskResolved(p, score, at) ==
  /\ format = "assessment" /\ chain = {}
  /\ chain' = {[taskId |-> p.task_id, finalScoreBps |-> score, timestamp |-> at,
                blockNumber |-> at, bundleHash |-> p.bundle_hash]}
  /\ UNCHANGED <<format, issued, copy, changes, polled>>

chainContextAttached ==
  /\ format = "assessment" /\ MayChange
  /\ \E e \in chain : Copied(attachChainContext(copy, buildChainContext(e)))
  /\ UNCHANGED <<format, issued, chain, polled>>

signatureAttached ==
  /\ format = "assessment" /\ MayChange
  /\ Copied(attachSignature(copy, "signed"))
  /\ UNCHANGED <<format, issued, chain, polled>>

\* somebody who holds the receipt writes one of the optional parts into it that
\* buildReceipt does not copy: nothing in the repository computes them, and the
\* documents say that receipts may have them
optionalPartAttached ==
  /\ format = "assessment" /\ MayChange
  /\ \E f \in UnhashedAssessments \cup {"zk_proof"} : Copied(Over([g \in {f} |-> "added"], copy))
  /\ UNCHANGED <<format, issued, chain, polled>>

\* what normalizeReceipt's comment warns of: the marker before the hash
receiptNormalized ==
  /\ format = "assessment" /\ MayChange
  /\ Copied(normalizeReceipt(copy))
  /\ UNCHANGED <<format, issued, chain, polled>>

listReordered ==
  /\ format = "assessment" /\ MayChange
  /\ \E f \in SetLists \cap DOMAIN copy : Copied([copy EXCEPT ![f] = Reverse(@)])
  /\ UNCHANGED <<format, issued, chain, polled>>

\* a field of another receipt, or a field left out
fieldMixedUp ==
  /\ format = "assessment" /\ MayChange
  /\ \E i \in issued :
       \/ \E f \in DOMAIN i.doc : Copied(Over([g \in {f} |-> i.doc[f]], copy))
       \/ \E f \in DOMAIN copy \ DOMAIN i.doc : Copied([g \in DOMAIN copy \ {f} |-> copy[g]])
  /\ UNCHANGED <<format, issued, chain, polled>>

-----------------------------------------------------------------------------
(* Portable receipts.                                                      *)

\* nothing ties the key that signs to the verifier the receipt names
portableCreated(fields, v) ==
  /\ format = "portable" /\ Room
  /\ issued' = issued \cup
       {[key |-> Verifiers[v], doc |-> createReceipt(fields, disabledChainAnchor, Verifiers[v])]}
  /\ UNCHANGED <<format, copy, changes, chain, polled>>

\* somebody writes the receipt's hashes to the registry and the transaction
\* into the receipt, with the URI of the evidence or without
anchored ==
  /\ format = "portable" /\ MayChange
  /\ validatePortable(copy) = {}
  /\ \E fields \in {AnchorFields, AnchorFields \ {"uri"}} :
     LET record == [f \in fields |->
                      CASE f = "issuer"   -> "issuer"
                        [] f = "tx_hash"  -> Cardinality(chain) + 1
                        [] f = "chain_id" -> 1
                        [] f = "uri"      -> copy.evidence_uri
                        [] OTHER          -> AnchorOf(copy)[f]]
     IN  /\ chain' = chain \cup {record}
         /\ Copied([copy EXCEPT !.chain_anchor = enabledChainAnchor(record)])
  /\ UNCHANGED <<format, issued, polled>>

portableMixedUp ==
  /\ format = "portable" /\ MayChange
  /\ \/ \E i \in issued, f \in DOMAIN copy : Copied([copy EXCEPT ![f] = i.doc[f]])
     \/ \E r \in chain : \E f \in DOMAIN r : Copied([copy EXCEPT !.chain_anchor[f] = r[f]])
  /\ UNCHANGED <<format, issued, chain, polled>>

-----------------------------------------------------------------------------
(* GenAIL runs.                                                            *)

\* what the API answers to POST /v1/verify: a task, and no score yet
submitForVerification(ctx) ==
  [task_id |-> ctx.execution_id, score_bps |-> 0, verdict |-> FALSE, worthy |-> FALSE]

\* the end of execute: the run is submitted when the runtime verifies, then
\* the evidence is built and stored; when that throws, the receipt is made
\* again, without what the API had answered
executionCompleted(ctx, verify, storage) ==
  /\ format = "genail" /\ Room
  /\ LET answer == IF verify THEN submitForVerification(ctx) ELSE None
         bundle == signGenailBundle(buildGenailBundle(ctx, ctx.options, ctx.now), "runtime")
         stored == storeEvidence(bundle, storage) # None
     IN  issued' = issued \cup
           {[ctx |-> ctx, success |-> stored, submitted |-> verify,
             doc |-> [receipt |-> buildGenailReceipt(ctx, IF stored THEN answer ELSE None),
                      bundle |-> bundle]]}
  /\ UNCHANGED <<format, copy, changes, chain, polled>>

\* one poll of waitForVerification: the loop ends at a final status, with an
\* exception at a failed one, and with another when the time is up
waitForVerification(status, score) ==
  /\ format = "genail"
  /\ \E i \in issued : i.doc.receipt.task_id # None
  /\ polled.result = "waiting"
  /\ polled' =
       IF polled.polls >= MaxPolls THEN [polled EXCEPT !.result = "timeout"]
       ELSE IF status = "finalized"
       THEN [polls |-> polled.polls + 1, result |-> "answered", worthy |-> score >= 8000, score |-> score]
       ELSE IF status = "failed" THEN [polled EXCEPT !.polls = @ + 1, !.result = "failed"]
       ELSE [polled EXCEPT !.polls = @ + 1]
  /\ UNCHANGED <<format, issued, copy, changes, chain>>

genailMixedUp ==
  /\ format = "genail" /\ MayChange
  /\ \E i \in issued :
       \/ \E f \in DOMAIN copy.bundle : Copied([copy EXCEPT !.bundle[f] = i.doc.bundle[f]])
       \/ \E f \in DOMAIN copy.bundle.integrity :
            Copied([copy EXCEPT !.bundle.integrity[f] = i.doc.bundle.integrity[f]])
       \/ \E f \in DOMAIN copy.receipt : Copied([copy EXCEPT !.receipt[f] = i.doc.receipt[f]])
  /\ UNCHANGED <<format, issued, chain, polled>>

-----------------------------------------------------------------------------

documentCopied ==
  /\ copy = None
  /\ \E i \in issued : copy' = i.doc
  /\ UNCHANGED <<format, issued, changes, chain, polled>>

NotPolled == [polls |-> 0, result |-> "waiting", worthy |-> FALSE, score |-> 0]

ReceiptInit ==
  /\ format \in Formats
  /\ issued \in {{}} \cup (IF format = "assessment" THEN {{o} : o \in OldReceipts} ELSE {})
  /\ copy = None /\ changes = 0 /\ chain = {} /\ polled = NotPolled

ReceiptNext ==
  \/ \E p \in Params, now \in {1, 100} : buildAssessment(p, now)
  \/ \E p \in Params, score \in {4000, 9000}, at \in {1, 100} : taskResolved(p, score, at)
  \/ chainContextAttached
  \/ signatureAttached
  \/ optionalPartAttached
  \/ receiptNormalized
  \/ listReordered
  \/ fieldMixedUp
  \/ \E f \in Fields, v \in DOMAIN Verifiers : portableCreated(f, v)
  \/ anchored
  \/ portableMixedUp
  \/ \E c \in Contexts, verify \in BOOLEAN, s \in Storages : executionCompleted(c, verify, s)
  \/ \E status \in {"running", "finalized", "failed"}, score \in {4000, 9000} :
       waitForVerification(status, score)
  \/ genailMixedUp
  \/ documentCopied

-----------------------------------------------------------------------------
(* Properties.                                                             *)

SameItems(a, b) == Range(a) = Range(b) /\ Len(a) = Len(b)

\* the same record, but for the order of these lists
SameBut(lists, a, b) ==
  /\ DOMAIN a = DOMAIN b
  /\ \A f \in DOMAIN a : a[f] = b[f] \/ (f \in lists /\ SameItems(a[f], b[f]))

SameUpToOrder(a, b, f) ==
  /\ Has(a, f) /\ Has(b, f)
  /\ \/ a[f] = b[f]
     \/ f \in SetLists /\ SameItems(a[f], b[f])
     \/ f = "possibility_space" /\ SameBut(WorldLists, a[f], b[f])
     \/ f = "distillation_watermark_assessment" /\ SameBut(DistillationLists, a[f], b[f])

\* Issued receipts and copies have the fields of the interface VerificationReceipt.
ReceiptTypeOK ==
  format = "assessment" =>
    /\ \A i \in issued : /\ RequiredFieldsOfReceipt \subseteq DOMAIN i.doc
                         /\ DOMAIN i.doc \subseteq VerificationReceipt
    /\ copy # None => DOMAIN copy \subseteq VerificationReceipt

IsScore(bps) == bps \in 0 .. 10000

\* What the builder copies without a look is as validateReceipt wants it.
CallerWasRight(params) ==
  /\ IsScore(params.score_bps) /\ params.bundle_uri # ""
  /\ Has(params, "coherence_assessment") =>
       params.coherence_assessment >= 0 /\ params.coherence_assessment <= 1
  /\ LET a == params.distillation_watermark_assessment
     IN  Has(params, "distillation_watermark_assessment") =>
           a.detected = (a.status = "signal_detected") /\ a.limitations # <<>>
  /\ Has(params, "possibility_space") /\ ~Has(params, "metacognitive_assessment")
       => V2Fields \subseteq DOMAIN params

\* A copy that hashes to an issued receipt's hash differs from it, whatever
\* happened to it, only in annotations, in the two optional assessments that
\* the hash leaves out, and in the order of lists that stand for sets: of all
\* the other fields of the interface none may be changed, added or dropped
\* (RECEIPT_HASH_FIELDS, normalizeHashValue, computeReceiptHash).
HashFixesTheAssessment ==
  format = "assessment" /\ copy # None =>
    \A i \in issued : verifyReceiptHash(copy, i.doc.receipt_hash) =>
      \A f \in (DOMAIN copy \cup DOMAIN i.doc) \ (Annotations \cup UnhashedAssessments) :
        SameUpToOrder(copy, i.doc, f)

\* A copy that hashes to an issued receipt and that performFullVerification
\* finds in agreement with the chain says of the output what the chain's score
\* says, and was not made long after the task was resolved.
VerdictFollowsTheChain ==
  format = "assessment" /\ copy # None =>
    \A i \in issued, e \in chain :
      /\ verifyReceiptHashMatches(i.doc.receipt_hash, copy)
      /\ performFullVerification(copy, e, {e}, <<>>) = {}
      => /\ copy.verdict = (e.finalScoreBps >= 5000)
         /\ i.doc.generated_at <= e.timestamp + ToleranceSeconds
         /\ i.doc.evidence.bundle_hash = e.bundleHash

\* The builder and the validator agree, although each decides by itself which
\* context version is which: what buildReceipt issues has the fields of the
\* interface VerificationReceipt, and validateReceipt accepts it unless the
\* caller passed a score that is none, a part that is malformed, or left out
\* part of a possibility-aware assessment.
IssuedReceiptsAreValid ==
  /\ ReceiptTypeOK
  /\ format = "assessment" =>
       \A i \in issued : i \notin OldReceipts =>
         (isVerificationReceipt(i.doc) <=> CallerWasRight(i.params))

\* A portable receipt that verifies without a server carries a payload that
\* the trusted key of its verifier signed, and when it is anchored and the
\* registry's record agrees, the record is of that payload.
ValidPortableIsSigned ==
  format = "portable" /\ copy # None =>
    \A t \in {Null} \cup {[chain_id |-> r.chain_id, tx_hash |-> r.tx_hash] : r \in chain} :
      verifyPortable(copy, <<>>, t) = {} =>
        /\ \E i \in issued : /\ i.key = Keys[copy.verifier_id]
                             /\ \A f \in PayloadFields : copy[f] = i.doc[f]
        /\ \A r \in chain : verifyAnchoredRecord(copy, r) = {} =>
             \E i \in issued : /\ r.receipt_hash = i.doc.receipt_id
                               /\ r.subject_hash = i.doc.output_hash
                               /\ r.score_bps = i.doc.score

\* Two functions agree at the keys K: they have the same of them, with the same values.
AgreeAt(f, g, K) ==
  \A n \in K : /\ n \in DOMAIN f <=> n \in DOMAIN g
               /\ n \in DOMAIN f => f[n] = g[n]

\* Two objects agree in their keys and their scalars, and in what is nested at
\* keys that are also keys of the objects themselves.
AgreeAtTopLevelKeys(a, b) ==
  /\ DOMAIN a = DOMAIN b
  /\ \A k \in DOMAIN a :
       /\ ~IsObject(a[k]) => a[k] = b[k]
       /\ IsObject(a[k]) =>
            IsObject(b[k]) /\ AgreeAt(a[k].object, b[k].object, DOMAIN a)

\* What a receipt commits to of the run it is made of.
SameForReceipts(c, d) ==
  /\ AgreeAtTopLevelKeys(c.inputs, d.inputs)
  /\ AgreeAtTopLevelKeys(c.outputs, d.outputs)
  /\ normalizeSource(c.program.source) = normalizeSource(d.program.source)
  /\ c.program.metadata = d.program.metadata
  /\ c.llm_calls = d.llm_calls

\* Evidence that deserializeEvidence accepts is the evidence of one run, with
\* or without its signature.  The receipt of a run validates against a run
\* exactly when the two agree in the keys and scalars of inputs and outputs, in
\* the values nested in them at keys that occur at the top as well, in the
\* program but for its comments, and in the number of calls; what is nested at
\* other keys may differ (validateReceiptAgainstContext, computeCanonicalHash).
GenailDocumentsAreOneRuns ==
  format = "genail" /\ copy # None =>
    /\ deserializeEvidence(copy.bundle) # None =>
         \E i \in issued : \A f \in DOMAIN copy.bundle \ {"integrity"} :
           copy.bundle[f] = i.doc.bundle[f]
    /\ \A i, j \in issued :
         validateReceiptAgainstContext(i.doc.receipt, j.ctx) = {} <=> SameForReceipts(i.ctx, j.ctx)
================================================================================
