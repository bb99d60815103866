--------------------------- MODULE PortableReceipts ---------------------------
(***************************************************************************)
(* The signed receipt that is checked without a server:                    *)
(* packages/receipt-verifier/src/index.ts.                                 *)
(*                                                                         *)
(* A receipt is a record of the fields index.ts lists.  The receipt id is  *)
(* the digest of the payload and digests are injective; a signature names  *)
(* the key that made it and the id it is over.  Forms of strings (hex of a *)
(* length, ISO dates, versions, URI schemes) are left out: values of the   *)
(* model are well formed, but for the ranges and the nulls checked here.   *)
(***************************************************************************)
EXTENDS Integers, Sequences, FiniteSets

CONSTANTS
  Null,       \* null
  Keys        \* Keys[v]: the address a reader trusts for verifier v

PayloadFields ==
  {"receipt_version", "created_at", "input_hash", "output_hash", "claim_hash", "verdict",
   "score", "program_id", "program_version", "evidence_bundle_hash", "evidence_uri",
   "verifier_id"}

ArtifactHash(x) == [artifact |-> x]

\* canonicalize drops undefined fields and orders the others
hashArtifact(value) == ArtifactHash(value)

\* neither the id, nor the signature, nor the anchor is signed
receiptPayload(receipt) == [f \in PayloadFields |-> receipt[f]]

M_computeReceiptId(receipt) ==
  hashArtifact([f \in PayloadFields \ {"program_version"} |-> receipt[f]])

computeReceiptId(receipt) == hashArtifact(receiptPayload(receipt))

Signature(key, id) == [by |-> key, over |-> id]

AnchorFields ==
  {"chain_id", "tx_hash", "receipt_hash", "evidence_hash", "program_hash",
   "subject_hash", "score_bps", "status", "issuer", "uri"}

disabledChainAnchor ==
  [f \in AnchorFields \cup {"enabled"} |-> IF f = "enabled" THEN FALSE ELSE Null]

\* whoever anchors a receipt writes what was recorded; a URI is optional
enabledChainAnchor(record) ==
  [f \in AnchorFields \cup {"enabled"} |->
     IF f = "enabled" THEN TRUE ELSE IF f \in DOMAIN record THEN record[f] ELSE Null]

\* the caller's anchor, or none; the key signs the id
createReceipt(fields, anchor, key) ==
  LET id == computeReceiptId(fields)
  IN  [f \in PayloadFields \cup {"receipt_id", "chain_anchor", "signature"} |->
         CASE f = "receipt_id"   -> id
           [] f = "chain_anchor" -> anchor
           [] f = "signature"    -> Signature(key, id)
           [] OTHER              -> receiptPayload(fields)[f]]

\* keccak256 of "program_id@program_version"; a semantic version has no @
programHash(receipt) == ArtifactHash(<<receipt.program_id, receipt.program_version>>)

\* scores of the model are basis points: Math.round(score * 10000)
scoreBps(receipt) == receipt.score

statusCode(receipt) == [unsupported |-> 0, supported |-> 1, uncertain |-> 2][receipt.verdict]

\* what an anchor has to say of this receipt
AnchorOf(receipt) ==
  [receipt_hash |-> receipt.receipt_id, evidence_hash |-> receipt.evidence_bundle_hash,
   program_hash |-> programHash(receipt), subject_hash |-> receipt.output_hash,
   score_bps |-> scoreBps(receipt), status |-> statusCode(receipt)]

verifyChainAnchorFields(receipt) ==
  {f \in DOMAIN AnchorOf(receipt) : receipt.chain_anchor[f] # AnchorOf(receipt)[f]}

RecordFields ==
  {"receipt_hash", "evidence_hash", "program_hash", "subject_hash", "score_bps", "status", "issuer"}

\* an anchored receipt against the record read from the chain, which may come
\* without its URI
verifyAnchoredRecord(receipt, record) ==
  IF ~receipt.chain_anchor.enabled THEN {"not anchored"}
  ELSE verifyChainAnchorFields(receipt)
       \cup {f \in RecordFields \cup ({"uri"} \cap DOMAIN record) :
               receipt.chain_anchor[f] # record[f]}

\* the fields with an error: a disabled anchor is all null, an enabled one
\* has no null but for its URI
validatePortable(receipt) ==
  LET anchor == receipt.chain_anchor
  IN  {f \in {"verdict"} : receipt.verdict \notin {"supported", "unsupported", "uncertain"}}
      \cup {f \in {"score"} : receipt.score < 0 \/ receipt.score > 10000}
      \cup {f \in {"program_id", "verifier_id"} : receipt[f] = ""}
      \cup {f \in AnchorFields : ~anchor.enabled /\ anchor[f] # Null}
      \cup {f \in AnchorFields \ {"uri"} : anchor.enabled /\ anchor[f] = Null}
      \cup {f \in {"score_bps"} : anchor.enabled /\ anchor[f] # Null /\
              (anchor[f] < 0 \/ anchor[f] > 10000)}

\* each artifact a reader has is checked against its hash
ArtifactsDiffer(receipt, artifacts) ==
  {f \in DOMAIN artifacts : hashArtifact(artifacts[f]) # receipt[f]}

\* an enabled anchor needs the transaction it names, found independently
TransactionDiffers(receipt, transaction) ==
  receipt.chain_anchor.enabled /\
    (transaction = Null \/ transaction # [chain_id |-> receipt.chain_anchor.chain_id,
                                          tx_hash |-> receipt.chain_anchor.tx_hash])

\* an error set, empty for a valid receipt
verifyPortable(receipt, artifacts, transaction) ==
  IF validatePortable(receipt) # {} THEN validatePortable(receipt)
  ELSE {e \in {"receipt_id"} : computeReceiptId(receipt) # receipt.receipt_id}
       \cup {e \in {"key"} : receipt.verifier_id \notin DOMAIN Keys}
       \cup {e \in {"signature"} : receipt.verifier_id \in DOMAIN Keys /\
               receipt.signature # Signature(Keys[receipt.verifier_id], receipt.receipt_id)}
       \cup ArtifactsDiffer(receipt, artifacts)
       \cup {e \in {"transaction"} : TransactionDiffers(receipt, transaction)}
       \cup (IF receipt.chain_anchor.enabled THEN verifyChainAnchorFields(receipt) ELSE {})
===============================================================================
