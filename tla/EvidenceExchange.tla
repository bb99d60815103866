--------------------------- MODULE EvidenceExchange ---------------------------
(***************************************************************************)
(* The way of an evidence bundle from the node that signs it to a reader:  *)
(* uploaded and fetched again (verifier-node/src/evidence/ipfsStorageV2.ts)*)
(* or encrypted into two files and decrypted from them                     *)
(* (verifier-node/src/cli/privacy.ts).                                     *)
(*                                                                         *)
(* Outside the code: the node's IPFS daemon and its disk (which may be     *)
(* down or lost), Pinata, and public gateways, which may be out of reach   *)
(* or answer with a document that is not the one asked for.  A content     *)
(* identifier names a document and its layout; the code uploads the        *)
(* indented JSON and pins the compact JSON.                                *)
(***************************************************************************)
EXTENDS EvidenceBundles

CONSTANTS
  Requests,      \* what the node is asked to make bundles of
  Domain,        \* chain id and marketplace of the signatures
  RecipientSets, \* recipients the command line may name
  Readers,       \* holders of private keys
  Gateways,      \* number of public gateways that are tried, in order
  MaxCalls       \* encryptions, uploads, fetches and decryptions

VARIABLES
  made,      \* signed bundles of the node
  keys,      \* symmetric keys drawn so far
  header,    \* the encrypted bundle file
  payload,   \* the payload file
  writing,   \* the encrypted bundle a command has still to write
  node,      \* documents pinned on the node's IPFS daemon
  pinata,    \* content identifiers pinned at Pinata
  uploads,   \* what the uploads returned
  fetched,   \* what a fetch returned to its reader
  opened,    \* what a decryption returned
  calls      \* calls so far

exchangeVars == <<made, keys, header, payload, writing, node, pinata, uploads, fetched, opened,
                  calls>>

ExchangeInit ==
  /\ made = {} /\ keys = 0
  /\ header = Absent /\ payload = Absent /\ writing = Absent
  /\ node = {} /\ pinata = {} /\ uploads = {}
  /\ fetched = Absent /\ opened = Absent /\ calls = 0

Cid(layout, doc) == [layout |-> layout, content |-> doc]

LocalFile(doc) == Cid("local", doc)

\* createEvidenceBundle, or the second builder when the request comes with its options
BundleOf(r) ==
  IF r.options = Absent THEN createEvidenceBundle(r)
  ELSE createBundleV2(r.version, r.task, r.prompt, r.rubric, toModelRuns(r.responses),
         toClaims(r.summaries, r.sentences), toMetrics(r.graph, r.sentences, r.factual),
         toScoreBps(r.score), r.explanation, r.options)

\* A request has answers and a percentage; the markers are none of a bundle's values.
ASSUME RequestsAssumption ==
  \A r \in Requests :
    /\ r.version \in Versions /\ r.explanation \in Texts /\ r.score \in 0 .. 100
    /\ DOMAIN r.responses # {}
    /\ \A i \in DOMAIN r.responses : r.responses[i].text \in Texts
ASSUME MarkersAssumption ==
  \A r \in Requests : BundleOf(r) # Absent =>
    /\ \A f \in RequiredFields : BundleOf(r)[f] # Missing
    /\ BundleOf(r).bundle_version \in {"0.2", "0.3"} => BundleOf(r).extension # Absent
    /\ signEvidenceBundle(BundleOf(r), Node, Domain).signatures \notin {Missing, Absent}

\* signEvidenceBundle of what was built; a refused version makes nothing.
\* A task's bundle is made once: a bound, the node makes one per run of a job.
makeBundle(r) ==
  /\ BundleOf(r) # Absent
  /\ \A b \in made : b.task_id # r.task
  /\ made' = made \cup {signEvidenceBundle(BundleOf(r), Node, Domain)}
  /\ UNCHANGED <<keys, header, payload, writing, node, pinata, uploads, fetched, opened, calls>>

-----------------------------------------------------------------------------
(* The command line: the payload is written first, the bundle second.      *)

CanCall == calls < MaxCalls

encryptBundleCli(b, recipients) ==
  LET e == encryptEvidenceBundle(b, recipients, keys + 1)
  IN  /\ CanCall /\ writing = Absent /\ b \in made /\ recipients # {}
      /\ keys' = keys + 1 /\ calls' = calls + 1
      /\ payload' = e.encryptedPayload
      /\ writing' = e.encryptedBundle
      /\ UNCHANGED <<made, header, node, pinata, uploads, fetched, opened>>

\* the second write of the command
writeBundle ==
  /\ writing # Absent
  /\ header' = writing /\ writing' = Absent
  /\ UNCHANGED <<made, keys, payload, node, pinata, uploads, fetched, opened, calls>>

\* the command ends between its two writes
encryptCrash ==
  /\ writing # Absent
  /\ writing' = Absent
  /\ UNCHANGED <<made, keys, header, payload, node, pinata, uploads, fetched, opened, calls>>

\* reads both files; an error leaves nothing behind
decryptBundleCli(reader) ==
  /\ CanCall /\ header # Absent
  /\ LET plain == decryptEvidenceBundle(header, payload, reader)
     IN  opened' = IF plain = Absent THEN Absent
                   ELSE [reader |-> reader, header |-> header, bundle |-> plain,
                         statement |-> signVerifiedPlaintextStatement(reader,
                                         header.privacy.plaintext_commitment_hash)]
  /\ calls' = calls + 1
  /\ UNCHANGED <<made, keys, header, payload, writing, node, pinata, uploads, fetched>>

-----------------------------------------------------------------------------
(* IPFS.                                                                   *)

\* gateways that answer for a content identifier: it is stored somewhere
verifyGatewayAvailability(cid, stored, reachable) == IF cid \in stored THEN reachable ELSE {}

\* up: the daemon answers; pin: Pinata takes the document (it has credentials
\* and answers); a daemon that is down sends the bundle to a local file
uploadEvidenceToIPFS(b, up, pin, reachable) ==
  /\ CanCall /\ b \in made /\ calls' = calls + 1
  /\ IF up
     THEN /\ node' = node \cup {b}
          /\ pinata' = IF pin THEN pinata \cup {Cid("compact", b)} ELSE pinata
          /\ uploads' = uploads \cup
               {[cid |-> Cid("indented", b), pinned |-> pin,
                gatewayUrls |-> verifyGatewayAvailability(Cid("indented", b),
                                  pinata \cup {Cid("indented", b)}, reachable)]}
     ELSE /\ UNCHANGED <<node, pinata>>
          /\ uploads' = uploads \cup
               {[cid |-> LocalFile(b), pinned |-> FALSE, gatewayUrls |-> {}]}
  /\ UNCHANGED <<made, keys, header, payload, writing, fetched, opened>>

pinExistingToPinata(cid) == pinata \cup {cid}

\* pins an identifier again; without credentials for Pinata only on the node
pinEvidence(cid, credentials) ==
  /\ CanCall /\ calls' = calls + 1
  /\ \E u \in uploads : u.cid = cid /\ cid.layout = "indented"
  /\ cid.content \in node
  /\ pinata' = IF credentials THEN pinExistingToPinata(cid) ELSE pinata
  /\ UNCHANGED <<made, keys, header, payload, writing, node, uploads, fetched, opened>>

\* the disk of the daemon is lost
NodeLost ==
  /\ node # {}
  /\ node' = {}
  /\ UNCHANGED <<made, keys, header, payload, writing, pinata, uploads, fetched, opened, calls>>

\* documents a gateway may send instead of the one asked for: damaged, with a
\* part of another bundle, or another bundle
Damaged(doc) ==
  {[doc EXCEPT !.final_score_bps = 10000 - @], [doc EXCEPT !.metrics = Missing],
   [doc EXCEPT !.evaluator = OtherNode], [doc EXCEPT !.explanation = Redacted],
   [doc EXCEPT !.extension = Absent]}
  \cup {[doc EXCEPT !.signatures = b.signatures] : b \in made}
  \cup {[doc EXCEPT !.model_runs = b.model_runs] : b \in made}
  \cup made

\* answers: a document, "none" (no answer) or "noise" (200 without JSON); the
\* first that is not "none" decides
retrieveFromGateways(answers) ==
  LET first == CHOOSE g \in 1 .. Gateways + 1 :
                 /\ g <= Gateways => answers[g] # "none"
                 /\ \A h \in 1 .. g - 1 : answers[h] = "none"
  IN  IF first > Gateways THEN "none" ELSE answers[first]

\* fields only: the identifier is not compared with the content
verifyBundleIntegrity(doc) ==
  /\ \A f \in RequiredFields \ {"explanation"} : doc[f] # Missing
  /\ doc.bundle_version \in {"0.2", "0.3"} => doc.extension # Absent
  /\ doc.bundle_version = "0.3" => doc.replay # Absent

\* what a reader makes of a document
Read(cid, source, doc) ==
  [asked |-> cid, source |-> source, doc |-> doc, verified |-> verifyBundleIntegrity(doc),
   parses |-> deserializeBundle(doc),
   accepted |-> /\ deserializeBundle(doc) /\ validateBundleStructure(doc)
                /\ verifyBundleSignature(doc, Domain) /\ doc.evaluator = Node]

\* the daemon first, the gateways when it is down or does not have it; kinds
\* says how each gateway answers
retrieveEvidenceFromIPFS(u, up, kinds, other) ==
  LET available == u.cid.content \in node \/ u.cid \in pinata
      answer(g) == IF kinds[g] = "right" THEN IF available /\ u.cid.layout = "indented"
                                              THEN "right" ELSE "none"
                   ELSE kinds[g]
      got == IF u.cid.layout = "indented" /\ up /\ u.cid.content \in node THEN "node"
             ELSE retrieveFromGateways([g \in 1 .. Gateways |-> answer(g)])
  IN  /\ CanCall /\ calls' = calls + 1
      /\ u \in uploads
      /\ fetched' = IF got = "node" THEN Read(u.cid, "node", u.cid.content)
                    ELSE IF got = "right" THEN Read(u.cid, "gateway", u.cid.content)
                    ELSE IF got = "other" THEN Read(u.cid, "gateway", other)
                    ELSE Absent
      /\ UNCHANGED <<made, keys, header, payload, writing, node, pinata, uploads, opened>>

-----------------------------------------------------------------------------

ExchangeNext ==
  \/ \E r \in Requests : makeBundle(r)
  \/ \E b \in made, s \in RecipientSets : encryptBundleCli(b, s)
  \/ writeBundle
  \/ encryptCrash
  \/ \E reader \in Readers : decryptBundleCli(reader)
  \/ \E b \in made, up, pin \in BOOLEAN, some \in {{}, 1 .. Gateways + 1} :
       uploadEvidenceToIPFS(b, up, pin, some)
  \/ \E u \in uploads, credentials \in BOOLEAN : pinEvidence(u.cid, credentials)
  \/ NodeLost
  \/ \E u \in uploads, up \in BOOLEAN,
        kinds \in [1 .. Gateways -> {"right", "other", "noise", "none"}] :
       \E other \in IF \E g \in 1 .. Gateways : kinds[g] = "other"
                    THEN Damaged(u.cid.content) ELSE {u.cid.content} :
         retrieveEvidenceFromIPFS(u, up, kinds, other)

-----------------------------------------------------------------------------
(* Properties.                                                             *)

\* A reader that parses what it fetched, checks its structure and its signature
\* and knows the node's address accepts exactly the node's bundles: nothing
\* damaged and nothing put together from two of them, and each of them wherever
\* it came from, in every version that can be made; those also pass the field
\* check of the fetch.  It is not said that the bundle is the one asked for
\* (deserializeBundle, validateBundleStructure and verifyBundleSignature against
\* createEvidenceBundle and signEvidenceBundle).
AcceptedAreTheSigned ==
  fetched # Absent =>
    /\ fetched.accepted <=> fetched.doc \in made
    /\ fetched.accepted => fetched.verified

\* Decryption gives a recipient the bundle the encrypted one stands for, also
\* when a command died between its two writes and the files are of two
\* encryptions: the same bundle with its line ends normalised, whose commitment
\* the encrypted bundle carries; its signature and its transcript survive
\* exactly when there was no carriage return to normalise
\* (encryptEvidenceBundle, decryptEvidenceBundle, encryptBundleCli).
OpenedIsCommitted ==
  opened # Absent =>
    \E b \in made :
      /\ opened.bundle = canonicalizeBundle(b)
      /\ redactBundle(b) = [opened.header EXCEPT !.privacy = Absent]
      /\ computeBundleHash(b) = opened.statement.plaintext_commitment_hash
      /\ verifyVerifiedPlaintextStatement(opened.statement)
      /\ verifyBundleSignature(opened.bundle, Domain) <=> canonicalizeBundle(b) = b
      /\ verifyTranscript(b) /\ canonicalizeBundle(b) = b => verifyTranscript(opened.bundle)
=============================================================================
