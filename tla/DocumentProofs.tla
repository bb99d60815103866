----------------------------- MODULE DocumentProofs -----------------------------
(***************************************************************************)
(* Proofs about the documents that leave the node, for any requests,       *)
(* parameters, contexts, keys and numbers of documents, and for copies     *)
(* that change hands any number of times: evidence bundles and what a      *)
(* reader or a recipient accepts (EvidenceExchange), and the three receipt *)
(* formats (ReceiptExchange).  Each part says what a document that was     *)
(* made is, and what every copy of it keeps whoever handled it, shows      *)
(* that every action keeps both, and derives the property from what the    *)
(* checks of the format compare.                                           *)
(*                                                                         *)
(* And proofs about the scores the node computes (Evaluation): that the    *)
(* outliers are a minority, what backs a reliable verdict, the tree of the *)
(* votes, and the slash of a decision tree.  The invariant only says that  *)
(* a score was computed from the answers or the tree; the rest is about    *)
(* the functions that compute it.                                          *)
(***************************************************************************)
EXTENDS EvidenceExchange, ReceiptExchange, Evaluation, SumTheorems, TLAPS

-----------------------------------------------------------------------------
(* Records.                                                                *)

\* A record of these fields.
IsRecord(r, fields) == r = [f \in fields |-> r[f]]

\* Writing one field of a record.
LEMMA SetField ==
  ASSUME NEW r, NEW F, NEW f \in F, NEW x, IsRecord(r, F)
  PROVE  /\ IsRecord([r EXCEPT ![f] = x], F)
         /\ [r EXCEPT ![f] = x][f] = x
         /\ \A g \in F \ {f} : [r EXCEPT ![f] = x][g] = r[g]
  BY DEF IsRecord

-----------------------------------------------------------------------------
(* Evidence bundles (EvidenceExchange).                                    *)

\* The fields of a bundle.
BundleFields ==
  {"task_id", "bundle_version", "evaluator", "prompt_hash", "rubric_hash", "model_runs",
   "claims", "metrics", "final_score_bps", "explanation", "extension", "replay", "privacy",
   "signatures"}

RunFields == {"provider", "raw_output", "output_hash", "tokens_used"}

\* What a bundle of the node is: its own, built from texts, not encrypted, and signed for
\* all it says.
SoundBundle(b) ==
  /\ IsRecord(b, BundleFields)
  /\ b.evaluator = Node /\ b.privacy = Absent
  /\ b.signatures = [signer |-> Node, domain |-> Domain, message |-> Message(b)]
  /\ b.model_runs # <<>>
  /\ IsRecord(b.model_runs, DOMAIN b.model_runs)
  /\ \A i \in DOMAIN b.model_runs :
       /\ IsRecord(b.model_runs[i], RunFields)
       /\ b.model_runs[i].raw_output \in Texts
  /\ b.explanation \in Texts
  /\ b.bundle_version \in Versions /\ IsScore(b.final_score_bps)
  /\ \A f \in RequiredFields : b[f] # Missing
  /\ b.signatures # Absent
  /\ b.bundle_version \in {"0.2", "0.3"} => b.extension # Absent
  /\ b.bundle_version = "0.3" => b.replay # Absent

\* What createBundleV2 writes into a bundle.
LEMMA BuiltFields ==
  ASSUME NEW v, NEW t, NEW p, NEW r, NEW m, NEW c, NEW x, NEW bps, NEW e, NEW o,
         NEW u, u = createBundleV2(v, t, p, r, m, c, x, bps, e, o), u # Absent
  PROVE  /\ IsRecord(u, BundleFields)
         /\ u.task_id = t /\ u.bundle_version = v /\ u.evaluator = Node
         /\ u.model_runs = m /\ u.final_score_bps = bps /\ u.explanation = e
         /\ v = "0.3" => u.replay # Absent
         /\ u.privacy = Absent /\ u.signatures = Absent
<1> DEFINE extended == v \in {"0.2", "0.3"}
           ext == IF ~extended THEN Absent
                  ELSE [input |-> p, output |-> Digest(<<bps, getVerdict(bps), e>>),
                        provenance |-> <<buildProvenanceModelRuns(m, p),
                                         buildProvenanceSources(c)>>,
                        scoring_trace |-> buildScoringTrace(r, bps, e),
                        program |-> o.program, metering |-> o.metering,
                        reasoning_trace |-> o.reasoningTrace]
<1>1. /\ ~(v = "0.3" /\ o.replay = Absent)
      /\ u = [task_id |-> t, bundle_version |-> v, evaluator |-> Node, prompt_hash |-> p,
              rubric_hash |-> r, model_runs |-> m, claims |-> c, metrics |-> x,
              final_score_bps |-> bps, explanation |-> e, extension |-> ext,
              replay |-> IF v = "0.3" THEN o.replay ELSE Absent,
              privacy |-> Absent, signatures |-> Absent]
  BY DEF createBundleV2
<1> HIDE DEF ext
<1> QED
  BY <1>1 DEF BundleFields, IsRecord

\* What a signature is over does not change when the bundle gets it.
LEMMA SignedMessage ==
  ASSUME NEW u, IsRecord(u, BundleFields), u.signatures = Absent, NEW s, NEW b,
         b = [u EXCEPT !.signatures = s]
  PROVE  /\ IsRecord(b, BundleFields)
         /\ b.signatures = s
         /\ \A f \in BundleFields \ {"signatures"} : b[f] = u[f]
         /\ Unsigned(b) = u /\ Unsigned(u) = u /\ Message(b) = Message(u)
<1>1. b = [f \in BundleFields |-> IF f = "signatures" THEN s ELSE u[f]]
  BY DEF BundleFields, IsRecord
<1>2. [b EXCEPT !.signatures = Absent] = u /\ [u EXCEPT !.signatures = Absent] = u
  BY <1>1 DEF BundleFields, IsRecord
<1> QED
  BY <1>1, <1>2 DEF BundleFields, Unsigned, Message, IsRecord

\* A score of the node in basis points.
LEMMA ScoreInBps == \A s \in 0 .. 100 : IsScore(toScoreBps(s))
BY DEF IsScore, toScoreBps

\* What the node builds and signs is sound.
LEMMA BuiltSound ==
  ASSUME NEW r \in Requests, BundleOf(r) # Absent
  PROVE  SoundBundle(signEvidenceBundle(BundleOf(r), Node, Domain))
<1> DEFINE u == BundleOf(r)
           b == signEvidenceBundle(u, Node, Domain)
           runs == toModelRuns(r.responses)
<1>1. /\ IsRecord(u, BundleFields)
      /\ u.bundle_version = r.version /\ u.evaluator = Node /\ u.model_runs = runs
      /\ u.final_score_bps = toScoreBps(r.score) /\ u.explanation = r.explanation
      /\ r.version = "0.3" => u.replay # Absent
      /\ u.privacy = Absent /\ u.signatures = Absent
  BY BuiltFields DEF BundleOf, createEvidenceBundle
<1>2. IsScore(toScoreBps(r.score))
  <2>1. r.score \in 0 .. 100
    BY RequestsAssumption
  <2> QED BY <2>1, ScoreInBps
<1>3. /\ runs = [i \in DOMAIN r.responses |-> createModelRun(r.responses[i])]
      /\ \A i \in DOMAIN runs :
           /\ IsRecord(runs[i], RunFields)
           /\ runs[i].raw_output \in Texts
  BY RequestsAssumption DEF toModelRuns, createModelRun, IsRecord, RunFields
<1> HIDE DEF u, runs
<1>4. /\ IsRecord(b, BundleFields)
      /\ b.signatures = [signer |-> Node, domain |-> Domain, message |-> Message(b)]
      /\ \A f \in BundleFields \ {"signatures"} : b[f] = u[f]
  BY <1>1, SignedMessage DEF signEvidenceBundle
<1>5. /\ \A f \in RequiredFields : b[f] # Missing
      /\ b.signatures # Absent
      /\ b.bundle_version \in {"0.2", "0.3"} => b.extension # Absent
  BY <1>4, MarkersAssumption DEF u, RequiredFields, BundleFields
<1>6. /\ runs # <<>> /\ IsRecord(runs, DOMAIN runs)
  <2>1. DOMAIN r.responses # {}
    BY RequestsAssumption
  <2> QED BY <1>3, <2>1 DEF IsRecord
<1>7. r.version \in Versions /\ r.explanation \in Texts
  BY RequestsAssumption
<1> HIDE DEF b
<1>8. /\ b.evaluator = u.evaluator /\ b.privacy = u.privacy /\ b.model_runs = u.model_runs
      /\ b.explanation = u.explanation /\ b.bundle_version = u.bundle_version
      /\ b.final_score_bps = u.final_score_bps /\ b.replay = u.replay
  BY <1>4 DEF BundleFields
<1> QED
  <2>1. SoundBundle(b)
    <3>1. b.model_runs = runs /\ b.evaluator = Node /\ b.privacy = Absent
      BY <1>1, <1>8
    <3>7. b.explanation \in Texts
      BY <1>1, <1>7, <1>8
    <3>8. b.bundle_version \in Versions
      BY <1>1, <1>7, <1>8
    <3>9. b.final_score_bps = toScoreBps(r.score)
      BY <1>1, <1>8
    <3>2. IsScore(b.final_score_bps)
      BY <1>2, <3>9
    <3>3. b.bundle_version = "0.3" => b.replay # Absent
      BY <1>1, <1>8
    <3>4. /\ IsRecord(b, BundleFields)
          /\ b.signatures = [signer |-> Node, domain |-> Domain, message |-> Message(b)]
      BY <1>4
    <3>5. \A i \in DOMAIN b.model_runs : /\ IsRecord(b.model_runs[i], RunFields)
                                        /\ b.model_runs[i].raw_output \in Texts
      BY <1>3, <3>1
    <3>6. b.model_runs # <<>> /\ IsRecord(b.model_runs, DOMAIN b.model_runs)
      BY <1>6, <3>1
    <3> QED BY <1>5, <3>1, <3>2, <3>3, <3>7, <3>8, <3>4, <3>5, <3>6 DEF SoundBundle
  <2> QED BY <2>1 DEF b, u

\* Normalising a bundle changes its texts only, and once is enough.
LEMMA CanonicalFields ==
  ASSUME NEW b, SoundBundle(b), NEW c, c = canonicalizeBundle(b)
  PROVE  /\ IsRecord(c, BundleFields)
         /\ \A f \in BundleFields \ {"model_runs", "explanation"} : c[f] = b[f]
         /\ c.explanation = Lf[b.explanation]
         /\ c.model_runs = [i \in DOMAIN b.model_runs |->
              WithOutput(b.model_runs[i], Lf[b.model_runs[i].raw_output])]
         /\ canonicalizeBundle(c) = c
<1> DEFINE runs == b.model_runs
           flat == [i \in DOMAIN runs |-> WithOutput(runs[i], Lf[runs[i].raw_output])]
<1>1. c = [f \in BundleFields |-> IF f = "model_runs" THEN flat
                                  ELSE IF f = "explanation" THEN Lf[b.explanation] ELSE b[f]]
  <2>1. IsRecord(b, BundleFields)
    BY DEF SoundBundle
  <2> QED BY <2>1 DEF canonicalizeBundle, IsRecord, BundleFields
<1>2. ASSUME NEW i \in DOMAIN runs
      PROVE  WithOutput(flat[i], Lf[flat[i].raw_output]) = flat[i]
  <2>1. runs[i].raw_output \in Texts
    BY DEF SoundBundle
  <2>2. flat[i] = [f \in RunFields |-> IF f = "raw_output" THEN Lf[runs[i].raw_output]
                                         ELSE runs[i][f]]
    <3>1. IsRecord(runs[i], RunFields)
      BY DEF SoundBundle
    <3> QED BY <3>1 DEF IsRecord, RunFields, WithOutput
  <2>3. Lf[flat[i].raw_output] = flat[i].raw_output
    BY <2>1, <2>2, TextsAssumption DEF RunFields
  <2> HIDE DEF flat, runs
  <2> QED BY <2>2, <2>3 DEF RunFields, WithOutput
<1>3. Lf[Lf[b.explanation]] = Lf[b.explanation]
  BY TextsAssumption DEF SoundBundle
<1>4. DOMAIN flat = DOMAIN runs
  OBVIOUS
<1> HIDE DEF flat
<1>5. [i \in DOMAIN flat |-> WithOutput(flat[i], Lf[flat[i].raw_output])] = flat
  <2>1. flat = [i \in DOMAIN runs |-> flat[i]]
    BY DEF flat
  <2> QED BY <1>2, <1>4, <2>1
<1>6. canonicalizeBundle(c) =
        [f \in BundleFields |->
           IF f = "model_runs"
           THEN [i \in DOMAIN flat |-> WithOutput(flat[i], Lf[flat[i].raw_output])]
           ELSE IF f = "explanation" THEN Lf[Lf[b.explanation]] ELSE c[f]]
  BY <1>1, <1>4 DEF canonicalizeBundle, BundleFields
<1>7. canonicalizeBundle(c) = c
  BY <1>1, <1>3, <1>5, <1>6
<1> QED
  BY <1>1, <1>7 DEF BundleFields, flat, IsRecord

\* A bundle with the signature of another and the message of that one is that one.
LEMMA MessageFixes ==
  ASSUME NEW b, NEW c, IsRecord(b, BundleFields), IsRecord(c, BundleFields),
         b.signatures = c.signatures, Message(b) = Message(c)
  PROVE  b = c
<1>1. hashEvidenceBundle(Unsigned(b)) = hashEvidenceBundle(Unsigned(c))
  BY DEF Message
<1>2. Unsigned(b) = Unsigned(c)
  <2>1. Digest(Unsigned(b)) = Digest(Unsigned(c))
    BY <1>1 DEF hashEvidenceBundle
  <2>2. Digest(Unsigned(b)).digest = Unsigned(b) /\ Digest(Unsigned(c)).digest = Unsigned(c)
    BY DEF Digest
  <2> QED BY <2>1, <2>2
<1>3. ASSUME NEW f \in BundleFields \ {"signatures"} PROVE b[f] = c[f]
  <2>1. Unsigned(b)[f] = b[f] /\ Unsigned(c)[f] = c[f]
    BY DEF Unsigned, IsRecord, BundleFields
  <2> QED BY <1>2, <2>1
<1> QED
  BY <1>3 DEF IsRecord, BundleFields

\* A reader that checks a signature over Domain accepts it only from its signer for what
\* the bundle says.
LEMMA SignatureChecked ==
  ASSUME NEW b, SoundBundle(b), NEW c, IsRecord(c, BundleFields),
         c.signatures = b.signatures, c.evaluator = Node
  PROVE  verifyBundleSignature(c, Domain) <=> c = b
<1>1. /\ IsRecord(b, BundleFields) /\ b.signatures # Absent /\ b.evaluator = Node
      /\ b.signatures = [signer |-> Node, domain |-> Domain, message |-> Message(b)]
  BY DEF SoundBundle
<1>2. /\ c.signatures # Absent /\ c.signatures.message = Message(b)
      /\ c.signatures.domain = Domain /\ c.signatures.signer = Node
  BY <1>1
<1>3. CASE Message(b) = Message(c)
  <2>1. b = c
    BY <1>1, <1>3, MessageFixes
  <2>2. Recovered(c, Domain) = Node
    BY <1>2, <1>3 DEF Recovered
  <2> QED BY <1>2, <2>1, <2>2 DEF verifyBundleSignature
<1>4. CASE Message(b) # Message(c)
  <2>1. Recovered(c, Domain) = Nobody
    BY <1>2, <1>4 DEF Recovered
  <2> QED BY <1>4, <2>1, AddressesAssumption DEF verifyBundleSignature
<1> QED BY <1>3, <1>4

\* What a redacted bundle keeps.
LEMMA RedactedRecord ==
  ASSUME NEW b, SoundBundle(b)
  PROVE  IsRecord(redactBundle(b), BundleFields) /\ redactBundle(b).privacy = Absent
<1>1. IsRecord(b, BundleFields) /\ b.privacy = Absent
  BY DEF SoundBundle
<1>2. redactBundle(b) =
        [f \in BundleFields |-> IF f = "model_runs" THEN redactBundle(b).model_runs
                                ELSE IF f = "replay" THEN redactBundle(b).replay ELSE b[f]]
  BY <1>1 DEF redactBundle, IsRecord, BundleFields
<1> QED
  BY <1>1, <1>2 DEF IsRecord, BundleFields

\* What an encryption of b under key k for some recipients is.
IsEncrypted(h, b, k) ==
  \E s : h = encryptEvidenceBundle(b, s, k).encryptedBundle

\* The parts of an encryption: what is left of the bundle, the commitment, the envelopes.
LEMMA EncryptedParts ==
  ASSUME NEW b, SoundBundle(b), NEW k, NEW s, NEW h,
         h = encryptEvidenceBundle(b, s, k).encryptedBundle
  PROVE  /\ [h EXCEPT !.privacy = Absent] = redactBundle(b)
         /\ h.privacy.plaintext_commitment_hash = computeBundleHash(b)
         /\ \A e \in h.privacy.key_envelopes : e.enc_key = k
         /\ encryptEvidenceBundle(b, s, k).encryptedPayload = Payload(k, canonicalizeBundle(b))
<1> DEFINE r == redactBundle(b)
           p == [encrypted_payload_hash |-> Digest(Payload(k, canonicalizeBundle(b))),
                 plaintext_commitment_hash |-> computeBundleHash(b),
                 key_envelopes |-> {encryptSymmetricKeyForRecipient(k, x) : x \in s}]
<1>1. /\ h = [r EXCEPT !.privacy = p]
      /\ encryptEvidenceBundle(b, s, k).encryptedPayload = Payload(k, canonicalizeBundle(b))
  BY DEF encryptEvidenceBundle
<1>2. IsRecord(r, BundleFields) /\ r.privacy = Absent
  BY RedactedRecord
<1>3. \A e \in p.key_envelopes : e.enc_key = k
  BY DEF encryptSymmetricKeyForRecipient
<1>4. p.plaintext_commitment_hash = computeBundleHash(b)
  OBVIOUS
<1> HIDE DEF r, p
<1>5. h = [f \in BundleFields |-> IF f = "privacy" THEN p ELSE r[f]]
  BY <1>1, <1>2 DEF IsRecord, BundleFields
<1>6. [h EXCEPT !.privacy = Absent] = r
  BY <1>2, <1>5 DEF IsRecord, BundleFields
<1>7. h.privacy = p
  BY <1>5 DEF BundleFields
<1> QED
  BY <1>1, <1>3, <1>4, <1>6, <1>7 DEF r

\* A damaged document, or one of parts of two bundles, has the signature of a bundle that was
\* made.
LEMMA DamagedSigned ==
  ASSUME NEW b \in made, \A c \in made : SoundBundle(c), NEW d \in Damaged(b), d \notin made
  PROVE  IsRecord(d, BundleFields) /\ \E c \in made : d.signatures = c.signatures
<1>1. IsRecord(b, BundleFields)
  BY DEF SoundBundle
<1>2. ASSUME NEW f \in BundleFields \ {"signatures"}, NEW v, d = [b EXCEPT ![f] = v]
      PROVE  IsRecord(d, BundleFields) /\ d.signatures = b.signatures
  BY <1>1, <1>2 DEF IsRecord, BundleFields
<1>3. ASSUME NEW c \in made, d = [b EXCEPT !["signatures"] = c.signatures]
      PROVE  IsRecord(d, BundleFields) /\ d.signatures = c.signatures
  BY <1>1, <1>3 DEF IsRecord, BundleFields
<1>4. \/ d = [b EXCEPT !["final_score_bps"] = 10000 - b.final_score_bps]
      \/ d = [b EXCEPT !["metrics"] = Missing]
      \/ d = [b EXCEPT !["evaluator"] = OtherNode]
      \/ d = [b EXCEPT !["explanation"] = Redacted]
      \/ d = [b EXCEPT !["extension"] = Absent]
      \/ \E c \in made : d = [b EXCEPT !["model_runs"] = c.model_runs]
      \/ \E c \in made : d = [b EXCEPT !["signatures"] = c.signatures]
  BY DEF Damaged
<1> QED
  BY <1>2, <1>3, <1>4 DEF BundleFields

\* What a reader makes of what was signed, and of what was damaged.
LEMMA ReadAccepts ==
  ASSUME NEW b, SoundBundle(b), NEW cid, NEW source
  PROVE  LET read == Read(cid, source, b) IN read.verified /\ read.parses /\ read.accepted
<1>1. deserializeBundle(b)
  BY DEF SoundBundle, deserializeBundle
<1>2. validateBundleStructure(b)
  <2>1. /\ b.model_runs # Missing /\ b.claims # Missing /\ b.metrics # Missing
        /\ b.signatures # Missing
    BY DEF SoundBundle, RequiredFields
  <2>2. b.bundle_version \in Versions /\ b.model_runs # <<>> /\ b.signatures # Absent
    BY DEF SoundBundle
  <2>3. /\ b.bundle_version \in {"0.2", "0.3"} => b.extension # Absent
        /\ b.bundle_version = "0.3" => b.replay # Absent
    BY DEF SoundBundle
  <2>4. IsScore(b.final_score_bps)
    BY DEF SoundBundle
  <2> QED BY <2>1, <2>2, <2>3, <2>4 DEF IsScore, validateBundleStructure
<1>3. verifyBundleIntegrity(b)
  BY DEF SoundBundle, verifyBundleIntegrity
<1>4. IsRecord(b, BundleFields) /\ b.evaluator = Node
  BY DEF SoundBundle
<1>5. verifyBundleSignature(b, Domain)
  BY <1>4, SignatureChecked
<1> QED
  BY <1>1, <1>2, <1>3, <1>4, <1>5 DEF Read

\* A reader accepts nothing that was not made.
LEMMA ReadRefuses ==
  ASSUME NEW b \in made, \A c \in made : SoundBundle(c), NEW d \in Damaged(b) \cup {b},
         NEW cid, NEW source, Read(cid, source, d).accepted
  PROVE  d \in made
<1>1. verifyBundleSignature(d, Domain) /\ d.evaluator = Node
  BY DEF Read
<1>2. CASE d \in made
  BY <1>2
<1>3. CASE d \notin made
  <2>1. PICK c \in made : IsRecord(d, BundleFields) /\ d.signatures = c.signatures
    BY <1>3, DamagedSigned
  <2>2. d = c
    BY <1>1, <2>1, SignatureChecked
  <2> QED BY <2>2
<1> QED BY <1>2, <1>3

\* The two files on the disk: of two encryptions, or of one.
FilesOK ==
  /\ keys \in Nat
  /\ writing # Absent =>
       \E b \in made : /\ keys > 0 /\ IsEncrypted(writing, b, keys)
                       /\ payload = Payload(keys, canonicalizeBundle(b))
  /\ header # Absent =>
       \E b, c \in made, k, l \in 1 .. keys :
         /\ IsEncrypted(header, b, k) /\ payload = Payload(l, canonicalizeBundle(c))
         /\ k = l => b = c

ExchangeInv ==
  /\ \A b \in made : SoundBundle(b)
  /\ node \subseteq made
  /\ \A u \in uploads : u.cid.content \in made
  /\ FilesOK
  /\ fetched # Absent => fetched = Read(fetched.asked, fetched.source, fetched.doc)
  /\ AcceptedAreTheSigned
  /\ OpenedIsCommitted

\* Nothing is made yet.
LEMMA ExchangeInvInit == ExchangeInit => ExchangeInv
BY DEF ExchangeInit, ExchangeInv, FilesOK, AcceptedAreTheSigned, OpenedIsCommitted

\* Nothing that was made is lost, so what was said of it stays.
LEMMA MadeGrows ==
  ASSUME ExchangeInv, made \subseteq made', \A b \in made' : SoundBundle(b),
         UNCHANGED <<fetched, opened>>
  PROVE  AcceptedAreTheSigned' /\ OpenedIsCommitted'
<1>1. AcceptedAreTheSigned'
  <2>1. ASSUME fetched # Absent, fetched.doc \in made' PROVE fetched.accepted
    <3> DEFINE read == Read(fetched.asked, fetched.source, fetched.doc)
    <3>1. read.accepted
      BY <2>1, ReadAccepts
    <3>2. fetched = read
      BY <2>1 DEF ExchangeInv
    <3> QED BY <3>1, <3>2
  <2> QED BY <2>1 DEF ExchangeInv, AcceptedAreTheSigned
<1>2. OpenedIsCommitted'
  BY DEF ExchangeInv, OpenedIsCommitted
<1> QED BY <1>1, <1>2

\* Decryption gives what the header stands for.
LEMMA DecryptedIsCommitted ==
  ASSUME ExchangeInv, header # Absent, NEW reader,
         decryptEvidenceBundle(header, payload, reader) # Absent
  PROVE  \E b \in made :
           /\ decryptEvidenceBundle(header, payload, reader) = canonicalizeBundle(b)
           /\ redactBundle(b) = [header EXCEPT !.privacy = Absent]
           /\ computeBundleHash(b) = header.privacy.plaintext_commitment_hash
<1>1. PICK b \in made, c \in made, k \in 1 .. keys, l \in 1 .. keys :
        /\ IsEncrypted(header, b, k) /\ payload = Payload(l, canonicalizeBundle(c))
        /\ k = l => b = c
  BY DEF ExchangeInv, FilesOK
<1>2. PICK s : header = encryptEvidenceBundle(b, s, k).encryptedBundle
  BY <1>1 DEF IsEncrypted
<1>3. /\ [header EXCEPT !.privacy = Absent] = redactBundle(b)
      /\ header.privacy.plaintext_commitment_hash = computeBundleHash(b)
      /\ \A e \in header.privacy.key_envelopes : e.enc_key = k
  BY <1>2, EncryptedParts DEF ExchangeInv
<1>4. PICK e \in header.privacy.key_envelopes : e.enc_key = payload.key
  BY DEF decryptEvidenceBundle
<1>5. payload.key = l /\ payload.plaintext = canonicalizeBundle(c)
  BY <1>1 DEF Payload
<1>6. decryptEvidenceBundle(header, payload, reader) = payload.plaintext
  BY DEF decryptEvidenceBundle
<1> QED
  BY <1>1, <1>3, <1>4, <1>5, <1>6

\* The command line.
LEMMA EncryptKeeps ==
  ASSUME ExchangeInv, NEW b \in made, NEW s, encryptBundleCli(b, s)
  PROVE  ExchangeInv'
<1> DEFINE e == encryptEvidenceBundle(b, s, keys + 1)
<1>1. /\ keys' = keys + 1 /\ payload' = e.encryptedPayload /\ writing' = e.encryptedBundle
      /\ UNCHANGED <<made, header, node, uploads, fetched, opened>>
  BY DEF encryptBundleCli
<1>2. SoundBundle(b) /\ keys \in Nat
  BY DEF ExchangeInv, FilesOK
<1>3. payload' = Payload(keys', canonicalizeBundle(b)) /\ IsEncrypted(writing', b, keys')
  BY <1>1, <1>2, EncryptedParts DEF IsEncrypted
<1>4. FilesOK'
  <2>1. ASSUME header' # Absent
        PROVE  \E x, c \in made', k, l \in 1 .. keys' :
                 /\ IsEncrypted(header', x, k) /\ payload' = Payload(l, canonicalizeBundle(c))
                 /\ k = l => x = c
    <3>1. PICK x \in made, k \in 1 .. keys : IsEncrypted(header, x, k)
      BY <1>1, <2>1 DEF ExchangeInv, FilesOK
    <3>2. k \in 1 .. keys' /\ keys' \in 1 .. keys' /\ k # keys'
      BY <1>1, <1>2
    <3> QED BY <1>1, <1>3, <3>1, <3>2
  <2>2. keys' \in Nat /\ keys' > 0
    BY <1>1, <1>2
  <2> QED BY <1>1, <1>3, <2>1, <2>2 DEF FilesOK
<1> QED
  BY <1>1, <1>4, MadeGrows DEF ExchangeInv

\* The header is written, or the command dies before that.
LEMMA WriteKeeps == ExchangeInv /\ (writeBundle \/ encryptCrash) => ExchangeInv'
<1> SUFFICES ASSUME ExchangeInv, writeBundle \/ encryptCrash PROVE ExchangeInv'
  OBVIOUS
<1>1. /\ writing' = Absent /\ header' \in {header, writing} /\ writing # Absent
      /\ UNCHANGED <<made, keys, payload, node, uploads, fetched, opened>>
  BY DEF writeBundle, encryptCrash
<1>2. FilesOK'
  <2>1. CASE header' = header
    BY <1>1, <2>1 DEF ExchangeInv, FilesOK
  <2>2. CASE header' = writing
    <3>1. PICK b \in made : /\ keys > 0 /\ IsEncrypted(writing, b, keys)
                            /\ payload = Payload(keys, canonicalizeBundle(b))
      BY <1>1 DEF ExchangeInv, FilesOK
    <3>2. keys \in 1 .. keys
      BY <3>1 DEF ExchangeInv, FilesOK
    <3> QED BY <1>1, <2>2, <3>1, <3>2 DEF ExchangeInv, FilesOK
  <2> QED BY <1>1, <2>1, <2>2
<1> QED
  BY <1>1, <1>2, MadeGrows DEF ExchangeInv

\* What a recipient decrypts is what the header commits to.
LEMMA DecryptKeeps ==
  ASSUME ExchangeInv, NEW reader, decryptBundleCli(reader)
  PROVE  ExchangeInv'
<1> DEFINE plain == decryptEvidenceBundle(header, payload, reader)
           o == [reader |-> reader, header |-> header, bundle |-> plain,
                 statement |-> signVerifiedPlaintextStatement(reader,
                                 header.privacy.plaintext_commitment_hash)]
<1>1. /\ header # Absent /\ opened' = IF plain = Absent THEN Absent ELSE o
      /\ UNCHANGED <<made, keys, header, payload, writing, node, uploads, fetched>>
  BY DEF decryptBundleCli
<1>2. FilesOK' /\ AcceptedAreTheSigned'
  BY <1>1 DEF ExchangeInv, FilesOK, AcceptedAreTheSigned
<1>3. OpenedIsCommitted'
  <2>1. CASE plain = Absent
    BY <1>1, <2>1 DEF OpenedIsCommitted
  <2>2. CASE plain # Absent
    <3>1. PICK b \in made :
            /\ plain = canonicalizeBundle(b)
            /\ redactBundle(b) = [header EXCEPT !.privacy = Absent]
            /\ computeBundleHash(b) = header.privacy.plaintext_commitment_hash
      BY <1>1, <2>2, DecryptedIsCommitted
    <3>2. SoundBundle(b)
      BY DEF ExchangeInv
    <3>3. /\ IsRecord(plain, BundleFields) /\ plain.signatures = b.signatures
          /\ plain.evaluator = Node
      <4>1. b.evaluator = Node
        BY <3>2 DEF SoundBundle
      <4>2. /\ IsRecord(canonicalizeBundle(b), BundleFields)
            /\ \A f \in BundleFields \ {"model_runs", "explanation"} :
                 canonicalizeBundle(b)[f] = b[f]
        BY <3>2, CanonicalFields
      <4> HIDE DEF plain
      <4> QED BY <3>1, <4>1, <4>2 DEF BundleFields
    <3>4. verifyBundleSignature(plain, Domain) <=> canonicalizeBundle(b) = b
      BY <3>1, <3>2, <3>3, SignatureChecked
    <3>5. verifyTranscript(b) /\ canonicalizeBundle(b) = b => verifyTranscript(plain)
      BY <3>1
    <3>6. /\ o.bundle = plain /\ o.header = header
          /\ o.statement.plaintext_commitment_hash = header.privacy.plaintext_commitment_hash
          /\ verifyVerifiedPlaintextStatement(o.statement)
      BY DEF signVerifiedPlaintextStatement, verifyVerifiedPlaintextStatement
    <3>7. opened' = o /\ made' = made
      BY <1>1, <2>2
    <3> HIDE DEF plain, o
    <3> QED BY <3>1, <3>4, <3>5, <3>6, <3>7 DEF OpenedIsCommitted
  <2> QED BY <2>1, <2>2
<1> QED
  BY <1>1, <1>2, <1>3 DEF ExchangeInv

\* A bundle more.
LEMMA MakeKeeps ==
  ASSUME ExchangeInv, NEW r \in Requests, makeBundle(r)
  PROVE  ExchangeInv'
<1>1. /\ made' = made \cup {signEvidenceBundle(BundleOf(r), Node, Domain)}
      /\ BundleOf(r) # Absent
      /\ UNCHANGED <<keys, header, payload, writing, node, uploads, fetched, opened>>
  BY DEF makeBundle
<1>2. \A b \in made' : SoundBundle(b)
  BY <1>1, BuiltSound DEF ExchangeInv
<1>3. FilesOK'
  BY <1>1 DEF ExchangeInv, FilesOK
<1> QED
  BY <1>1, <1>2, <1>3, MadeGrows DEF ExchangeInv

\* Uploads, pins and the loss of the node leave what was read alone.
LEMMA StoreKeeps ==
  ASSUME ExchangeInv,
         \/ \E b \in made, up, pin \in BOOLEAN, some \in {{}, 1 .. Gateways + 1} :
              uploadEvidenceToIPFS(b, up, pin, some)
         \/ \E u \in uploads, credentials \in BOOLEAN : pinEvidence(u.cid, credentials)
         \/ NodeLost
  PROVE  ExchangeInv'
<1> DEFINE OnlyStored == /\ UNCHANGED <<made, keys, header, payload, writing, fetched, opened>>
                         /\ node' \subseteq made
                         /\ \A u \in uploads' : u.cid.content \in made
<1>1. OnlyStored
  <2>1. ASSUME NEW b \in made, NEW up \in BOOLEAN, NEW pin, NEW some,
               uploadEvidenceToIPFS(b, up, pin, some)
        PROVE  OnlyStored
    <3>1. Cid("indented", b).content = b /\ LocalFile(b).content = b
      BY DEF Cid, LocalFile
    <3>2. ASSUME NEW u \in uploads' PROVE u \in uploads \/ u.cid.content = b
      BY <2>1, <3>1 DEF uploadEvidenceToIPFS
    <3>3. UNCHANGED <<made, keys, header, payload, writing, fetched, opened>>
      BY <2>1 DEF uploadEvidenceToIPFS
    <3>4. node' \subseteq made
      BY <2>1 DEF uploadEvidenceToIPFS, ExchangeInv
    <3> QED BY <3>2, <3>3, <3>4 DEF ExchangeInv
  <2>2. ASSUME NEW cid, NEW credentials, pinEvidence(cid, credentials)
        PROVE  OnlyStored
    BY <2>2 DEF pinEvidence, ExchangeInv
  <2>3. CASE NodeLost
    BY <2>3 DEF NodeLost, ExchangeInv
  <2> QED BY <2>1, <2>2, <2>3
<1>2. FilesOK'
  BY <1>1 DEF ExchangeInv, FilesOK
<1> QED
  BY <1>1, <1>2, MadeGrows DEF ExchangeInv

\* A document is fetched, from the node or from a gateway, and read.
LEMMA RetrieveKeeps ==
  ASSUME ExchangeInv, NEW u \in uploads, NEW up, NEW kinds,
         NEW other \in Damaged(u.cid.content) \cup {u.cid.content},
         retrieveEvidenceFromIPFS(u, up, kinds, other)
  PROVE  ExchangeInv'
<1> DEFINE b == u.cid.content
<1>1. /\ UNCHANGED <<made, keys, header, payload, writing, node, uploads, opened>>
      /\ \/ fetched' = Read(u.cid, "node", b)
         \/ fetched' = Read(u.cid, "gateway", b)
         \/ fetched' = Read(u.cid, "gateway", other)
         \/ fetched' = Absent
  BY DEF retrieveEvidenceFromIPFS
<1>2. b \in made /\ \A c \in made : SoundBundle(c)
  BY DEF ExchangeInv
<1>3. ASSUME NEW src, NEW d \in Damaged(b) \cup {b}, fetched' = Read(u.cid, src, d)
      PROVE  /\ AcceptedAreTheSigned'
             /\ fetched' = Read(fetched'.asked, fetched'.source, fetched'.doc)
  <2>1. fetched'.doc = d /\ fetched'.asked = u.cid /\ fetched'.source = src
    BY <1>3 DEF Read
  <2>2. ASSUME d \in made PROVE fetched'.accepted /\ fetched'.verified
    <3>1. SoundBundle(d)
      BY <2>2 DEF ExchangeInv
    <3> QED BY <1>3, <3>1, ReadAccepts
  <2>3. ASSUME fetched'.accepted PROVE d \in made
    BY <1>2, <1>3, <2>3, ReadRefuses
  <2>4. fetched'.accepted \in BOOLEAN
    BY <1>3 DEF Read
  <2> QED BY <1>1, <1>3, <2>1, <2>2, <2>3, <2>4 DEF AcceptedAreTheSigned
<1>4. /\ AcceptedAreTheSigned'
      /\ fetched' # Absent => fetched' = Read(fetched'.asked, fetched'.source, fetched'.doc)
  BY <1>1, <1>3 DEF AcceptedAreTheSigned
<1>5. FilesOK' /\ OpenedIsCommitted'
  BY <1>1 DEF ExchangeInv, FilesOK, OpenedIsCommitted
<1> QED
  BY <1>1, <1>4, <1>5 DEF ExchangeInv

\* Every step keeps the invariant.
LEMMA ExchangeInvStep == ExchangeInv /\ [ExchangeNext]_exchangeVars => ExchangeInv'
<1> SUFFICES ASSUME ExchangeInv, [ExchangeNext]_exchangeVars PROVE ExchangeInv'
  OBVIOUS
<1>1. ASSUME NEW r \in Requests, makeBundle(r) PROVE ExchangeInv'
  BY <1>1, MakeKeeps
<1>2. ASSUME NEW b \in made, NEW s \in RecipientSets, encryptBundleCli(b, s) PROVE ExchangeInv'
  BY <1>2, EncryptKeeps
<1>3. CASE writeBundle \/ encryptCrash
  BY <1>3, WriteKeeps
<1>4. ASSUME NEW reader \in Readers, decryptBundleCli(reader) PROVE ExchangeInv'
  BY <1>4, DecryptKeeps
<1>5. CASE \/ \E b \in made, up, pin \in BOOLEAN, some \in {{}, 1 .. Gateways + 1} :
                uploadEvidenceToIPFS(b, up, pin, some)
           \/ \E u \in uploads, credentials \in BOOLEAN : pinEvidence(u.cid, credentials)
           \/ NodeLost
  BY <1>5, StoreKeeps
<1>6. ASSUME NEW u \in uploads, NEW up \in BOOLEAN, NEW kinds,
             NEW other \in Damaged(u.cid.content) \cup {u.cid.content},
             retrieveEvidenceFromIPFS(u, up, kinds, other)
      PROVE  ExchangeInv'
  BY <1>6, RetrieveKeeps
<1>7. CASE UNCHANGED exchangeVars
  BY <1>7 DEF exchangeVars, ExchangeInv, FilesOK, AcceptedAreTheSigned,
              OpenedIsCommitted
<1>8. CASE \E u \in uploads, up \in BOOLEAN,
             kinds \in [1 .. Gateways -> {"right", "other", "noise", "none"}] :
             \E other \in IF \E g \in 1 .. Gateways : kinds[g] = "other"
                          THEN Damaged(u.cid.content) ELSE {u.cid.content} :
               retrieveEvidenceFromIPFS(u, up, kinds, other)
  BY <1>6, <1>8
<1> QED
  BY <1>1, <1>2, <1>3, <1>4, <1>5, <1>7, <1>8 DEF ExchangeNext

\* Whatever requests, gateways, losses and damaged documents there are, a reader that makes all
\* the checks accepts exactly what the node signed, wherever it was fetched from; it may be
\* another bundle than the one asked for (retrieveEvidenceFromIPFS and the checks of a fetched
\* bundle).
THEOREM AcceptedStayTheSigned == ExchangeInit /\ [][ExchangeNext]_exchangeVars => []AcceptedAreTheSigned
<1>1. ExchangeInv => AcceptedAreTheSigned
  BY DEF ExchangeInv
<1> QED
  BY ExchangeInvInit, ExchangeInvStep, <1>1, PTL

\* However often bundles are encrypted over the same two files, and wherever the command line
\* dies between them, what a recipient decrypts is what the header it read commits to
\* (encryptEvidenceBundle, decryptEvidenceBundle and the command line).
THEOREM OpenedStaysCommitted ==
  ExchangeInit /\ [][ExchangeNext]_exchangeVars => []OpenedIsCommitted
<1>1. ExchangeInv => OpenedIsCommitted
  BY DEF ExchangeInv
<1> QED
  BY ExchangeInvInit, ExchangeInvStep, <1>1, PTL

-----------------------------------------------------------------------------
(* Portable receipts.                                                      *)

PortableFields == PayloadFields \cup {"receipt_id", "chain_anchor", "signature"}
ChainAnchorFields == AnchorFields \cup {"enabled"}

\* A portable receipt as issued or passed on: its fields, and its anchor's.
PortableShape(doc) ==
  IsRecord(doc, PortableFields) /\ IsRecord(doc.chain_anchor, ChainAnchorFields)

\* What was issued carries the signature of its key over its own payload.
SignedByItsKey(i) ==
  /\ i.doc.receipt_id = computeReceiptId(i.doc)
  /\ i.doc.signature = Signature(i.key, i.doc.receipt_id)

PortableInv ==
  /\ \A i \in issued : PortableShape(i.doc) /\ SignedByItsKey(i)
  /\ copy # None => /\ PortableShape(copy)
                    /\ \E i \in issued : copy.signature = i.doc.signature

\* Writing the anchor into the copy.
LEMMA SetAnchor ==
  ASSUME NEW a, IsRecord(copy, PortableFields), copy' = [copy EXCEPT !.chain_anchor = a]
  PROVE  /\ IsRecord(copy', PortableFields)
         /\ copy'.chain_anchor = a /\ copy'.signature = copy.signature
<1>1. DOMAIN copy = PortableFields
  BY DEF IsRecord
<1>2. {"chain_anchor", "signature"} \subseteq PortableFields
  BY DEF PortableFields
<1>3. copy' = [f \in PortableFields |-> IF f = "chain_anchor" THEN a ELSE copy[f]]
  BY <1>1, <1>2
<1> QED  BY <1>2, <1>3 DEF IsRecord

\* What createReceipt writes into a receipt.
LEMMA PortableReceiptFields ==
  ASSUME NEW fields, NEW anchor, NEW key
  PROVE  LET r == createReceipt(fields, anchor, key)
         IN  /\ IsRecord(r, PortableFields)
             /\ r.chain_anchor = anchor
             /\ r.receipt_id = computeReceiptId(fields)
             /\ r.signature = Signature(key, computeReceiptId(fields))
             /\ \A f \in PayloadFields : r[f] = fields[f]
<1> DEFINE id == computeReceiptId(fields)
           P == receiptPayload(fields)
           r == [f \in PortableFields |->
                   CASE f = "receipt_id" -> id [] f = "chain_anchor" -> anchor
                     [] f = "signature" -> Signature(key, id) [] OTHER -> P[f]]
<1>1. createReceipt(fields, anchor, key) = r
  BY DEF createReceipt, PortableFields
<1>2. \A f \in PayloadFields : P[f] = fields[f]
  BY DEF receiptPayload
<1>3. {"receipt_id", "chain_anchor", "signature"} \cap PayloadFields = {}
  BY DEF PayloadFields
<1> HIDE DEF P, id
<1>4. \A f \in PayloadFields : r[f] = P[f]
  BY <1>3 DEF PortableFields
<1>5. IsRecord(r, PortableFields)
  BY DEF IsRecord
<1>6. r.receipt_id = id /\ r.chain_anchor = anchor /\ r.signature = Signature(key, id)
  BY DEF PortableFields
<1> HIDE DEF r
<1> QED  BY <1>1, <1>2, <1>4, <1>5, <1>6 DEF id

\* A receipt's identifier is its payload's.
LEMMA SamePayload ==
  ASSUME NEW r, NEW s
  PROVE  computeReceiptId(r) = computeReceiptId(s) <=> \A f \in PayloadFields : r[f] = s[f]
  BY DEF computeReceiptId, hashArtifact, ArtifactHash, receiptPayload

\* A receipt more.
LEMMA CreatedKeeps ==
  ASSUME NEW fields, NEW v, PortableInv, portableCreated(fields, v)
  PROVE  PortableInv'
<1> DEFINE anchor == disabledChainAnchor
           new == [key |-> Verifiers[v], doc |-> createReceipt(fields, anchor, Verifiers[v])]
<1>1. issued' = issued \cup {new} /\ copy' = copy
  BY DEF portableCreated
<1>2. IsRecord(anchor, ChainAnchorFields)
  BY DEF disabledChainAnchor, IsRecord, ChainAnchorFields
<1> HIDE DEF anchor
<1>3. /\ IsRecord(new.doc, PortableFields) /\ new.doc.chain_anchor = anchor
      /\ new.doc.receipt_id = computeReceiptId(fields)
      /\ new.doc.signature = Signature(new.key, computeReceiptId(fields))
      /\ \A f \in PayloadFields : new.doc[f] = fields[f]
  BY PortableReceiptFields
<1> HIDE DEF new
<1>4. computeReceiptId(new.doc) = computeReceiptId(fields)
  BY <1>3, SamePayload
<1>5. PortableShape(new.doc) /\ SignedByItsKey(new)
  BY <1>2, <1>3, <1>4 DEF PortableShape, SignedByItsKey
<1>6. \A i \in issued' : PortableShape(i.doc) /\ SignedByItsKey(i)
  BY <1>1, <1>5 DEF PortableInv
<1>7. copy' # None => PortableShape(copy') /\ \E i \in issued' : copy'.signature = i.doc.signature
  BY <1>1 DEF PortableInv
<1> QED  BY <1>6, <1>7 DEF PortableInv

\* A changed copy keeps its shape, and its signature is one that was issued.
LEMMA PortableChange ==
  ASSUME PortableInv, issued' = issued, PortableShape(copy'),
         \E i \in issued : copy'.signature = i.doc.signature
  PROVE  PortableInv'
  BY DEF PortableInv

\* An anchored copy has the signature it had.
LEMMA AnchoredKeeps ==
  ASSUME PortableInv, anchored
  PROVE  PortableInv'
<1>1. PICK record : copy' = [copy EXCEPT !.chain_anchor = enabledChainAnchor(record)]
  BY DEF anchored, Copied
<1>2. issued' = issued /\ copy # None
  BY DEF anchored, MayChange
<1> DEFINE a == enabledChainAnchor(record)
<1>3. IsRecord(a, ChainAnchorFields)
  BY DEF enabledChainAnchor, IsRecord, ChainAnchorFields
<1> HIDE DEF a
<1>4. IsRecord(copy, PortableFields)
  BY <1>2 DEF PortableInv, PortableShape
<1>5. copy' = [copy EXCEPT !.chain_anchor = a]
  BY <1>1 DEF a
<1>6. IsRecord(copy', PortableFields) /\ copy'.chain_anchor = a /\ copy'.signature = copy.signature
  BY <1>4, <1>5, SetAnchor
<1>7. \E i \in issued : copy.signature = i.doc.signature
  BY <1>2 DEF PortableInv
<1> QED  BY <1>2, <1>3, <1>6, <1>7, PortableChange DEF PortableShape

\* A copy with a field of another receipt has the signature of one of the two.
LEMMA PortableMixedUpKeeps ==
  ASSUME PortableInv, portableMixedUp
  PROVE  PortableInv'
<1>1. issued' = issued /\ copy # None
  BY DEF portableMixedUp, MayChange
<1>2. PortableShape(copy) /\ \E i \in issued : copy.signature = i.doc.signature
  BY <1>1 DEF PortableInv
<1>3. "chain_anchor" \in PortableFields /\ "signature" \in PortableFields
  BY DEF PortableFields
<1>a. CASE \E i \in issued, f \in DOMAIN copy : Copied([copy EXCEPT ![f] = i.doc[f]])
  <2>1. PICK i \in issued, f \in DOMAIN copy : copy' = [copy EXCEPT ![f] = i.doc[f]]
    BY <1>a DEF Copied
  <2>2. DOMAIN copy = PortableFields
    BY <1>2 DEF PortableShape, IsRecord
  <2>3. /\ IsRecord(copy', PortableFields) /\ copy'[f] = i.doc[f]
        /\ \A g \in PortableFields \ {f} : copy'[g] = copy[g]
    BY <2>1, <2>2, <1>2, SetField DEF PortableShape
  <2>4. PortableShape(i.doc)
    BY DEF PortableInv
  <2>5. IsRecord(copy'.chain_anchor, ChainAnchorFields)
    BY <2>3, <2>4, <1>2, <1>3 DEF PortableShape
  <2>6. \E j \in issued : copy'.signature = j.doc.signature
    BY <2>3, <1>2, <1>3
  <2> QED  BY <2>3, <2>5, <2>6, <1>1, PortableChange DEF PortableShape
<1>b. CASE \E r \in chain : \E f \in DOMAIN r :
             Copied([copy EXCEPT !.chain_anchor[f] = r[f]])
  <2>1. PICK r \in chain : \E f \in DOMAIN r : copy' = [copy EXCEPT !.chain_anchor[f] = r[f]]
    BY <1>b DEF Copied
  <2>2. PICK f \in DOMAIN r : copy' = [copy EXCEPT !.chain_anchor[f] = r[f]]
    BY <2>1
  <2> DEFINE a == [copy.chain_anchor EXCEPT ![f] = r[f]]
  <2>3. IsRecord(a, ChainAnchorFields)
    BY <1>2 DEF PortableShape, IsRecord
  <2>4. copy' = [copy EXCEPT !.chain_anchor = a]
    BY <2>2
  <2> HIDE DEF a
  <2>5. /\ IsRecord(copy', PortableFields)
        /\ copy'.chain_anchor = a /\ copy'.signature = copy.signature
    BY <2>4, <1>2, SetAnchor DEF PortableShape
  <2> QED  BY <2>3, <2>5, <1>1, <1>2, PortableChange DEF PortableShape
<1> QED  BY <1>a, <1>b DEF portableMixedUp

\* What verifyPortable has checked when it finds nothing.
LEMMA VerifiedPortable ==
  ASSUME NEW t, verifyPortable(copy, <<>>, t) = {}
  PROVE  /\ computeReceiptId(copy) = copy.receipt_id
         /\ copy.signature = Signature(Keys[copy.verifier_id], copy.receipt_id)
<1> DEFINE A == {e \in {"receipt_id"} : computeReceiptId(copy) # copy.receipt_id}
           B == {e \in {"key"} : copy.verifier_id \notin DOMAIN Keys}
           C == {e \in {"signature"} : copy.verifier_id \in DOMAIN Keys /\
                   copy.signature # Signature(Keys[copy.verifier_id], copy.receipt_id)}
<1>1. A = {} /\ B = {} /\ C = {}
  BY DEF verifyPortable
<1> QED  BY <1>1

\* What verifyAnchoredRecord has checked when it finds nothing.
LEMMA RecordAgrees ==
  ASSUME NEW r, verifyAnchoredRecord(copy, r) = {}
  PROVE  r.receipt_hash = copy.receipt_id /\ r.subject_hash = copy.output_hash
         /\ r.score_bps = copy.score
<1> DEFINE F == {"receipt_hash", "subject_hash", "score_bps"}
<1>1. verifyChainAnchorFields(copy) = {} /\ {f \in RecordFields : copy.chain_anchor[f] # r[f]} = {}
  BY DEF verifyAnchoredRecord
<1>2. F \subseteq RecordFields
  BY DEF RecordFields
<1>3. F \subseteq DOMAIN AnchorOf(copy)
  BY DEF AnchorOf
<1>4. \A f \in F : copy.chain_anchor[f] = AnchorOf(copy)[f]
  BY <1>1, <1>3 DEF verifyChainAnchorFields
<1>5. \A f \in F : r[f] = copy.chain_anchor[f]
  BY <1>1, <1>2
<1>6. /\ AnchorOf(copy).receipt_hash = copy.receipt_id
      /\ AnchorOf(copy).subject_hash = copy.output_hash
      /\ AnchorOf(copy).score_bps = copy.score
  BY DEF AnchorOf, scoreBps
<1> QED  BY <1>4, <1>5, <1>6

\* A signature of a trusted key over a payload is the one of a receipt issued with that key.
LEMMA PortableIsSigned ==
  ASSUME PortableInv
  PROVE  ValidPortableIsSigned
<1> SUFFICES ASSUME copy # None, NEW t, verifyPortable(copy, <<>>, t) = {}
             PROVE  /\ \E i \in issued : /\ i.key = Keys[copy.verifier_id]
                                         /\ \A f \in PayloadFields : copy[f] = i.doc[f]
                    /\ \A r \in chain : verifyAnchoredRecord(copy, r) = {} =>
                         \E i \in issued : /\ r.receipt_hash = i.doc.receipt_id
                                           /\ r.subject_hash = i.doc.output_hash
                                           /\ r.score_bps = i.doc.score
  BY DEF ValidPortableIsSigned
<1>1. PICK i \in issued : copy.signature = i.doc.signature
  BY DEF PortableInv
<1>2. /\ i.doc.receipt_id = computeReceiptId(i.doc)
      /\ i.doc.signature = Signature(i.key, i.doc.receipt_id)
  BY DEF PortableInv, SignedByItsKey
<1>3. /\ computeReceiptId(copy) = copy.receipt_id
      /\ copy.signature = Signature(Keys[copy.verifier_id], copy.receipt_id)
  BY VerifiedPortable
<1>4. i.key = Keys[copy.verifier_id] /\ i.doc.receipt_id = copy.receipt_id
  BY <1>1, <1>2, <1>3 DEF Signature
<1>5. \A f \in PayloadFields : copy[f] = i.doc[f]
  <2>1. computeReceiptId(copy) = computeReceiptId(i.doc)
    BY <1>2, <1>3, <1>4
  <2> QED  BY <2>1, SamePayload
<1>6. ASSUME NEW r \in chain, verifyAnchoredRecord(copy, r) = {}
      PROVE  r.receipt_hash = i.doc.receipt_id /\ r.subject_hash = i.doc.output_hash
             /\ r.score_bps = i.doc.score
  <2>1. "output_hash" \in PayloadFields /\ "score" \in PayloadFields
    BY DEF PayloadFields
  <2> QED  BY <1>6, <1>4, <1>5, <2>1, RecordAgrees
<1> QED  BY <1>4, <1>5, <1>6

-----------------------------------------------------------------------------
(* GenAIL runs.                                                            *)

\* One step of normalizeSource: g[n - 1], and the n-th line unless it is empty.
Keep(source, g, n) ==
  IF n = 0 THEN <<>>
  ELSE IF source[n].code = "" THEN g[n - 1]
  ELSE Append(g[n - 1], source[n].code)

\* g is what normalizeSource has kept of the first 0, 1, .. m lines.
KeptUpTo(source, g, m) == g = [n \in 0 .. m |-> Keep(source, g, n)]

\* normalizeSource is the last of what it has kept.
LEMMA NormalizedIsKept ==
  ASSUME NEW source
  PROVE  normalizeSource(source) = (CHOOSE g : KeptUpTo(source, g, Len(source)))[Len(source)]
  BY DEF normalizeSource, KeptUpTo, Keep

\* A step looks at the one before it only.
LEMMA KeepAgrees ==
  ASSUME NEW source, NEW g, NEW h, NEW n, n # 0 => g[n - 1] = h[n - 1]
  PROVE  Keep(source, g, n) = Keep(source, h, n)
  BY DEF Keep

\* Nothing is kept of no lines.
LEMMA KeepFirst ==
  ASSUME NEW source, NEW g
  PROVE  Keep(source, g, 0) = <<>>
  BY Zenon DEF Keep

\* Appending to a sequence.
LEMMA Appended ==
  ASSUME NEW C, NEW s \in Seq(C), NEW c \in C, NEW t, t = Append(s, c)
  PROVE  /\ t \in Seq(C) /\ \E k \in DOMAIN t : t[k] = c
         /\ \A x : (\E k \in DOMAIN s : s[k] = x) => \E k \in DOMAIN t : t[k] = x
<1>1. t \in Seq(C) /\ Len(s) + 1 \in DOMAIN t /\ t[Len(s) + 1] = c
  OBVIOUS
<1>2. \A k \in DOMAIN s : k \in DOMAIN t /\ t[k] = s[k]
  OBVIOUS
<1> QED  BY <1>1, <1>2

\* What normalizeSource keeps is defined for any number of lines.
LEMMA KeptExists ==
  ASSUME NEW source
  PROVE  \A m \in Nat : \E g : KeptUpTo(source, g, m)
<1> DEFINE T == {m \in Nat : \E g : KeptUpTo(source, g, m)}
<1>1. 0 \in T
  <2> DEFINE e == [n \in 0 .. 0 |-> <<>>]
             g == [n \in 0 .. 0 |-> Keep(source, e, n)]
  <2>1. \A n \in 0 .. 0 : Keep(source, e, n) = Keep(source, g, n)
    BY KeepAgrees
  <2>2. KeptUpTo(source, g, 0)
    <3> DEFINE k == [n \in 0 .. 0 |-> Keep(source, g, n)]
    <3>1. g = k
      BY <2>1
    <3> QED  BY <3>1 DEF KeptUpTo
  <2> QED  BY <2>2
<1>2. ASSUME NEW m \in Nat, m \in T  PROVE  m + 1 \in T
  <2>1. PICK g : KeptUpTo(source, g, m)
    BY <1>2
  <2> DEFINE h == [n \in 0 .. m + 1 |-> Keep(source, g, n)]
             k == [n \in 0 .. m + 1 |-> Keep(source, h, n)]
  <2>2. ASSUME NEW n \in 0 .. m + 1, n # 0  PROVE h[n - 1] = g[n - 1]
    <3>1. n - 1 \in 0 .. m /\ n - 1 \in 0 .. m + 1
      BY <2>2
    <3>2. g[n - 1] = Keep(source, g, n - 1)
      BY <2>1, <3>1 DEF KeptUpTo
    <3>3. h[n - 1] = Keep(source, g, n - 1)
      BY <3>1
    <3> QED  BY <3>2, <3>3
  <2>3. \A n \in 0 .. m + 1 : Keep(source, g, n) = Keep(source, h, n)
    <3> HIDE DEF h
    <3> QED  BY <2>2, KeepAgrees
  <2>4. h = k
    BY <2>3
  <2>5. KeptUpTo(source, h, m + 1)
    BY <2>4 DEF KeptUpTo
  <2> HIDE DEF h
  <2> QED  BY <2>5
<1> HIDE DEF T
<1>3. Nat \subseteq T
  BY <1>1, <1>2, SetInduction
<1> QED  BY <1>3 DEF T

\* The codes that are kept are those of the lines that are not empty.
LEMMA KeptCodes ==
  ASSUME NEW S, NEW source \in Seq(S)
  PROVE  /\ \A i \in DOMAIN source : source[i].code # "" =>
              \E k \in DOMAIN normalizeSource(source) : normalizeSource(source)[k] = source[i].code
         /\ \A k \in DOMAIN normalizeSource(source) :
              \E i \in DOMAIN source : source[i].code = normalizeSource(source)[k]
<1> DEFINE N == Len(source)
           g == CHOOSE h : KeptUpTo(source, h, N)
           C == {source[i].code : i \in 1 .. N}
           Good(n) == /\ g[n] \in Seq(C)
                      /\ \A i \in 1 .. n : source[i].code # "" =>
                           \E k \in DOMAIN g[n] : g[n][k] = source[i].code
           T == {n \in Nat : n <= N => Good(n)}
<1>1. N \in Nat /\ DOMAIN source = 1 .. N
  OBVIOUS
<1>2. normalizeSource(source) = g[N]
  BY NormalizedIsKept
<1>c. \A i \in 1 .. N : source[i].code \in C
  OBVIOUS
<1>d. \A c \in C : \E i \in 1 .. N : source[i].code = c
  OBVIOUS
<1> HIDE DEF N, C
<1>3. \A n \in 0 .. N : g[n] = Keep(source, g, n)
  <2>1. \E h : KeptUpTo(source, h, N)
    BY <1>1, KeptExists
  <2>2. KeptUpTo(source, g, N)
    BY <2>1
  <2> HIDE DEF g
  <2> QED  BY <2>2 DEF KeptUpTo
<1> HIDE DEF g, Good, T
<1>4. Good(0)
  <2>1. g[0] = <<>>
    <3>1. 0 \in 0 .. N
      BY <1>1
    <3>2. g[0] = Keep(source, g, 0)
      BY <3>1, <1>3
    <3> QED  BY <3>2, KeepFirst
  <2>2. <<>> \in Seq(C)
    OBVIOUS
  <2> QED  BY <2>1, <2>2 DEF Good
<1>5. ASSUME NEW n \in Nat, n + 1 <= N, Good(n)  PROVE  Good(n + 1)
  <2>1. n + 1 \in 0 .. N /\ n + 1 \in 1 .. N /\ n + 1 # 0 /\ (n + 1) - 1 = n
    BY <1>1, <1>5
  <2> DEFINE c == source[n + 1].code
             s == g[n]
             t == g[n + 1]
  <2>2. (c = "" => t = s) /\ (c # "" => t = Append(s, c))
    <3>1. t = Keep(source, g, n + 1)
      BY <2>1, <1>3
    <3>2. /\ c = "" => Keep(source, g, n + 1) = s
          /\ c # "" => Keep(source, g, n + 1) = Append(s, c)
      BY <2>1, Zenon DEF Keep
    <3> QED  BY <3>1, <3>2, Zenon
  <2>3. c \in C
    BY <2>1, <1>c
  <2>4. s \in Seq(C)
    BY <1>5 DEF Good
  <2>5. ASSUME NEW i \in 1 .. n, source[i].code # ""
        PROVE  \E k \in DOMAIN s : s[k] = source[i].code
    BY <1>5, <2>5 DEF Good
  <2>6. /\ t \in Seq(C)
        /\ \A x : (\E k \in DOMAIN s : s[k] = x) => \E k \in DOMAIN t : t[k] = x
        /\ c # "" => \E k \in DOMAIN t : t[k] = c
    <3> HIDE DEF s, t, c
    <3>1. CASE c = ""
      BY <3>1, <2>2, <2>4
    <3>2. CASE c # ""
      <4>1. t = Append(s, c)
        BY <3>2, <2>2
      <4>2. /\ t \in Seq(C) /\ \E k \in DOMAIN t : t[k] = c
            /\ \A x : (\E k \in DOMAIN s : s[k] = x) => \E k \in DOMAIN t : t[k] = x
        BY <4>1, <2>3, <2>4, Appended
      <4> QED  BY <4>2, Zenon
    <3> QED  BY <3>1, <3>2
  <2>9. ASSUME NEW i \in 1 .. n + 1, source[i].code # ""
        PROVE  \E k \in DOMAIN t : t[k] = source[i].code
    <3>1. i = n + 1 \/ i \in 1 .. n
      OBVIOUS
    <3>2. CASE i = n + 1
      BY <3>2, <2>6, <2>9
    <3>3. CASE i \in 1 .. n
      <4> HIDE DEF s, t, c
      <4> QED  BY <3>3, <2>5, <2>6, <2>9
    <3> QED  BY <3>1, <3>2, <3>3
  <2> QED  BY <2>6, <2>9 DEF Good
<1>6. 0 \in T
  BY <1>4 DEF T
<1>7. ASSUME NEW n \in Nat, n \in T  PROVE  n + 1 \in T
  <2>1. n + 1 <= N => n <= N
    BY <1>1
  <2>2. n + 1 <= N => Good(n)
    BY <2>1, <1>7 DEF T
  <2>3. n + 1 <= N => Good(n + 1)
    BY <2>2, <1>5
  <2> QED  BY <2>3 DEF T
<1>8. N \in T
  BY <1>1, <1>6, <1>7, SetInduction
<1>9. Good(N)
  BY <1>1, <1>8 DEF T
<1>10. ASSUME NEW k \in DOMAIN g[N]  PROVE \E i \in DOMAIN source : source[i].code = g[N][k]
  <2> DEFINE s == g[N]
  <2>1. s \in Seq(C)
    BY <1>9 DEF Good
  <2>2. s[k] \in C
    <3> HIDE DEF s
    <3>1. k \in DOMAIN s
      BY <1>10 DEF s
    <3> QED  BY <2>1, <3>1
  <2> QED  BY <2>2, <1>1, <1>d
<1>11. ASSUME NEW i \in DOMAIN source, source[i].code # ""
       PROVE  \E k \in DOMAIN g[N] : g[N][k] = source[i].code
  BY <1>1, <1>9, <1>11 DEF Good
<1> QED  BY <1>2, <1>10, <1>11

\* A run's program is what its source parses to.
LEMMA ProgramOfContext ==
  ASSUME NEW c \in Contexts
  PROVE  /\ c.program.source_hash = Sha256(normalizeSource(c.program.source))
         /\ c.program.metadata = extractProgramMetadata(c.program.source)
<1> DEFINE source == c.program.source
<1>1. c.program = parseGenAILProgram(source)
  BY ContextsAssumption
<1> HIDE DEF source
<1> QED  BY <1>1 DEF parseGenAILProgram, computeSourceHash

\* Equal code, equal settings.
LEMMA SettingsAreCode ==
  ASSUME NEW c \in Contexts, NEW d \in Contexts,
         normalizeSource(c.program.source) = normalizeSource(d.program.source)
  PROVE  NamesOf(c.program.source, "set") \subseteq NamesOf(d.program.source, "set")
<1> DEFINE s == c.program.source
           t == d.program.source
<1>1. s \in Seq(Range(s)) /\ t \in Seq(Range(t))
  BY ContextsAssumption
<1>2. ASSUME NEW i \in DOMAIN s, s[i].kind = "set"
      PROVE  \E j \in DOMAIN t : t[j].kind = "set" /\ t[j].name = s[i].name
  <2>1. s[i].code # ""
    BY <1>2, ContextsAssumption
  <2>2. PICK k \in DOMAIN normalizeSource(s) : normalizeSource(s)[k] = s[i].code
    <3> HIDE DEF s
    <3> QED  BY <2>1, <1>1, KeptCodes
  <2>3. PICK j \in DOMAIN t : t[j].code = normalizeSource(t)[k]
    <3>1. k \in DOMAIN normalizeSource(t)
      BY <2>2
    <3> HIDE DEF t
    <3> QED  BY <3>1, <1>1, KeptCodes
  <2>4. t[j].code = s[i].code
    BY <2>2, <2>3
  <2> QED  BY <2>4, <1>2, ContextsAssumption
<1> HIDE DEF s, t
<1>3. NamesOf(s, "set") \subseteq NamesOf(t, "set")
  BY <1>2 DEF NamesOf
<1> QED  BY <1>3 DEF s, t

\* Equal fingerprints, equal metadata.
LEMMA FingerprintFixesMetadata ==
  ASSUME NEW c \in Contexts, NEW d \in Contexts,
         computeProgramFingerprint(c.program) = computeProgramFingerprint(d.program)
  PROVE  c.program.metadata = d.program.metadata
<1> DEFINE s == c.program.source
           t == d.program.source
           m == c.program.metadata
           n == d.program.metadata
<1>1. /\ c.program.source_hash = d.program.source_hash
      /\ m.models = n.models /\ m.tools = n.tools
      /\ m.generate_count = n.generate_count /\ m.message_count = n.message_count
  BY DEF computeProgramFingerprint, Sha256
<1>2. normalizeSource(s) = normalizeSource(t)
  <2>1. /\ c.program.source_hash = Sha256(normalizeSource(s))
        /\ d.program.source_hash = Sha256(normalizeSource(t))
    BY ProgramOfContext
  <2>2. Sha256(normalizeSource(s)) = Sha256(normalizeSource(t))
    BY <1>1, <2>1
  <2> QED  BY <2>2 DEF Sha256
<1>3. NamesOf(s, "set") = NamesOf(t, "set")
  <2>1. NamesOf(s, "set") \subseteq NamesOf(t, "set")
    BY <1>2, SettingsAreCode
  <2>2. NamesOf(t, "set") \subseteq NamesOf(s, "set")
    BY <1>2, SettingsAreCode
  <2> QED  BY <2>1, <2>2
<1>4. m = extractProgramMetadata(s) /\ n = extractProgramMetadata(t)
  BY ProgramOfContext
<1> HIDE DEF s, t, m, n
<1>5. /\ NamesOf(s, "model") = NamesOf(t, "model") /\ NamesOf(s, "call") = NamesOf(t, "call")
      /\ CountOf(s, "generate") = CountOf(t, "generate")
      /\ CountOf(s, "message") = CountOf(t, "message")
  <2>1. /\ m.models = NamesOf(s, "model") /\ m.tools = NamesOf(s, "call")
        /\ m.generate_count = CountOf(s, "generate") /\ m.message_count = CountOf(s, "message")
    BY <1>4 DEF extractProgramMetadata
  <2>2. /\ n.models = NamesOf(t, "model") /\ n.tools = NamesOf(t, "call")
        /\ n.generate_count = CountOf(t, "generate") /\ n.message_count = CountOf(t, "message")
    BY <1>4 DEF extractProgramMetadata
  <2> QED  BY <1>1, <2>1, <2>2 DEF m, n
<1>6. m = n
  BY <1>3, <1>4, <1>5 DEF extractProgramMetadata
<1> QED  BY <1>6 DEF m, n

-----------------------------------------------------------------------------

GenailFields ==
  {"integrity", "bundle_version", "execution_id", "generated_at", "fingerprint", "source",
   "input_hash", "output_hash", "input_summary", "metering", "model_provenance",
   "reasoning_trace"}
IntegrityFields == {"content_hash", "bundle_hash", "signature"}

GenailShape(doc) ==
  /\ IsRecord(doc, {"receipt", "bundle"}) /\ IsRecord(doc.bundle, GenailFields)
  /\ IsRecord(doc.bundle.integrity, IntegrityFields)

\* The evidence commits to itself, the receipt to its run.
OfItsRun(i) ==
  /\ i.ctx \in Contexts
  /\ i.doc.bundle.integrity.content_hash = ContentHash(i.doc.bundle)
  /\ i.doc.receipt.input_hash = computeInputHash(i.ctx.inputs)
  /\ i.doc.receipt.output_hash = computeOutputHash(i.ctx.outputs)
  /\ i.doc.receipt.program.fingerprint = computeProgramFingerprint(i.ctx.program)
  /\ i.doc.receipt.metering.llm_calls = i.ctx.llm_calls

GenailInv ==
  /\ \A i \in issued : GenailShape(i.doc) /\ OfItsRun(i)
  /\ copy # None => /\ GenailShape(copy)
                    /\ \E i \in issued : copy.bundle.integrity.content_hash =
                                           i.doc.bundle.integrity.content_hash

\* ContentHash does not look at the integrity block.
LEMMA ContentFixes ==
  ASSUME NEW a, NEW b
  PROVE  ContentHash(a) = ContentHash(b) <=>
           /\ DOMAIN a \ {"integrity"} = DOMAIN b \ {"integrity"}
           /\ \A f \in DOMAIN a \ {"integrity"} : a[f] = b[f]
<1> DEFINE x == [f \in DOMAIN a \ {"integrity"} |-> a[f]]
           y == [f \in DOMAIN b \ {"integrity"} |-> b[f]]
<1>1. ContentHash(a) = ContentHash(b) <=> x = y
  BY DEF ContentHash, Sha256
<1>2. x = y <=> /\ DOMAIN a \ {"integrity"} = DOMAIN b \ {"integrity"}
                /\ \A f \in DOMAIN a \ {"integrity"} : a[f] = b[f]
  OBVIOUS
<1> QED  BY <1>1, <1>2

\* Writing into the integrity block.
Stamped(a, b, x, f) ==
  /\ IsRecord(a, GenailFields) /\ IsRecord(a.integrity, IntegrityFields) /\ f \in IntegrityFields
  /\ b = [a EXCEPT !.integrity[f] = x]

\* The content hash does not change, whatever is written into the integrity block.
LEMMA Stamping ==
  ASSUME NEW a, NEW b, NEW x, NEW f, Stamped(a, b, x, f)
  PROVE  /\ IsRecord(b, GenailFields) /\ IsRecord(b.integrity, IntegrityFields)
         /\ b.integrity[f] = x /\ \A g \in IntegrityFields \ {f} : b.integrity[g] = a.integrity[g]
         /\ ContentHash(b) = ContentHash(a)
<1> DEFINE n == [a.integrity EXCEPT ![f] = x]
<1>1. IsRecord(a, GenailFields) /\ IsRecord(a.integrity, IntegrityFields) /\ f \in IntegrityFields
  BY DEF Stamped
<1>2. /\ IsRecord(n, IntegrityFields) /\ n[f] = x
      /\ \A g \in IntegrityFields \ {f} : n[g] = a.integrity[g]
  BY <1>1 DEF IsRecord
<1>3. b = [a EXCEPT !.integrity = n]
  BY DEF Stamped
<1> HIDE DEF n
<1>4. DOMAIN a = GenailFields /\ "integrity" \in GenailFields
  BY <1>1 DEF IsRecord, GenailFields
<1>5. b = [g \in GenailFields |-> IF g = "integrity" THEN n ELSE a[g]]
  BY <1>3, <1>4
<1>6. IsRecord(b, GenailFields) /\ b.integrity = n /\ DOMAIN b = GenailFields
      /\ \A g \in GenailFields \ {"integrity"} : b[g] = a[g]
  BY <1>4, <1>5 DEF IsRecord
<1>7. ContentHash(b) = ContentHash(a)
  BY <1>4, <1>6, ContentFixes
<1> QED  BY <1>2, <1>6, <1>7

\* What buildGenailBundle and signGenailBundle make.
LEMMA BuiltBundle ==
  ASSUME NEW ctx, NEW options, NEW now, NEW key
  PROVE  LET b == signGenailBundle(buildGenailBundle(ctx, options, now), key)
         IN  /\ IsRecord(b, GenailFields) /\ IsRecord(b.integrity, IntegrityFields)
             /\ b.integrity.content_hash = ContentHash(b)
<1> DEFINE body   == EvidenceBody(ctx, options, now)
           hashed == [body EXCEPT !.integrity.content_hash = ContentHash(body)]
           b1     == buildGenailBundle(ctx, options, now)
           b2     == signGenailBundle(b1, key)
           sig    == [by |-> key, over |-> b1.integrity.bundle_hash]
<1>1. IsRecord(body, GenailFields) /\ body.integrity = Unsealed
  BY DEF EvidenceBody, IsRecord, GenailFields
<1>2. IsRecord(Unsealed, IntegrityFields)
  BY DEF Unsealed, IsRecord, IntegrityFields
<1>3. b1 = [hashed EXCEPT !.integrity.bundle_hash = BundleHash(hashed)]
  BY DEF buildGenailBundle
<1>4. b2 = [b1 EXCEPT !.integrity.signature = sig]
  BY DEF signGenailBundle
<1> HIDE DEF body, b1, b2, sig
<1>5. {"content_hash", "bundle_hash", "signature"} = IntegrityFields
  BY DEF IntegrityFields
<1>6. Stamped(body, hashed, ContentHash(body), "content_hash")
  BY <1>1, <1>2, <1>5 DEF Stamped
<1> HIDE DEF hashed
<1>7. /\ IsRecord(hashed, GenailFields) /\ IsRecord(hashed.integrity, IntegrityFields)
      /\ hashed.integrity.content_hash = ContentHash(hashed)
  BY <1>6, Stamping
<1>8. Stamped(hashed, b1, BundleHash(hashed), "bundle_hash")
  BY <1>3, <1>5, <1>7 DEF Stamped
<1>9. /\ IsRecord(b1, GenailFields) /\ IsRecord(b1.integrity, IntegrityFields)
      /\ b1.integrity.content_hash = ContentHash(b1)
  <2>1. "content_hash" \in IntegrityFields \ {"bundle_hash"}
    BY <1>5
  <2> QED  BY <2>1, <1>7, <1>8, Stamping
<1>10. Stamped(b1, b2, sig, "signature")
  BY <1>4, <1>5, <1>9 DEF Stamped
<1>11. /\ IsRecord(b2, GenailFields) /\ IsRecord(b2.integrity, IntegrityFields)
       /\ b2.integrity.content_hash = ContentHash(b2)
  <2>1. "content_hash" \in IntegrityFields \ {"signature"}
    BY <1>5
  <2> QED  BY <2>1, <1>9, <1>10, Stamping
<1> QED  BY <1>11 DEF b2, b1

\* Evidence and a receipt more.
LEMMA CompletedKeeps ==
  ASSUME GenailInv, NEW ctx \in Contexts, NEW verify, NEW storage,
         executionCompleted(ctx, verify, storage)
  PROVE  GenailInv'
<1> DEFINE answer == IF verify THEN submitForVerification(ctx) ELSE None
           bundle == signGenailBundle(buildGenailBundle(ctx, ctx.options, ctx.now), "runtime")
           stored == storeEvidence(bundle, storage) # None
           told == IF stored THEN answer ELSE None
           receipt == buildGenailReceipt(ctx, told)
           new == [ctx |-> ctx, success |-> stored, submitted |-> verify,
                   doc |-> [receipt |-> receipt, bundle |-> bundle]]
<1>1. issued' = issued \cup {new} /\ copy' = copy
  BY DEF executionCompleted
<1>2. /\ IsRecord(bundle, GenailFields) /\ IsRecord(bundle.integrity, IntegrityFields)
      /\ bundle.integrity.content_hash = ContentHash(bundle)
  BY BuiltBundle
<1> HIDE DEF told, stored, bundle
<1>3. /\ receipt.input_hash = computeInputHash(ctx.inputs)
      /\ receipt.output_hash = computeOutputHash(ctx.outputs)
      /\ receipt.program.fingerprint = computeProgramFingerprint(ctx.program)
      /\ receipt.metering.llm_calls = ctx.llm_calls
  BY DEF buildGenailReceipt, MeteringOf
<1> HIDE DEF receipt
<1>4. new.ctx = ctx /\ new.doc = [receipt |-> receipt, bundle |-> bundle]
  OBVIOUS
<1>5. /\ IsRecord(new.doc, {"receipt", "bundle"})
      /\ new.doc.receipt = receipt /\ new.doc.bundle = bundle
  BY <1>4 DEF IsRecord
<1> HIDE DEF new
<1>6. GenailShape(new.doc)
  BY <1>2, <1>5 DEF GenailShape
<1>7. OfItsRun(new)
  BY <1>2, <1>3, <1>4, <1>5 DEF OfItsRun
<1>8. \A i \in issued' : GenailShape(i.doc) /\ OfItsRun(i)
  BY <1>1, <1>6, <1>7 DEF GenailInv
<1>9. copy' # None => /\ GenailShape(copy')
                      /\ \E i \in issued' : copy'.bundle.integrity.content_hash =
                                              i.doc.bundle.integrity.content_hash
  BY <1>1 DEF GenailInv
<1> QED  BY <1>8, <1>9 DEF GenailInv

\* Polling touches no document.
LEMMA PolledKeeps ==
  ASSUME GenailInv, NEW status, NEW score, waitForVerification(status, score)
  PROVE  GenailInv'
  BY DEF waitForVerification, GenailInv

\* A copy that takes its evidence, or its receipt, from something well formed.
LEMMA TakenOver ==
  ASSUME NEW b, NEW r, IsRecord(copy, {"receipt", "bundle"}),
         copy' = [copy EXCEPT !.bundle = b] \/ copy' = [copy EXCEPT !.receipt = r]
  PROVE  /\ IsRecord(copy', {"receipt", "bundle"})
         /\ copy' = [copy EXCEPT !.bundle = b] => copy'.bundle = b
         /\ copy' = [copy EXCEPT !.receipt = r] => copy'.bundle = copy.bundle
<1>1. DOMAIN copy = {"receipt", "bundle"}
  BY DEF IsRecord
<1>2. copy' = [copy EXCEPT !.bundle = b] =>
        copy' = [f \in {"receipt", "bundle"} |-> IF f = "bundle" THEN b ELSE copy[f]]
  BY <1>1
<1>3. copy' = [copy EXCEPT !.receipt = r] =>
        copy' = [f \in {"receipt", "bundle"} |-> IF f = "receipt" THEN r ELSE copy[f]]
  BY <1>1
<1> QED  BY <1>2, <1>3 DEF IsRecord

\* A copy mixed up with another document has the content hash of one of the two.
LEMMA GenailMixedUpKeeps ==
  ASSUME GenailInv, genailMixedUp
  PROVE  GenailInv'
<1>1. issued' = issued /\ copy # None
  BY DEF genailMixedUp, MayChange
<1>2. PICK o \in issued : copy.bundle.integrity.content_hash = o.doc.bundle.integrity.content_hash
  BY <1>1 DEF GenailInv
<1>3. GenailShape(copy)
  BY <1>1 DEF GenailInv
<1>4. PICK i \in issued :
        \/ \E f \in DOMAIN copy.bundle : Copied([copy EXCEPT !.bundle[f] = i.doc.bundle[f]])
        \/ \E f \in DOMAIN copy.bundle.integrity :
             Copied([copy EXCEPT !.bundle.integrity[f] = i.doc.bundle.integrity[f]])
        \/ \E f \in DOMAIN copy.receipt : Copied([copy EXCEPT !.receipt[f] = i.doc.receipt[f]])
  BY DEF genailMixedUp
<1>5. GenailShape(i.doc)
  BY DEF GenailInv
<1>6. SUFFICES ASSUME TRUE
      PROVE  GenailShape(copy') /\ \E j \in issued :
               copy'.bundle.integrity.content_hash = j.doc.bundle.integrity.content_hash
  BY <1>1 DEF GenailInv
<1>a. CASE \E f \in DOMAIN copy.bundle : Copied([copy EXCEPT !.bundle[f] = i.doc.bundle[f]])
  <2>1. PICK f \in DOMAIN copy.bundle : copy' = [copy EXCEPT !.bundle[f] = i.doc.bundle[f]]
    BY <1>a DEF Copied
  <2> DEFINE b == [copy.bundle EXCEPT ![f] = i.doc.bundle[f]]
  <2>2. copy' = [copy EXCEPT !.bundle = b]
    BY <2>1
  <2>3. /\ IsRecord(b, GenailFields)
        /\ b.integrity = copy.bundle.integrity \/ b.integrity = i.doc.bundle.integrity
    <3>1. DOMAIN copy.bundle = GenailFields /\ "integrity" \in GenailFields
      BY <1>3 DEF GenailShape, IsRecord, GenailFields
    <3>2. b = [g \in GenailFields |-> IF g = f THEN i.doc.bundle[f] ELSE copy.bundle[g]]
      BY <3>1
    <3> QED  BY <3>1, <3>2 DEF IsRecord
  <2> HIDE DEF b
  <2>4. IsRecord(copy', {"receipt", "bundle"}) /\ copy'.bundle = b
    BY <2>2, <1>3, TakenOver DEF GenailShape
  <2>5. IsRecord(copy'.bundle.integrity, IntegrityFields)
    BY <2>3, <2>4, <1>3, <1>5 DEF GenailShape
  <2> QED  BY <2>3, <2>4, <2>5, <1>2 DEF GenailShape
<1>b. CASE \E f \in DOMAIN copy.bundle.integrity :
             Copied([copy EXCEPT !.bundle.integrity[f] = i.doc.bundle.integrity[f]])
  <2>1. PICK f \in DOMAIN copy.bundle.integrity :
          copy' = [copy EXCEPT !.bundle.integrity[f] = i.doc.bundle.integrity[f]]
    BY <1>b DEF Copied
  <2> DEFINE x == i.doc.bundle.integrity[f]
             b == [copy.bundle EXCEPT !.integrity[f] = x]
  <2>2. copy' = [copy EXCEPT !.bundle = b]
    BY <2>1
  <2>3. f \in IntegrityFields
    BY <1>3 DEF GenailShape, IsRecord
  <2>4. Stamped(copy.bundle, b, x, f)
    BY <2>3, <1>3 DEF Stamped, GenailShape
  <2> HIDE DEF b
  <2>5. /\ IsRecord(b, GenailFields) /\ IsRecord(b.integrity, IntegrityFields)
        /\ b.integrity[f] = x
        /\ \A g \in IntegrityFields \ {f} : b.integrity[g] = copy.bundle.integrity[g]
    <3> HIDE DEF x
    <3> QED  BY <2>4, Stamping
  <2>6. \/ b.integrity.content_hash = copy.bundle.integrity.content_hash
        \/ b.integrity.content_hash = i.doc.bundle.integrity.content_hash
    <3>1. "content_hash" \in IntegrityFields
      BY DEF IntegrityFields
    <3>2. CASE f = "content_hash"
      BY <3>2, <2>5
    <3>3. CASE f # "content_hash"
      <4>1. b.integrity["content_hash"] = copy.bundle.integrity["content_hash"]
        BY <3>1, <3>3, <2>5
      <4> QED  BY <4>1
    <3> QED  BY <3>2, <3>3
  <2>7. IsRecord(copy', {"receipt", "bundle"}) /\ copy'.bundle = b
    BY <2>2, <1>3, TakenOver DEF GenailShape
  <2> QED  BY <2>5, <2>6, <2>7, <1>2 DEF GenailShape
<1>c. CASE \E f \in DOMAIN copy.receipt : Copied([copy EXCEPT !.receipt[f] = i.doc.receipt[f]])
  <2>1. PICK f : copy' = [copy EXCEPT !.receipt[f] = i.doc.receipt[f]]
    BY <1>c DEF Copied
  <2> DEFINE r == [copy.receipt EXCEPT ![f] = i.doc.receipt[f]]
  <2>2. copy' = [copy EXCEPT !.receipt = r]
    BY <2>1
  <2> HIDE DEF r
  <2>3. IsRecord(copy', {"receipt", "bundle"}) /\ copy'.bundle = copy.bundle
    BY <2>2, <1>3, TakenOver DEF GenailShape
  <2> QED  BY <2>3, <1>2, <1>3 DEF GenailShape
<1> QED  BY <1>4, <1>a, <1>b, <1>c

\* What deserializeEvidence has checked.
LEMMA AcceptedEvidence ==
  ASSUME NEW b, deserializeEvidence(b) # None
  PROVE  b.integrity.content_hash = ContentHash(b)
<1>1. validateEvidenceIntegrity(b) = {}
  BY DEF deserializeEvidence
<1>2. ~("content_hash" \in validateEvidenceIntegrity(b))
  BY <1>1
<1> QED  BY <1>2 DEF validateEvidenceIntegrity

\* What validateReceiptAgainstContext checks.
LEMMA AcceptedReceipt ==
  ASSUME NEW r, NEW ctx
  PROVE  validateReceiptAgainstContext(r, ctx) = {} <=>
           /\ r.input_hash = computeInputHash(ctx.inputs)
           /\ r.output_hash = computeOutputHash(ctx.outputs)
           /\ r.program.fingerprint = computeProgramFingerprint(ctx.program)
           /\ r.metering.llm_calls = ctx.llm_calls
<1> DEFINE V == validateReceiptAgainstContext(r, ctx)
<1>1. /\ "input_hash" \in V <=> r.input_hash # computeInputHash(ctx.inputs)
      /\ "output_hash" \in V <=> r.output_hash # computeOutputHash(ctx.outputs)
      /\ "fingerprint" \in V <=> r.program.fingerprint # computeProgramFingerprint(ctx.program)
      /\ "llm_calls" \in V <=> r.metering.llm_calls # ctx.llm_calls
      /\ V \subseteq {"input_hash", "output_hash", "fingerprint", "llm_calls"}
  BY DEF validateReceiptAgainstContext
<1> HIDE DEF V
<1>2. V = {} <=> ~("input_hash" \in V \/ "output_hash" \in V \/ "fingerprint" \in V
                   \/ "llm_calls" \in V)
  BY <1>1
<1>3. V = {} <=> /\ r.input_hash = computeInputHash(ctx.inputs)
                 /\ r.output_hash = computeOutputHash(ctx.outputs)
                 /\ r.program.fingerprint = computeProgramFingerprint(ctx.program)
                 /\ r.metering.llm_calls = ctx.llm_calls
  BY <1>1, <1>2
<1> QED  BY <1>3 DEF V

\* A value as the hash sees it among the keys K.
HashedValue(v, K) ==
  IF IsObject(v) THEN Object([n \in DOMAIN v.object \cap K |-> v.object[n]]) ELSE v

\* Cut down to the keys K, functions are equal when they agree at them.
LEMMA CutDownAgree ==
  ASSUME NEW f, NEW g, NEW K
  PROVE  [n \in DOMAIN f \cap K |-> f[n]] = [n \in DOMAIN g \cap K |-> g[n]] <=> AgreeAt(f, g, K)
<1> DEFINE x == [n \in DOMAIN f \cap K |-> f[n]]
           y == [n \in DOMAIN g \cap K |-> g[n]]
<1>1. /\ DOMAIN x = DOMAIN f \cap K /\ DOMAIN y = DOMAIN g \cap K
      /\ \A n \in DOMAIN f \cap K : x[n] = f[n]
      /\ \A n \in DOMAIN g \cap K : y[n] = g[n]
  OBVIOUS
<1>2. ASSUME x = y  PROVE AgreeAt(f, g, K)
  <2> HIDE DEF x, y
  <2>1. DOMAIN f \cap K = DOMAIN g \cap K
    BY <1>1, <1>2
  <2>2. \A n \in DOMAIN f \cap K : f[n] = g[n]
    BY <1>1, <1>2, <2>1
  <2> QED  BY <2>1, <2>2 DEF AgreeAt
<1>3. ASSUME AgreeAt(f, g, K)  PROVE x = y
  <2>1. DOMAIN f \cap K = DOMAIN g \cap K
    BY <1>3 DEF AgreeAt
  <2>2. \A n \in DOMAIN f \cap K : f[n] = g[n]
    BY <1>3 DEF AgreeAt
  <2> QED  BY <2>1, <2>2
<1> QED  BY <1>2, <1>3

\* Objects look the same when they agree at the keys K.
LEMMA HashedValuesAgree ==
  ASSUME NEW v, NEW w, NEW K
  PROVE  HashedValue(v, K) = HashedValue(w, K) <=>
           /\ ~IsObject(v) => v = w
           /\ IsObject(v) => IsObject(w) /\ AgreeAt(v.object, w.object, K)
<1> DEFINE f == [n \in DOMAIN v.object \cap K |-> v.object[n]]
           g == [n \in DOMAIN w.object \cap K |-> w.object[n]]
<1>1. f = g <=> AgreeAt(v.object, w.object, K)
  BY CutDownAgree
<1>2. IsObject(v) => HashedValue(v, K) = Object(f)
  BY DEF HashedValue
<1>3. IsObject(w) => HashedValue(w, K) = Object(g)
  BY DEF HashedValue
<1>4. /\ ~IsObject(v) => HashedValue(v, K) = v
      /\ ~IsObject(w) => HashedValue(w, K) = w
  BY DEF HashedValue
<1> HIDE DEF f, g
<1>5. Object(f) = Object(g) <=> f = g
  BY DEF Object
<1>6. IsObject(Object(f)) /\ IsObject(Object(g))
  BY DEF IsObject, Object
<1>7. CASE IsObject(v) /\ IsObject(w)
  BY <1>7, <1>1, <1>2, <1>3, <1>5
<1>8. CASE IsObject(v) /\ ~IsObject(w)
  BY <1>8, <1>2, <1>4, <1>6
<1>9. CASE ~IsObject(v)
  BY <1>9, <1>3, <1>4, <1>6
<1> QED  BY <1>7, <1>8, <1>9

\* Equal hashes, equal keys, scalars, and nested values at keys of the top.
LEMMA CanonicalHashFixes ==
  ASSUME NEW a, NEW b
  PROVE  computeCanonicalHash(a) = computeCanonicalHash(b) <=> AgreeAtTopLevelKeys(a, b)
<1> DEFINE x == [k \in DOMAIN a |-> HashedValue(a[k], DOMAIN a)]
           y == [k \in DOMAIN b |-> HashedValue(b[k], DOMAIN b)]
<1>1. computeCanonicalHash(a) = computeCanonicalHash(b) <=> x = y
  BY DEF computeCanonicalHash, Sha256, HashedValue
<1>2. x = y <=> /\ DOMAIN a = DOMAIN b
                /\ \A k \in DOMAIN a : HashedValue(a[k], DOMAIN a) = HashedValue(b[k], DOMAIN a)
  OBVIOUS
<1>3. /\ DOMAIN a = DOMAIN b
      /\ \A k \in DOMAIN a : HashedValue(a[k], DOMAIN a) = HashedValue(b[k], DOMAIN a)
      <=> AgreeAtTopLevelKeys(a, b)
  BY HashedValuesAgree DEF AgreeAtTopLevelKeys
<1> QED  BY <1>1, <1>2, <1>3

\* Equal fingerprints: equal code and equal metadata.
LEMMA FingerprintFixesProgram ==
  ASSUME NEW c \in Contexts, NEW d \in Contexts
  PROVE  computeProgramFingerprint(c.program) = computeProgramFingerprint(d.program) <=>
           /\ normalizeSource(c.program.source) = normalizeSource(d.program.source)
           /\ c.program.metadata = d.program.metadata
<1>1. /\ c.program.source_hash = Sha256(normalizeSource(c.program.source))
      /\ d.program.source_hash = Sha256(normalizeSource(d.program.source))
  BY ProgramOfContext
<1>2. ASSUME computeProgramFingerprint(c.program) = computeProgramFingerprint(d.program)
      PROVE  /\ normalizeSource(c.program.source) = normalizeSource(d.program.source)
             /\ c.program.metadata = d.program.metadata
  <2>1. c.program.metadata = d.program.metadata
    BY <1>2, FingerprintFixesMetadata
  <2>2. c.program.source_hash = d.program.source_hash
    BY <1>2 DEF computeProgramFingerprint, Sha256
  <2>3. normalizeSource(c.program.source) = normalizeSource(d.program.source)
    BY <1>1, <2>2 DEF Sha256
  <2> QED  BY <2>1, <2>3
<1>3. ASSUME normalizeSource(c.program.source) = normalizeSource(d.program.source),
             c.program.metadata = d.program.metadata
      PROVE  computeProgramFingerprint(c.program) = computeProgramFingerprint(d.program)
  <2>1. c.program.source_hash = d.program.source_hash
    BY <1>1, <1>3
  <2> QED  BY <2>1, <1>3 DEF computeProgramFingerprint
<1> QED  BY <1>2, <1>3

\* Content hashes fix the evidence, input hashes and fingerprints the run.
LEMMA GenailIsOneRuns ==
  ASSUME GenailInv
  PROVE  GenailDocumentsAreOneRuns
<1>1. ASSUME copy # None, deserializeEvidence(copy.bundle) # None
      PROVE  \E i \in issued : \A f \in DOMAIN copy.bundle \ {"integrity"} :
               copy.bundle[f] = i.doc.bundle[f]
  <2>1. PICK i \in issued : copy.bundle.integrity.content_hash = i.doc.bundle.integrity.content_hash
    BY <1>1 DEF GenailInv
  <2>2. copy.bundle.integrity.content_hash = ContentHash(copy.bundle)
    BY <1>1, AcceptedEvidence
  <2>3. i.doc.bundle.integrity.content_hash = ContentHash(i.doc.bundle)
    BY DEF GenailInv, OfItsRun
  <2>4. ContentHash(copy.bundle) = ContentHash(i.doc.bundle)
    BY <2>1, <2>2, <2>3
  <2> QED  BY <2>4, ContentFixes
<1>2. ASSUME NEW i \in issued, NEW j \in issued
      PROVE  validateReceiptAgainstContext(i.doc.receipt, j.ctx) = {} <=>
               SameForReceipts(i.ctx, j.ctx)
  <2>1. OfItsRun(i) /\ OfItsRun(j)
    BY DEF GenailInv
  <2>2. validateReceiptAgainstContext(i.doc.receipt, j.ctx) = {} <=>
          /\ computeCanonicalHash(i.ctx.inputs) = computeCanonicalHash(j.ctx.inputs)
          /\ computeCanonicalHash(i.ctx.outputs) = computeCanonicalHash(j.ctx.outputs)
          /\ computeProgramFingerprint(i.ctx.program) = computeProgramFingerprint(j.ctx.program)
          /\ i.ctx.llm_calls = j.ctx.llm_calls
    BY <2>1, AcceptedReceipt DEF OfItsRun, computeInputHash, computeOutputHash
  <2>3. computeProgramFingerprint(i.ctx.program) = computeProgramFingerprint(j.ctx.program) <=>
          /\ normalizeSource(i.ctx.program.source) = normalizeSource(j.ctx.program.source)
          /\ i.ctx.program.metadata = j.ctx.program.metadata
    BY <2>1, FingerprintFixesProgram DEF OfItsRun
  <2> QED  BY <2>2, <2>3, CanonicalHashFixes DEF SameForReceipts
<1> QED  BY <1>1, <1>2 DEF GenailDocumentsAreOneRuns

-----------------------------------------------------------------------------
(* Assessments.                                                            *)

\* How many items come no later than the i-th.
NoLater(N, key, i) == {j \in 1 .. N : key[j] < key[i] \/ (key[j] = key[i] /\ j <= i)}
Rank(N, key) == [i \in 1 .. N |-> Cardinality(NoLater(N, key, i))]

\* Ties broken by place, every item has a rank of its own.
LEMMA RankIsBijection ==
  ASSUME NEW N \in Nat, NEW key, \A i \in 1 .. N : key[i] \in Int
  PROVE  /\ Rank(N, key) \in [1 .. N -> 1 .. N]
         /\ \A i, j \in 1 .. N : Rank(N, key)[i] = Rank(N, key)[j] => i = j
         /\ \A n \in 1 .. N : \E i \in 1 .. N : Rank(N, key)[i] = n
         /\ \A i, j \in 1 .. N : key[i] < key[j] \/ (key[i] = key[j] /\ i < j)
                                  => Rank(N, key)[i] < Rank(N, key)[j]
<1> DEFINE r == Rank(N, key)
           B(i) == NoLater(N, key, i)
<1>1. IsFiniteSet(1 .. N) /\ Cardinality(1 .. N) = N
  BY FS_Interval
<1>2. ASSUME NEW i \in 1 .. N
      PROVE  /\ IsFiniteSet(B(i)) /\ Cardinality(B(i)) \in 1 .. N
             /\ r[i] = Cardinality(B(i))
  <2>1. B(i) \subseteq 1 .. N /\ i \in B(i)
    BY DEF NoLater
  <2>2. IsFiniteSet(B(i)) /\ Cardinality(B(i)) <= N /\ Cardinality(B(i)) \in Nat
    BY <1>1, <2>1, FS_Subset, FS_CardinalityType
  <2>3. Cardinality(B(i)) # 0
    BY <2>1, <2>2, FS_EmptySet
  <2>4. r[i] = Cardinality(B(i))
    BY DEF Rank
  <2> QED  BY <2>2, <2>3, <2>4
<1>3. r \in [1 .. N -> 1 .. N]
  <2>1. r = [i \in 1 .. N |-> r[i]]
    BY DEF Rank
  <2>2. \A i \in 1 .. N : r[i] \in 1 .. N
    BY <1>2
  <2> HIDE DEF r
  <2> QED  BY <2>1, <2>2
<1>4. ASSUME NEW i \in 1 .. N, NEW j \in 1 .. N, key[i] < key[j] \/ (key[i] = key[j] /\ i < j)
      PROVE  r[i] < r[j]
  <2>1. B(i) \subseteq B(j) /\ j \in B(j) /\ j \notin B(i)
    BY <1>4 DEF NoLater
  <2>2. B(i) # B(j)
    BY <2>1
  <2>3. Cardinality(B(i)) < Cardinality(B(j))
    <3> HIDE DEF B
    <3>1. IsFiniteSet(B(j)) /\ B(i) \in SUBSET B(j)
      BY <1>2, <2>1
    <3>2. /\ Cardinality(B(i)) \in Nat /\ Cardinality(B(j)) \in Nat
          /\ Cardinality(B(i)) <= Cardinality(B(j))
          /\ Cardinality(B(i)) # Cardinality(B(j))
      BY <2>2, <3>1, FS_Subset, FS_CardinalityType
    <3> QED  BY <3>2
  <2> HIDE DEF B, r
  <2> QED  BY <2>3, <1>2
<1>5. ASSUME NEW i \in 1 .. N, NEW j \in 1 .. N, r[i] = r[j]  PROVE i = j
  <2> SUFFICES ASSUME i # j  PROVE FALSE  OBVIOUS
  <2>1. \/ key[i] < key[j] \/ (key[i] = key[j] /\ i < j)
        \/ key[j] < key[i] \/ (key[j] = key[i] /\ j < i)
    OBVIOUS
  <2>2. r[i] < r[j] \/ r[j] < r[i]  
    <3> HIDE DEF r
    <3> QED  BY <2>1, <1>4
  <2>3. r[i] \in Int /\ r[j] \in Int  
    <3> HIDE DEF r
    <3> QED  BY <1>3
  <2> HIDE DEF r
  <2> QED  BY <2>2, <2>3, <1>5
<1> HIDE DEF r
<1>6. r \in Injection(1 .. N, 1 .. N)
  BY <1>3, <1>5 DEF Injection, IsInjective
<1>7. r \in Surjection(1 .. N, 1 .. N)
  BY <1>1, <1>6, FS_Injection
<1>8. \A n \in 1 .. N : \E i \in 1 .. N : r[i] = n
  BY <1>7 DEF Surjection
<1> QED  BY <1>3, <1>4, <1>5, <1>8 DEF r

\* Sorting keeps the items: it permutes them.
LEMMA InOrderPermutes ==
  ASSUME NEW items, NEW N \in Nat, DOMAIN items = 1 .. N,
         NEW key, \A i \in 1 .. N : key[i] \in Int
  PROVE  DOMAIN InOrder(items, key) = 1 .. N /\ Range(InOrder(items, key)) = Range(items)
<1> DEFINE r == Rank(N, key)
           at(n) == CHOOSE i \in 1 .. N : r[i] = n
           o == InOrder(items, key)
<1>1. \A n : \A i \in 1 .. N :
        r[i] = n <=>
          Cardinality({j \in 1 .. N : key[j] < key[i] \/ (key[j] = key[i] /\ j <= i)}) = n
  BY DEF Rank, NoLater
<1>2. o = [n \in 1 .. N |-> items[at(n)]]
  <2> DEFINE C(i) == Cardinality({j \in 1 .. N : key[j] < key[i] \/ (key[j] = key[i] /\ j <= i)})
  <2>1. \A n : (CHOOSE i \in 1 .. N : C(i) = n) = at(n)
    <3> HIDE DEF C, r
    <3>1. \A n : \A i \in 1 .. N : r[i] = n <=> C(i) = n
      BY <1>1 DEF C
    <3> QED  BY <3>1, Zenon
  <2>2. o = [n \in 1 .. N |-> items[CHOOSE i \in 1 .. N : C(i) = n]]
    BY DEF InOrder
  <2> DEFINE bt(n) == CHOOSE i \in 1 .. N : C(i) = n
  <2>3. o = [n \in 1 .. N |-> items[bt(n)]]
    BY <2>2
  <2>4. \A n : bt(n) = at(n)
    BY <2>1
  <2> HIDE DEF bt, at, o
  <2> QED  BY <2>3, <2>4
<1> HIDE DEF o, r
<1>3. \A i, j \in 1 .. N : r[i] = r[j] => i = j
  BY RankIsBijection DEF r
<1>4. \A n \in 1 .. N : at(n) \in 1 .. N /\ r[at(n)] = n
  <2>1. \A n \in 1 .. N : \E i \in 1 .. N : r[i] = n
    BY RankIsBijection DEF r
  <2> QED  BY <2>1
<1>5. \A i \in 1 .. N : r[i] \in 1 .. N
  BY RankIsBijection DEF r
<1> HIDE DEF at
<1>6. \A i \in 1 .. N : at(r[i]) = i
  BY <1>3, <1>4, <1>5
<1>7. ASSUME NEW n \in 1 .. N  PROVE o[n] \in Range(items)
  BY <1>2, <1>4 DEF Range
<1>8. ASSUME NEW i \in 1 .. N  PROVE items[i] \in Range(o)
  <2>1. o[r[i]] = items[i] /\ r[i] \in DOMAIN o
    BY <1>2, <1>5, <1>6
  <2> QED  BY <2>1 DEF Range
<1>9. DOMAIN o = 1 .. N
  BY <1>2
<1> QED  BY <1>7, <1>8, <1>9 DEF Range, o

\* Sorting a list by a field permutes it.
LEMMA ListBy ==
  ASSUME NEW items, NEW field, IsListBy(items, field)
  PROVE  /\ Len(items) \in Nat /\ DOMAIN items = 1 .. Len(items)
         /\ DOMAIN sortById(items, field) = 1 .. Len(items)
         /\ Range(sortById(items, field)) = Range(items)
<1> DEFINE N == Len(items)
           key == [i \in DOMAIN items |-> IF Has(items[i], field) THEN items[i][field] ELSE 0]
<1>1. items \in Seq(Range(items))
  BY DEF IsListBy
<1>2. N \in Nat /\ DOMAIN items = 1 .. N
  <2> DEFINE R == Range(items)
  <2>1. items \in Seq(R)
    BY <1>1
  <2> HIDE DEF R
  <2> QED  BY <2>1
<1>3. \A i \in 1 .. N : key[i] \in Int
  BY <1>2 DEF IsListBy
<1>4. sortById(items, field) = InOrder(items, key)
  BY DEF sortById
<1> HIDE DEF key, N
<1>5. /\ DOMAIN InOrder(items, key) = 1 .. N
      /\ Range(InOrder(items, key)) = Range(items)
  BY <1>2, <1>3, InOrderPermutes
<1> QED  BY <1>2, <1>4, <1>5 DEF N

\* Lists that sort to the same have the same items.
LEMMA SameWhenSorted ==
  ASSUME NEW a, NEW b, NEW field, IsListBy(a, field), IsListBy(b, field),
         sortById(a, field) = sortById(b, field)
  PROVE  SameItems(a, b)
<1>1. /\ Len(a) \in Nat /\ Len(b) \in Nat /\ 1 .. Len(a) = 1 .. Len(b)
      /\ Range(a) = Range(b)
  BY ListBy
<1>2. Len(a) = Len(b)
  BY <1>1
<1> QED  BY <1>1, <1>2 DEF SameItems

\* So have lists of identifiers.
LEMMA SameIdsWhenSorted ==
  ASSUME NEW a \in Seq(Int), NEW b \in Seq(Int), SortedIds(a) = SortedIds(b)
  PROVE  SameItems(a, b)
<1>1. ASSUME NEW s \in Seq(Int)
      PROVE  /\ Len(s) \in Nat /\ DOMAIN SortedIds(s) = 1 .. Len(s)
             /\ Range(SortedIds(s)) = Range(s)
  <2>1. Len(s) \in Nat /\ DOMAIN s = 1 .. Len(s) /\ \A i \in 1 .. Len(s) : s[i] \in Int
    OBVIOUS
  <2> QED  BY <2>1, InOrderPermutes DEF SortedIds
<1>2. /\ Len(a) \in Nat /\ Len(b) \in Nat /\ 1 .. Len(a) = 1 .. Len(b)
      /\ Range(a) = Range(b)
  BY <1>1
<1>3. Len(a) = Len(b)
  BY <1>2
<1> QED  BY <1>2, <1>3 DEF SameItems

\* Values that a receipt's hash does not tell apart.
SameValue(f, a, b) ==
  \/ a = b
  \/ f \in SetLists /\ SameItems(a, b)
  \/ f = "possibility_space" /\ SameBut(WorldLists, a, b)
  \/ f = "distillation_watermark_assessment" /\ SameBut(DistillationLists, a, b)

\* What normalizeHashValue does not tell apart.
LEMMA NormalizedSame ==
  ASSUME NEW f, NEW a, NEW b, ListsInField(f, a), ListsInField(f, b),
         normalizeHashValue(f, a) = normalizeHashValue(f, b)
  PROVE  SameValue(f, a, b)
<1> DEFINE Ids == {"selected_world_ids", "unresolved_world_ids"}
           ById == {"world_assessments", "stabilized_claims", "claims", "evidence_relations"}
<1>1. SetLists = Ids \cup ById \cup {"claim_rivalry_history"}
  BY DEF SetLists
<1>2. CASE f \in Ids
  <2>1. normalizeHashValue(f, a) = SortedIds(a) /\ normalizeHashValue(f, b) = SortedIds(b)
    BY <1>2 DEF normalizeHashValue
  <2>2. a \in Seq(Int) /\ b \in Seq(Int)
    BY <1>2 DEF ListsInField
  <2> QED  BY <1>1, <1>2, <2>1, <2>2, SameIdsWhenSorted DEF SameValue
<1>3. CASE f \in ById
  <2>1. normalizeHashValue(f, a) = sortById(a, "id") /\ normalizeHashValue(f, b) = sortById(b, "id")
    BY <1>3 DEF normalizeHashValue
  <2>2. IsListBy(a, "id") /\ IsListBy(b, "id")
    BY <1>1, <1>3 DEF ListsInField
  <2> QED  BY <1>1, <1>3, <2>1, <2>2, SameWhenSorted DEF SameValue
<1>4. CASE f = "claim_rivalry_history"
  <2>1. /\ normalizeHashValue(f, a) = sortById(a, "claim_id")
        /\ normalizeHashValue(f, b) = sortById(b, "claim_id")
    BY <1>4 DEF normalizeHashValue
  <2>2. IsListBy(a, "claim_id") /\ IsListBy(b, "claim_id")
    BY <1>1, <1>4 DEF ListsInField
  <2> QED  BY <1>1, <1>4, <2>1, <2>2, SameWhenSorted DEF SameValue
<1>5. CASE f = "possibility_space"
  <2> DEFINE sorted(v) ==
               [g \in DOMAIN v |-> IF g \in WorldLists THEN sortById(v[g], "id") ELSE v[g]]
  <2>1. sorted(a) = sorted(b)
    BY <1>5 DEF normalizeHashValue, WorldLists
  <2>2. DOMAIN a = DOMAIN b
    BY <2>1
  <2>3. ASSUME NEW g \in DOMAIN a  PROVE a[g] = b[g] \/ (g \in WorldLists /\ SameItems(a[g], b[g]))
    <3>1. sorted(a)[g] = sorted(b)[g]
      BY <2>1
    <3>2. CASE g \in WorldLists
      <4>1. sortById(a[g], "id") = sortById(b[g], "id")
        BY <2>2, <3>1, <3>2
      <4>2. IsListBy(a[g], "id") /\ IsListBy(b[g], "id")
        BY <1>5, <2>2, <3>2 DEF ListsInField
      <4> QED  BY <3>2, <4>1, <4>2, SameWhenSorted
    <3>3. CASE g \notin WorldLists
      BY <2>2, <3>1, <3>3
    <3> QED  BY <3>2, <3>3
  <2> QED  BY <1>5, <2>2, <2>3 DEF SameValue, SameBut
<1>6. CASE f = "distillation_watermark_assessment"
  <2> DEFINE sorted(v) == [v EXCEPT !.sampleHashes = SortedIds(@), !.limitations = SortedIds(@)]
  <2>1. sorted(a) = sorted(b)
    BY <1>6 DEF normalizeHashValue
  <2>2. DOMAIN a = DOMAIN b
    BY <2>1
  <2>3. /\ "sampleHashes" \in DOMAIN a /\ "limitations" \in DOMAIN a
        /\ a.sampleHashes \in Seq(Int) /\ a.limitations \in Seq(Int)
        /\ b.sampleHashes \in Seq(Int) /\ b.limitations \in Seq(Int)
    BY <1>6 DEF ListsInField, DistillationLists, Has
  <2>4. /\ SortedIds(a.sampleHashes) = SortedIds(b.sampleHashes)
        /\ SortedIds(a.limitations) = SortedIds(b.limitations)
    BY <2>1, <2>2, <2>3
  <2>5. SameItems(a.sampleHashes, b.sampleHashes) /\ SameItems(a.limitations, b.limitations)
    BY <2>3, <2>4, SameIdsWhenSorted
  <2>6. ASSUME NEW g \in DOMAIN a, g \notin DistillationLists  PROVE a[g] = b[g]
    BY <2>1, <2>2, <2>6 DEF DistillationLists
  <2>7. \A g \in DistillationLists : SameItems(a[g], b[g])
    BY <2>5 DEF DistillationLists
  <2> QED  BY <1>6, <2>2, <2>6, <2>7 DEF SameValue, SameBut
<1>7. CASE f \notin Ids \cup ById \cup {"claim_rivalry_history", "possibility_space",
                                        "distillation_watermark_assessment"}
  <2>1. normalizeHashValue(f, a) = a /\ normalizeHashValue(f, b) = b
    BY <1>7 DEF normalizeHashValue
  <2> QED  BY <2>1 DEF SameValue
<1> QED  BY <1>2, <1>3, <1>4, <1>5, <1>6, <1>7

\* Equal hashes, equal fields but for the order of lists.
LEMMA HashFixesFields ==
  ASSUME NEW a, NEW b, ListsAreLists(a), ListsAreLists(b),
         computeReceiptHash(a) = computeReceiptHash(b)
  PROVE  /\ HASH_FIELDS \cap DOMAIN a = HASH_FIELDS \cap DOMAIN b
         /\ \A f \in HASH_FIELDS \cap DOMAIN a : SameValue(f, a[f], b[f])
<1> DEFINE x == [f \in HASH_FIELDS \cap DOMAIN a |-> normalizeHashValue(f, a[f])]
           y == [f \in HASH_FIELDS \cap DOMAIN b |-> normalizeHashValue(f, b[f])]
<1>1. x = y
  BY DEF computeReceiptHash, HashOf, normalizeReceiptForHash
<1>2. HASH_FIELDS \cap DOMAIN a = HASH_FIELDS \cap DOMAIN b
  <2>1. DOMAIN x = HASH_FIELDS \cap DOMAIN a /\ DOMAIN y = HASH_FIELDS \cap DOMAIN b
    OBVIOUS
  <2> HIDE DEF x, y
  <2> QED  BY <1>1, <2>1
<1>3. ASSUME NEW f \in HASH_FIELDS \cap DOMAIN a  PROVE SameValue(f, a[f], b[f])
  <2>1. normalizeHashValue(f, a[f]) = normalizeHashValue(f, b[f])
    <3>1. x[f] = normalizeHashValue(f, a[f])
      OBVIOUS
    <3>2. y[f] = normalizeHashValue(f, b[f])
      BY <1>2
    <3> HIDE DEF x, y
    <3> QED  BY <1>1, <3>1, <3>2
  <2>2. ListsInField(f, a[f]) /\ ListsInField(f, b[f])
    BY <1>2 DEF ListsAreLists
  <2> QED  BY <2>1, <2>2, NormalizedSame
<1> QED  BY <1>2, <1>3

-----------------------------------------------------------------------------
(* Building.                                                               *)

CoreFields ==
  {"version", "receipt_version", "task_id", "generated_at", "input_hash", "output_hash",
   "score_bps", "verdict", "worthy", "context_version", "receipt_hash_version", "votes",
   "outliers", "quorum_status", "onchain_anchor", "evidence", "provenance", "explain",
   "verification_context"}

\* How the sets of field names lie to each other.
LEMMA FieldSets ==
  /\ CoreFields \cap CopiedFields = {} /\ "program" \notin CoreFields \cup CopiedFields
  /\ CoreFields \cup CopiedFields \cup {"program"} \subseteq HASH_FIELDS
  /\ HASH_FIELDS \cap (Annotations \cup UnhashedAssessments) = {}
  /\ {"receipt_hash", "receipt_id", "chain_context", "signature"} \subseteq Annotations
  /\ RequiredFieldsOfReceipt \subseteq CoreFields
  /\ V2Fields \subseteq CopiedFields
  /\ {"possibility_space", "metacognitive_assessment", "coherence_assessment",
      "distillation_watermark_assessment"} \subseteq CopiedFields
  /\ SetLists \cup {"possibility_space", "distillation_watermark_assessment"} \subseteq CopiedFields
  /\ VerificationReceipt = HASH_FIELDS \cup Annotations \cup UnhashedAssessments
  BY DEF CoreFields, CopiedFields, HASH_FIELDS, RequiredFieldsOfReceipt, V2Fields, SetLists,
         VerificationReceipt, Annotations, UnhashedAssessments

\* Fields that are not hashed do not matter.
LEMMA SameHash ==
  ASSUME NEW a, NEW b, HASH_FIELDS \cap DOMAIN a = HASH_FIELDS \cap DOMAIN b,
         \A f \in HASH_FIELDS \cap DOMAIN a : a[f] = b[f]
  PROVE  computeReceiptHash(a) = computeReceiptHash(b)
<1> DEFINE F == HASH_FIELDS \cap DOMAIN a
           x == [f \in F |-> normalizeHashValue(f, a[f])]
           y == [f \in F |-> normalizeHashValue(f, b[f])]
<1>1. x = y
  OBVIOUS
<1> HIDE DEF x, y
<1>2. computeReceiptHash(a) = HashOf(x)
  BY DEF computeReceiptHash, normalizeReceiptForHash, x
<1>3. computeReceiptHash(b) = HashOf(y)
  BY DEF computeReceiptHash, normalizeReceiptForHash, y
<1> QED  BY <1>1, <1>2, <1>3

\* What the builder writes into every receipt.
LEMMA CoreOfReceipt ==
  ASSUME NEW p, NEW context, NEW now
  PROVE  LET core == ReceiptCore(p, context, now)
         IN  /\ DOMAIN core = CoreFields
             /\ core.version = "current" /\ core.receipt_version = "current"
             /\ core.generated_at = now /\ core.score_bps = p.score_bps
             /\ core.verdict = (p.score_bps >= 5000)
             /\ core.context_version = ContextVersion(p)
             /\ core.evidence.bundle_uri = p.bundle_uri
             /\ core.verification_context = context
<1> DEFINE core == ReceiptCore(p, context, now)
<1>1. DOMAIN core = CoreFields
  BY DEF ReceiptCore, CoreFields
<1>2. /\ core.version = "current" /\ core.receipt_version = "current"
      /\ core.generated_at = now /\ core.score_bps = p.score_bps
      /\ core.context_version = ContextVersion(p)
      /\ core.verification_context = context
  BY DEF ReceiptCore
<1>3. core.verdict = (p.score_bps >= 5000)
  BY DEF ReceiptCore
<1>4. core.evidence.bundle_uri = p.bundle_uri
  BY DEF ReceiptCore
<1> QED  BY <1>1, <1>2, <1>3, <1>4

\* The receipt buildReceipt makes.
Built(p, now, r) ==
  /\ DOMAIN r = CoreFields \cup (CopiedFields \cap DOMAIN p) \cup ({"program"} \cap DOMAIN p)
                 \cup {"receipt_hash", "receipt_id"}
  /\ \A f \in CopiedFields \cap DOMAIN p : r[f] = p[f]
  /\ r.receipt_hash = computeReceiptHash(r)
  /\ r.version = "current" /\ r.receipt_version = "current"
  /\ r.generated_at = now /\ r.score_bps = p.score_bps /\ r.verdict = (p.score_bps >= 5000)
  /\ r.context_version = ContextVersion(p) /\ r.evidence.bundle_uri = p.bundle_uri
  /\ contextValidationErrors(r.verification_context) = {}

\* A receipt that buildReceipt does not refuse has its core, what it copies, and its hash.
LEMMA BuiltReceipt ==
  ASSUME NEW p, NEW now, NEW r, r = buildReceipt(p, now), r # Refused
  PROVE  Built(p, now, r)
<1> DEFINE context == IF Has(p, "verification_context") THEN p.verification_context
                      ELSE DefaultContext(p)
           core == ReceiptCore(p, context, now)
           picked == Pick(p, CopiedFields)
           prog == [f \in {"program"} \cap DOMAIN p |-> p.program.id]
           rest == Over(picked, prog)
           base == Over(core, rest)
           hash == computeReceiptHash(base)
           stamp == [receipt_hash |-> hash, receipt_id |-> hash]
<1>1. contextValidationErrors(context) = {} /\ r = Over(base, stamp)
  BY DEF buildReceipt
<1> HIDE DEF context
<1>2. /\ DOMAIN core = CoreFields
      /\ core.version = "current" /\ core.receipt_version = "current"
      /\ core.generated_at = now /\ core.score_bps = p.score_bps
      /\ core.verdict = (p.score_bps >= 5000)
      /\ core.context_version = ContextVersion(p)
      /\ core.evidence.bundle_uri = p.bundle_uri
      /\ core.verification_context = context
  BY CoreOfReceipt
<1> HIDE DEF core
<1>3. /\ DOMAIN picked = CopiedFields \cap DOMAIN p
      /\ \A f \in CopiedFields \cap DOMAIN p : picked[f] = p[f]
      /\ DOMAIN prog = {"program"} \cap DOMAIN p
  BY DEF Pick
<1> HIDE DEF picked, prog
<1>4. /\ DOMAIN rest = (CopiedFields \cap DOMAIN p) \cup ({"program"} \cap DOMAIN p)
      /\ \A f \in CopiedFields \cap DOMAIN p : rest[f] = p[f]
  BY <1>3 DEF Over
<1> HIDE DEF rest
<1>5. /\ DOMAIN base = CoreFields \cup (CopiedFields \cap DOMAIN p) \cup ({"program"} \cap DOMAIN p)
      /\ \A f \in CoreFields : base[f] = core[f]
      /\ \A f \in CopiedFields \cap DOMAIN p : base[f] = p[f]
  <2>1. \A f \in CopiedFields \cap DOMAIN p : f \in DOMAIN rest \ DOMAIN core
    BY <1>2, <1>4, FieldSets
  <2>2. base = Over(core, rest)
    OBVIOUS
  <2> HIDE DEF base
  <2>3. /\ DOMAIN base = DOMAIN core \cup DOMAIN rest
        /\ \A f \in DOMAIN core : base[f] = core[f]
        /\ \A f \in DOMAIN rest \ DOMAIN core : base[f] = rest[f]
    BY <2>2 DEF Over
  <2>4. \A f \in CopiedFields \cap DOMAIN p : base[f] = rest[f]
    BY <2>1, <2>3
  <2> QED  BY <1>2, <1>4, <2>3, <2>4
<1>6. DOMAIN stamp = {"receipt_hash", "receipt_id"} /\ stamp.receipt_hash = hash
  OBVIOUS
<1> HIDE DEF base, stamp
<1>7. DOMAIN base \subseteq HASH_FIELDS /\ DOMAIN base \cap DOMAIN stamp = {}
  BY <1>5, <1>6, FieldSets
<1>8. /\ DOMAIN r = DOMAIN base \cup {"receipt_hash", "receipt_id"}
      /\ \A f \in DOMAIN base : r[f] = base[f]
      /\ r.receipt_hash = hash
  <2>1. "receipt_hash" \in DOMAIN stamp \ DOMAIN base
    BY <1>6, <1>7
  <2>2. /\ DOMAIN r = DOMAIN base \cup DOMAIN stamp
        /\ \A f \in DOMAIN base : r[f] = base[f]
        /\ \A f \in DOMAIN stamp \ DOMAIN base : r[f] = stamp[f]
    BY <1>1 DEF Over
  <2>3. r["receipt_hash"] = stamp["receipt_hash"]
    BY <2>1, <2>2
  <2> QED  BY <2>2, <2>3, <1>6
<1>9. computeReceiptHash(r) = hash
  <2>1. HASH_FIELDS \cap DOMAIN r = HASH_FIELDS \cap DOMAIN base
    BY <1>8, FieldSets
  <2> QED  BY <2>1, <1>8, SameHash
<1>10. /\ DOMAIN r = CoreFields \cup (CopiedFields \cap DOMAIN p) \cup ({"program"} \cap DOMAIN p)
                     \cup {"receipt_hash", "receipt_id"}
       /\ \A f \in CopiedFields \cap DOMAIN p : r[f] = p[f]
       /\ \A f \in CoreFields : r[f] = core[f]
  BY <1>5, <1>8
<1>11. /\ r.version = core.version /\ r.receipt_version = core.receipt_version
       /\ r.generated_at = core.generated_at /\ r.score_bps = core.score_bps
       /\ r.verdict = core.verdict /\ r.context_version = core.context_version
       /\ r.evidence = core.evidence /\ r.verification_context = core.verification_context
  BY <1>10 DEF CoreFields
<1> HIDE DEF hash
<1> QED  BY <1>1, <1>2, <1>8, <1>9, <1>10, <1>11 DEF Built

-----------------------------------------------------------------------------
(* Validating.                                                             *)

\* The validator's way to say that a score is one.
LEMMA ScoreRange ==
  \A s \in Int : IsScore(s) <=> ~(s < 0 \/ s > 10000)
  BY DEF IsScore

\* Validator against builder: each of the validator's checks in turn.
LEMMA BuiltIsValid ==
  ASSUME NEW p \in Params, NEW now \in {1, 100}, NEW r, Built(p, now, r)
  PROVE  isVerificationReceipt(r) <=> CallerWasRight(p)
<1> DEFINE requiredFields == {"task_id", "generated_at", "input_hash", "output_hash", "verdict",
                              "worthy", "evidence", "provenance"}
           d == r.distillation_watermark_assessment
           S1 == {f \in {"receipt_version"} : r.receipt_version \notin {"current", "1.0"}}
           S2 == {f \in requiredFields : ~Has(r, f)}
           S3 == {f \in {"generated_at"} : Has(r, f) /\ r.generated_at <= 0}
           S4 == {f \in {"score_bps"} : ~Has(r, f) \/ r.score_bps < 0 \/ r.score_bps > 10000}
           S5 == {f \in {"bundle_uri"} : Has(r, "evidence") /\ r.evidence.bundle_uri = ""}
           S6 == {f \in {"distillation_watermark_assessment"} : Has(r, f) /\
                    (d.detected # (d.status = "signal_detected") \/ d.limitations = <<>>)}
           L1 == {f \in {"version"} : ~Has(r, f) \/ r.version # "current"}
           L2 == {f \in {"explain"} : ~Has(r, f)}
           L3 == {f \in {"context_version"} : r[f] \notin ContextVersions}
           L4 == IF r.context_version \notin ContextVersions THEN {}
                 ELSE IF Has(r, "verification_context")
                 THEN contextValidationErrors(r.verification_context)
                 ELSE {"verification_context"}
           L5 == {f \in V2Fields : r.context_version = "context-v2" /\ ~Has(r, f)}
           L6 == {f \in {"metacognitive_assessment"} :
                    r.context_version = "context-v3" /\ ~Has(r, f)}
           L7 == {f \in {"coherence_assessment"} : Has(r, f) /\ ~(r[f] >= 0 /\ r[f] <= 1)}
           legacy == \/ r.receipt_version = "1.0" \/ ~Has(r, "context_version")
                     \/ r.context_version = "legacy"
<1>1. validateReceipt(r) = S1 \cup S2 \cup S3 \cup S4 \cup S5 \cup S6
        \cup (IF legacy THEN {} ELSE L1 \cup L2 \cup L3 \cup L4 \cup L5 \cup L6 \cup L7)
  BY DEF validateReceipt
<1>2. CoreFields \subseteq DOMAIN r
      /\ \A f \in CopiedFields : (Has(r, f) <=> Has(p, f)) /\ (Has(p, f) => r[f] = p[f])
  <2>1. \A f \in CopiedFields : f \notin CoreFields \cup {"program", "receipt_hash", "receipt_id"}
    BY FieldSets
  <2> QED  BY <2>1 DEF Built, Has
<1>3. ContextVersion(p) \in ContextVersions /\ ContextVersion(p) # "legacy"
  BY DEF ContextVersion, ContextVersions
<1>4. ~legacy
  <2>1. r.receipt_version = "current" /\ r.context_version = ContextVersion(p)
    BY DEF Built
  <2>2. Has(r, "context_version")
    BY <1>2 DEF Has, CoreFields
  <2> QED  BY <2>1, <2>2, <1>3
<1>5. S1 = {} /\ S2 = {} /\ S3 = {} /\ L1 = {} /\ L2 = {} /\ L3 = {}
  <2>1. S1 = {}
    BY DEF Built
  <2>2. S2 = {} /\ L2 = {}
    BY <1>2 DEF Has, CoreFields
  <2>3. S3 = {}
    BY DEF Built
  <2>4. L1 = {}
    <3>1. Has(r, "version") /\ r.version = "current"
      BY <1>2 DEF Has, CoreFields, Built
    <3> QED  BY <3>1
  <2>5. L3 = {}
    BY <1>3 DEF Built
  <2> QED  BY <2>1, <2>2, <2>3, <2>4, <2>5
<1>6. L4 = {}
  <2>1. Has(r, "verification_context")
    BY <1>2 DEF Has, CoreFields
  <2> QED  BY <2>1, <1>3 DEF Built
<1>7. S4 = {} <=> IsScore(p.score_bps)
  <2>1. Has(r, "score_bps") /\ r.score_bps = p.score_bps
    BY <1>2 DEF Has, CoreFields, Built
  <2>2. p.score_bps \in Int
    BY ParamsAssumption
  <2>3. S4 = {} <=> ~(p.score_bps < 0 \/ p.score_bps > 10000)
    BY <2>1
  <2> QED  BY <2>2, <2>3, ScoreRange
<1>8. S5 = {} <=> p.bundle_uri # ""
  <2>1. Has(r, "evidence") /\ r.evidence.bundle_uri = p.bundle_uri
    BY <1>2 DEF Has, CoreFields, Built
  <2> QED  BY <2>1
<1>9. S6 = {} <=>
        LET a == p.distillation_watermark_assessment
        IN  Has(p, "distillation_watermark_assessment") =>
              a.detected = (a.status = "signal_detected") /\ a.limitations # <<>>
  <2> DEFINE f == "distillation_watermark_assessment"
  <2>1. (Has(r, f) <=> Has(p, f)) /\ (Has(p, f) => r[f] = p[f])
    BY <1>2, FieldSets
  <2>2. S6 = {} <=>
          (Has(r, f) => ~(d.detected # (d.status = "signal_detected") \/ d.limitations = <<>>))
    OBVIOUS
  <2> QED  BY <2>1, <2>2
<1>10. L5 = {} <=> (ContextVersion(p) = "context-v2" => V2Fields \subseteq DOMAIN p)
  <2>1. r.context_version = ContextVersion(p)
    BY DEF Built
  <2>2. \A f \in V2Fields : Has(r, f) <=> f \in DOMAIN p
    BY <1>2, FieldSets DEF Has
  <2> QED  BY <2>1, <2>2
<1>11. ContextVersion(p) = "context-v2" <=>
         Has(p, "possibility_space") /\ ~Has(p, "metacognitive_assessment")
  BY DEF ContextVersion
<1>12. L6 = {}
  <2>1. r.context_version = ContextVersion(p)
    BY DEF Built
  <2>2. ContextVersion(p) = "context-v3" => Has(p, "metacognitive_assessment")
    BY DEF ContextVersion
  <2>3. Has(r, "metacognitive_assessment") <=> Has(p, "metacognitive_assessment")
    BY <1>2, FieldSets
  <2> QED  BY <2>1, <2>2, <2>3
<1>13. L7 = {} <=> (Has(p, "coherence_assessment") =>
                      p.coherence_assessment >= 0 /\ p.coherence_assessment <= 1)
  <2> DEFINE f == "coherence_assessment"
  <2>1. (Has(r, f) <=> Has(p, f)) /\ (Has(p, f) => r[f] = p[f])
    BY <1>2, FieldSets
  <2> QED  BY <2>1
<1>14. isVerificationReceipt(r) <=>
         S4 = {} /\ S5 = {} /\ S6 = {} /\ L5 = {} /\ L7 = {}
  <2> HIDE DEF S1, S2, S3, S4, S5, S6, L1, L2, L3, L4, L5, L6, L7, legacy
  <2>1. validateReceipt(r) = S4 \cup S5 \cup S6 \cup L5 \cup L7
    BY <1>1, <1>4, <1>5, <1>6, <1>12
  <2> QED  BY <2>1 DEF isVerificationReceipt
<1> HIDE DEF S4, S5, S6, L5, L7
<1> DEFINE v2 == Has(p, "possibility_space") /\ ~Has(p, "metacognitive_assessment")
           inRange == IsScore(p.score_bps)
           whole == V2Fields \subseteq DOMAIN p
           located == p.bundle_uri # ""
           coherent == Has(p, "coherence_assessment") =>
                         p.coherence_assessment >= 0 /\ p.coherence_assessment <= 1
           distilled == LET a == p.distillation_watermark_assessment
                        IN  Has(p, "distillation_watermark_assessment") =>
                              a.detected = (a.status = "signal_detected") /\ a.limitations # <<>>
           valid == isVerificationReceipt(r)
<1>15. L5 = {} <=> (v2 => whole)
  <2> HIDE DEF whole
  <2> QED  BY <1>10, <1>11 DEF whole
<1>16. valid <=> (inRange /\ located /\ coherent /\ distilled /\ (v2 => whole))
  <2> HIDE DEF v2, inRange, whole, located, coherent, distilled, valid
  <2> QED  BY <1>7, <1>8, <1>9, <1>13, <1>14, <1>15
           DEF inRange, located, coherent, distilled, valid
<1> QED  BY <1>16, Zenon DEF CallerWasRight

-----------------------------------------------------------------------------
(* The exchange of assessments.                                            *)

\* What holds of every receipt that was issued, of old or now.
IssuedAssessment(i) ==
  /\ RequiredFieldsOfReceipt \subseteq DOMAIN i.doc /\ DOMAIN i.doc \subseteq VerificationReceipt
  /\ i.doc.receipt_hash = computeReceiptHash(i.doc)
  /\ i.doc.score_bps \in Int /\ i.doc.generated_at \in Int
  /\ i.doc.verdict = (i.doc.score_bps >= 5000)
  /\ ListsAreLists(i.doc)
  /\ i \notin OldReceipts => (isVerificationReceipt(i.doc) <=> CallerWasRight(i.params))

AssessmentShape(doc) == DOMAIN doc \subseteq VerificationReceipt /\ ListsAreLists(doc)

AssessmentInv ==
  /\ \A i \in issued : IssuedAssessment(i)
  /\ copy # None => AssessmentShape(copy)
  /\ \A e \in chain : e.timestamp \in Int

\* The lists of a built receipt are those it was called with.
LEMMA BuiltLists ==
  ASSUME NEW p \in Params, NEW now, NEW r, Built(p, now, r)
  PROVE  ListsAreLists(r)
<1> SUFFICES ASSUME NEW f \in DOMAIN r  PROVE ListsInField(f, r[f])  BY DEF ListsAreLists
<1>1. CASE f \in CopiedFields
  <2>1. f \notin CoreFields \cup {"program", "receipt_hash", "receipt_id"}
    BY <1>1, FieldSets
  <2>2. f \in DOMAIN p /\ r[f] = p[f]
    BY <1>1, <2>1 DEF Built
  <2> QED  BY <2>2, ParamsAssumption DEF ListsAreLists
<1>2. CASE f \notin CopiedFields
  <2>1. /\ f \notin SetLists /\ f # "possibility_space" /\ f # "distillation_watermark_assessment"
        /\ f # "selected_world_ids" /\ f # "unresolved_world_ids"
    BY <1>2, FieldSets DEF SetLists
  <2> QED  BY <2>1 DEF ListsInField
<1> QED  BY <1>1, <1>2

\* A receipt more.
LEMMA BuildKeeps ==
  ASSUME AssessmentInv, NEW p \in Params, NEW now \in {1, 100}, buildAssessment(p, now)
  PROVE  AssessmentInv'
<1> DEFINE r == buildReceipt(p, now)
           new == [params |-> p, doc |-> r]
<1>1. r # Refused /\ issued' = issued \cup {new} /\ copy' = copy /\ chain' = chain
  BY DEF buildAssessment
<1>2. Built(p, now, r)
  BY <1>1, BuiltReceipt
<1>3. ListsAreLists(r)
  BY <1>2, BuiltLists
<1>4. isVerificationReceipt(r) <=> CallerWasRight(p)
  BY <1>2, BuiltIsValid
<1> HIDE DEF r
<1>5. RequiredFieldsOfReceipt \subseteq DOMAIN r /\ DOMAIN r \subseteq VerificationReceipt
  BY <1>2, FieldSets DEF Built
<1>6. /\ r.score_bps \in Int /\ r.generated_at \in Int /\ r.verdict = (r.score_bps >= 5000)
      /\ r.receipt_hash = computeReceiptHash(r)
  <2>1. p.score_bps \in Int
    BY ParamsAssumption
  <2>2. r.score_bps = p.score_bps /\ r.generated_at = now /\ r.verdict = (p.score_bps >= 5000)
        /\ r.receipt_hash = computeReceiptHash(r)
    BY <1>2 DEF Built
  <2> QED  BY <2>1, <2>2
<1>7. new.doc = r /\ new.params = p
  OBVIOUS
<1> HIDE DEF new
<1>8. IssuedAssessment(new)
  BY <1>3, <1>4, <1>5, <1>6, <1>7 DEF IssuedAssessment
<1> QED  BY <1>1, <1>8 DEF AssessmentInv

\* The task is resolved on chain.
LEMMA ResolvedKeeps ==
  ASSUME AssessmentInv, NEW p, NEW score, NEW at \in {1, 100}, taskResolved(p, score, at)
  PROVE  AssessmentInv'
<1>1. issued' = issued /\ copy' = copy /\ \A e \in chain' : e.timestamp = at
  BY DEF taskResolved
<1>2. at \in Int
  OBVIOUS
<1> QED  BY <1>1, <1>2 DEF AssessmentInv

\* A change of the copy only.
LEMMA CopyChange ==
  ASSUME AssessmentInv, issued' = issued, chain' = chain, AssessmentShape(copy')
  PROVE  AssessmentInv'
  BY DEF AssessmentInv

\* Writing something that is no list over the copy.
LEMMA WrittenOver ==
  ASSUME NEW a, NEW b, AssessmentShape(b), DOMAIN a \subseteq VerificationReceipt,
         \A f \in DOMAIN a : ListsInField(f, a[f])
  PROVE  AssessmentShape(Over(a, b))
<1> DEFINE c == Over(a, b)
<1>1. /\ DOMAIN c = DOMAIN a \cup DOMAIN b
      /\ \A f \in DOMAIN a : c[f] = a[f] /\ \A g \in DOMAIN b \ DOMAIN a : c[g] = b[g]
  BY DEF Over
<1>2. \A f \in DOMAIN b \ DOMAIN a : c[f] = b[f]
  BY DEF Over
<1> HIDE DEF c
<1>3. \A f \in DOMAIN c : ListsInField(f, c[f])
  BY <1>1, <1>2 DEF AssessmentShape, ListsAreLists
<1> QED  BY <1>1, <1>3 DEF AssessmentShape, ListsAreLists, c

\* What is written on a copy: no field that is a list.
NoLists ==
  {"chain_context", "signature", "context_version", "zk_proof"} \cup UnhashedAssessments

\* These may be written on any receipt.
LEMMA NoListFields ==
  ASSUME NEW f \in NoLists, NEW v
  PROVE  f \in VerificationReceipt /\ ListsInField(f, v)
  BY DEF NoLists, ListsInField, SetLists, VerificationReceipt, HASH_FIELDS, Annotations,
         UnhashedAssessments

\* The chain context, a signature, an optional part or the normalised version is written on
\* the copy.
LEMMA AnnotatedKeeps ==
  ASSUME AssessmentInv,
         chainContextAttached \/ signatureAttached \/ optionalPartAttached \/ receiptNormalized
  PROVE  AssessmentInv'
<1>1. issued' = issued /\ chain' = chain /\ copy # None
  BY DEF chainContextAttached, signatureAttached, optionalPartAttached, receiptNormalized,
         MayChange
<1>2. AssessmentShape(copy)
  BY <1>1 DEF AssessmentInv
<1>3. ASSUME NEW f \in NoLists, NEW v,
             NEW a, a = [g \in {f} |-> v], copy' = Over(a, copy)
      PROVE  AssessmentInv'
  <2>1. DOMAIN a \subseteq VerificationReceipt /\ \A g \in DOMAIN a : ListsInField(g, a[g])
    BY <1>3, NoListFields
  <2>2. AssessmentShape(copy')
    BY <2>1, <1>2, <1>3, WrittenOver
  <2> QED  BY <2>2, <1>1, CopyChange
<1>a. CASE chainContextAttached
  <2>1. PICK e \in chain : copy' = Over([chain_context |-> buildChainContext(e)], copy)
    BY <1>a DEF chainContextAttached, Copied, attachChainContext
  <2>2. [chain_context |-> buildChainContext(e)] =
          [g \in {"chain_context"} |-> buildChainContext(e)]
    OBVIOUS
  <2>3. "chain_context" \in NoLists
    BY DEF NoLists
  <2> QED  BY <1>3, <2>1, <2>2, <2>3
<1>b. CASE signatureAttached
  <2>1. copy' = Over([signature |-> "signed"], copy)
    BY <1>b DEF signatureAttached, Copied, attachSignature
  <2>2. [signature |-> "signed"] = [g \in {"signature"} |-> "signed"]
    OBVIOUS
  <2>3. "signature" \in NoLists
    BY DEF NoLists
  <2> QED  BY <1>3, <2>1, <2>2, <2>3
<1>c. CASE optionalPartAttached
  <2>1. PICK f \in UnhashedAssessments \cup {"zk_proof"} :
          copy' = Over([g \in {f} |-> "added"], copy)
    BY <1>c DEF optionalPartAttached, Copied
  <2>2. f \in NoLists
    BY DEF NoLists
  <2> QED  BY <1>3, <2>1, <2>2
<1>d. CASE receiptNormalized
  <2>1. copy' = copy \/ copy' = Over([context_version |-> "legacy"], copy)
    BY <1>d DEF receiptNormalized, Copied, normalizeReceipt
  <2>2. [context_version |-> "legacy"] = [g \in {"context_version"} |-> "legacy"]
    OBVIOUS
  <2>3. CASE copy' = copy
    BY <2>3, <1>1, <1>2, CopyChange
  <2>4. CASE copy' = Over([context_version |-> "legacy"], copy)
    <3>1. "context_version" \in NoLists
      BY DEF NoLists
    <3> QED  BY <3>1, <2>4, <2>2, <1>3
  <2> QED  BY <2>1, <2>3, <2>4
<1> QED  BY <1>a, <1>b, <1>c, <1>d

\* A list read from its end is a list of the same items.
LEMMA ReversedList ==
  ASSUME NEW S, NEW s \in Seq(S)
  PROVE  /\ Reverse(s) \in Seq(S)
         /\ \A i \in DOMAIN Reverse(s) : \E j \in DOMAIN s : Reverse(s)[i] = s[j]
<1> DEFINE r == Reverse(s)
<1>1. r = [i \in 1 .. Len(s) |-> s[(Len(s) - i) + 1]]
  BY DEF Reverse
<1>2. \A i \in 1 .. Len(s) : (Len(s) - i) + 1 \in DOMAIN s
  OBVIOUS
<1> HIDE DEF r
<1>3. \A i \in 1 .. Len(s) : r[i] \in S
  BY <1>1, <1>2
<1>4. r \in Seq(S)
  <2>1. Len(s) \in Nat /\ r \in [1 .. Len(s) -> S]
    BY <1>1, <1>3
  <2> QED  BY <2>1
<1> QED  BY <1>1, <1>2, <1>4 DEF r

\* A reversed list of a receipt is still such a list.
LEMMA ReversedField ==
  ASSUME NEW f \in SetLists, NEW v, ListsInField(f, v)
  PROVE  ListsInField(f, Reverse(v))
<1>1. f # "possibility_space" /\ f # "distillation_watermark_assessment"
  BY DEF SetLists
<1>2. CASE f \in {"selected_world_ids", "unresolved_world_ids"}
  <2>1. v \in Seq(Int)
    BY <1>2 DEF ListsInField
  <2>2. Reverse(v) \in Seq(Int)
    BY <2>1, ReversedList
  <2> QED  BY <1>1, <1>2, <2>2 DEF ListsInField
<1>3. CASE f \notin {"selected_world_ids", "unresolved_world_ids"}
  <2> DEFINE key == IF f = "claim_rivalry_history" THEN "claim_id" ELSE "id"
             R == Range(v)
             r == Reverse(v)
  <2>1. IsListBy(v, key)
    BY <1>3 DEF ListsInField
  <2> HIDE DEF key
  <2>2. v \in Seq(R) /\ \A i \in DOMAIN v : Has(v[i], key) => v[i][key] \in Int
    BY <2>1 DEF IsListBy
  <2> HIDE DEF R
  <2>3. /\ r \in Seq(R)
        /\ \A i \in DOMAIN r : \E j \in DOMAIN v : r[i] = v[j]
    BY <2>2, ReversedList
  <2> HIDE DEF r
  <2>4. \A i \in DOMAIN r : Has(r[i], key) => r[i][key] \in Int
    BY <2>2, <2>3
  <2>5. r \in Seq(Range(r))
    <3>1. Len(r) \in Nat /\ DOMAIN r = 1 .. Len(r) /\ r = [i \in 1 .. Len(r) |-> r[i]]
      BY <2>3
    <3>2. \A i \in DOMAIN r : r[i] \in Range(r)
      BY DEF Range
    <3> DEFINE Q == Range(r)
    <3> HIDE DEF Q
    <3>3. r \in [1 .. Len(r) -> Q]
      BY <3>1, <3>2 DEF Q
    <3>4. r \in Seq(Q)
      BY <3>1, <3>3
    <3> QED  BY <3>4 DEF Q
  <2>6. IsListBy(r, key)
    BY <2>4, <2>5 DEF IsListBy
  <2> QED  BY <1>1, <1>3, <2>6 DEF ListsInField, key, r
<1> QED  BY <1>2, <1>3

\* A list of the copy is reordered.
LEMMA ReorderedKeeps ==
  ASSUME AssessmentInv, listReordered
  PROVE  AssessmentInv'
<1>1. issued' = issued /\ chain' = chain /\ copy # None
  BY DEF listReordered, MayChange
<1>2. AssessmentShape(copy)
  BY <1>1 DEF AssessmentInv
<1>3. PICK f \in SetLists \cap DOMAIN copy : copy' = [copy EXCEPT ![f] = Reverse(@)]
  BY DEF listReordered, Copied
<1>4. /\ DOMAIN copy' = DOMAIN copy /\ copy'[f] = Reverse(copy[f])
      /\ \A g \in DOMAIN copy \ {f} : copy'[g] = copy[g]
  BY <1>3
<1>5. \A g \in DOMAIN copy : ListsInField(g, copy[g])
  BY <1>2 DEF AssessmentShape, ListsAreLists
<1>6. ListsInField(f, copy'[f])
  BY <1>4, <1>5, ReversedField
<1>7. AssessmentShape(copy')
  BY <1>2, <1>4, <1>5, <1>6 DEF AssessmentShape, ListsAreLists
<1> QED  BY <1>1, <1>7, CopyChange

\* A field of the copy is taken from an issued receipt, or left out.
LEMMA MixedUpKeeps ==
  ASSUME AssessmentInv, fieldMixedUp
  PROVE  AssessmentInv'
<1>1. issued' = issued /\ chain' = chain /\ copy # None
  BY DEF fieldMixedUp, MayChange
<1>2. AssessmentShape(copy)
  BY <1>1 DEF AssessmentInv
<1>3. PICK i \in issued :
        \/ \E f \in DOMAIN i.doc : Copied(Over([g \in {f} |-> i.doc[f]], copy))
        \/ \E f \in DOMAIN copy \ DOMAIN i.doc : Copied([g \in DOMAIN copy \ {f} |-> copy[g]])
  BY DEF fieldMixedUp
<1>a. CASE \E f \in DOMAIN i.doc : Copied(Over([g \in {f} |-> i.doc[f]], copy))
  <2>1. PICK f \in DOMAIN i.doc : copy' = Over([g \in {f} |-> i.doc[f]], copy)
    BY <1>a DEF Copied
  <2> DEFINE a == [g \in {f} |-> i.doc[f]]
  <2>2. f \in VerificationReceipt /\ ListsInField(f, i.doc[f])
    BY DEF AssessmentInv, IssuedAssessment, ListsAreLists
  <2>3. DOMAIN a \subseteq VerificationReceipt /\ \A g \in DOMAIN a : ListsInField(g, a[g])
    BY <2>2
  <2>4. copy' = Over(a, copy)
    BY <2>1
  <2> HIDE DEF a
  <2>5. AssessmentShape(copy')
    BY <1>2, <2>3, <2>4, WrittenOver
  <2> QED  BY <1>1, <2>5, CopyChange
<1>b. CASE \E f \in DOMAIN copy \ DOMAIN i.doc : Copied([g \in DOMAIN copy \ {f} |-> copy[g]])
  <2>1. PICK f : copy' = [g \in DOMAIN copy \ {f} |-> copy[g]]
    BY <1>b DEF Copied
  <2>2. DOMAIN copy' \subseteq DOMAIN copy /\ \A g \in DOMAIN copy' : copy'[g] = copy[g]
    BY <2>1
  <2>3. AssessmentShape(copy')
    BY <1>2, <2>2 DEF AssessmentShape, ListsAreLists
  <2> QED  BY <1>1, <2>3, CopyChange
<1> QED  BY <1>3, <1>a, <1>b

-----------------------------------------------------------------------------

\* What performFullVerification has checked when it finds nothing.
LEMMA FullyVerified ==
  ASSUME NEW r, NEW e, performFullVerification(r, e, {e}, <<>>) = {}
  PROVE  /\ r.score_bps = e.finalScoreBps /\ r.evidence.bundle_hash = e.bundleHash
         /\ ~(r.generated_at > e.timestamp + ToleranceSeconds)
<1>1. verifyReceiptAgainstEvents(r, e, {e}) = {}
  <2> DEFINE V == verifyReceiptAgainstEvents(r, e, {e})
  <2>1. V \subseteq performFullVerification(r, e, {e}, <<>>)
    BY DEF performFullVerification
  <2> HIDE DEF V
  <2> QED  BY <2>1 DEF V
<1>2. /\ "score" \notin verifyReceiptAgainstEvents(r, e, {e})
      /\ "bundle" \notin verifyReceiptAgainstEvents(r, e, {e})
      /\ "time" \notin verifyReceiptAgainstEvents(r, e, {e})
  BY <1>1
<1> QED  BY <1>2 DEF verifyReceiptAgainstEvents

\* An issued receipt carries its own hash, and equal hashes mean equal fields.
LEMMA HashFixesIt ==
  ASSUME AssessmentInv
  PROVE  HashFixesTheAssessment
<1> SUFFICES ASSUME copy # None, NEW i \in issued, verifyReceiptHash(copy, i.doc.receipt_hash),
                    NEW f \in (DOMAIN copy \cup DOMAIN i.doc)
                               \ (Annotations \cup UnhashedAssessments)
             PROVE  SameUpToOrder(copy, i.doc, f)
  BY DEF HashFixesTheAssessment
<1>1. AssessmentShape(copy) /\ IssuedAssessment(i)
  BY DEF AssessmentInv
<1>2. computeReceiptHash(copy) = computeReceiptHash(i.doc)
  BY <1>1 DEF verifyReceiptHash, IssuedAssessment
<1>3. f \in HASH_FIELDS
  BY <1>1, FieldSets DEF AssessmentShape, IssuedAssessment
<1>4. HASH_FIELDS \cap DOMAIN copy = HASH_FIELDS \cap DOMAIN i.doc
      /\ \A g \in HASH_FIELDS \cap DOMAIN copy : SameValue(g, copy[g], i.doc[g])
  BY <1>1, <1>2, HashFixesFields DEF AssessmentShape, IssuedAssessment
<1>5. f \in DOMAIN copy /\ f \in DOMAIN i.doc
  BY <1>3, <1>4
<1>6. SameValue(f, copy[f], i.doc[f])
  BY <1>3, <1>4, <1>5
<1> QED  BY <1>5, <1>6 DEF SameUpToOrder, SameValue, Has

\* The hash fixes the score, the full verification compares it with the chain.
LEMMA VerdictFollows ==
  ASSUME AssessmentInv
  PROVE  VerdictFollowsTheChain
<1> SUFFICES ASSUME copy # None, NEW i \in issued, NEW e \in chain,
                    verifyReceiptHashMatches(i.doc.receipt_hash, copy),
                    performFullVerification(copy, e, {e}, <<>>) = {}
             PROVE  /\ copy.verdict = (e.finalScoreBps >= 5000)
                    /\ i.doc.generated_at <= e.timestamp + ToleranceSeconds
                    /\ i.doc.evidence.bundle_hash = e.bundleHash
  BY DEF VerdictFollowsTheChain
<1>1. AssessmentShape(copy) /\ IssuedAssessment(i) /\ e.timestamp \in Int
  BY DEF AssessmentInv
<1>2. computeReceiptHash(copy) = computeReceiptHash(i.doc)
  BY <1>1 DEF verifyReceiptHashMatches, verifyReceiptHash, IssuedAssessment
<1>3. /\ HASH_FIELDS \cap DOMAIN copy = HASH_FIELDS \cap DOMAIN i.doc
      /\ \A g \in HASH_FIELDS \cap DOMAIN copy : SameValue(g, copy[g], i.doc[g])
  BY <1>1, <1>2, HashFixesFields DEF AssessmentShape, IssuedAssessment
<1>4. ASSUME NEW f \in {"verdict", "score_bps", "generated_at", "evidence"}
      PROVE  copy[f] = i.doc[f]
  <2>1. f \in RequiredFieldsOfReceipt /\ f \in HASH_FIELDS
    BY DEF RequiredFieldsOfReceipt, HASH_FIELDS
  <2>2. f \in DOMAIN i.doc
    BY <1>1, <2>1 DEF IssuedAssessment
  <2>3. SameValue(f, copy[f], i.doc[f])
    BY <1>3, <2>1, <2>2
  <2> QED  BY <2>3 DEF SameValue, SetLists
<1>5. /\ copy.verdict = i.doc.verdict /\ copy.score_bps = i.doc.score_bps
      /\ copy.generated_at = i.doc.generated_at /\ copy.evidence = i.doc.evidence
  BY <1>4
<1>6. /\ copy.score_bps = e.finalScoreBps /\ copy.evidence.bundle_hash = e.bundleHash
      /\ ~(copy.generated_at > e.timestamp + ToleranceSeconds)
  BY FullyVerified
<1>7. copy.verdict = (e.finalScoreBps >= 5000)
  <2>1. i.doc.verdict = (i.doc.score_bps >= 5000)
    BY <1>1 DEF IssuedAssessment
  <2> QED  BY <2>1, <1>5, <1>6
<1>8. i.doc.generated_at <= e.timestamp + ToleranceSeconds
  <2>1. i.doc.generated_at \in Int /\ ~(i.doc.generated_at > e.timestamp + ToleranceSeconds)
    BY <1>1, <1>5, <1>6 DEF IssuedAssessment
  <2>2. e.timestamp + ToleranceSeconds \in Int
    BY <1>1 DEF ToleranceSeconds
  <2> QED  BY <2>1, <2>2
<1> QED  BY <1>5, <1>6, <1>7, <1>8

\* All that is left of IssuedReceiptsAreValid is the type invariant.
LEMMA IssuedAreValid ==
  ASSUME format = "assessment" => AssessmentInv
  PROVE  IssuedReceiptsAreValid
<1>1. ReceiptTypeOK
  BY DEF ReceiptTypeOK, AssessmentInv, IssuedAssessment, AssessmentShape
<1>2. ASSUME format = "assessment", NEW i \in issued, i \notin OldReceipts
      PROVE  isVerificationReceipt(i.doc) <=> CallerWasRight(i.params)
  BY <1>2 DEF AssessmentInv, IssuedAssessment
<1> QED  BY <1>1, <1>2 DEF IssuedReceiptsAreValid

-----------------------------------------------------------------------------
(* The three formats together.                                             *)

ReceiptInv ==
  /\ format = "assessment" => AssessmentInv
  /\ format = "portable" => PortableInv
  /\ format = "genail" => GenailInv

\* What is known of the receipts of the time before is what holds of issued ones.
LEMMA ReceiptInvInit == ReceiptInit => ReceiptInv
<1> SUFFICES ASSUME ReceiptInit PROVE ReceiptInv
  OBVIOUS
<1>1. copy = None /\ chain = {} /\ (format # "assessment" => issued = {})
  BY DEF ReceiptInit
<1>2. CASE format = "assessment"
  <2>1. \A i \in issued : i \in OldReceipts
    BY <1>2 DEF ReceiptInit
  <2>2. \A i \in issued : IssuedAssessment(i)
    BY <2>1, OldReceiptsAssumption DEF IssuedAssessment
  <2> QED BY <1>1, <1>2, <2>2 DEF ReceiptInv, AssessmentInv
<1>3. CASE format # "assessment"
  BY <1>1, <1>3 DEF ReceiptInv, PortableInv, GenailInv
<1> QED BY <1>2, <1>3

\* A copy is made of an issued receipt.
LEMMA CopiedKeeps ==
  ASSUME ReceiptInv, documentCopied
  PROVE  ReceiptInv'
<1>1. PICK i \in issued : copy' = i.doc
  BY DEF documentCopied
<1>2. UNCHANGED <<format, issued, chain>>
  BY DEF documentCopied
<1>3. CASE format = "assessment"
  <2>1. AssessmentInv
    BY <1>3 DEF ReceiptInv
  <2>2. AssessmentShape(copy')
    BY <1>1, <2>1 DEF AssessmentInv, IssuedAssessment, AssessmentShape
  <2> QED BY <1>2, <1>3, <2>1, <2>2, CopyChange DEF ReceiptInv
<1>4. CASE format = "portable"
  <2>1. PortableInv
    BY <1>4 DEF ReceiptInv
  <2>2. PortableShape(copy')
    BY <1>1, <2>1 DEF PortableInv
  <2> QED BY <1>1, <1>2, <1>4, <2>1, <2>2, PortableChange DEF ReceiptInv
<1>5. CASE format = "genail"
  <2>1. GenailInv
    BY <1>5 DEF ReceiptInv
  <2>2. GenailShape(copy')
    BY <1>1, <2>1 DEF GenailInv
  <2>3. GenailInv'
    BY <1>1, <1>2, <2>1, <2>2 DEF GenailInv
  <2> QED BY <1>2, <1>5, <2>3 DEF ReceiptInv
<1> QED BY <1>2, <1>3, <1>4, <1>5 DEF ReceiptInv

\* Every step keeps the invariant of the format in use.
LEMMA ReceiptInvStep == ReceiptInv /\ [ReceiptNext]_receiptVars => ReceiptInv'
<1> SUFFICES ASSUME ReceiptInv, [ReceiptNext]_receiptVars PROVE ReceiptInv'
  OBVIOUS
<1>1. ASSUME format = "assessment", format' = format, AssessmentInv => AssessmentInv'
      PROVE  ReceiptInv'
  BY <1>1 DEF ReceiptInv
<1>2. ASSUME format = "portable", format' = format, PortableInv => PortableInv'
      PROVE  ReceiptInv'
  BY <1>2 DEF ReceiptInv
<1>3. ASSUME format = "genail", format' = format, GenailInv => GenailInv'
      PROVE  ReceiptInv'
  BY <1>3 DEF ReceiptInv
<1>4. ASSUME NEW p \in Params, NEW now \in {1, 100}, buildAssessment(p, now)
      PROVE  ReceiptInv'
  BY <1>1, <1>4, BuildKeeps DEF buildAssessment
<1>5. ASSUME NEW p \in Params, NEW score \in {4000, 9000}, NEW at \in {1, 100},
             taskResolved(p, score, at)
      PROVE  ReceiptInv'
  BY <1>1, <1>5, ResolvedKeeps DEF taskResolved
<1>6. CASE chainContextAttached \/ signatureAttached \/ optionalPartAttached \/ receiptNormalized
  BY <1>1, <1>6, AnnotatedKeeps
     DEF chainContextAttached, signatureAttached, optionalPartAttached, receiptNormalized
<1>7. CASE listReordered
  BY <1>1, <1>7, ReorderedKeeps DEF listReordered
<1>8. CASE fieldMixedUp
  BY <1>1, <1>8, MixedUpKeeps DEF fieldMixedUp
<1>9. ASSUME NEW f \in Fields, NEW v \in DOMAIN Verifiers, portableCreated(f, v)
      PROVE  ReceiptInv'
  BY <1>2, <1>9, CreatedKeeps DEF portableCreated
<1>10. CASE anchored
  BY <1>2, <1>10, AnchoredKeeps DEF anchored
<1>11. CASE portableMixedUp
  BY <1>2, <1>11, PortableMixedUpKeeps DEF portableMixedUp
<1>12. ASSUME NEW c \in Contexts, NEW verify \in BOOLEAN, NEW s \in Storages,
              executionCompleted(c, verify, s)
       PROVE  ReceiptInv'
  BY <1>3, <1>12, CompletedKeeps DEF executionCompleted
<1>13. ASSUME NEW status \in {"running", "finalized", "failed"}, NEW score \in {4000, 9000},
              waitForVerification(status, score)
       PROVE  ReceiptInv'
  BY <1>3, <1>13, PolledKeeps DEF waitForVerification
<1>14. CASE genailMixedUp
  BY <1>3, <1>14, GenailMixedUpKeeps DEF genailMixedUp
<1>15. CASE documentCopied
  BY <1>15, CopiedKeeps
<1>16. CASE UNCHANGED receiptVars
  BY <1>16 DEF receiptVars, ReceiptInv, AssessmentInv, PortableInv, GenailInv
<1> QED
  BY <1>4, <1>5, <1>6, <1>7, <1>8, <1>9, <1>10, <1>11, <1>12, <1>13, <1>14, <1>15, <1>16
     DEF ReceiptNext

\* Whatever becomes of a copy, if it still hashes to an issued assessment's hash, every field of
\* it that RECEIPT_HASH_FIELDS names is that one's, up to the order of the lists that stand for
\* sets; of the fields of the interface only the annotations, the allusion assessment and the
\* reference consistency checks are not among them (computeReceiptHash, normalizeHashValue).
THEOREM HashesFixAssessments ==
  ReceiptInit /\ [][ReceiptNext]_receiptVars => []HashFixesTheAssessment
<1>1. ReceiptInv => HashFixesTheAssessment
  BY HashFixesIt DEF ReceiptInv, HashFixesTheAssessment
<1> QED
  BY ReceiptInvInit, ReceiptInvStep, <1>1, PTL

\* A copy that hashes to an issued assessment and passes performFullVerification against the
\* task's event has the verdict of the score on chain, for every score.
THEOREM VerdictsFollowTheChain ==
  ReceiptInit /\ [][ReceiptNext]_receiptVars => []VerdictFollowsTheChain
<1>1. ReceiptInv => VerdictFollowsTheChain
  BY VerdictFollows DEF ReceiptInv, VerdictFollowsTheChain
<1> QED
  BY ReceiptInvInit, ReceiptInvStep, <1>1, PTL

\* For every call of buildReceipt that it does not refuse, validateReceipt accepts the receipt
\* exactly when the caller passed what the builder copies without a look.
THEOREM IssuedReceiptsStayValid ==
  ReceiptInit /\ [][ReceiptNext]_receiptVars => []IssuedReceiptsAreValid
<1>1. ReceiptInv => IssuedReceiptsAreValid
  BY IssuedAreValid DEF ReceiptInv
<1> QED
  BY ReceiptInvInit, ReceiptInvStep, <1>1, PTL

\* Whatever fields are mixed up, a portable receipt that verifies without a server is one that
\* the trusted key of its verifier signed, and an agreeing record of the registry is of a
\* receipt that was issued, with its URI or without (verifyPortable, verifyAnchoredRecord).
THEOREM PortableStaysSigned ==
  ReceiptInit /\ [][ReceiptNext]_receiptVars => []ValidPortableIsSigned
<1>1. ReceiptInv => ValidPortableIsSigned
  BY PortableIsSigned DEF ReceiptInv, ValidPortableIsSigned
<1> QED
  BY ReceiptInvInit, ReceiptInvStep, <1>1, PTL

\* Whatever is mixed up, evidence that deserializeEvidence accepts is that of one run, and
\* validateReceiptAgainstContext accepts a run's receipt for exactly the runs that agree with it
\* in the inputs and outputs the hashes see, in the program but for its comments and in the
\* number of calls, for programs and objects of any size.
THEOREM GenailStaysOneRuns ==
  ReceiptInit /\ [][ReceiptNext]_receiptVars => []GenailDocumentsAreOneRuns
<1>1. ReceiptInv => GenailDocumentsAreOneRuns
  BY GenailIsOneRuns DEF ReceiptInv, GenailDocumentsAreOneRuns
<1> QED
  BY ReceiptInvInit, ReceiptInvStep, <1>1, PTL

-----------------------------------------------------------------------------
(* Sums over sets of answers.                                              *)

\* h is f with one more term, at u.
Extends(h, f, S, T, u) ==
  /\ IsFiniteSet(S) /\ u \notin S /\ T = S \union {u}
  /\ f \in [S -> Int] /\ h \in [T -> Int] /\ \A x \in S : f[x] = h[x]

LEMMA SumExtended ==
  ASSUME NEW h, NEW f, NEW S, NEW T, NEW u, Extends(h, f, S, T, u)
  PROVE  SumFunction(h) = SumFunction(f) + h[u]
BY SumGrown DEF Extends

\* Adding an answer adds its weight.
LEMMA WeightGrown ==
  ASSUME NEW D, NEW W \in [D -> Int], NEW S \in SUBSET D, IsFiniteSet(S),
         NEW x \in D, x \notin S
  PROVE  WeightOf(W, S \union {x}) = WeightOf(W, S) + W[x]
<1> DEFINE T == S \union {x}
           f == [i \in S |-> W[i]]
           h == [i \in T |-> W[i]]
<1>1. Extends(h, f, S, T, x)
  BY DEF Extends
<1>2. h[x] = W[x]
  OBVIOUS
<1>3. WeightOf(W, S) = SumFunction(f) /\ WeightOf(W, T) = SumFunction(h)
  BY DEF WeightOf
<1> HIDE DEF f, h, T
<1>4. SumFunction(h) = SumFunction(f) + h[x]
  BY <1>1, SumExtended
<1> QED  BY <1>2, <1>3, <1>4 DEF T

\* The weight of a set is a number, a natural if the weights are, and zero if they are.
LEMMA WeightTyped ==
  ASSUME NEW D, NEW W \in [D -> Int], NEW S \in SUBSET D, IsFiniteSet(S)
  PROVE  /\ WeightOf(W, S) \in Int
         /\ (\A i \in S : W[i] \in Nat) => WeightOf(W, S) \in Nat
         /\ (\A i \in S : W[i] = 0) => WeightOf(W, S) = 0
<1> DEFINE f == [i \in S |-> W[i]]
<1>1. WeightOf(W, S) = SumFunction(f)
  BY DEF WeightOf
<1>2. f \in [S -> Int] /\ \A i \in S : f[i] = W[i]
  OBVIOUS
<1>3. (\A i \in S : W[i] \in Nat) => f \in [S -> Nat]
  OBVIOUS
<1> HIDE DEF f
<1>4. SumFunction(f) \in Int
  BY <1>2, SumTyped
<1>5. ASSUME \A i \in S : W[i] \in Nat  PROVE SumFunction(f) \in Nat
  BY <1>3, <1>5, SumBounds
<1>6. ASSUME \A i \in S : W[i] = 0  PROVE SumFunction(f) = 0
  <2>1. \A i \in S : f[i] = 0
    BY <1>2, <1>6
  <2> QED  BY <1>2, <2>1, SumZero
<1> QED  BY <1>1, <1>4, <1>5, <1>6

\* The weight of a set is that of a part and of the rest.
LEMMA WeightSplit ==
  ASSUME NEW D, NEW W \in [D -> Int], NEW S \in SUBSET D, IsFiniteSet(S), NEW A \in SUBSET S
  PROVE  WeightOf(W, S) = WeightOf(W, A) + WeightOf(W, S \ A)
<1> DEFINE P == {s \in SUBSET S : WeightOf(W, S) = WeightOf(W, s) + WeightOf(W, S \ s)}
<1>1. {} \in P
  <2>1. WeightOf(W, {}) = 0
    BY WeightTyped, FS_EmptySet
  <2>2. S \ {} = S /\ WeightOf(W, S) \in Int
    BY WeightTyped
  <2>3. WeightOf(W, S \ {}) = WeightOf(W, S)
    BY <2>2
  <2> HIDE DEF P
  <2> QED  BY <2>1, <2>2, <2>3 DEF P
<1>2. ASSUME NEW s \in SUBSET S, s # {}, \A x \in s : s \ {x} \in P
      PROVE  s \in P
  <2>1. PICK x \in s : s \ {x} \in P
    BY <1>2
  <2> DEFINE t == s \ {x}
  <2>2. WeightOf(W, S) = WeightOf(W, t) + WeightOf(W, S \ t)
    BY <2>1
  <2>3. IsFiniteSet(s) /\ IsFiniteSet(t) /\ IsFiniteSet(S \ s) /\ IsFiniteSet(S \ t)
    BY FS_Subset
  <2>4. s = t \union {x} /\ S \ t = (S \ s) \union {x} /\ x \in D
        /\ x \notin t /\ x \notin S \ s /\ t \in SUBSET D /\ S \ s \in SUBSET D
    OBVIOUS
  <2> HIDE DEF t, P
  <2>5. WeightOf(W, s) = WeightOf(W, t) + W[x]
    BY <2>3, <2>4, WeightGrown
  <2>6. WeightOf(W, S \ t) = WeightOf(W, S \ s) + W[x]
    BY <2>3, <2>4, WeightGrown
  <2>7. WeightOf(W, t) \in Int /\ WeightOf(W, S \ s) \in Int /\ W[x] \in Int
    BY <2>3, <2>4, WeightTyped
  <2>8. WeightOf(W, S) = WeightOf(W, s) + WeightOf(W, S \ s)
    BY <2>2, <2>5, <2>6, <2>7
  <2> QED  BY <2>8 DEF P
<1>3. P = SUBSET S
  <2>1. P \in SUBSET (SUBSET S)
    OBVIOUS
  <2> HIDE DEF P
  <2> QED  BY <1>1, <1>2, <2>1, SubsetInduction
<1> QED  BY <1>3

\* A part weighs no more than the whole.
LEMMA WeightMonotone ==
  ASSUME NEW D, NEW W \in [D -> Nat], NEW S \in SUBSET D, IsFiniteSet(S), NEW A \in SUBSET S
  PROVE  /\ WeightOf(W, A) \in Nat /\ WeightOf(W, S) \in Nat
         /\ WeightOf(W, A) <= WeightOf(W, S)
<1>1. W \in [D -> Int] /\ \A i \in D : W[i] \in Nat
  OBVIOUS
<1>2. IsFiniteSet(A) /\ IsFiniteSet(S \ A) /\ A \in SUBSET D /\ S \ A \in SUBSET D
  BY FS_Subset
<1>3. WeightOf(W, S) = WeightOf(W, A) + WeightOf(W, S \ A)
  BY <1>1, WeightSplit
<1>4. WeightOf(W, A) \in Nat /\ WeightOf(W, S) \in Nat /\ WeightOf(W, S \ A) \in Nat
  BY <1>1, <1>2, WeightTyped
<1> QED  BY <1>3, <1>4

\* The same terms in another order have the same sum.
LEMMA SumReindexed ==
  ASSUME NEW S, IsFiniteSet(S), NEW T, NEW f \in [T -> Int],
         NEW b \in [S -> T], \A x, y \in S : b[x] = b[y] => x = y,
         \A t \in T : \E x \in S : b[x] = t
  PROVE  SumFunction([x \in S |-> f[b[x]]]) = SumFunction(f)
<1> DEFINE Image(s) == {b[x] : x \in s}
           Left(s) == [x \in s |-> f[b[x]]]
           Right(s) == [t \in Image(s) |-> f[t]]
           P == {s \in SUBSET S : SumFunction(Left(s)) = SumFunction(Right(s))}
<1>1. {} \in P
  <2>1. Left({}) \in [{} -> Int] /\ Right({}) \in [{} -> Int]
    OBVIOUS
  <2> HIDE DEF Left, Right
  <2>2. SumFunction(Left({})) = 0 /\ SumFunction(Right({})) = 0
    BY <2>1, SumZero, FS_EmptySet
  <2> QED  BY <2>2
<1>2. ASSUME NEW s \in SUBSET S, s # {}, \A x \in s : s \ {x} \in P
      PROVE  s \in P
  <2>1. PICK x \in s : s \ {x} \in P
    BY <1>2
  <2> DEFINE t == s \ {x}
             y == b[x]
             it == Image(t)
             is == Image(s)
             lt == Left(t)
             ls == Left(s)
             rt == Right(t)
             rs == Right(s)
  <2>2. IsFiniteSet(t)
    BY FS_Subset
  <2>3. IsFiniteSet(it)
    <3> DEFINE g == [z \in t |-> b[z]]
    <3>1. g \in [t -> T] /\ it = {g[z] : z \in t}
      OBVIOUS
    <3>2. g \in Surjection(t, it)
      BY <3>1 DEF Surjection
    <3> HIDE DEF it, g
    <3> QED  BY <2>2, <3>2, FS_Surjection
  <2>4. Extends(ls, lt, t, s, x)
    BY <2>2 DEF Extends
  <2>5. is = it \union {y} /\ y \notin it
    OBVIOUS
  <2>6. rt \in [it -> Int] /\ rs \in [is -> Int] /\ \A z \in it : rt[z] = rs[z]
    OBVIOUS
  <2>7. Extends(rs, rt, it, is, y)
    <3> HIDE DEF rt, rs, it, is, y
    <3> QED  BY <2>3, <2>5, <2>6 DEF Extends
  <2>8. ls[x] = f[y] /\ rs[y] = f[y]
    OBVIOUS
  <2>9. SumFunction(lt) = SumFunction(rt)
    BY <2>1
  <2>10. SumFunction(ls) = SumFunction(rs) => s \in P
    OBVIOUS
  <2> HIDE DEF lt, ls, rt, rs, it, is, t, y, P
  <2>11. SumFunction(ls) = SumFunction(lt) + ls[x]
    BY <2>4, SumExtended
  <2>12. SumFunction(rs) = SumFunction(rt) + rs[y]
    BY <2>7, SumExtended
  <2> QED  BY <2>8, <2>9, <2>10, <2>11, <2>12
<1>3. S \in P
  <2>1. P \in SUBSET (SUBSET S)
    OBVIOUS
  <2> HIDE DEF P
  <2>2. P = SUBSET S
    BY <1>1, <1>2, <2>1, SubsetInduction
  <2> QED  BY <2>2
<1>4. Image(S) = T
  OBVIOUS
<1>5. Right(S) = f
  <2> HIDE DEF Image
  <2>1. Right(S) = [t \in T |-> f[t]]
    BY <1>4
  <2> QED  BY <2>1
<1>6. SumFunction(Left(S)) = SumFunction(Right(S))
  BY <1>3
<1> HIDE DEF Right
<1> QED  BY <1>5, <1>6

-----------------------------------------------------------------------------
(* Medians and outliers.                                                   *)

\* A finite set of naturals has a greatest element.
LEMMA GreatestNatural ==
  ASSUME NEW T \in SUBSET Nat, IsFiniteSet(T), T # {}
  PROVE  \E m \in T : \A x \in T : x <= m
<1> DEFINE P == {s \in SUBSET T : s # {} => \E m \in s : \A x \in s : x <= m}
<1>1. {} \in P
  OBVIOUS
<1>2. ASSUME NEW s \in SUBSET T, s # {}, \A x \in s : s \ {x} \in P
      PROVE  s \in P
  <2>1. PICK x \in s : s \ {x} \in P
    BY <1>2
  <2>2. CASE s \ {x} = {}
    <3>1. \A y \in s : y <= x
      BY <2>2
    <3> QED  BY <3>1
  <2>3. CASE s \ {x} # {}
    <3>1. PICK m \in s \ {x} : \A y \in s \ {x} : y <= m
      BY <2>1, <2>3
    <3>2. CASE x <= m
      <4>1. \A y \in s : y <= m
        BY <3>1, <3>2
      <4> QED  BY <4>1
    <3>3. CASE m < x
      <4>1. \A y \in s : y <= x
        BY <3>1, <3>3
      <4> QED  BY <4>1
    <3> QED  BY <3>2, <3>3
  <2> QED  BY <2>2, <2>3
<1>3. P = SUBSET T
  <2>1. P \in SUBSET (SUBSET T)
    OBVIOUS
  <2> HIDE DEF P
  <2> QED  BY <1>1, <1>2, <2>1, SubsetInduction
<1> QED  BY <1>3

\* The least of a set of naturals.
LEMMA MinIsLeast ==
  ASSUME NEW T \in SUBSET Nat, T # {}
  PROVE  Min(T) \in T /\ \A x \in T : Min(T) <= x
<1>1. PICK n \in T : \A m \in T : ~(m < n)
  BY LeastNatural
<1>2. \A y \in T : n <= y
  BY <1>1
<1> QED  BY <1>2 DEF Min

\* What lies below the weighted median holds at most half of the weight.
LEMMA MedianSplits ==
  ASSUME NEW D, NEW W \in [D -> Nat], NEW S \in SUBSET D, IsFiniteSet(S), S # {},
         NEW value, \A i \in S : value[i] \in Nat
  PROVE  /\ WeightedMedian(W, value, S) \in Nat
         /\ \A O \in SUBSET S :
              (\A i \in O : value[i] < WeightedMedian(W, value, S)) =>
                2 * WeightOf(W, O) <= WeightOf(W, S)
<1> DEFINE Below(v) == {i \in S : value[i] <= v}
           values == {value[i] : i \in S}
           heavy == {v \in values : 2 * WeightOf(W, Below(v)) >= WeightOf(W, S)}
           m == WeightedMedian(W, value, S)
<1>1. m = Min(heavy)
  BY DEF WeightedMedian
<1>2. \A A \in SUBSET S : /\ WeightOf(W, A) \in Nat /\ WeightOf(W, S) \in Nat
                          /\ WeightOf(W, A) <= WeightOf(W, S)
  BY WeightMonotone
<1>3. ASSUME NEW A \in SUBSET S, A # {}
      PROVE  \E i \in A : \A j \in A : value[j] <= value[i]
  <2> DEFINE T == {value[i] : i \in A}
             g == [i \in A |-> value[i]]
  <2>1. IsFiniteSet(A)
    BY FS_Subset
  <2>2. g \in Surjection(A, T)
    BY DEF Surjection
  <2>3. T \in SUBSET Nat /\ T # {}
    BY <1>3
  <2>4. IsFiniteSet(T)
    <3> HIDE DEF T, g
    <3> QED  BY <2>1, <2>2, FS_Surjection
  <2>5. \E k \in T : \A x \in T : x <= k
    <3> HIDE DEF T
    <3> QED  BY <2>3, <2>4, GreatestNatural
  <2> QED  BY <2>5
<1>4. heavy # {}
  <2>1. PICK i \in S : \A j \in S : value[j] <= value[i]
    BY <1>3
  <2>2. Below(value[i]) = S
    BY <2>1
  <2>3. 2 * WeightOf(W, S) >= WeightOf(W, S)
    BY <1>2
  <2>4. value[i] \in values
    OBVIOUS
  <2> HIDE DEF Below, values
  <2> QED  BY <2>2, <2>3, <2>4
<1>5. heavy \in SUBSET Nat
  OBVIOUS
<1> HIDE DEF m
<1>6. m \in heavy /\ \A v \in heavy : m <= v
  <2> HIDE DEF heavy
  <2> QED  BY <1>1, <1>4, <1>5, MinIsLeast
<1>7. m \in Nat
  <2> HIDE DEF heavy
  <2> QED  BY <1>5, <1>6
<1>8. ASSUME NEW O \in SUBSET S, \A i \in O : value[i] < m
      PROVE  2 * WeightOf(W, O) <= WeightOf(W, S)
  <2>1. CASE O = {}
    <3>1. WeightOf(W, {}) = 0
      BY WeightTyped, FS_EmptySet
    <3> QED  BY <1>2, <2>1, <3>1
  <2>2. CASE O # {}
    <3>1. PICK i \in O : \A j \in O : value[j] <= value[i]
      BY <1>3, <2>2
    <3>2. value[i] \in values /\ value[i] \in Nat /\ value[i] < m
      BY <1>8
    <3>3. value[i] \notin heavy
      <4> HIDE DEF heavy
      <4> QED  BY <1>6, <1>7, <3>2
    <3>4. ~(2 * WeightOf(W, Below(value[i])) >= WeightOf(W, S))
      <4> HIDE DEF Below, values
      <4> QED  BY <3>2, <3>3
    <3>5. O \in SUBSET Below(value[i]) /\ Below(value[i]) \in SUBSET S
      BY <3>1
    <3> HIDE DEF Below
    <3>6. IsFiniteSet(Below(value[i])) /\ Below(value[i]) \in SUBSET D
      BY <3>5, FS_Subset
    <3>7. WeightOf(W, O) <= WeightOf(W, Below(value[i]))
      BY <3>5, <3>6, WeightMonotone
    <3>8. WeightOf(W, O) \in Nat /\ WeightOf(W, Below(value[i])) \in Nat /\ WeightOf(W, S) \in Nat
      BY <1>2, <3>5
    <3> QED  BY <3>4, <3>7, <3>8
  <2> QED  BY <2>1, <2>2
<1> HIDE DEF heavy, values
<1> QED  BY <1>7, <1>8 DEF m

\* An outlier lies below the weighted median.
LEMMA OutliersAreBelow ==
  ASSUME NEW D, NEW W \in [D -> Nat], NEW S \in SUBSET D, IsFiniteSet(S), S # {},
         NEW peer, \A i \in S : peer[i] \in Nat,
         NEW i \in S, peer[i] < OutlierThreshold(W, peer, S)
  PROVE  peer[i] < WeightedMedian(W, peer, S)
<1> DEFINE m == WeightedMedian(W, peer, S)
           deviation == [j \in S |-> AbsDiff(peer[j], m)]
           spread == WeightedMedian(W, deviation, S)
           mad == Most(spread, 500)
           margin == Most((5 * mad) \div 2, 1500)
<1>1. OutlierThreshold(W, peer, S) = Most(0, m - margin)
  BY DEF OutlierThreshold
<1>2. m \in Nat
  BY MedianSplits
<1> HIDE DEF m
<1>3. \A j \in S : deviation[j] \in Nat
  BY <1>2 DEF AbsDiff
<1> HIDE DEF deviation
<1>4. spread \in Nat
  BY <1>3, MedianSplits
<1> HIDE DEF spread
<1>5. mad \in Nat
  BY <1>4 DEF Most
<1> HIDE DEF mad
<1>6. margin \in Int /\ margin >= 1500
  BY <1>5 DEF Most
<1> HIDE DEF margin
<1>7. peer[i] < m
  BY <1>1, <1>2, <1>6 DEF Most
<1> QED  BY <1>7 DEF m

\* However the peer scores came about, the outliers are at most half of the weight.
LEMMA OutliersAreLight ==
  ASSUME NEW D, NEW W \in [D -> Nat], NEW S \in SUBSET D, IsFiniteSet(S),
         NEW peer, \A i \in S : peer[i] \in Nat
  PROVE  /\ Outliers(W, peer, S) \in SUBSET S
         /\ 2 * WeightOf(W, Outliers(W, peer, S)) <= WeightOf(W, S)
<1> DEFINE O == Outliers(W, peer, S)
<1>1. CASE Cardinality(S) < 3
  <2>1. O = {}
    BY <1>1 DEF Outliers
  <2>2. WeightOf(W, {}) = 0 /\ WeightOf(W, S) \in Nat
    BY WeightTyped, FS_EmptySet
  <2> QED  BY <2>1, <2>2
<1>2. CASE ~(Cardinality(S) < 3)
  <2>1. O = {i \in S : peer[i] < OutlierThreshold(W, peer, S)}
    BY <1>2 DEF Outliers
  <2>2. S # {}
    BY <1>2, FS_EmptySet
  <2>3. \A i \in O : peer[i] < WeightedMedian(W, peer, S)
    BY <2>1, <2>2, OutliersAreBelow
  <2>4. O \in SUBSET S
    BY <2>1
  <2> HIDE DEF O
  <2>5. 2 * WeightOf(W, O) <= WeightOf(W, S)
    BY <2>2, <2>3, <2>4, MedianSplits
  <2> QED  BY <2>4, <2>5 DEF O
<1> QED  BY <1>1, <1>2

-----------------------------------------------------------------------------
(* What scoreVerification returns.                                         *)

WeightsOf(R, w) == [i \in DOMAIN R |-> w[ModelId(R[i])]]
Counting(R, w) == {i \in DOMAIN R : WeightsOf(R, w)[i] > 0}
PeersOf(R) == [i \in DOMAIN R |-> PeerScore(R, i)]
OutliersOf(R, w) == Outliers(WeightsOf(R, w), PeersOf(R), Counting(R, w))
ConsensusOf(R, w) ==
  IF Cardinality(Counting(R, w) \ OutliersOf(R, w)) >= 2
  THEN Counting(R, w) \ OutliersOf(R, w) ELSE Counting(R, w)
GroupsOf(R, w) ==
  IF ConsensusOf(R, w) = {} THEN {{}}
  ELSE AgreementClusters(WeightsOf(R, w), R, ConsensusOf(R, w))

\* The similarity of two texts is a natural, and of a text with itself it is one.
LEMMA SimilarityTyped ==
  ASSUME NEW a, NEW b, IsFiniteSet(RawTokens(a)), IsFiniteSet(RawTokens(b))
  PROVE  TextSimilarity(a, b) \in Nat /\ TextSimilarity(a, a) = Unit
<1> DEFINE ta == RawTokens(a)
           tb == RawTokens(b)
<1>1. ta # {}
  BY DEF RawTokens
<1>2. /\ TextSimilarity(a, b) = Ratio(Cardinality(ta \cap tb), Cardinality(ta \cup tb))
      /\ TextSimilarity(a, a) = Ratio(Cardinality(ta \cap ta), Cardinality(ta \cup ta))
  BY DEF TextSimilarity
<1>3. ta \cap ta = ta /\ ta \cup ta = ta
  OBVIOUS
<1> HIDE DEF ta, tb
<1>4. IsFiniteSet(ta) /\ IsFiniteSet(tb)
  BY DEF ta, tb
<1>5. IsFiniteSet(ta \cap tb) /\ IsFiniteSet(ta \cup tb)
  BY <1>4, FS_Union, FS_Intersection
<1>6. ta \cup tb # {}
  BY <1>1
<1>7. /\ Cardinality(ta) \in Nat /\ Cardinality(ta) # 0
      /\ Cardinality(ta \cup tb) \in Nat /\ Cardinality(ta \cup tb) # 0
      /\ Cardinality(ta \cap tb) \in Nat
  BY <1>1, <1>4, <1>5, <1>6, FS_EmptySet, FS_CardinalityType
<1>8. \A x, y \in Nat : y # 0 => Ratio(x, y) \in Nat
  <2> SUFFICES ASSUME NEW x \in Nat, NEW y \in Nat, y # 0  PROVE Ratio(x, y) \in Nat
    OBVIOUS
  <2>1. x * Unit \in Nat /\ y \in Nat \ {0}
    BY DEF Unit
  <2> QED  BY <2>1, DivisionBounds DEF Ratio
<1>9. \A y \in Nat : y # 0 => Ratio(y, y) = Unit
  <2> SUFFICES ASSUME NEW y \in Nat, y # 0  PROVE Ratio(y, y) = Unit
    OBVIOUS
  <2>1. (y * Unit) \div y = Unit
    BY DEF Unit
  <2> QED  BY <2>1 DEF Ratio
<1> QED  BY <1>2, <1>3, <1>7, <1>8, <1>9

\* Peer scores are naturals.
LEMMA PeersTyped ==
  ASSUME NEW R \in Seq(ModelResponse), NEW i \in DOMAIN R
  PROVE  PeerScore(R, i) \in Nat
<1> DEFINE peers == DOMAIN R \ {i}
           f == [j \in peers |-> TextSimilarity(R[i].text, R[j].text)]
<1>1. PeerScore(R, i) = IF peers = {} THEN Unit ELSE SumFunction(f) \div Cardinality(peers)
  BY DEF PeerScore
<1>2. IsFiniteSet(DOMAIN R)
  BY FS_Interval
<1>3. IsFiniteSet(peers)
  BY <1>2, FS_Subset
<1>4. \A j \in DOMAIN R : R[j] \in ModelResponse
  OBVIOUS
<1>5. f \in [peers -> Nat]
  BY <1>4, AnswersAssumption, SimilarityTyped
<1> HIDE DEF f, peers
<1>6. SumFunction(f) \in Nat
  BY <1>3, <1>5, SumBounds
<1>7. peers # {} => Cardinality(peers) \in Nat \ {0}
  BY <1>3, FS_EmptySet, FS_CardinalityType
<1> QED  BY <1>1, <1>6, <1>7, DivisionBounds DEF Unit

\* The answers have weights, and the outliers are some of those that count.
LEMMA AnswersWeighed ==
  ASSUME NEW R \in Seq(ModelResponse), NEW w \in Standings
  PROVE  /\ IsFiniteSet(DOMAIN R)
         /\ WeightsOf(R, w) \in [DOMAIN R -> Nat]
         /\ IsFiniteSet(Counting(R, w)) /\ Counting(R, w) \in SUBSET (DOMAIN R)
         /\ OutliersOf(R, w) \in SUBSET Counting(R, w)
         /\ 2 * WeightOf(WeightsOf(R, w), OutliersOf(R, w))
              <= WeightOf(WeightsOf(R, w), Counting(R, w))
<1>1. IsFiniteSet(DOMAIN R)
  BY FS_Interval
<1>2. \A j \in DOMAIN R : R[j] \in ModelResponse
  OBVIOUS
<1>3. WeightsOf(R, w) \in [DOMAIN R -> Nat]
  BY <1>2, StandingsAssumption DEF WeightsOf
<1>4. Counting(R, w) \in SUBSET (DOMAIN R)
  BY DEF Counting
<1>5. IsFiniteSet(Counting(R, w))
  BY <1>1, <1>4, FS_Subset
<1>6. \A i \in Counting(R, w) : PeersOf(R)[i] \in Nat
  BY <1>4, PeersTyped DEF PeersOf
<1> QED  BY <1>1, <1>3, <1>4, <1>5, <1>6, OutliersAreLight DEF OutliersOf

\* The parts of a result.
LEMMA ResultParts ==
  ASSUME NEW t, NEW R, NEW w, NEW s \in scoreVerification(t, R, w)
  PROVE  /\ s.outliers = OutliersOf(R, w)
         /\ s.group \in GroupsOf(R, w)
         /\ s.vote_merkle_root = buildMerkleVoteTree(Votes(R)).root
         /\ s.verdict = "reliable" =>
              /\ 3 * WeightOf(WeightsOf(R, w), s.group)
                   >= 2 * WeightOf(WeightsOf(R, w), ConsensusOf(R, w))
              /\ Cardinality({R[i].provider : i \in s.group}) >= 2
<1> DEFINE W == WeightsOf(R, w)
           U == Counting(R, w)
           O == OutliersOf(R, w)
           C == ConsensusOf(R, w)
<1>1. \E graph, g : g \in GroupsOf(R, w) /\ s = ScoringReport(t, R, W, O, C, graph, g)
  BY DEF scoreVerification, WeightsOf, Counting, PeersOf, OutliersOf, ConsensusOf, GroupsOf
<1>2. PICK graph, g : g \in GroupsOf(R, w) /\ s = ScoringReport(t, R, W, O, C, graph, g)
  BY <1>1
<1> HIDE DEF W, O, C
<1>3. /\ s.outliers = O /\ s.group = g
      /\ s.vote_merkle_root = buildMerkleVoteTree(Votes(R)).root
  BY <1>2 DEF ScoringReport
<1>4. ASSUME s.verdict = "reliable"
      PROVE  /\ 3 * WeightOf(W, g) >= 2 * WeightOf(W, C)
             /\ Cardinality({R[i].provider : i \in g}) >= 2
  <2>1. \A score, quorum, diverse :
          Verdict(score, quorum, diverse) = "reliable" => quorum /\ diverse
    BY DEF Verdict
  <2> DEFINE quorum == /\ Cardinality(C) >= 2
                       /\ 3 * WeightOf(W, g) >= 2 * WeightOf(W, C)
             diverse == Cardinality({R[i].provider : i \in g}) >= 2
  <2>2. \E score : s.verdict = Verdict(score, quorum, diverse)
    BY <1>2 DEF ScoringReport
  <2>3. quorum /\ diverse
    <3> HIDE DEF quorum, diverse
    <3> QED  BY <1>4, <2>1, <2>2
  <2> QED  BY <2>3
<1> QED  BY <1>2, <1>3, <1>4 DEF W, O, C

\* A group of the consensus is one answer and those that resemble it.
LEMMA GroupsAreAround ==
  ASSUME NEW R \in Seq(ModelResponse), NEW w \in Standings, NEW g \in GroupsOf(R, w), g # {}
  PROVE  /\ g \in SUBSET ConsensusOf(R, w)
         /\ \E seed \in g : \A i \in g :
              TextSimilarity(R[seed].text, R[i].text) >= SimilarityThreshold
<1> DEFINE C == ConsensusOf(R, w)
           W == WeightsOf(R, w)
           Near(seed, i) == TextSimilarity(R[seed].text, R[i].text) >= SimilarityThreshold
           Around(seed) == {i \in C : i = seed \/ Near(seed, i)}
<1>1. C # {} /\ g \in AgreementClusters(W, R, C)
  BY DEF GroupsOf
<1>2. g \in {Around(seed) : seed \in C}
  BY <1>1 DEF AgreementClusters
<1>3. PICK seed \in C : g = Around(seed)
  BY <1>2
<1>4. C \in SUBSET DOMAIN R
  BY AnswersWeighed DEF ConsensusOf
<1>5. R[seed] \in ModelResponse
  BY <1>3, <1>4
<1>6. TextSimilarity(R[seed].text, R[seed].text) = Unit
  BY <1>5, AnswersAssumption, SimilarityTyped
<1>7. Near(seed, seed)
  BY <1>6 DEF Unit, SimilarityThreshold
<1>8. seed \in g /\ \A i \in g : Near(seed, i)
  <2> HIDE DEF C, Near
  <2> QED  BY <1>3, <1>7
<1> QED  BY <1>3, <1>8

\* What ReliableIsBacked says of a result.
IsBacked(R, w, s) ==
  LET W == WeightsOf(R, w)
      backing == {i \in s.group : W[i] > 0}
      kept == {i \in DOMAIN R : W[i] > 0} \ s.outliers
  IN /\ Cardinality({R[i].provider : i \in backing}) >= 2
     /\ 3 * WeightOf(W, backing) >= 2 * WeightOf(W, kept)
     /\ 3 * WeightOf(W, backing) >= WeightOf(W, DOMAIN R)
     /\ \E seed \in backing : \A i \in backing :
          TextSimilarity(R[seed].text, R[i].text) >= SimilarityThreshold

LEMMA ReliableRestsOn ==
  ASSUME NEW t, NEW R \in Seq(ModelResponse), NEW w \in Standings,
         NEW s \in scoreVerification(t, R, w), s.verdict = "reliable"
  PROVE  IsBacked(R, w, s)
<1> DEFINE W == WeightsOf(R, w)
           backing == {i \in s.group : W[i] > 0}
           kept == {i \in DOMAIN R : W[i] > 0} \ s.outliers
           U == Counting(R, w)
           O == OutliersOf(R, w)
           C == ConsensusOf(R, w)
           D == DOMAIN R
           g == s.group
<1>1. /\ s.outliers = O /\ g \in GroupsOf(R, w)
      /\ 3 * WeightOf(W, g) >= 2 * WeightOf(W, C)
      /\ Cardinality({R[i].provider : i \in g}) >= 2
  BY ResultParts
<1>2. /\ IsFiniteSet(D) /\ W \in [D -> Nat]
      /\ IsFiniteSet(U) /\ U \in SUBSET D /\ O \in SUBSET U
      /\ 2 * WeightOf(W, O) <= WeightOf(W, U)
  BY AnswersWeighed
<1>3. g # {}
  <2> SUFFICES ASSUME g = {}  PROVE FALSE  OBVIOUS
  <2>1. {R[i].provider : i \in g} = {}
    OBVIOUS
  <2>2. Cardinality({R[i].provider : i \in g}) = 0
    <3> DEFINE P == {R[i].provider : i \in g}
    <3> HIDE DEF P
    <3> QED  BY <2>1, FS_EmptySet DEF P
  <2> QED  BY <1>1, <2>2
<1>4. /\ g \in SUBSET C
      /\ \E seed \in g : \A i \in g :
           TextSimilarity(R[seed].text, R[i].text) >= SimilarityThreshold
  BY <1>1, <1>3, GroupsAreAround
<1>5. kept = U \ O /\ U = {i \in D : W[i] > 0}
  BY <1>1 DEF Counting
<1>6. C = kept \/ C = U
  BY <1>5 DEF ConsensusOf
<1>7. C \in SUBSET U /\ kept \in SUBSET C
  BY <1>5, <1>6
<1>8. backing = g
  BY <1>4, <1>5, <1>7
<1> HIDE DEF U, O, C, D, g, W, backing, kept
<1>9. IsFiniteSet(C) /\ C \in SUBSET D /\ W \in [D -> Int]
  BY <1>2, <1>7, FS_Subset
<1>10. WeightOf(W, kept) <= WeightOf(W, C) /\ WeightOf(W, kept) \in Nat /\ WeightOf(W, C) \in Nat
  BY <1>2, <1>7, <1>9, WeightMonotone
<1>11. WeightOf(W, U) = WeightOf(W, O) + WeightOf(W, kept)
  <2>1. WeightOf(W, U) = WeightOf(W, O) + WeightOf(W, U \ O)
    BY <1>2, <1>9, WeightSplit
  <2> QED  BY <1>5, <2>1
<1>12. WeightOf(W, D) = WeightOf(W, U)
  <2>1. WeightOf(W, D) = WeightOf(W, U) + WeightOf(W, D \ U)
    BY <1>2, <1>9, WeightSplit
  <2>2. \A i \in D \ U : W[i] = 0
    BY <1>2, <1>5
  <2>3. IsFiniteSet(D \ U) /\ D \ U \in SUBSET D
    BY <1>2, FS_Subset
  <2>4. WeightOf(W, D \ U) = 0
    BY <1>9, <2>2, <2>3, WeightTyped
  <2>5. WeightOf(W, U) \in Int
    BY <1>2, <1>9, WeightTyped
  <2> QED  BY <2>1, <2>4, <2>5
<1>13. WeightOf(W, O) \in Nat /\ WeightOf(W, U) \in Nat
  BY <1>2, WeightMonotone
<1>14. g \in SUBSET D /\ IsFiniteSet(g)
  BY <1>2, <1>4, <1>9, FS_Subset
<1>15. WeightOf(W, g) \in Nat
  BY <1>2, <1>9, <1>14, WeightTyped
<1>16. 3 * WeightOf(W, g) >= 2 * WeightOf(W, kept)
  BY <1>1, <1>10, <1>15
<1>17. 3 * WeightOf(W, g) >= WeightOf(W, D)
  BY <1>2, <1>11, <1>12, <1>13, <1>10, <1>15, <1>16
<1>18. /\ Cardinality({R[i].provider : i \in backing}) >= 2
       /\ 3 * WeightOf(W, backing) >= 2 * WeightOf(W, kept)
       /\ 3 * WeightOf(W, backing) >= WeightOf(W, D)
       /\ \E seed \in backing : \A i \in backing :
            TextSimilarity(R[seed].text, R[i].text) >= SimilarityThreshold
  BY <1>1, <1>4, <1>8, <1>16, <1>17
<1> QED  BY <1>18 DEF IsBacked, W, backing, kept, D, g

-----------------------------------------------------------------------------
(* The Merkle tree of the votes.                                           *)

\* A sequence of c items.
IsLevel(s, c) == c \in Nat /\ s = [k \in 1 .. c |-> s[k]]

LEMMA LevelLength ==
  ASSUME NEW s, NEW c, IsLevel(s, c)
  PROVE  Len(s) = c /\ DOMAIN s = 1 .. c
<1> DEFINE V == {s[k] : k \in 1 .. c}
<1>1. c \in Nat /\ DOMAIN s = 1 .. c
  BY DEF IsLevel
<1>2. s \in [1 .. c -> V]
  BY DEF IsLevel
<1>3. s \in Seq(V)
  BY <1>1, <1>2
<1> HIDE DEF V
<1> QED  BY <1>1, <1>3

\* The levels follow from one another.
LEMMA LevelsRecursion ==
  ASSUME NEW leaves, NEW n \in Nat, Len(leaves) = n,
         NEW L, L = LevelsFrom(leaves)
  PROVE  /\ DOMAIN L = 0 .. n /\ L[0] = leaves
         /\ \A l \in 1 .. n : L[l] = NextLevel(L[l - 1])
<1> DEFINE Is(g, m) == g = [l \in 0 .. m |-> IF l = 0 THEN leaves ELSE NextLevel(g[l - 1])]
           T == {m \in Nat : \E g : Is(g, m)}
<1>1. 0 \in T
  <2> DEFINE g == [l \in 0 .. 0 |-> leaves]
  <2>1. Is(g, 0)
    OBVIOUS
  <2> QED  BY <2>1
<1>2. ASSUME NEW m \in Nat, m \in T  PROVE m + 1 \in T
  <2>1. PICK g : Is(g, m)
    BY <1>2
  <2> DEFINE h == [l \in 0 .. (m + 1) |-> IF l = m + 1 THEN NextLevel(g[m]) ELSE g[l]]
  <2>2. ASSUME NEW l \in 0 .. (m + 1)
        PROVE  h[l] = IF l = 0 THEN leaves ELSE NextLevel(h[l - 1])
    <3>1. CASE l = m + 1
      BY <3>1
    <3>2. CASE l \in 0 .. m
      BY <2>1, <3>2
    <3> QED  BY <3>1, <3>2
  <2>3. h = [l \in 0 .. (m + 1) |-> h[l]]
    OBVIOUS
  <2> HIDE DEF h
  <2>4. Is(h, m + 1)
    BY <2>2, <2>3
  <2> HIDE DEF Is
  <2> QED  BY <2>4
<1>3. Nat \subseteq T
  <2> HIDE DEF T
  <2> QED  BY <1>1, <1>2, SetInduction
<1>4. \E g : Is(g, n)
  BY <1>3
<1>5. L = CHOOSE g : Is(g, n)
  BY DEF LevelsFrom
<1>6. Is(L, n)
  <2> HIDE DEF Is
  <2> QED  BY <1>4, <1>5
<1>7. L = [l \in 0 .. n |-> IF l = 0 THEN leaves ELSE NextLevel(L[l - 1])]
  BY <1>6
<1> HIDE DEF Is, T
<1>8. DOMAIN L = 0 .. n
  BY <1>7
<1>9. ASSUME NEW l \in 0 .. n  PROVE L[l] = IF l = 0 THEN leaves ELSE NextLevel(L[l - 1])
  BY <1>7, <1>9
<1>10. L[0] = leaves
  BY <1>9
<1>11. ASSUME NEW l \in 1 .. n  PROVE L[l] = NextLevel(L[l - 1])
  BY <1>9
<1> QED  BY <1>8, <1>10, <1>11

\* The places above the k-th leaf.
Climbs(P, k, n) == P[0] = k /\ \A l \in 1 .. n : P[l] = (P[l - 1] + 1) \div 2

LEMMA PathRecursion ==
  ASSUME NEW L, NEW n \in Nat, DOMAIN L = 0 .. n, NEW k,
         NEW P, P = PathOf(L, k)
  PROVE  Climbs(P, k, n)
<1> DEFINE Is(g, m) == g = [l \in 0 .. m |-> IF l = 0 THEN k ELSE (g[l - 1] + 1) \div 2]
           T == {m \in Nat : \E g : Is(g, m)}
<1>1. 0 \in T
  <2> DEFINE g == [l \in 0 .. 0 |-> k]
  <2>1. Is(g, 0)
    OBVIOUS
  <2> QED  BY <2>1
<1>2. ASSUME NEW m \in Nat, m \in T  PROVE m + 1 \in T
  <2>1. PICK g : Is(g, m)
    BY <1>2
  <2> DEFINE h == [l \in 0 .. (m + 1) |-> IF l = m + 1 THEN (g[m] + 1) \div 2 ELSE g[l]]
  <2>2. ASSUME NEW l \in 0 .. (m + 1)
        PROVE  h[l] = IF l = 0 THEN k ELSE (h[l - 1] + 1) \div 2
    <3>1. CASE l = m + 1
      BY <3>1
    <3>2. CASE l \in 0 .. m
      BY <2>1, <3>2
    <3> QED  BY <3>1, <3>2
  <2>3. h = [l \in 0 .. (m + 1) |-> h[l]]
    OBVIOUS
  <2> HIDE DEF h
  <2>4. Is(h, m + 1)
    BY <2>2, <2>3
  <2> HIDE DEF Is
  <2> QED  BY <2>4
<1>3. Nat \subseteq T
  <2> HIDE DEF T
  <2> QED  BY <1>1, <1>2, SetInduction
<1>4. \E g : Is(g, n)
  BY <1>3
<1>5. P = CHOOSE g : Is(g, n)
  BY DEF PathOf
<1>6. Is(P, n)
  <2> HIDE DEF Is
  <2> QED  BY <1>4, <1>5
<1>7. P = [l \in 0 .. n |-> IF l = 0 THEN k ELSE (P[l - 1] + 1) \div 2]
  BY <1>6
<1> HIDE DEF Is, T
<1>8. DOMAIN P = 0 .. n
  BY <1>7
<1>9. ASSUME NEW l \in 0 .. n  PROVE P[l] = IF l = 0 THEN k ELSE (P[l - 1] + 1) \div 2
  BY <1>7, <1>9
<1>10. P[0] = k
  BY <1>9
<1>11. ASSUME NEW l \in 1 .. n  PROVE P[l] = (P[l - 1] + 1) \div 2
  BY <1>9
<1> QED  BY <1>10, <1>11 DEF Climbs

\* The hashes that a proof of n nodes makes of a leaf.
IsHashed(C, leaf, proof, n) ==
  C[0] = leaf /\ \A l \in 1 .. n : C[l] = SortedPairHash(C[l - 1], proof[l])

LEMMA ComputedRecursion ==
  ASSUME NEW proof, NEW n \in Nat, Len(proof) = n, NEW leaf, NEW root
  PROVE  \E C : /\ IsHashed(C, leaf, proof, n)
                /\ verifyMerkleProof(leaf, proof, root) = (C[n] = root)
<1> DEFINE Is(g, m) == g = [l \in 0 .. m |-> IF l = 0 THEN leaf
                                             ELSE SortedPairHash(g[l - 1], proof[l])]
           T == {m \in Nat : \E g : Is(g, m)}
<1>1. 0 \in T
  <2> DEFINE g == [l \in 0 .. 0 |-> leaf]
  <2>1. Is(g, 0)
    OBVIOUS
  <2> QED  BY <2>1
<1>2. ASSUME NEW m \in Nat, m \in T  PROVE m + 1 \in T
  <2>1. PICK g : Is(g, m)
    BY <1>2
  <2> DEFINE h == [l \in 0 .. (m + 1) |-> IF l = m + 1 THEN SortedPairHash(g[m], proof[l])
                                          ELSE g[l]]
  <2>2. ASSUME NEW l \in 0 .. (m + 1)
        PROVE  h[l] = IF l = 0 THEN leaf ELSE SortedPairHash(h[l - 1], proof[l])
    <3>1. CASE l = m + 1
      BY <3>1
    <3>2. CASE l \in 0 .. m
      BY <2>1, <3>2
    <3> QED  BY <3>1, <3>2
  <2>3. h = [l \in 0 .. (m + 1) |-> h[l]]
    OBVIOUS
  <2> HIDE DEF h
  <2>4. Is(h, m + 1)
    BY <2>2, <2>3
  <2> HIDE DEF Is
  <2> QED  BY <2>4
<1>3. Nat \subseteq T
  <2> HIDE DEF T
  <2> QED  BY <1>1, <1>2, SetInduction
<1>4. \E g : Is(g, n)
  BY <1>3
<1> DEFINE C == CHOOSE g : Is(g, n)
<1>5. verifyMerkleProof(leaf, proof, root) = (C[n] = root)
  BY DEF verifyMerkleProof
<1>6. Is(C, n)
  <2> HIDE DEF Is
  <2> QED  BY <1>4
<1> HIDE DEF C
<1>7. C[0] = leaf /\ \A l \in 1 .. n : C[l] = SortedPairHash(C[l - 1], proof[l])
  BY <1>6
<1>8. IsHashed(C, leaf, proof, n)
  BY <1>7 DEF IsHashed
<1> QED  BY <1>5, <1>8

LEMMA HalvedUp ==
  ASSUME NEW c \in Nat \ {0}
  PROVE  /\ (c + 1) \div 2 \in Nat \ {0} /\ (c + 1) \div 2 <= c
         /\ c > 1 => (c + 1) \div 2 < c
         /\ \A k \in Nat : k <= (c + 1) \div 2 => 2 * k - 1 <= c
OBVIOUS

LEMMA NextLevelIsLevel ==
  ASSUME NEW s, NEW c \in Nat \ {0}, IsLevel(s, c)
  PROVE  IsLevel(NextLevel(s), (c + 1) \div 2)
<1>1. Len(s) = c
  BY LevelLength
<1> DEFINE d == (c + 1) \div 2
           t == NextLevel(s)
<1>2. d \in Nat
  BY HalvedUp
<1>3. t = [k \in 1 .. d |-> SortedPairHash(s[2 * k - 1], Sibling(s, 2 * k - 1))]
  BY <1>1 DEF NextLevel
<1> HIDE DEF d, t
<1>4. t = [k \in 1 .. d |-> t[k]]
  BY <1>3
<1> QED  BY <1>2, <1>4 DEF IsLevel, d, t

\* The levels of the tree above the n leaves.
IsTree(L, leaves, n) ==
  /\ DOMAIN L = 0 .. n /\ L[0] = leaves
  /\ \A l \in 1 .. n : L[l] = NextLevel(L[l - 1])
  /\ \A l \in 0 .. n : \E c \in Nat \ {0} : IsLevel(L[l], c) /\ (c = 1 \/ c + l <= n)

\* A level has half as many nodes as the one below it, so that the levels come
\* down to one node.
LEMMA LevelsShrink ==
  ASSUME NEW leaves, NEW n \in Nat \ {0}, IsLevel(leaves, n),
         NEW L, L = LevelsFrom(leaves)
  PROVE  IsTree(L, leaves, n)
<1>1. Len(leaves) = n
  BY LevelLength
<1>2. DOMAIN L = 0 .. n /\ L[0] = leaves /\ \A l \in 1 .. n : L[l] = NextLevel(L[l - 1])
  BY <1>1, LevelsRecursion
<1> DEFINE Sized(l) == \E c \in Nat \ {0} : IsLevel(L[l], c) /\ (c = 1 \/ c + l <= n)
           T == {l \in Nat : l <= n => Sized(l)}
<1>3. 0 \in T
  BY <1>2
<1>4. ASSUME NEW l \in Nat, l \in T  PROVE l + 1 \in T
  <2> SUFFICES ASSUME l + 1 <= n  PROVE Sized(l + 1)
    OBVIOUS
  <2>1. PICK c \in Nat \ {0} : IsLevel(L[l], c) /\ (c = 1 \/ c + l <= n)
    BY <1>4
  <2>2. L[l + 1] = NextLevel(L[l])
    <3>1. l + 1 \in 1 .. n /\ (l + 1) - 1 = l
      OBVIOUS
    <3> QED  BY <1>2, <3>1
  <2> DEFINE d == (c + 1) \div 2
  <2>3. IsLevel(L[l + 1], d)
    BY <2>1, <2>2, NextLevelIsLevel
  <2>4. d \in Nat \ {0} /\ d <= c /\ (c > 1 => d < c)
    BY HalvedUp
  <2> HIDE DEF d
  <2>5. d = 1 \/ d + (l + 1) <= n
    BY <2>1, <2>4
  <2> QED  BY <2>3, <2>4, <2>5
<1>5. Nat \subseteq T
  <2> HIDE DEF T
  <2> QED  BY <1>3, <1>4, SetInduction
<1>6. \A l \in 0 .. n : Sized(l)
  BY <1>5
<1> QED  BY <1>2, <1>6 DEF IsTree

\* The loop ends, at a level of one node, and no level below it has one.
LEMMA TopIsRoot ==
  ASSUME NEW leaves, NEW n \in Nat \ {0}, IsLevel(leaves, n),
         NEW L, L = LevelsFrom(leaves)
  PROVE  TopOf(L) \in 0 .. n /\ Len(L[TopOf(L)]) <= 1
<1>0. IsTree(L, leaves, n)
  BY LevelsShrink
<1>1. /\ DOMAIN L = 0 .. n
      /\ \A l \in 0 .. n : \E c \in Nat \ {0} : IsLevel(L[l], c) /\ (c = 1 \/ c + l <= n)
  BY <1>0 DEF IsTree
<1> DEFINE T == {l \in 0 .. n : Len(L[l]) <= 1}
<1>2. Len(L[n]) = 1
  <2>1. PICK c \in Nat \ {0} : IsLevel(L[n], c) /\ (c = 1 \/ c + n <= n)
    BY <1>1
  <2>2. c = 1
    BY <2>1
  <2> QED  BY <2>1, <2>2, LevelLength
<1>3. T \subseteq Nat /\ T # {}
  <2>1. Len(L[n]) <= 1
    BY <1>2
  <2>2. n \in T
    BY <2>1
  <2> QED  BY <2>2
<1>4. PICK l \in T : \A m \in T : ~(m < l)
  <2> HIDE DEF T
  <2> QED  BY <1>3, LeastNatural
<1>5. \A m \in 0 .. n : Len(L[m]) \in Nat
  <2> TAKE m \in 0 .. n
  <2>1. PICK c \in Nat \ {0} : IsLevel(L[m], c)
    BY <1>1
  <2> QED  BY <2>1, LevelLength
<1>6. /\ l \in DOMAIN L /\ Len(L[l]) <= 1
      /\ \A m \in DOMAIN L : m < l => Len(L[m]) > 1
  BY <1>1, <1>4, <1>5
<1>7. TopOf(L) \in DOMAIN L /\ Len(L[TopOf(L)]) <= 1
  BY <1>6 DEF TopOf
<1> QED  BY <1>1, <1>7

LEMMA PlaceAbove ==
  ASSUME NEW c \in Nat \ {0}, NEW p \in 1 .. c
  PROVE  /\ (p + 1) \div 2 \in 1 .. ((c + 1) \div 2)
         /\ p % 2 = 0 => 2 * ((p + 1) \div 2) - 1 = p - 1
         /\ p % 2 # 0 => 2 * ((p + 1) \div 2) - 1 = p
         /\ p % 2 = 0 => (p - 1) % 2 # 0 /\ p - 1 < c
OBVIOUS

\* The node above a node is the hash of the node and of its sibling.
LEMMA HashAbove ==
  ASSUME NEW s, NEW c \in Nat \ {0}, IsLevel(s, c), NEW p \in 1 .. c
  PROVE  NextLevel(s)[(p + 1) \div 2] = SortedPairHash(s[p], Sibling(s, p))
<1> DEFINE q == (p + 1) \div 2
<1>1. Len(s) = c
  BY LevelLength
<1>2. /\ q \in 1 .. ((c + 1) \div 2)
      /\ p % 2 = 0 => 2 * q - 1 = p - 1 /\ (p - 1) % 2 # 0 /\ p - 1 < c
      /\ p % 2 # 0 => 2 * q - 1 = p
  BY PlaceAbove
<1> HIDE DEF q
<1>3. NextLevel(s)[q] = SortedPairHash(s[2 * q - 1], Sibling(s, 2 * q - 1))
  BY <1>1, <1>2 DEF NextLevel
<1>4. CASE p % 2 # 0
  BY <1>2, <1>3, <1>4 DEF q
<1>5. CASE p % 2 = 0
  <2>1. 2 * q - 1 = p - 1 /\ (p - 1) % 2 # 0 /\ p - 1 < c
    BY <1>2, <1>5
  <2>2. Sibling(s, p) = s[p - 1]
    BY <1>5 DEF Sibling
  <2>3. Sibling(s, p - 1) = s[(p - 1) + 1]
    BY <1>1, <2>1 DEF Sibling
  <2>4. (p - 1) + 1 = p
    OBVIOUS
  <2>5. NextLevel(s)[q] = SortedPairHash(s[p - 1], s[p])
    BY <1>3, <2>1, <2>3, <2>4
  <2>6. SortedPairHash(s[p - 1], s[p]) = SortedPairHash(s[p], s[p - 1])
    BY DEF SortedPairHash
  <2> QED  BY <2>2, <2>5, <2>6 DEF q
<1> QED  BY <1>4, <1>5

\* The places above a leaf are places of the levels, and the hashes that the
\* proof makes of it are the nodes at these places.
LEMMA ProofVerifies ==
  ASSUME NEW leaves, NEW n \in Nat \ {0}, IsLevel(leaves, n),
         NEW L, L = LevelsFrom(leaves), NEW k \in 1 .. n,
         NEW P, P = PathOf(L, k),
         NEW proof, Len(proof) = TopOf(L),
         \A l \in 1 .. TopOf(L) : proof[l] = Sibling(L[l - 1], P[l - 1])
  PROVE  verifyMerkleProof(leaves[k], proof, L[TopOf(L)][1])
<1> DEFINE top == TopOf(L)
<1>0. IsTree(L, leaves, n)
  BY LevelsShrink
<1>1. /\ DOMAIN L = 0 .. n /\ L[0] = leaves
      /\ \A l \in 1 .. n : L[l] = NextLevel(L[l - 1])
      /\ \A l \in 0 .. n : \E c \in Nat \ {0} : IsLevel(L[l], c) /\ (c = 1 \/ c + l <= n)
  BY <1>0 DEF IsTree
<1>2. top \in 0 .. n
  BY TopIsRoot
<1>3. P[0] = k /\ \A l \in 1 .. n : P[l] = (P[l - 1] + 1) \div 2
  <2>1. Climbs(P, k, n)
    BY <1>1, PathRecursion
  <2> QED  BY <2>1 DEF Climbs
<1> DEFINE leaf == leaves[k]  root == L[top][1]
<1>4. PICK C : IsHashed(C, leaf, proof, top) /\ verifyMerkleProof(leaf, proof, root) = (C[top] = root)
  <2>1. top \in Nat /\ Len(proof) = top
    BY <1>2 DEF top
  <2> HIDE DEF leaf, root
  <2> QED  BY <2>1, ComputedRecursion
<1>41. C[0] = leaves[k] /\ \A l \in 1 .. top : C[l] = SortedPairHash(C[l - 1], proof[l])
  BY <1>4 DEF IsHashed
<1> DEFINE Right(l) == P[l] \in 1 .. Len(L[l]) /\ C[l] = L[l][P[l]]
           T == {l \in Nat : l <= top => Right(l)}
<1>5. 0 \in T
  <2>1. Len(leaves) = n
    BY LevelLength
  <2> QED  BY <1>1, <1>3, <1>41, <2>1
<1>6. ASSUME NEW l \in Nat, l \in T  PROVE l + 1 \in T
  <2> SUFFICES ASSUME l + 1 <= top  PROVE Right(l + 1)
    OBVIOUS
  <2>1. l \in 0 .. n /\ l + 1 \in 1 .. n /\ l + 1 \in 1 .. top /\ (l + 1) - 1 = l
    BY <1>2
  <2>2. Right(l)
    BY <1>2, <1>6, <2>1
  <2>3. PICK c \in Nat \ {0} : IsLevel(L[l], c)
    BY <1>1, <2>1
  <2>4. Len(L[l]) = c
    BY <2>3, LevelLength
  <2> DEFINE p == P[l]  q == (p + 1) \div 2
  <2>5. p \in 1 .. c
    BY <2>2, <2>4
  <2>6. L[l + 1] = NextLevel(L[l]) /\ P[l + 1] = q
    BY <1>1, <1>3, <2>1
  <2>7. q \in 1 .. ((c + 1) \div 2)
    BY <2>5, PlaceAbove
  <2>8. NextLevel(L[l])[q] = SortedPairHash(L[l][p], Sibling(L[l], p))
    BY <2>3, <2>5, HashAbove
  <2>9. C[l + 1] = SortedPairHash(C[l], proof[l + 1])
    BY <1>41, <2>1
  <2>10. proof[l + 1] = Sibling(L[l], p)
    BY <2>1
  <2>11. IsLevel(NextLevel(L[l]), (c + 1) \div 2)
    BY <2>3, NextLevelIsLevel
  <2>12. Len(L[l + 1]) = (c + 1) \div 2
    BY <2>6, <2>11, LevelLength
  <2>13. C[l] = L[l][p]
    BY <2>2
  <2> HIDE DEF p, q
  <2>14. C[l + 1] = L[l + 1][q]
    BY <2>6, <2>8, <2>9, <2>10, <2>13
  <2> QED  BY <2>6, <2>7, <2>12, <2>14
<1>7. Nat \subseteq T
  <2> HIDE DEF T
  <2> QED  BY <1>5, <1>6, SetInduction
<1>8. Right(top)
  BY <1>2, <1>7
<1>9. Len(L[top]) <= 1
  BY TopIsRoot
<1>10. P[top] = 1
  <2>1. PICK c \in Nat \ {0} : IsLevel(L[top], c)
    BY <1>1, <1>2
  <2>2. Len(L[top]) = c
    BY <2>1, LevelLength
  <2> QED  BY <1>8, <1>9, <2>2
<1>11. C[top] = L[top][1]
  BY <1>8, <1>10
<1> QED  BY <1>4, <1>11

\* The digests of a finite set are in some order, in which each has a rank.
LEMMA DigestsRank ==
  ASSUME NEW H, IsFiniteSet(H), NEW D, D = SetToSeq(H)
  PROVE  \A x \in H : RankIn(D, x) \in Nat /\ D[RankIn(D, x)] = x
<1> DEFINE c == Cardinality(H)
<1>1. c \in Nat /\ IsFiniteSet(1 .. c) /\ Cardinality(1 .. c) = c
  BY FS_CardinalityType, FS_Interval
<1>2. \E f \in [1 .. c -> H] : IsInjective(f)
  <2>1. PICK m \in Nat : ExistsBijection(1 .. m, H)
    BY FS_NatBijection
  <2>2. m = c
    BY <2>1, FS_CountingElements
  <2>3. ExistsBijection(1 .. c, H)
    BY <2>1, <2>2
  <2> HIDE DEF c
  <2> QED  BY <2>3 DEF ExistsBijection, Bijection, Injection
<1>3. D \in [1 .. c -> H] /\ IsInjective(D)
  BY <1>2 DEF SetToSeq
<1>4. D \in Surjection(1 .. c, H)
  <2>1. D \in Injection(1 .. c, H)
    BY <1>3 DEF Injection
  <2> HIDE DEF c
  <2>2. Cardinality(1 .. c) = Cardinality(H)
    BY <1>1 DEF c
  <2> QED  BY <2>1, <2>2, FS_Injection
<1> TAKE x \in H
<1>5. \E i \in DOMAIN D : D[i] = x
  BY <1>3, <1>4 DEF Surjection
<1>6. RankIn(D, x) \in DOMAIN D /\ D[RankIn(D, x)] = x
  BY <1>5 DEF RankIn
<1> QED  BY <1>3, <1>6

\* The sequence s lists the n votes, each once,
IsListing(s, votes, n) ==
  /\ s = [k \in 1 .. n |-> s[k]]
  /\ \A k \in 1 .. n : s[k].place \in 1 .. n /\ s[k].leaf = HashLeaf(votes[s[k].place])
  /\ \A i \in 1 .. n : \E k \in 1 .. n : s[k].place = i
  /\ \A k, l \in 1 .. n : s[k].place = s[l].place => k = l

\* by the ranks of their leaves.
IsOrdered(s, digests, n) ==
  \A k, l \in 1 .. n : k < l => RankIn(digests, s[k].leaf) <= RankIn(digests, s[l].leaf)

LeavesOf(votes) == {HashLeaf(votes[i]) : i \in DOMAIN votes}

LEMMA LeavesFinite ==
  ASSUME NEW votes, NEW n \in Nat, DOMAIN votes = 1 .. n
  PROVE  IsFiniteSet(LeavesOf(votes))
<1> DEFINE f == [i \in 1 .. n |-> HashLeaf(votes[i])]
<1>1. f \in Surjection(1 .. n, LeavesOf(votes))
  BY DEF LeavesOf, Surjection
<1>2. IsFiniteSet(1 .. n)
  BY FS_Interval
<1> HIDE DEF f
<1> QED  BY <1>1, <1>2, FS_Surjection

LEMMA VotesAreSorted ==
  ASSUME NEW votes, NEW n \in Nat, DOMAIN votes = 1 .. n
  PROVE  /\ IsListing(SortedVotes(votes), votes, n)
         /\ IsOrdered(SortedVotes(votes), SetToSeq(LeavesOf(votes)), n)
<1> DEFINE Entry(i) == [place |-> i, leaf |-> HashLeaf(votes[i])]
           H == {Entry(i) : i \in DOMAIN votes}
           digests == SetToSeq({v.leaf : v \in H})
           Sooner(v, w) == LET d == RankIn(digests, v.leaf)  e == RankIn(digests, w.leaf)
                           IN d < e \/ (d = e /\ v.place < w.place)
           Good(sorted) == \A k, l \in DOMAIN votes : k < l => Sooner(sorted[k], sorted[l])
           s == SortedVotes(votes)
<1>1. s = CHOOSE sorted \in SetToSeqs(H) : Good(sorted)
  BY DEF SortedVotes
<1>2. {v.leaf : v \in H} = LeavesOf(votes)
  <2>1. ASSUME NEW v \in H  PROVE v.leaf \in LeavesOf(votes)
    BY DEF LeavesOf
  <2>2. ASSUME NEW x \in LeavesOf(votes)  PROVE \E v \in H : v.leaf = x
    <3>1. PICK i \in DOMAIN votes : x = HashLeaf(votes[i])
      BY DEF LeavesOf
    <3>2. Entry(i) \in H /\ Entry(i).leaf = x
      BY <3>1
    <3> QED  BY <3>2
  <2> HIDE DEF H
  <2> QED  BY <2>1, <2>2
<1> DEFINE D == SetToSeq(LeavesOf(votes))
<1>3. \A x \in LeavesOf(votes) : RankIn(D, x) \in Nat /\ D[RankIn(D, x)] = x
  <2> HIDE DEF D
  <2>1. IsFiniteSet(LeavesOf(votes))
    BY LeavesFinite
  <2> QED  BY <2>1, DigestsRank DEF D
<1>4. digests = D
  BY <1>2
<1> HIDE DEF digests, D
<1>5. Cardinality(H) = n /\ IsFiniteSet(H)
  <2> DEFINE e == [i \in 1 .. n |-> Entry(i)]
  <2>1. e \in Surjection(1 .. n, H)
    BY DEF Surjection
  <2>2. e \in Injection(1 .. n, H)
    BY DEF Injection, IsInjective
  <2>3. IsFiniteSet(1 .. n) /\ Cardinality(1 .. n) = n
    BY FS_Interval
  <2> HIDE DEF e, H
  <2> QED  BY <2>1, <2>2, <2>3, FS_Surjection
<1> DEFINE key == [i \in 1 .. n |-> RankIn(D, HashLeaf(votes[i]))]
           r == Rank(n, key)
<1>6. \A i \in 1 .. n : key[i] \in Int
  BY <1>3 DEF LeavesOf
<1>7. /\ r \in [1 .. n -> 1 .. n]
      /\ \A i, j \in 1 .. n : r[i] = r[j] => i = j
      /\ \A k \in 1 .. n : \E i \in 1 .. n : r[i] = k
      /\ \A i, j \in 1 .. n : key[i] < key[j] \/ (key[i] = key[j] /\ i < j) => r[i] < r[j]
  <2> HIDE DEF key
  <2> QED  BY <1>6, RankIsBijection
<1> DEFINE at(k) == CHOOSE i \in 1 .. n : r[i] = k
           w == [k \in 1 .. n |-> Entry(at(k))]
<1>8. \A k \in 1 .. n : at(k) \in 1 .. n /\ r[at(k)] = k
  <2> HIDE DEF r
  <2> QED  BY <1>7
<1>9. w \in SetToSeqs(H)
  <2> HIDE DEF at
  <2>1. w \in [1 .. n -> H]
    BY <1>8
  <2>2. \A i, j \in 1 .. n : i # j => w[i] # w[j]
    <3> HIDE DEF r
    <3> QED  BY <1>8
  <2> HIDE DEF w, H
  <2> QED  BY <1>5, <2>1, <2>2 DEF SetToSeqs
<1>10. Good(w)
  <2> SUFFICES ASSUME NEW k \in 1 .. n, NEW l \in 1 .. n, k < l  PROVE Sooner(w[k], w[l])
    OBVIOUS
  <2> DEFINE i == at(k)  j == at(l)
  <2>1. i \in 1 .. n /\ j \in 1 .. n /\ r[i] = k /\ r[j] = l
    <3> HIDE DEF at, r
    <3> QED  BY <1>8
  <2>2. w[k] = Entry(i) /\ w[l] = Entry(j)
    OBVIOUS
  <2> HIDE DEF i, j, at, w, r
  <2>3. ~(key[j] < key[i] \/ (key[j] = key[i] /\ j < i)) /\ i # j
    <3> HIDE DEF key
    <3>1. ~(r[j] < r[i]) /\ i # j
      BY <2>1
    <3> QED  BY <1>7, <2>1, <3>1
  <2>4. key[i] < key[j] \/ (key[i] = key[j] /\ i < j)
    <3> HIDE DEF key
    <3> QED  BY <1>6, <2>1, <2>3
  <2>5. key[i] = RankIn(digests, HashLeaf(votes[i])) /\ key[j] = RankIn(digests, HashLeaf(votes[j]))
    BY <1>4, <2>1
  <2> HIDE DEF key
  <2> QED  BY <2>2, <2>4, <2>5
<1>11. s \in SetToSeqs(H) /\ Good(s)
  <2> HIDE DEF H, Good, w
  <2> QED  BY <1>1, <1>9, <1>10
<1> HIDE DEF s, w, r, key, at
<1>12. s \in [1 .. n -> H] /\ \A k, l \in 1 .. n : k # l => s[k] # s[l]
  <2> HIDE DEF H
  <2> QED  BY <1>5, <1>11 DEF SetToSeqs
<1>13. s \in Surjection(1 .. n, H)
  <2>1. IsFiniteSet(1 .. n) /\ Cardinality(1 .. n) = n
    BY FS_Interval
  <2> HIDE DEF H
  <2>2. s \in Injection(1 .. n, H)
    BY <1>12 DEF Injection, IsInjective
  <2>3. Cardinality(1 .. n) = Cardinality(H)
    BY <1>5, <2>1
  <2> QED  BY <1>5, <2>2, <2>3, FS_Injection
<1>14. \A k \in 1 .. n : s[k].place \in 1 .. n /\ s[k] = Entry(s[k].place)
  BY <1>12
<1>15. \A i \in 1 .. n : \E k \in 1 .. n : s[k].place = i
  <2> TAKE i \in 1 .. n
  <2>1. Entry(i) \in H
    OBVIOUS
  <2>2. PICK k \in 1 .. n : s[k] = Entry(i)
    <3> HIDE DEF H, Entry
    <3> QED  BY <1>13, <2>1 DEF Surjection
  <2> QED  BY <2>2
<1>16. IsListing(s, votes, n)
  <2>1. s = [k \in 1 .. n |-> s[k]]
    <3> HIDE DEF H
    <3> QED  BY <1>12
  <2>2. \A k, l \in 1 .. n : s[k].place = s[l].place => k = l
    <3> HIDE DEF H, Entry
    <3> QED  BY <1>12, <1>14
  <2> QED  BY <1>14, <1>15, <2>1, <2>2 DEF IsListing
<1>17. IsOrdered(s, D, n)
  <2> SUFFICES ASSUME NEW k \in 1 .. n, NEW l \in 1 .. n, k < l
               PROVE  RankIn(D, s[k].leaf) <= RankIn(D, s[l].leaf)
    BY DEF IsOrdered
  <2>1. Sooner(s[k], s[l])
    BY <1>11
  <2>2. s[k].leaf \in LeavesOf(votes) /\ s[l].leaf \in LeavesOf(votes)
    <3>1. s[k].leaf = HashLeaf(votes[s[k].place]) /\ s[l].leaf = HashLeaf(votes[s[l].place])
      BY <1>16 DEF IsListing
    <3>2. s[k].place \in DOMAIN votes /\ s[l].place \in DOMAIN votes
      BY <1>14
    <3> QED  BY <3>1, <3>2 DEF LeavesOf
  <2>3. RankIn(D, s[k].leaf) \in Nat /\ RankIn(D, s[l].leaf) \in Nat
    BY <1>3, <2>2
  <2> QED  BY <1>4, <2>1, <2>3
<1> QED  BY <1>16, <1>17 DEF s, D

\* The leaves of the votes in the order of the tree, and the root above them.
SortedLeaves(votes) == [k \in DOMAIN SortedVotes(votes) |-> SortedVotes(votes)[k].leaf]

RootOf(leaves) == LevelsFrom(leaves)[TopOf(LevelsFrom(leaves))][1]

LEMMA RootOfTheTree ==
  ASSUME NEW votes
  PROVE  buildMerkleVoteTree(votes).root = RootOf(SortedLeaves(votes))
BY DEF buildMerkleVoteTree, RootOf, SortedLeaves

LEMMA SortedLeavesAre ==
  ASSUME NEW votes, NEW n \in Nat, DOMAIN votes = 1 .. n
  PROVE  /\ DOMAIN SortedVotes(votes) = 1 .. n
         /\ IsLevel(SortedLeaves(votes), n)
         /\ \A k \in 1 .. n : SortedLeaves(votes)[k] = SortedVotes(votes)[k].leaf
<1> DEFINE s == SortedVotes(votes)
           t == SortedLeaves(votes)
<1>1. IsListing(s, votes, n)
  BY VotesAreSorted
<1>2. DOMAIN s = 1 .. n
  <2> HIDE DEF s
  <2> QED  BY <1>1 DEF IsListing
<1>3. t = [k \in 1 .. n |-> s[k].leaf]
  BY <1>2 DEF SortedLeaves
<1> HIDE DEF s, t
<1>4. t = [k \in 1 .. n |-> t[k]] /\ \A k \in 1 .. n : t[k] = s[k].leaf
  BY <1>3
<1> QED  BY <1>2, <1>4 DEF s, t, IsLevel

\* The proof the tree gives of each vote verifies against its root.
LEMMA TreeProves ==
  ASSUME NEW votes, NEW n \in Nat \ {0}, DOMAIN votes = 1 .. n, NEW i \in 1 .. n
  PROVE  LET merkle == buildMerkleVoteTree(votes)
         IN verifyMerkleProof(HashLeaf(votes[i]), merkle.proofs[i], merkle.root)
<1> DEFINE s == SortedVotes(votes)
           leaves == SortedLeaves(votes)
           L == LevelsFrom(leaves)
           top == TopOf(L)
           k == CHOOSE m \in DOMAIN s : s[m].place = i
           P == PathOf(L, k)
           proof == [l \in 1 .. top |-> Sibling(L[l - 1], P[l - 1])]
           merkle == buildMerkleVoteTree(votes)
<1>1. merkle.proofs[i] = proof /\ merkle.root = L[top][1]
  BY DEF buildMerkleVoteTree, SortedLeaves
<1>2. IsListing(s, votes, n) /\ DOMAIN s = 1 .. n
  BY VotesAreSorted, SortedLeavesAre
<1>3. IsLevel(leaves, n) /\ \A m \in 1 .. n : leaves[m] = s[m].leaf
  BY SortedLeavesAre
<1> HIDE DEF s, leaves
<1>4. k \in 1 .. n /\ s[k].place = i
  BY <1>2 DEF IsListing
<1> HIDE DEF k
<1>5. leaves[k] = HashLeaf(votes[i])
  BY <1>2, <1>3, <1>4 DEF IsListing
<1>6. top \in Nat
  <2> HIDE DEF L
  <2>1. L = LevelsFrom(leaves)
    BY DEF L
  <2>2. TopOf(L) \in 0 .. n
    BY <1>3, <2>1, TopIsRoot
  <2> QED  BY <2>2
<1> HIDE DEF top, L, P
<1>7. proof = [l \in 1 .. top |-> proof[l]]
  OBVIOUS
<1>8. \A l \in 1 .. top : proof[l] = Sibling(L[l - 1], P[l - 1])
  OBVIOUS
<1> HIDE DEF proof, merkle
<1>9. Len(proof) = top
  <2>1. IsLevel(proof, top)
    BY <1>6, <1>7 DEF IsLevel
  <2> QED  BY <2>1, LevelLength
<1>10. L = LevelsFrom(leaves) /\ P = PathOf(L, k) /\ top = TopOf(L)
  BY DEF L, P, top
<1>11. verifyMerkleProof(leaves[k], proof, L[TopOf(L)][1])
  BY <1>3, <1>4, <1>8, <1>9, <1>10, ProofVerifies
<1> QED  BY <1>1, <1>5, <1>10, <1>11 DEF merkle

LEMMA OneTooMany ==
  ASSUME NEW k \in Nat, NEW j \in Nat, j < k, NEW f \in [1 .. k -> 1 .. j]
  PROVE  \E x, y \in 1 .. k : x # y /\ f[x] = f[y]
<1> DEFINE S == 1 .. k  T == 1 .. j
<1>1. IsFiniteSet(S) /\ Cardinality(S) = k
  BY FS_Interval
<1>2. IsFiniteSet(T) /\ Cardinality(T) = j
  BY FS_Interval
<1>3. f \in [S -> T]
  OBVIOUS
<1> HIDE DEF S, T
<1>4. Cardinality(T) < Cardinality(S)
  BY <1>1, <1>2
<1>5. \E x, y \in S : x # y /\ f[x] = f[y]
  BY <1>1, <1>2, <1>3, <1>4, FS_PigeonHole
<1> QED  BY <1>5 DEF S

\* A nondecreasing sequence, and its items in another order, of which no two
\* are one, that does not decrease either.
IsReordered(b, a, from, n) ==
  /\ a \in [1 .. n -> Nat] /\ b \in [1 .. n -> Nat] /\ from \in [1 .. n -> 1 .. n]
  /\ \A m \in 1 .. n : b[m] = a[from[m]]
  /\ \A m, l \in 1 .. n : from[m] = from[l] => m = l
  /\ \A m, l \in 1 .. n : m < l => a[m] <= a[l]
  /\ \A m, l \in 1 .. n : m < l => b[m] <= b[l]

LEMMA ReorderedIsNotLess ==
  ASSUME NEW n \in Nat, NEW a, NEW b, NEW from, IsReordered(b, a, from, n), NEW k \in 1 .. n
  PROVE  a[k] <= b[k]
<1>1. /\ a \in [1 .. n -> Nat] /\ b \in [1 .. n -> Nat] /\ from \in [1 .. n -> 1 .. n]
      /\ \A m \in 1 .. n : b[m] = a[from[m]]
      /\ \A m, l \in 1 .. n : from[m] = from[l] => m = l
      /\ \A m, l \in 1 .. n : m < l => a[m] <= a[l]
      /\ \A m, l \in 1 .. n : m < l => b[m] <= b[l]
  BY DEF IsReordered
<1> SUFFICES ASSUME b[k] < a[k]  PROVE FALSE
  BY <1>1
<1>2. ASSUME NEW m \in 1 .. k  PROVE from[m] \in 1 .. (k - 1)
  <2>1. m \in 1 .. n
    OBVIOUS
  <2>2. from[m] \in 1 .. n /\ b[m] = a[from[m]]
    BY <1>1, <2>1
  <2>3. b[m] <= b[k]
    BY <1>1, <2>1
  <2>4. a[from[m]] < a[k]
    BY <1>1, <2>1, <2>2, <2>3
  <2>5. ~(k < from[m])
    <3> SUFFICES ASSUME k < from[m]  PROVE FALSE  OBVIOUS
    <3>1. a[k] <= a[from[m]]
      BY <1>1, <2>2
    <3>2. a[k] \in Nat /\ a[from[m]] \in Nat
      BY <1>1, <2>2
    <3> QED  BY <2>4, <3>1, <3>2
  <2>6. from[m] # k
    <3>1. a[k] \in Nat
      BY <1>1
    <3> QED  BY <2>4, <3>1
  <2> QED  BY <2>2, <2>5, <2>6
<1> DEFINE f == [m \in 1 .. k |-> from[m]]
<1>3. f \in [1 .. k -> 1 .. (k - 1)]
  BY <1>2
<1>4. \E x, y \in 1 .. k : x # y /\ f[x] = f[y]
  <2> HIDE DEF f
  <2> DEFINE j == k - 1
  <2>1. j \in Nat /\ j < k /\ k \in Nat /\ f \in [1 .. k -> 1 .. j]
    BY <1>3
  <2> HIDE DEF j
  <2> QED  BY <2>1, OneTooMany
<1>5. PICK x \in 1 .. k, y \in 1 .. k : x # y /\ from[x] = from[y]
  BY <1>4
<1>6. x \in 1 .. n /\ y \in 1 .. n
  OBVIOUS
<1> QED  BY <1>1, <1>5, <1>6

\* The votes in another order.
IsTurned(others, votes, turn, n) ==
  /\ turn \in [1 .. n -> 1 .. n] /\ \A i, j \in 1 .. n : turn[i] = turn[j] => i = j
  /\ \A i \in 1 .. n : others[i] = votes[turn[i]]

\* u has the leaves that s has, each at another place.
HasLeavesOf(u, s, from, n) ==
  /\ from \in [1 .. n -> 1 .. n]
  /\ \A m \in 1 .. n : u[m].leaf = s[from[m]].leaf
  /\ \A m, l \in 1 .. n : from[m] = from[l] => m = l

LEMMA ListingsReordered ==
  ASSUME NEW n \in Nat, NEW votes, NEW others, NEW turn, IsTurned(others, votes, turn, n),
         NEW s, NEW u, IsListing(s, votes, n), IsListing(u, others, n)
  PROVE  \E from : HasLeavesOf(u, s, from, n)
<1> DEFINE from == [m \in 1 .. n |-> CHOOSE l \in 1 .. n : s[l].place = turn[u[m].place]]
<1>1. \A m \in 1 .. n : /\ u[m].place \in 1 .. n /\ turn[u[m].place] \in 1 .. n
                        /\ u[m].leaf = HashLeaf(others[u[m].place])
                        /\ others[u[m].place] = votes[turn[u[m].place]]
  BY DEF IsListing, IsTurned
<1>2. ASSUME NEW m \in 1 .. n
      PROVE  from[m] \in 1 .. n /\ s[from[m]].place = turn[u[m].place]
  <2>1. \E l \in 1 .. n : s[l].place = turn[u[m].place]
    BY <1>1 DEF IsListing
  <2> QED  BY <2>1
<1>3. from \in [1 .. n -> 1 .. n]
  <2>1. from = [m \in 1 .. n |-> from[m]]
    OBVIOUS
  <2> HIDE DEF from
  <2> QED  BY <1>2, <2>1
<1> HIDE DEF from
<1>4. ASSUME NEW m \in 1 .. n  PROVE u[m].leaf = s[from[m]].leaf
  <2>1. from[m] \in 1 .. n /\ s[from[m]].place = turn[u[m].place]
    BY <1>2
  <2>2. s[from[m]].leaf = HashLeaf(votes[s[from[m]].place])
    BY <2>1 DEF IsListing
  <2>3. /\ u[m].leaf = HashLeaf(others[u[m].place])
        /\ others[u[m].place] = votes[turn[u[m].place]]
    BY <1>1
  <2> QED  BY <2>1, <2>2, <2>3
<1>5. ASSUME NEW m \in 1 .. n, NEW l \in 1 .. n, from[m] = from[l]  PROVE m = l
  <2>1. turn[u[m].place] = turn[u[l].place]
    BY <1>2, <1>5
  <2>2. u[m].place = u[l].place
    BY <1>1, <2>1 DEF IsTurned
  <2> QED  BY <2>2 DEF IsListing
<1>6. HasLeavesOf(u, s, from, n)
  BY <1>3, <1>4, <1>5 DEF HasLeavesOf
<1> QED  BY <1>6

\* So no leaf comes sooner for it.
LEMMA NoLeafSooner ==
  ASSUME NEW n \in Nat, NEW votes, NEW others, NEW turn, IsTurned(others, votes, turn, n),
         NEW D, \A i \in 1 .. n : RankIn(D, HashLeaf(votes[i])) \in Nat,
         NEW s, NEW u, IsListing(s, votes, n), IsListing(u, others, n),
         IsOrdered(s, D, n), IsOrdered(u, D, n), NEW k \in 1 .. n
  PROVE  RankIn(D, s[k].leaf) <= RankIn(D, u[k].leaf)
<1> DEFINE a == [m \in 1 .. n |-> RankIn(D, s[m].leaf)]
           b == [m \in 1 .. n |-> RankIn(D, u[m].leaf)]
<1>0. PICK from : HasLeavesOf(u, s, from, n)
  BY ListingsReordered
<1>1. /\ from \in [1 .. n -> 1 .. n]
      /\ \A m \in 1 .. n : u[m].leaf = s[from[m]].leaf
      /\ \A m, l \in 1 .. n : from[m] = from[l] => m = l
  BY <1>0 DEF HasLeavesOf
<1>2. a \in [1 .. n -> Nat]
  BY DEF IsListing
<1>3. \A m \in 1 .. n : b[m] = a[from[m]]
  BY <1>1
<1>4. b \in [1 .. n -> Nat]
  <2>1. b = [m \in 1 .. n |-> b[m]]
    OBVIOUS
  <2> HIDE DEF a, b
  <2>2. \A m \in 1 .. n : b[m] \in Nat
    BY <1>1, <1>2, <1>3
  <2> QED  BY <2>1, <2>2
<1>5. /\ \A m, l \in 1 .. n : m < l => a[m] <= a[l]
      /\ \A m, l \in 1 .. n : m < l => b[m] <= b[l]
  BY DEF IsOrdered
<1>6. a[k] = RankIn(D, s[k].leaf) /\ b[k] = RankIn(D, u[k].leaf)
  OBVIOUS
<1> HIDE DEF a, b
<1>7. IsReordered(b, a, from, n)
  BY <1>1, <1>2, <1>3, <1>4, <1>5 DEF IsReordered
<1>8. a[k] <= b[k]
  BY <1>7, ReorderedIsNotLess
<1> QED  BY <1>6, <1>8

\* The opposite order.
Turned(n) == [i \in 1 .. n |-> n + 1 - i]

LEMMA TurnedTwice ==
  ASSUME NEW n \in Nat
  PROVE  /\ Turned(n) \in [1 .. n -> 1 .. n]
         /\ \A i, j \in 1 .. n : Turned(n)[i] = Turned(n)[j] => i = j
         /\ \A i \in 1 .. n : Turned(n)[Turned(n)[i]] = i
BY DEF Turned

\* The leaves are in one order whichever way the votes are listed.
LEMMA LeavesInOneOrder ==
  ASSUME NEW n \in Nat, NEW votes, NEW others, DOMAIN votes = 1 .. n, DOMAIN others = 1 .. n,
         \A i \in 1 .. n : others[i] = votes[Turned(n)[i]]
  PROVE  SortedLeaves(others) = SortedLeaves(votes)
<1> DEFINE turn == Turned(n)
<1>1. /\ turn \in [1 .. n -> 1 .. n]
      /\ \A i, j \in 1 .. n : turn[i] = turn[j] => i = j
      /\ \A i \in 1 .. n : turn[turn[i]] = i
  BY TurnedTwice
<1> HIDE DEF turn
<1>2. \A i \in 1 .. n : others[i] = votes[turn[i]]
  BY DEF turn
<1>3. \A i \in 1 .. n : votes[i] = others[turn[i]]
  BY <1>1, <1>2
<1>31. IsTurned(others, votes, turn, n) /\ IsTurned(votes, others, turn, n)
  BY <1>1, <1>2, <1>3 DEF IsTurned
<1>4. LeavesOf(others) = LeavesOf(votes)
  <2>1. LeavesOf(others) \subseteq LeavesOf(votes)
    BY <1>1, <1>2 DEF LeavesOf
  <2>2. LeavesOf(votes) \subseteq LeavesOf(others)
    BY <1>1, <1>3 DEF LeavesOf
  <2> QED  BY <2>1, <2>2
<1> DEFINE D == SetToSeq(LeavesOf(votes))
           s == SortedVotes(votes)
           u == SortedVotes(others)
<1>5. /\ IsListing(s, votes, n) /\ IsOrdered(s, D, n)
      /\ IsListing(u, others, n) /\ IsOrdered(u, D, n)
  BY <1>4, VotesAreSorted
<1>6. \A x \in LeavesOf(votes) : RankIn(D, x) \in Nat /\ D[RankIn(D, x)] = x
  <2>1. IsFiniteSet(LeavesOf(votes))
    BY LeavesFinite
  <2> HIDE DEF D
  <2> QED  BY <2>1, DigestsRank DEF D
<1> HIDE DEF D, s, u
<1>7. /\ \A i \in 1 .. n : RankIn(D, HashLeaf(votes[i])) \in Nat
      /\ \A i \in 1 .. n : RankIn(D, HashLeaf(others[i])) \in Nat
  BY <1>1, <1>2, <1>6 DEF LeavesOf
<1>8. ASSUME NEW k \in 1 .. n  PROVE s[k].leaf = u[k].leaf
  <2>1. RankIn(D, s[k].leaf) <= RankIn(D, u[k].leaf)
    BY <1>31, <1>5, <1>7, NoLeafSooner
  <2>2. RankIn(D, u[k].leaf) <= RankIn(D, s[k].leaf)
    BY <1>31, <1>5, <1>7, NoLeafSooner
  <2>3. s[k].leaf \in LeavesOf(votes) /\ u[k].leaf \in LeavesOf(votes)
    <3>1. s[k].place \in 1 .. n /\ s[k].leaf = HashLeaf(votes[s[k].place])
      BY <1>5 DEF IsListing
    <3>2. u[k].place \in 1 .. n /\ u[k].leaf = HashLeaf(others[u[k].place])
      BY <1>5 DEF IsListing
    <3> QED  BY <3>1, <3>2, <1>4 DEF LeavesOf
  <2>4. RankIn(D, s[k].leaf) = RankIn(D, u[k].leaf)
    BY <1>6, <2>1, <2>2, <2>3
  <2> QED  BY <1>6, <2>3, <2>4
<1>9. /\ SortedLeaves(votes) = [k \in 1 .. n |-> s[k].leaf]
      /\ SortedLeaves(others) = [k \in 1 .. n |-> u[k].leaf]
  BY SortedLeavesAre DEF SortedLeaves, s, u
<1> QED  BY <1>8, <1>9

-----------------------------------------------------------------------------
(* The votes in the opposite order.                                        *)

LEMMA ReverseTurns ==
  ASSUME NEW R \in Seq(ModelResponse)
  PROVE  LET n == Len(R)
         IN /\ n \in Nat /\ DOMAIN R = 1 .. n /\ DOMAIN Reverse(R) = 1 .. n
            /\ \A i \in 1 .. n : Turned(n)[i] \in 1 .. n /\ Reverse(R)[i] = R[Turned(n)[i]]
<1> DEFINE n == Len(R)
<1>1. n \in Nat /\ DOMAIN R = 1 .. n
  OBVIOUS
<1>2. Reverse(R) = [i \in 1 .. n |-> R[(n - i) + 1]]
  BY DEF Reverse
<1> HIDE DEF n
<1>3. \A i \in 1 .. n : Turned(n)[i] = (n - i) + 1 /\ Turned(n)[i] \in 1 .. n
  BY <1>1 DEF Turned
<1>4. DOMAIN Reverse(R) = 1 .. n /\ \A i \in 1 .. n : Reverse(R)[i] = R[Turned(n)[i]]
  BY <1>2, <1>3
<1> QED  BY <1>1, <1>3, <1>4 DEF n

\* h has the terms of f, by other names.
Renames(h, f, b, S, T) ==
  /\ IsFiniteSet(S) /\ f \in [T -> Int] /\ b \in [S -> T] /\ h = [x \in S |-> f[b[x]]]
  /\ \A x, y \in S : b[x] = b[y] => x = y
  /\ \A t \in T : \E x \in S : b[x] = t

LEMMA SumRenamed ==
  ASSUME NEW h, NEW f, NEW b, NEW S, NEW T, Renames(h, f, b, S, T)
  PROVE  SumFunction(h) = SumFunction(f)
BY SumReindexed DEF Renames

\* An answer has the peers it had.
LEMMA PeerScoreTurned ==
  ASSUME NEW R \in Seq(ModelResponse), NEW i \in 1 .. Len(R)
  PROVE  PeerScore(Reverse(R), i) = PeerScore(R, Turned(Len(R))[i])
<1> DEFINE n == Len(R)  Q == Reverse(R)  turn == Turned(n)  k == turn[i]
           S == 1 .. n \ {i}  T == 1 .. n \ {k}
           f == [j \in T |-> TextSimilarity(R[k].text, R[j].text)]
           b == [x \in S |-> turn[x]]
           h == [x \in S |-> TextSimilarity(Q[i].text, Q[x].text)]
<1>1. /\ n \in Nat /\ DOMAIN R = 1 .. n /\ DOMAIN Q = 1 .. n
      /\ \A j \in 1 .. n : turn[j] \in 1 .. n /\ Q[j] = R[turn[j]]
  BY ReverseTurns
<1>2. /\ turn \in [1 .. n -> 1 .. n]
      /\ \A x, y \in 1 .. n : turn[x] = turn[y] => x = y
      /\ \A x \in 1 .. n : turn[turn[x]] = x
  BY <1>1, TurnedTwice
<1>3. /\ PeerScore(Q, i) = IF S = {} THEN Unit ELSE SumFunction(h) \div Cardinality(S)
      /\ PeerScore(R, k) = IF T = {} THEN Unit ELSE SumFunction(f) \div Cardinality(T)
  BY <1>1 DEF PeerScore
<1>4. i \in 1 .. n /\ k \in 1 .. n
  BY <1>1
<1> HIDE DEF n, Q, turn
<1>5. f \in [T -> Int]
  <2>1. \A j \in 1 .. n : R[j] \in ModelResponse
    BY <1>1
  <2>2. \A j \in 1 .. n : TextSimilarity(R[k].text, R[j].text) \in Nat
    BY <1>4, <2>1, AnswersAssumption, SimilarityTyped
  <2> HIDE DEF k
  <2> QED  BY <2>2
<1>6. b \in [S -> T] /\ (\A x, y \in S : b[x] = b[y] => x = y) /\ \A t \in T : \E x \in S : b[x] = t
  <2>1. b \in [S -> T]
    BY <1>2, <1>4
  <2>2. \A x, y \in S : b[x] = b[y] => x = y
    BY <1>2
  <2>3. ASSUME NEW t \in T  PROVE \E x \in S : b[x] = t
    <3>1. turn[t] \in 1 .. n /\ turn[turn[t]] = t /\ turn[t] # i
      BY <1>2, <1>4
    <3>2. turn[t] \in S /\ b[turn[t]] = t
      BY <3>1
    <3> QED  BY <3>2
  <2> HIDE DEF b, S, T
  <2> QED  BY <2>1, <2>2, <2>3
<1>7. h = [x \in S |-> f[b[x]]]
  <2>1. \A x \in S : h[x] = f[b[x]]
    <3> TAKE x \in S
    <3>1. Q[i] = R[k] /\ Q[x] = R[b[x]] /\ b[x] \in T
      BY <1>1, <1>4, <1>6
    <3> HIDE DEF b, k, T, S
    <3> QED  BY <3>1
  <2> HIDE DEF b, f, S, T
  <2> QED  BY <2>1
<1>8. IsFiniteSet(1 .. n) /\ Cardinality(1 .. n) = n
  BY <1>1, FS_Interval
<1>9. /\ IsFiniteSet(S) /\ Cardinality(S) = n - 1
      /\ IsFiniteSet(T) /\ Cardinality(T) = n - 1
  <2> HIDE DEF k
  <2> QED  BY <1>4, <1>8, FS_RemoveElement
<1>10. SumFunction(h) = SumFunction(f)
  <2> HIDE DEF b, f, S, T, h
  <2>1. Renames(h, f, b, S, T)
    BY <1>5, <1>6, <1>7, <1>9 DEF Renames
  <2> QED  BY <2>1, SumRenamed
<1>11. S = {} <=> T = {}
  <2> HIDE DEF S, T
  <2> QED  BY <1>9, FS_EmptySet
<1> HIDE DEF S, T, f, h, k
<1>12. PeerScore(Q, i) = PeerScore(R, k)
  BY <1>3, <1>9, <1>10, <1>11
<1> QED  BY <1>12 DEF n, Q, turn, k

LEMMA VotesTurned ==
  ASSUME NEW R \in Seq(ModelResponse)
  PROVE  SortedLeaves(Votes(Reverse(R))) = SortedLeaves(Votes(R))
<1> DEFINE n == Len(R)  Q == Reverse(R)  turn == Turned(n)
<1>1. /\ n \in Nat /\ DOMAIN R = 1 .. n /\ DOMAIN Q = 1 .. n
      /\ \A j \in 1 .. n : turn[j] \in 1 .. n /\ Q[j] = R[turn[j]]
  BY ReverseTurns
<1>2. DOMAIN Votes(R) = 1 .. n /\ DOMAIN Votes(Q) = 1 .. n
  BY <1>1 DEF Votes
<1>3. ASSUME NEW i \in 1 .. n  PROVE Votes(Q)[i] = Votes(R)[turn[i]]
  <2>1. PeerScore(Q, i) = PeerScore(R, turn[i])
    BY PeerScoreTurned
  <2>2. Votes(Q)[i] = <<ModelId(Q[i]), Q[i].text, PeerScore(Q, i)>>
    BY <1>1 DEF Votes
  <2>3. Votes(R)[turn[i]] = <<ModelId(R[turn[i]]), R[turn[i]].text, PeerScore(R, turn[i])>>
    BY <1>1 DEF Votes
  <2> QED  BY <1>1, <2>1, <2>2, <2>3
<1> DEFINE votes == Votes(R)  others == Votes(Q)
<1>4. \A i \in 1 .. n : others[i] = votes[Turned(n)[i]]
  BY <1>3
<1> HIDE DEF votes, others, n, turn
<1>5. SortedLeaves(others) = SortedLeaves(votes)
  <2>1. DOMAIN votes = 1 .. n /\ DOMAIN others = 1 .. n
    BY <1>2 DEF votes, others
  <2> QED  BY <1>1, <1>4, <2>1, LeavesInOneOrder
<1> QED  BY <1>5 DEF votes, others

-----------------------------------------------------------------------------
(* The state machine.                                                      *)

\* What is scored is what scoreVerification makes of the answers and the weights of then.
ScoringInv ==
  /\ responses \in Seq(ModelResponse)
  /\ subject = "answers" => weight \in Standings
  /\ scored # NotYet =>
       /\ subject = "answers" /\ responses # <<>>
       /\ scored \in scoreVerification(taskType, responses, weight)

LEMMA ScoringInvInit == EvaluationInit => ScoringInv
BY DEF EvaluationInit, ScoringInv

LEMMA ScoringInvStep == ScoringInv /\ [EvaluationNext]_evaluationVars => ScoringInv'
<1> SUFFICES ASSUME ScoringInv, [EvaluationNext]_evaluationVars  PROVE ScoringInv'
  OBVIOUS
<1>1. ASSUME NEW m \in Models, NEW r \in AnswersOf[m], Answer(m, r)  PROVE ScoringInv'
  <2>1. r \in ModelResponse
    BY DEF ModelResponse
  <2> QED  BY <1>1, <2>1 DEF Answer, ScoringInv
<1>2. CASE Score
  BY <1>2 DEF Score, ScoringInv
<1>3. ASSUME NEW choice \in BranchChoices, AddBranch(choice)  PROVE ScoringInv'
  BY <1>3 DEF AddBranch, ScoringInv
<1>4. CASE EvaluateBLS
  BY <1>4 DEF EvaluateBLS, ScoringInv
<1>5. ASSUME NEW truth, UpdateWithGroundTruth(truth)  PROVE ScoringInv'
  BY <1>5 DEF UpdateWithGroundTruth, ScoringInv
<1>6. CASE UNCHANGED evaluationVars
  BY <1>6 DEF evaluationVars, ScoringInv
<1> QED  BY <1>1, <1>2, <1>3, <1>4, <1>5, <1>6 DEF EvaluationNext

\* For any models, answers and standings: the answers scoreVerification throws
\* out as outliers weigh at most half of those that count.
THEOREM OutliersStayAMinority ==
  EvaluationInit /\ [][EvaluationNext]_evaluationVars => []OutliersAreAMinority
<1>1. ScoringInv => OutliersAreAMinority
  <2> SUFFICES ASSUME ScoringInv, scored # NotYet  PROVE OutliersAreAMinority
    BY DEF OutliersAreAMinority
  <2>1. /\ responses \in Seq(ModelResponse) /\ weight \in Standings
        /\ scored \in scoreVerification(taskType, responses, weight)
    BY DEF ScoringInv
  <2>2. scored.outliers = OutliersOf(responses, weight)
    BY <2>1, ResultParts
  <2>3. 2 * WeightOf(WeightsOf(responses, weight), OutliersOf(responses, weight))
          <= WeightOf(WeightsOf(responses, weight), Counting(responses, weight))
    BY <2>1, AnswersWeighed
  <2> QED  BY <2>2, <2>3 DEF OutliersAreAMinority, WeightsOf, Counting
<1> QED
  BY ScoringInvInit, ScoringInvStep, <1>1, PTL

\* For any models, answers and standings: a reliable verdict rests on two
\* providers with a third of all the weight that counts, two thirds of what
\* was kept (scoreVerification).
THEOREM ReliableStaysBacked ==
  EvaluationInit /\ [][EvaluationNext]_evaluationVars => []ReliableIsBacked
<1>1. ScoringInv => ReliableIsBacked
  <2> SUFFICES ASSUME ScoringInv, scored # NotYet, scored.verdict = "reliable"
               PROVE  ReliableIsBacked
    BY DEF ReliableIsBacked
  <2>1. /\ responses \in Seq(ModelResponse) /\ weight \in Standings
        /\ scored \in scoreVerification(taskType, responses, weight)
    BY DEF ScoringInv
  <2>2. IsBacked(responses, weight, scored)
    BY <2>1, ReliableRestsOn
  <2> QED  BY <2>2 DEF ReliableIsBacked, IsBacked, WeightsOf
<1> QED
  BY ScoringInvInit, ScoringInvStep, <1>1, PTL

\* Every vote can be proved against the root that is reported, and the root
\* does not depend on the order in which the models answered.
THEOREM VotesStayProvable ==
  EvaluationInit /\ [][EvaluationNext]_evaluationVars => []VotesAreProvable
<1>1. ScoringInv => VotesAreProvable
  <2> SUFFICES ASSUME ScoringInv, scored # NotYet  PROVE VotesAreProvable
    BY DEF VotesAreProvable
  <2> DEFINE R == responses
             votes == Votes(R)
             merkle == buildMerkleVoteTree(votes)
             root == scored.vote_merkle_root
             n == Len(R)
  <2>1. /\ R \in Seq(ModelResponse) /\ R # <<>>
        /\ scored \in scoreVerification(taskType, R, weight)
    BY DEF ScoringInv
  <2>2. root = merkle.root
    BY <2>1, ResultParts
  <2>3. n \in Nat \ {0} /\ DOMAIN votes = 1 .. n
    BY <2>1 DEF Votes
  <2>4. ASSUME NEW i \in DOMAIN votes
        PROVE  verifyMerkleProof(HashLeaf(votes[i]), merkle.proofs[i], root)
    <3> HIDE DEF votes, n
    <3>1. i \in 1 .. n
      BY <2>3
    <3>2. verifyMerkleProof(HashLeaf(votes[i]), merkle.proofs[i], merkle.root)
      BY <2>3, <3>1, TreeProves
    <3> QED  BY <2>2, <3>2
  <2>5. buildMerkleVoteTree(Votes(Reverse(R))).root = root
    <3>1. SortedLeaves(Votes(Reverse(R))) = SortedLeaves(votes)
      BY <2>1, VotesTurned
    <3>2. /\ buildMerkleVoteTree(Votes(Reverse(R))).root = RootOf(SortedLeaves(Votes(Reverse(R))))
          /\ merkle.root = RootOf(SortedLeaves(votes))
      BY RootOfTheTree
    <3> QED  BY <2>2, <3>1, <3>2
  <2> QED  BY <2>4, <2>5 DEF VotesAreProvable
<1> QED
  BY ScoringInvInit, ScoringInvStep, <1>1, PTL

-----------------------------------------------------------------------------
(* Decision trees: the scores of the branches.  Percent is opaque to the   *)
(* provers outside these lemmas.                                           *)

\* A quotient is no more than m if the number is no more than m divisors.
LEMMA QuotientAtMost ==
  ASSUME NEW n \in Nat, NEW d \in Nat \ {0}, NEW m \in Nat, n <= m * d
  PROVE  n \div d \in 0 .. m
<1> DEFINE q == n \div d
<1>1. q \in Nat /\ q * d <= n
  BY DivisionBounds
<1> HIDE DEF q
<1>2. q <= m
  <2> SUFFICES ASSUME m + 1 <= q  PROVE FALSE
    BY <1>1
  <2>1. (m + 1) * d <= q * d
    BY <1>1, ProductsMonotone
  <2>2. (m + 1) * d = m * d + d
    OBVIOUS
  <2>3. m * d \in Nat /\ q * d \in Nat
    BY <1>1
  <2> QED  BY <1>1, <2>1, <2>2, <2>3
<1> QED  BY <1>1, <1>2 DEF q

Percent(v) == v \in 0 .. 100

Squared(r) == r * r

LEMMA PercentLeft ==
  ASSUME NEW v, Percent(v)
  PROVE  Percent(100 - v)
BY DEF Percent

LEMMA PercentWithin ==
  ASSUME NEW v \in Int
  PROVE  Percent(Within(0, 100, v))
BY DEF Within, Percent

LEMMA ProductWithin ==
  ASSUME NEW a, NEW b, Percent(a), Percent(b)
  PROVE  a * b \in Nat /\ a * b < Squared(101)
<1>1. a \in Nat /\ b \in Nat /\ a <= 100 /\ b <= 100
  BY DEF Percent
<1>2. a * b <= 100 * b
  BY <1>1, ProductsMonotone
<1>3. a * b \in Nat /\ a * b <= 10000
  BY <1>1, <1>2
<1> DEFINE p == a * b
<1> HIDE DEF p
<1>4. p \in Nat /\ p < Squared(101)
  BY <1>3 DEF p, Squared
<1> QED  BY <1>4 DEF p

\* f gives each of the finitely many, and some, members of S no more than m.
AreScores(f, S, m) == IsFiniteSet(S) /\ S # {} /\ m \in Nat /\ f \in [S -> 0 .. m]

\* An average lies where the numbers do.
LEMMA AverageWithin ==
  ASSUME NEW f, NEW S, NEW m, AreScores(f, S, m)
  PROVE  Average(f) \in 0 .. m
<1>1. /\ IsFiniteSet(S) /\ S # {} /\ m \in Nat /\ f \in [S -> Nat]
      /\ \A x \in S : f[x] <= m
  BY DEF AreScores
<1> DEFINE c == Cardinality(S)
           h == [x \in S |-> IF x \in S THEN m ELSE 0]
<1>2. c \in Nat \ {0}
  BY <1>1, FS_EmptySet, FS_CardinalityType
<1>3. SumFunction(h) = c * m
  BY <1>1, SumConstant
<1>4. h \in [S -> Nat] /\ \A x \in S : 1 * f[x] <= 1 * h[x]
  BY <1>1
<1> HIDE DEF h, c
<1>5. SumFunction(f) \in Nat /\ SumFunction(h) \in Nat
  BY <1>1, <1>4, SumBounds
<1>6. 1 * SumFunction(f) <= 1 * SumFunction(h)
  <2>1. 1 \in Nat
    OBVIOUS
  <2> QED  BY <1>1, <1>4, <2>1, SumScaled
<1>7. SumFunction(f) <= m * c
  BY <1>1, <1>2, <1>3, <1>5, <1>6
<1>8. SumFunction(f) \div c \in 0 .. m
  BY <1>1, <1>2, <1>5, <1>7, QuotientAtMost
<1>9. DOMAIN f = S
  BY <1>1
<1> QED  BY <1>8, <1>9 DEF Average, c

\* Numbers up to 10000 have a root up to 100.
LEMMA RootWithin ==
  ASSUME NEW v \in Nat, v < Squared(101)
  PROVE  Percent(Root(v))
<1> DEFINE T == {r \in 0 .. 100 : v < Squared(r + 1)}
<1>1. 100 \in T
  <2>1. 100 + 1 = 101
    OBVIOUS
  <2> QED  BY <2>1
<1>2. T \subseteq Nat /\ T # {}
  <2>1. T \subseteq Nat
    OBVIOUS
  <2> HIDE DEF T
  <2> QED  BY <1>1, <2>1
<1>3. PICK r \in T : \A s \in T : ~(s < r)
  <2> HIDE DEF T
  <2> QED  BY <1>2, LeastNatural
<1>4. r * r <= v
  <2>1. CASE r = 0
    BY <2>1
  <2>2. CASE r # 0
    <3> DEFINE s == r - 1
    <3>1. s \in 0 .. 100 /\ s < r /\ s + 1 = r
      BY <2>2
    <3>2. s \notin T
      BY <1>3, <3>1
    <3> HIDE DEF s
    <3>3. ~(v < (s + 1) * (s + 1))
      BY <3>1, <3>2 DEF Squared
    <3>4. r * r \in Nat
      OBVIOUS
    <3> QED  BY <3>1, <3>3, <3>4
  <2> QED  BY <2>1, <2>2
<1> QED  BY <1>3, <1>4 DEF Root, Squared, Percent

LEMMA CosineWithin ==
  ASSUME NEW a, NEW b, IsFiniteSet(a), IsFiniteSet(b)
  PROVE  Percent(CosineSimilarity(a, b))
<1>1. CASE a = {} \/ b = {}
  BY <1>1 DEF CosineSimilarity, Percent
<1>2. CASE a # {} /\ b # {}
  <2> DEFINE x == Cardinality(a \cap b)  p == Cardinality(a)  q == Cardinality(b)
  <2>1. x \in Nat /\ p \in Nat \ {0} /\ q \in Nat \ {0} /\ x <= p /\ x <= q
    <3>1. IsFiniteSet(a \cap b) /\ a \cap b \in SUBSET a /\ a \cap b \in SUBSET b
      BY FS_Subset
    <3> QED  BY <1>2, <3>1, FS_Subset, FS_EmptySet, FS_CardinalityType
  <2>2. CosineSimilarity(a, b) = Root((x * x * 10000) \div (p * q))
    BY <1>2 DEF CosineSimilarity
  <2> HIDE DEF x, p, q
  <2>3. p * q \in Nat \ {0} /\ x * x \in Nat
    BY <2>1
  <2>4. x * x <= p * q
    <3>1. x * x <= p * x
      BY <2>1, ProductsMonotone
    <3>2. x * p <= q * p
      BY <2>1, ProductsMonotone
    <3>3. x * p = p * x /\ q * p = p * q /\ p * x \in Nat
      BY <2>1
    <3> QED  BY <2>3, <3>1, <3>2, <3>3
  <2> DEFINE y == x * x  d == p * q  z == x * x * 10000  r == z \div d
  <2>5. z \in Nat /\ d \in Nat \ {0} /\ z <= 10000 * d
    <3>1. y \in Nat /\ d \in Nat \ {0} /\ y <= d
      BY <2>3, <2>4
    <3>2. z = y * 10000
      OBVIOUS
    <3> HIDE DEF y, d, z
    <3> QED  BY <3>1, <3>2
  <2>6. r \in 0 .. 10000
    <3> HIDE DEF y, d, z
    <3>1. 10000 \in Nat
      OBVIOUS
    <3> QED  BY <2>5, <3>1, QuotientAtMost
  <2>7. CosineSimilarity(a, b) = Root(r)
    BY <2>2
  <2>8. r \in Nat /\ r < Squared(101)
    <3> HIDE DEF r
    <3> QED  BY <2>6 DEF Squared
  <2> HIDE DEF r
  <2>9. Percent(Root(r))
    BY <2>8, RootWithin
  <2> QED  BY <2>7, <2>9
<1> QED  BY <1>1, <1>2

LEMMA FiniteBelow ==
  ASSUME NEW m \in Nat
  PROVE  IsFiniteSet(0 .. m)
<1>1. 0 \in Int /\ m \in Int
  OBVIOUS
<1> QED  BY <1>1, FS_Interval

\* The greatest of some numbers up to m is one of them, and the greatest.
LEMMA MaxWithin ==
  ASSUME NEW m \in Nat, NEW S \in SUBSET (0 .. m), S # {}
  PROVE  Max(S) \in S /\ Max(S) \in 0 .. m /\ \A x \in S : x <= Max(S)
<1>1. IsFiniteSet(S)
  BY FiniteBelow, FS_Subset
<1>2. S \in SUBSET Nat
  OBVIOUS
<1>3. PICK g \in S : \A x \in S : x <= g
  BY <1>1, <1>2, GreatestNatural
<1>4. \A x \in S : g >= x
  BY <1>2, <1>3
<1>5. Max(S) \in S /\ \A x \in S : Max(S) >= x
  BY <1>3, <1>4 DEF Max
<1>6. \A x \in S : x <= Max(S)
  BY <1>2, <1>5
<1> QED  BY <1>5, <1>6

\* What a support has to say, and what the branch's supports are.
LEMMA SupportWeighed ==
  ASSUME NEW id \in DOMAIN Evidence
  PROVE  /\ Authority(id) * Relevance(id) \in Nat
         /\ Authority(id) * Relevance(id) < Squared(101)
<1> DEFINE x == Evidence[id].authority  y == Evidence[id].relevance
           a == Authority(id)  r == Relevance(id)  p == a * r
<1>1. x \in 0 .. 100 /\ y \in 0 .. 100
  BY EvidenceAssumption
<1>2. (a = 50 \/ a = x) /\ (r = 50 \/ r = y)
  BY DEF Authority, Relevance
<1> HIDE DEF x, y, a, r
<1>3. Percent(a) /\ Percent(r)
  BY <1>1, <1>2 DEF Percent
<1>4. p \in Nat /\ p < Squared(101)
  BY <1>3, ProductWithin
<1> QED  BY <1>4 DEF p, a, r

LEMMA PlacesOf ==
  ASSUME NEW s, NEW V, s \in Seq(V)
  PROVE  /\ Len(s) \in Nat /\ DOMAIN s = 1 .. Len(s)
         /\ IsFiniteSet(DOMAIN s) /\ Cardinality(DOMAIN s) = Len(s)
         /\ s # <<>> => DOMAIN s # {} /\ Len(s) # 0
<1>1. Len(s) \in Nat /\ DOMAIN s = 1 .. Len(s) /\ (s # <<>> => Len(s) # 0)
  OBVIOUS
<1> DEFINE m == Len(s)
<1>2. m \in Nat
  BY <1>1
<1> HIDE DEF m
<1>3. IsFiniteSet(1 .. m) /\ Cardinality(1 .. m) = m
  BY <1>2, FS_Interval
<1>4. m # 0 => 1 \in 1 .. m
  BY <1>2
<1> QED  BY <1>1, <1>3, <1>4 DEF m

\* The places of a branch's supports and quotes are finitely many.
LEMMA BranchPlaces ==
  ASSUME NEW b, DecisionBranch(b)
  PROVE  /\ IsFiniteSet(DOMAIN b.supports)
         /\ b.supports # <<>> => DOMAIN b.supports # {}
         /\ Len(b.quotes) \in Nat
         /\ IsFiniteSet(DOMAIN b.quotes) /\ Cardinality(DOMAIN b.quotes) = Len(b.quotes)
         /\ b.quotes # <<>> => Len(b.quotes) # 0
<1> DEFINE s == b.supports  q == b.quotes
<1>1. s \in Seq(ToSet(s)) /\ q \in Seq(ToSet(q))
  BY DEF DecisionBranch
<1> HIDE DEF s, q
<1>2. /\ IsFiniteSet(DOMAIN s) /\ (s # <<>> => DOMAIN s # {})
      /\ Len(q) \in Nat /\ IsFiniteSet(DOMAIN q) /\ Cardinality(DOMAIN q) = Len(q)
      /\ q # <<>> => Len(q) # 0
  BY <1>1, PlacesOf
<1> QED  BY <1>2 DEF s, q

LEMMA EvidenceQualityWithin ==
  ASSUME NEW b, DecisionBranch(b)
  PROVE  Percent(computeEvidenceQuality(b))
<1> DEFINE ids == b.supports
           known == {i \in DOMAIN ids : ids[i] \in DOMAIN Evidence}
           score == [i \in known |-> Root(Authority(ids[i]) * Relevance(ids[i]))]
<1>1. computeEvidenceQuality(b) = IF known = {} THEN 0 ELSE Average(score)
  BY DEF computeEvidenceQuality
<1>2. IsFiniteSet(DOMAIN ids)
  BY BranchPlaces
<1>3. IsFiniteSet(known)
  <2>1. known \in SUBSET (DOMAIN ids)
    OBVIOUS
  <2> HIDE DEF known
  <2> QED  BY <1>2, <2>1, FS_Subset
<1>4. ASSUME NEW i \in known  PROVE Percent(score[i])
  <2> DEFINE x == Authority(ids[i]) * Relevance(ids[i])
  <2>1. score[i] = Root(x)
    OBVIOUS
  <2>2. x \in Nat /\ x < Squared(101)
    BY SupportWeighed
  <2> HIDE DEF x, score
  <2> QED  BY <2>1, <2>2, RootWithin
<1>5. score = [i \in known |-> score[i]]
  OBVIOUS
<1> HIDE DEF score, known
<1>6. ASSUME known # {}  PROVE Percent(Average(score))
  <2>1. score \in [known -> 0 .. 100]
    BY <1>4, <1>5 DEF Percent
  <2>2. 100 \in Nat
    OBVIOUS
  <2>3. AreScores(score, known, 100)
    BY <1>3, <1>6, <2>1, <2>2 DEF AreScores
  <2> QED  BY <2>3, AverageWithin DEF Percent
<1>7. Percent(0)
  BY DEF Percent
<1> QED  BY <1>1, <1>6, <1>7

LEMMA EntailmentTyped ==
  ASSUME NEW b, DecisionBranch(b)
  PROVE  estimateEntailment(b) \in Nat
<1> DEFINE ids == b.supports
           score == [i \in DOMAIN ids |->
                       IF ids[i] \in DOMAIN Evidence
                       THEN (Authority(ids[i]) * Relevance(ids[i])) \div 100 ELSE 0]
           m == Squared(101)
<1>1. estimateEntailment(b) = IF ids = <<>> THEN 0 ELSE Average(score)
  BY DEF estimateEntailment
<1>2. IsFiniteSet(DOMAIN ids) /\ (ids # <<>> => DOMAIN ids # {})
  BY BranchPlaces
<1>3. m \in Nat
  BY DEF Squared
<1> HIDE DEF m
<1>4. ASSUME NEW i \in DOMAIN ids  PROVE score[i] \in 0 .. m
  <2>1. CASE ids[i] \in DOMAIN Evidence
    <3> DEFINE x == Authority(ids[i]) * Relevance(ids[i])
    <3>1. x \in Nat /\ x < m
      BY <2>1, SupportWeighed DEF m
    <3>2. score[i] = x \div 100
      BY <2>1
    <3> HIDE DEF x, score
    <3>3. x \div 100 \in 0 .. m
      BY <1>3, <3>1
    <3> QED  BY <3>2, <3>3
  <2>2. CASE ids[i] \notin DOMAIN Evidence
    <3>1. score[i] = 0
      BY <2>2
    <3> HIDE DEF score
    <3> QED  BY <1>3, <3>1
  <2> QED  BY <2>1, <2>2
<1>5. score = [i \in DOMAIN ids |-> score[i]]
  OBVIOUS
<1> HIDE DEF score
<1>6. ASSUME ids # <<>>  PROVE Average(score) \in Nat
  <2>1. score \in [DOMAIN ids -> 0 .. m]
    BY <1>4, <1>5
  <2>2. AreScores(score, DOMAIN ids, m)
    BY <1>2, <1>3, <1>6, <2>1 DEF AreScores
  <2>3. Average(score) \in 0 .. m
    BY <2>2, AverageWithin
  <2> QED  BY <1>3, <2>3
<1> QED  BY <1>1, <1>6

LEMMA QuotesWithin ==
  ASSUME NEW b, DecisionBranch(b)
  PROVE  Percent(computeQuoteAttribution(b))
<1> DEFINE quotes == b.quotes
           Mismatched(q) == \/ q.evidence_id \notin DOMAIN Evidence
                            \/ q.text \notin Evidence[q.evidence_id].quotes
           wrong == {i \in DOMAIN quotes : Mismatched(quotes[i])}
           bad == Cardinality(wrong)
           d == Len(quotes)  r == (100 * bad) \div d
<1>1. computeQuoteAttribution(b) = IF quotes = <<>> THEN 100 ELSE 100 - r
  BY DEF computeQuoteAttribution
<1>2. /\ d \in Nat /\ IsFiniteSet(DOMAIN quotes)
      /\ Cardinality(DOMAIN quotes) = d /\ (quotes # <<>> => d # 0)
  BY BranchPlaces
<1>3. bad \in Nat /\ bad <= d
  <2>1. wrong \in SUBSET (DOMAIN quotes)
    OBVIOUS
  <2> HIDE DEF wrong, quotes
  <2> QED  BY <1>2, <2>1, FS_Subset, FS_CardinalityType
<1> HIDE DEF quotes, d, bad, wrong
<1>4. ASSUME quotes # <<>>  PROVE Percent(r)
  <2>1. 100 * bad \in Nat /\ d \in Nat \ {0} /\ 100 * bad <= 100 * d /\ 100 \in Nat
    BY <1>2, <1>3, <1>4
  <2> QED  BY <2>1, QuotientAtMost DEF Percent
<1>5. Percent(100)
  BY DEF Percent
<1> HIDE DEF r
<1>6. quotes # <<>> => Percent(100 - r)
  BY <1>4, PercentLeft
<1> QED  BY <1>1, <1>5, <1>6

\* The branches of a tree: finitely many records of DecisionBranch.
Branches(s) == Len(s) \in Nat /\ DOMAIN s = 1 .. Len(s) /\ \A i \in DOMAIN s : DecisionBranch(s[i])

LEMMA NecessityWithin ==
  ASSUME NEW b, NEW branches, DecisionBranch(b), Branches(branches)
  PROVE  Percent(computeNecessity(b, branches))
<1> DEFINE others == {i \in DOMAIN branches : branches[i].id # b.id}
           Like(i) == CosineSimilarity(b.condition.words, branches[i].condition.words)
           S == {0} \cup {Like(i) : i \in others}
           dup == Max(S)
           y == ((dup - RedundancyThreshold) * 100) \div (100 - RedundancyThreshold)
           w == Within(0, 100, y)
<1>1. computeNecessity(b, branches) = 100 - w
  BY DEF computeNecessity
<1>2. \A i \in others : Percent(Like(i))
  <2> TAKE i \in others
  <2>1. IsFiniteSet(b.condition.words) /\ IsFiniteSet(branches[i].condition.words)
    BY DEF DecisionBranch, Branches
  <2> QED  BY <2>1, CosineWithin
<1>3. S \in SUBSET (0 .. 100)
  <2>1. 0 \in 0 .. 100
    OBVIOUS
  <2> HIDE DEF Like, others
  <2> QED  BY <1>2, <2>1 DEF Percent
<1>4. S # {}
  OBVIOUS
<1>5. dup \in 0 .. 100
  <2>1. 100 \in Nat
    OBVIOUS
  <2> HIDE DEF S
  <2> QED  BY <1>3, <1>4, <2>1, MaxWithin
<1> HIDE DEF dup
<1>6. y \in Int
  BY <1>5 DEF RedundancyThreshold
<1> HIDE DEF y
<1>7. Percent(w)
  BY <1>6, PercentWithin
<1> HIDE DEF w
<1>8. Percent(100 - w)
  BY <1>7, PercentLeft
<1> QED  BY <1>1, <1>8

\* The necessity and the legitimacy of a branch are in their ranges.
Rate(v) == v \in TenThousandths

IsScored(s) == Percent(s.necessity) /\ Rate(s.legitimacy)

LEMMA WeightedSum ==
  ASSUME NEW e \in Nat, NEW q \in Nat, NEW n \in Nat, NEW c \in Nat, NEW s \in Nat,
         e <= 100, q <= 100, n <= 100, c <= 100, s <= 100
  PROVE  LET v == 35 * e + 20 * q + 15 * n + 15 * c + 15 * s
         IN v \in Nat /\ v <= 10000
OBVIOUS

LEMMA WeightedParts ==
  ASSUME NEW e, NEW q, NEW n, NEW c, NEW s, NEW r,
         Percent(e), Percent(q), Percent(n), Percent(c), Percent(s),
         r.necessity = n, r.legitimacy = 35 * e + 20 * q + 15 * n + 15 * c + 15 * s
  PROVE  IsScored(r)
<1> DEFINE l == r.legitimacy
<1>1. /\ e \in Nat /\ q \in Nat /\ n \in Nat /\ c \in Nat /\ s \in Nat
      /\ e <= 100 /\ q <= 100 /\ n <= 100 /\ c <= 100 /\ s <= 100
  BY DEF Percent
<1>2. l \in Nat /\ l <= 10000
  BY <1>1, WeightedSum
<1> HIDE DEF l
<1>3. Rate(l)
  BY <1>2 DEF Rate, TenThousandths
<1> QED  BY <1>3 DEF IsScored, l

LEMMA ScopeWithin ==
  ASSUME NEW b, NEW t \in Nat, DecisionBranch(b)
  PROVE  Percent(computeScopeCorrectness(b, t))
<1> DEFINE x == b.confidence - t  w == Within(0, 100, x)
<1>1. b.confidence \in 0 .. 100
  BY DEF DecisionBranch
<1>2. x \in Int
  BY <1>1
<1>3. computeScopeCorrectness(b, t) = 100 - w
  BY DEF computeScopeCorrectness
<1> HIDE DEF x
<1>4. Percent(w)
  BY <1>2, PercentWithin
<1> HIDE DEF w
<1>5. Percent(100 - w)
  BY <1>4, PercentLeft
<1> QED  BY <1>3, <1>5

LEMMA ClarityWithin ==
  ASSUME NEW b, DecisionBranch(b)
  PROVE  Percent(computeConditionClarity(b))
<1>1. b.condition.form \in {"formal", "prose", "vague", "empty"} /\ b.parseable \in BOOLEAN
  BY DEF DecisionBranch
<1>2. computeConditionClarity(b) \in {0, 50, 100}
  BY <1>1 DEF computeConditionClarity
<1>3. Percent(0) /\ Percent(50) /\ Percent(100)
  BY DEF Percent
<1> QED  BY <1>2, <1>3

LEMMA LegitimacyWithin ==
  ASSUME NEW b, NEW branches, DecisionBranch(b), Branches(branches)
  PROVE  IsScored(computeBranchLegitimacy(b, branches))
<1> DEFINE e == computeEvidenceQuality(b)  q == computeQuoteAttribution(b)
           n == computeNecessity(b, branches)  c == computeConditionClarity(b)
           s == computeScopeCorrectness(b, estimateEntailment(b))
           r == computeBranchLegitimacy(b, branches)
<1>1. Percent(e) /\ Percent(q) /\ Percent(n) /\ Percent(c)
  BY EvidenceQualityWithin, QuotesWithin, NecessityWithin, ClarityWithin
<1>2. Percent(s)
  BY EntailmentTyped, ScopeWithin
<1>3. r.necessity = n /\ r.legitimacy = 35 * e + 20 * q + 15 * n + 15 * c + 15 * s
  BY DEF computeBranchLegitimacy, Weights
<1> HIDE DEF e, q, n, c, s, r
<1>4. IsScored(r)
  BY <1>1, <1>2, <1>3, WeightedParts
<1> QED  BY <1>4 DEF r

-----------------------------------------------------------------------------
(* Decision trees: faults and slashes.                                     *)

LEMMA PlacesFinite ==
  ASSUME NEW s, Branches(s)
  PROVE  IsFiniteSet(DOMAIN s)
<1> DEFINE m == Len(s)
<1>1. m \in Nat /\ DOMAIN s = 1 .. m
  BY DEF Branches
<1> HIDE DEF m
<1>2. IsFiniteSet(1 .. m)
  BY <1>1, FS_Interval
<1> QED  BY <1>1, <1>2 DEF m

\* The scores of a tree, one for each branch.
TreeScored(t, s) ==
  /\ Branches(t.branches) /\ t.budget \in Nat
  /\ DOMAIN s = DOMAIN t.branches /\ \A i \in DOMAIN s : IsScored(s[i])

LEMMA ScoredPlaces ==
  ASSUME NEW t, NEW s, TreeScored(t, s)
  PROVE  /\ Len(t.branches) \in Nat /\ IsFiniteSet(1 .. Len(t.branches))
         /\ DOMAIN s = 1 .. Len(t.branches)
<1> DEFINE b == t.branches
<1>1. Branches(b) /\ DOMAIN s = DOMAIN b
  BY DEF TreeScored
<1> HIDE DEF b
<1>2. Len(b) \in Nat /\ DOMAIN b = 1 .. Len(b)
  BY <1>1 DEF Branches
<1>3. IsFiniteSet(DOMAIN b)
  BY <1>1, PlacesFinite
<1> QED  BY <1>1, <1>2, <1>3 DEF b

Permille(v) == v \in 0 .. 1000

LEMMA PermilleWithin ==
  ASSUME NEW v \in Int
  PROVE  Permille(Within(0, 1000, v)) /\ (v = 0 => Within(0, 1000, v) = 0)
BY DEF Within, Permille

PermilleOf(n, d) == (1000 * n) \div d

LEMMA PermilleQuotient ==
  ASSUME NEW n \in Nat, NEW d \in Nat \ {0}, n <= d
  PROVE  Permille(PermilleOf(n, d)) /\ (n = 0 => PermilleOf(n, d) = 0)
<1> DEFINE m == 1000
<1>1. m \in Nat
  OBVIOUS
<1> HIDE DEF m
<1>2. n * m <= d * m
  BY <1>1, ProductsMonotone
<1>3. m * n \in Nat /\ m * n <= m * d
  BY <1>1, <1>2
<1>4. (m * n) \div d \in 0 .. m
  BY <1>1, <1>3, QuotientAtMost
<1>5. n = 0 => (1000 * n) \div d = 0
  OBVIOUS
<1> QED  BY <1>4, <1>5 DEF m, Permille, PermilleOf

\* A branch weighs something.
LEMMA BranchWeighs ==
  ASSUME NEW t, t.budget \in Nat, Len(t.branches) \in Nat, NEW i \in 1 .. Len(t.branches)
  PROVE  BranchWeight(t, i) \in Nat \ {0}
<1> DEFINE g == t.budget  base == AtLeast(1, g)
<1>1. g \in Nat /\ i \in Nat
  OBVIOUS
<1>2. base \in Nat \ {0}
  BY <1>1 DEF AtLeast
<1>3. BranchWeight(t, i) =
        IF Len(t.branches) > g /\ i - 1 >= g THEN base + LambdaExcess * (i - 1 - g) ELSE base
  BY DEF BranchWeight
<1> HIDE DEF g, base
<1>4. i - 1 >= g => base + LambdaExcess * (i - 1 - g) \in Nat \ {0}
  BY <1>1, <1>2 DEF LambdaExcess
<1> QED  BY <1>2, <1>3, <1>4

\* The deficit of a branch, and that a legitimate one has none.
Deficit(s, i) == AtLeast(0, LegitThreshold - s[i].legitimacy)

LEMMA DeficitTyped ==
  ASSUME NEW s, NEW i, IsScored(s[i])
  PROVE  /\ Deficit(s, i) \in Nat
         /\ s[i].legitimacy >= LegitThreshold => Deficit(s, i) = 0
<1> DEFINE l == s[i].legitimacy
<1>1. Rate(l)
  BY DEF IsScored
<1>2. Deficit(s, i) = AtLeast(0, LegitThreshold - l)
  BY DEF Deficit
<1> HIDE DEF l
<1>3. l \in Nat
  BY <1>1 DEF Rate, TenThousandths
<1>4. AtLeast(0, LegitThreshold - l) \in Nat
      /\ (l >= LegitThreshold => AtLeast(0, LegitThreshold - l) = 0)
  BY <1>3 DEF AtLeast, LegitThreshold
<1> QED  BY <1>2, <1>4 DEF l

\* D is a share, and zero if the truth contradicts nothing.
LEMMA DisagreementWithin ==
  ASSUME NEW t, NEW s, NEW truth, TreeScored(t, s)
  PROVE  LET D == classifyFaults(t, s, truth).D
         IN Permille(D) /\ ((\A i \in DOMAIN s : truth[i] # "wrong") => D = 0)
<1> DEFINE K == Len(t.branches)
           legit == {i \in 1 .. K : s[i].legitimacy >= LegitThreshold}
           wrong == {i \in legit : truth[i] = "wrong"}
           n == Cardinality(wrong)  d == Cardinality(legit)  q == PermilleOf(n, d)
           D == classifyFaults(t, s, truth).D
<1>1. D = IF legit = {} THEN 0 ELSE q
  BY DEF classifyFaults, PermilleOf
<1>2. IsFiniteSet(1 .. K) /\ DOMAIN s = 1 .. K
  BY ScoredPlaces
<1>3. legit \in SUBSET (1 .. K) /\ wrong \in SUBSET legit
      /\ ((\A i \in DOMAIN s : truth[i] # "wrong") => wrong = {})
  BY <1>2
<1> HIDE DEF legit, wrong, D
<1>4. IsFiniteSet(legit) /\ IsFiniteSet(wrong) /\ n \in Nat /\ d \in Nat /\ n <= d
      /\ (legit # {} => d # 0) /\ (wrong = {} => n = 0)
  BY <1>2, <1>3, FS_Subset, FS_CardinalityType, FS_EmptySet
<1> HIDE DEF n, d
<1>5. ASSUME legit # {}  PROVE Permille(q) /\ (n = 0 => q = 0)
  <2>1. n \in Nat /\ d \in Nat \ {0} /\ n <= d
    BY <1>4, <1>5
  <2> QED  BY <2>1, PermilleQuotient
<1>6. Permille(0)
  BY DEF Permille
<1> HIDE DEF q
<1>7. Permille(D) /\ ((\A i \in DOMAIN s : truth[i] # "wrong") => D = 0)
  BY <1>1, <1>3, <1>4, <1>5, <1>6
<1> QED  BY <1>7 DEF D

\* U is a share, and zero if all branches are legitimate.
LEMMA SeverityWithin ==
  ASSUME NEW t, NEW s, NEW truth, TreeScored(t, s)
  PROVE  LET U == classifyFaults(t, s, truth).U
         IN Permille(U) /\ ((\A i \in DOMAIN s : s[i].legitimacy >= LegitThreshold) => U = 0)
<1> DEFINE K == Len(t.branches)
           honest == \A i \in DOMAIN s : s[i].legitimacy >= LegitThreshold
           f == [i \in 1 .. K |-> BranchWeight(t, i) * AtLeast(0, LegitThreshold - s[i].legitimacy)]
           h == [i \in 1 .. K |-> BranchWeight(t, i)]
           weighted == SumFunction(f)  total == SumFunction(h)
           v == (1000 * weighted) \div (LegitThreshold * total)
           w == Within(0, 1000, v)
           U == classifyFaults(t, s, truth).U
<1>1. U = IF K = 0 THEN 0 ELSE w
  BY DEF classifyFaults
<1>2. K \in Nat /\ IsFiniteSet(1 .. K) /\ DOMAIN s = 1 .. K /\ (K # 0 => 1 \in 1 .. K)
  <2>1. K \in Nat /\ IsFiniteSet(1 .. K) /\ DOMAIN s = 1 .. K
    BY ScoredPlaces
  <2> QED  BY <2>1
<1>3. \A i \in 1 .. K : BranchWeight(t, i) \in Nat \ {0}
  BY <1>2, BranchWeighs DEF TreeScored
<1>4. \A i \in 1 .. K : f[i] \in Nat /\ (honest => f[i] = 0)
  <2> TAKE i \in 1 .. K
  <2> DEFINE x == BranchWeight(t, i)  y == Deficit(s, i)
  <2>1. f[i] = x * y
    BY DEF Deficit
  <2>2. x \in Nat
    BY <1>3
  <2>3. IsScored(s[i])
    BY <1>2 DEF TreeScored
  <2>4. y \in Nat /\ (honest => y = 0)
    BY <1>2, <2>3, DeficitTyped
  <2> HIDE DEF x, y, f, honest
  <2> QED  BY <2>1, <2>2, <2>4
<1>5. \A i \in 1 .. K : h[i] \in Nat \ {0}
  BY <1>3
<1>6. f = [i \in 1 .. K |-> f[i]] /\ h = [i \in 1 .. K |-> h[i]]
  OBVIOUS
<1> HIDE DEF f, h, honest, U
<1>7. f \in [1 .. K -> Nat] /\ h \in [1 .. K -> Nat]
  BY <1>4, <1>5, <1>6
<1>8. weighted \in Nat /\ total \in Nat /\ (K # 0 => total # 0)
  <2> DEFINE S == 1 .. K
  <2>1. IsFiniteSet(S) /\ f \in [S -> Nat] /\ h \in [S -> Nat]
    BY <1>2, <1>7
  <2>2. K # 0 => 1 \in S /\ h[1] \in Nat \ {0}
    BY <1>2, <1>5
  <2> HIDE DEF S
  <2>3. weighted \in Nat /\ total \in Nat /\ \A u \in S : h[u] <= total
    BY <2>1, SumBounds
  <2>4. K # 0 => h[1] <= total
    BY <2>2, <2>3
  <2> HIDE DEF weighted, total
  <2> QED  BY <2>2, <2>3, <2>4
<1>9. honest => weighted = 0
  <2> DEFINE S == 1 .. K
  <2>1. IsFiniteSet(S) /\ f \in [S -> Int] /\ (honest => \A x \in S : f[x] = 0)
    BY <1>2, <1>4, <1>7
  <2> HIDE DEF S
  <2> QED  BY <2>1, SumZero
<1> HIDE DEF weighted, total
<1>10. K # 0 => v \in Int /\ (honest => v = 0)
  BY <1>8, <1>9 DEF LegitThreshold
<1> HIDE DEF v
<1>11. K # 0 => Permille(w) /\ (honest => w = 0)
  BY <1>10, PermilleWithin
<1>12. Permille(0)
  BY DEF Permille
<1> HIDE DEF w, K
<1>13. Permille(U) /\ (honest => U = 0)
  BY <1>1, <1>11, <1>12
<1> QED  BY <1>13 DEF U, honest

\* The penalty of U, and that there is none without U.
LEMMA PenaltyTyped ==
  ASSUME NEW U \in Nat
  PROVE  UnjustifiedPenalty(U) \in Nat /\ (U = 0 => UnjustifiedPenalty(U) = 0)
<1> DEFINE square == (U * U) \div 1000  cube == (square * U) \div 1000
           power == IF Gamma = 2 THEN square ELSE cube
           penalty == (6000 * power) \div 1000
<1>1. UnjustifiedPenalty(U) = penalty
  BY DEF UnjustifiedPenalty, BlsParams
<1>2. U * U \in Nat /\ (U = 0 => U * U = 0)
  OBVIOUS
<1>3. square \in Nat /\ (U = 0 => square = 0)
  BY <1>2
<1> HIDE DEF square
<1>4. square * U \in Nat /\ (U = 0 => square * U = 0)
  BY <1>3
<1>5. cube \in Nat /\ (U = 0 => cube = 0)
  BY <1>4
<1> HIDE DEF cube
<1>6. power \in Nat /\ (U = 0 => power = 0)
  BY <1>3, <1>5
<1> HIDE DEF power
<1>7. penalty \in Nat /\ (U = 0 => penalty = 0)
  BY <1>6
<1> QED  BY <1>1, <1>7

\* The rate before the minima, as SlashRate computes it from D and U.
FaultRate(D, U) ==
  Within(0, 10000, (((BlsParams.a * D) \div 1000) * D) \div 1000 + UnjustifiedPenalty(U)
                     - (((BlsParams.c * D) \div 1000) * U) \div 1000)

LEMMA RateWithin ==
  ASSUME NEW v \in Int
  PROVE  /\ Rate(Within(0, 10000, v))
         /\ 0 <= v /\ v <= 1000 => Within(0, 10000, v) = v
BY DEF Within, Rate, TenThousandths

\* Disagreement alone costs at most a tenth, and nothing costs nothing.
LEMMA FaultRateFits ==
  ASSUME NEW D, NEW U, Permille(D), Permille(U)
  PROVE  LET r == FaultRate(D, U)
         IN Rate(r) /\ (U = 0 => r <= 1000) /\ (U = 0 /\ D = 0 => r = 0)
<1> DEFINE aD == (1000 * D) \div 1000  x == aD * D  sD == x \div 1000
           cD == (500 * D) \div 1000  y == cD * U  overlap == y \div 1000
           p == UnjustifiedPenalty(U)
           v == sD + p - overlap
           w == Within(0, 10000, v)
<1>1. FaultRate(D, U) = w
  BY DEF FaultRate, BlsParams
<1>2. D \in Nat /\ D <= 1000 /\ U \in Nat
  BY DEF Permille
<1>3. aD = D /\ cD \in Nat
  BY <1>2
<1> HIDE DEF aD, cD
<1>4. x \in Nat /\ x <= 1000000 /\ (D = 0 => x = 0)
  <2>1. D * D <= 1000 * D
    <3> DEFINE m == 1000
    <3>1. m \in Nat /\ D <= m
      BY <1>2
    <3> HIDE DEF m
    <3>2. D * D <= m * D
      BY <1>2, <3>1, ProductsMonotone
    <3> QED  BY <3>2 DEF m
  <2>2. x = D * D /\ D * D \in Nat /\ (D = 0 => D * D = 0)
    BY <1>2, <1>3
  <2> HIDE DEF x
  <2> QED  BY <1>2, <2>1, <2>2
<1>5. y \in Nat /\ (U = 0 => y = 0)
  BY <1>2, <1>3
<1> HIDE DEF x, y
<1>6. sD \in Nat /\ sD <= 1000 /\ (D = 0 => sD = 0)
  BY <1>4
<1>7. overlap \in Nat /\ (U = 0 => overlap = 0)
  BY <1>5
<1>8. p \in Nat /\ (U = 0 => p = 0)
  BY <1>2, PenaltyTyped
<1> HIDE DEF sD, overlap, p
<1>9. v \in Int /\ (U = 0 => v = sD)
  BY <1>6, <1>7, <1>8
<1> HIDE DEF v
<1>10. Rate(w) /\ (0 <= v /\ v <= 1000 => w = v)
  BY <1>9, RateWithin
<1> HIDE DEF w
<1>11. Rate(w) /\ (U = 0 => w <= 1000) /\ (U = 0 /\ D = 0 => w = 0)
  BY <1>6, <1>9, <1>10
<1> QED  BY <1>1, <1>11

\* The rate of the slash: that of the faults, unless a hard trigger asks for more.
LEMMA SlashRateFits ==
  ASSUME NEW f, NEW t, NEW s, Permille(f.D), Permille(f.U)
  PROVE  LET r == SlashRate(f, t, s)
         IN /\ Rate(r)
            /\ ~ checkHighConfidenceNoSupport(t) /\ ~ checkSpamRedundancy(t, s)
                 => r = FaultRate(f.D, f.U)
            /\ checkHighConfidenceNoSupport(t) => 5000 <= r
<1> DEFINE rate == FaultRate(f.D, f.U)
           noSupport == checkHighConfidenceNoSupport(t)
           spam == checkSpamRedundancy(t, s)
           minima == (IF noSupport THEN {5000} ELSE {}) \cup (IF spam THEN {4000} ELSE {})
           S == {rate} \cup minima
           r == SlashRate(f, t, s)
<1>1. r = Max(S)
  BY DEF SlashRate, FaultRate, HardTriggers, checkFabricatedQuote
<1>2. Rate(rate)
  BY FaultRateFits
<1> DEFINE m == 10000
<1>3. m \in Nat /\ 5000 \in 0 .. m /\ 4000 \in 0 .. m
  OBVIOUS
<1>4. rate \in 0 .. m
  <2> HIDE DEF rate
  <2> QED  BY <1>2 DEF Rate, TenThousandths
<1>5. S \in SUBSET (0 .. m) /\ S # {} /\ (noSupport => 5000 \in S)
      /\ (~ noSupport /\ ~ spam => S = {rate})
  <2> HIDE DEF m, rate, noSupport, spam
  <2> QED  BY <1>3, <1>4
<1> HIDE DEF S, m, rate, noSupport, spam, r
<1>6. r \in S /\ r \in 0 .. m /\ \A x \in S : x <= r
  BY <1>1, <1>3, <1>5, MaxWithin
<1>7. Rate(r)
  BY <1>6 DEF m, Rate, TenThousandths
<1>8. (~ noSupport /\ ~ spam => r = rate) /\ (noSupport => 5000 <= r)
  BY <1>5, <1>6
<1> QED  BY <1>7, <1>8 DEF r, rate, noSupport, spam

\* What a rate takes of a stake.
LEMMA SlashOfRate ==
  ASSUME NEW stake \in Nat, NEW r, Rate(r)
  PROVE  LET q == (stake * r) \div 10000
         IN /\ q \in 0 .. stake
            /\ r <= 1000 => 10 * q <= stake
            /\ r = 0 => q = 0
            /\ 5000 <= r => q >= stake \div 2
<1> DEFINE p == stake * r  q == p \div 10000
<1>1. r \in Nat /\ r <= 10000
  BY DEF Rate, TenThousandths
<1>2. p \in Nat /\ (r = 0 => p = 0)
  BY <1>1
<1>3. ASSUME NEW k \in Nat  PROVE (r <= k => p <= k * stake) /\ (k <= r => k * stake <= p)
  <2>1. (r <= k => r * stake <= k * stake) /\ (k <= r => k * stake <= r * stake)
    BY <1>1, ProductsMonotone
  <2>2. r * stake = p
    BY <1>1
  <2> QED  BY <2>1, <2>2
<1>4. p <= 10000 * stake /\ (r <= 1000 => p <= 1000 * stake) /\ (5000 <= r => 5000 * stake <= p)
  <2> HIDE DEF p
  <2>1. 10000 \in Nat /\ 1000 \in Nat /\ 5000 \in Nat
    OBVIOUS
  <2> QED  BY <1>1, <1>3, <2>1
<1> HIDE DEF p
<1>5. /\ q \in 0 .. stake
      /\ r <= 1000 => 10 * q <= stake
      /\ r = 0 => q = 0
  BY <1>2, <1>4
<1>6. 5000 <= r => q >= stake \div 2
  BY <1>2, <1>4
<1> QED  BY <1>5, <1>6 DEF p

\* The score of a tree is in its range.
LEMMA BlsWithin ==
  ASSUME NEW t, NEW s, TreeScored(t, s)
  PROVE  Rate(computeBLS(t, s))
<1> DEFINE K == Len(t.branches)  g == t.budget
           base == AtLeast(1, g)  excess == AtLeast(0, K - g)
           factor == IF t.covered THEN 10 ELSE 7
           f == [i \in 1 .. K |-> s[i].legitimacy]
           mean == Average(f)  part == (mean * factor) \div 10
           num == part * base  den == base + excess
           v == num \div den
<1>1. computeBLS(t, s) = IF K = 0 THEN 0 ELSE v
  BY DEF computeBLS
<1>2. K \in Nat /\ g \in Nat /\ IsFiniteSet(1 .. K) /\ DOMAIN s = 1 .. K /\ (K # 0 => 1 .. K # {})
  <2>1. K \in Nat /\ IsFiniteSet(1 .. K) /\ DOMAIN s = 1 .. K
    BY ScoredPlaces
  <2>2. t.budget \in Nat
    BY DEF TreeScored
  <2>3. K # 0 => 1 \in 1 .. K
    BY <2>1
  <2> HIDE DEF K
  <2> QED  BY <2>1, <2>2, <2>3
<1>3. base \in Nat \ {0} /\ excess \in Nat /\ factor \in {7, 10}
  BY <1>2 DEF AtLeast
<1> DEFINE m == 10000
<1>4. m \in Nat /\ \A x : Rate(x) <=> x \in 0 .. m
  BY DEF Rate, TenThousandths
<1> HIDE DEF m
<1>5. \A i \in 1 .. K : f[i] \in 0 .. m
  BY <1>2, <1>4 DEF TreeScored, IsScored
<1>6. f = [i \in 1 .. K |-> f[i]]
  OBVIOUS
<1> HIDE DEF f, m, base, excess, factor, g
<1>7. ASSUME K # 0  PROVE mean \in 0 .. m
  <2> DEFINE S == 1 .. K
  <2>1. f \in [S -> 0 .. m]
    BY <1>5, <1>6
  <2>2. IsFiniteSet(S) /\ S # {}
    BY <1>2, <1>7
  <2> HIDE DEF S
  <2>3. AreScores(f, S, m)
    BY <1>4, <2>1, <2>2 DEF AreScores
  <2> QED  BY <2>3, AverageWithin
<1> HIDE DEF mean, K
<1>8. ASSUME K # 0  PROVE part \in 0 .. m
  <2>1. mean \in Nat /\ mean <= m
    BY <1>4, <1>7, <1>8
  <2>2. factor = 7 \/ factor = 10
    BY <1>3
  <2>3. CASE factor = 7
    <3>1. part = (mean * 7) \div 10
      BY <2>3
    <3> HIDE DEF part
    <3> QED  BY <1>4, <2>1, <3>1
  <2>4. CASE factor = 10
    <3>1. part = (mean * 10) \div 10
      BY <2>4
    <3> HIDE DEF part
    <3> QED  BY <1>4, <2>1, <3>1
  <2> QED  BY <2>2, <2>3, <2>4
<1> HIDE DEF part
<1>9. ASSUME K # 0  PROVE v \in 0 .. m
  <2>1. part \in Nat /\ part <= m /\ den \in Nat \ {0} /\ base \in Nat /\ base <= den
    BY <1>3, <1>4, <1>8, <1>9
  <2> HIDE DEF den
  <2>2. part * base <= m * base
    BY <1>4, <2>1, ProductsMonotone
  <2>3. base * m <= den * m
    BY <1>4, <2>1, ProductsMonotone
  <2>4. num \in Nat /\ num <= m * den
    <3>1. m * base = base * m /\ m * den = den * m /\ m * base \in Nat /\ m * den \in Nat
          /\ num \in Nat
      BY <1>4, <2>1
    <3> HIDE DEF num
    <3>2. num <= m * base
      BY <2>2 DEF num
    <3> QED  BY <2>3, <3>1, <3>2
  <2> HIDE DEF num
  <2> QED  BY <1>4, <2>1, <2>4, QuotientAtMost
<1> HIDE DEF v
<1>10. K # 0 => Rate(v)
  BY <1>4, <1>9
<1>11. Rate(0)
  BY DEF Rate, TenThousandths
<1> QED  BY <1>1, <1>10, <1>11

-----------------------------------------------------------------------------
(* Decision trees: what the machine stores.                                *)

\* A branch as AddBranch stores it.
Stored == {[choice EXCEPT !.id = k] : choice \in BranchChoices, k \in Nat}

\* A tree holds stored branches; its scores are those evaluateBLS computes
\* from it, and what is settled is computed from the tree, these scores and
\* the truth.
TreeInv ==
  /\ DOMAIN tree = {"branches", "budget", "covered"}
  /\ tree.branches \in Seq(Stored) /\ tree.budget \in Nat
  /\ scores # NotYet =>
       scores = [i \in DOMAIN tree.branches |->
                   computeBranchLegitimacy(tree.branches[i], tree.branches)]
  /\ settled # NotYet =>
       /\ scores # NotYet
       /\ settled.faults = classifyFaults(tree, scores, settled.truth)
       /\ settled.bls = computeBLS(tree, scores)
       /\ settled.slash = computeSlashing(Stake, settled.faults, tree, scores)

LEMMA StoredAreBranches ==
  ASSUME NEW b \in Stored
  PROVE  DecisionBranch(b)
<1>1. PICK choice \in BranchChoices, k \in Nat : b = [choice EXCEPT !.id = k]
  BY DEF Stored
<1>2. DecisionBranch(choice)
  BY BranchesAssumption
<1>3. DOMAIN choice = {"id", "condition", "parseable", "confidence", "supports", "quotes"}
  BY <1>2 DEF DecisionBranch
<1>4. /\ DOMAIN b = DOMAIN choice /\ b.condition = choice.condition
      /\ b.parseable = choice.parseable /\ b.confidence = choice.confidence
      /\ b.supports = choice.supports /\ b.quotes = choice.quotes
  BY <1>1, <1>3
<1> QED  BY <1>2, <1>4 DEF DecisionBranch

LEMMA StoredBranches ==
  ASSUME NEW s \in Seq(Stored)
  PROVE  Branches(s)
<1>1. Len(s) \in Nat /\ DOMAIN s = 1 .. Len(s) /\ \A i \in DOMAIN s : s[i] \in Stored
  OBVIOUS
<1> QED  BY <1>1, StoredAreBranches DEF Branches

LEMMA TreeInit == EvaluationInit => TreeInv
<1> SUFFICES ASSUME EvaluationInit  PROVE TreeInv
  OBVIOUS
<1>1. tree \in [branches : {<<>>}, budget : IF subject = "tree" THEN Budgets ELSE {0},
                covered : IF subject = "tree" THEN BOOLEAN ELSE {FALSE}]
  BY DEF EvaluationInit
<1>2. DOMAIN tree = {"branches", "budget", "covered"} /\ tree.branches = <<>> /\ tree.budget \in Nat
  <2> DEFINE B == IF subject = "tree" THEN Budgets ELSE {0}
             C == IF subject = "tree" THEN BOOLEAN ELSE {FALSE}
  <2>1. tree \in [branches : {<<>>}, budget : B, covered : C]
    BY <1>1
  <2>2. B \subseteq Nat
    BY BudgetsAssumption
  <2> HIDE DEF B, C
  <2>3. DOMAIN tree = {"branches", "budget", "covered"}
    BY <2>1
  <2>4. tree.branches = <<>> /\ tree.budget \in B
    BY <2>1
  <2> QED  BY <2>2, <2>3, <2>4
<1>3. scores = NotYet /\ settled = NotYet
  BY DEF EvaluationInit
<1>4. tree.branches \in Seq(Stored)
  BY <1>2
<1> QED  BY <1>2, <1>3, <1>4 DEF TreeInv

LEMMA TreeStep == TreeInv /\ [EvaluationNext]_evaluationVars => TreeInv'
<1> SUFFICES ASSUME TreeInv, [EvaluationNext]_evaluationVars  PROVE TreeInv'
  OBVIOUS
<1>1. ASSUME UNCHANGED <<tree, scores, settled>>  PROVE TreeInv'
  BY <1>1 DEF TreeInv
<1>2. ASSUME NEW choice \in BranchChoices, AddBranch(choice)  PROVE TreeInv'
  <2> DEFINE b == [choice EXCEPT !.id = Len(tree.branches) + 1]
  <2>1. tree.branches \in Seq(Stored) /\ DOMAIN tree = {"branches", "budget", "covered"}
    BY DEF TreeInv
  <2>2. b \in Stored
    <3>1. Len(tree.branches) + 1 \in Nat
      BY <2>1
    <3> QED  BY <3>1 DEF Stored
  <2>3. tree' = [tree EXCEPT !.branches = Append(@, b)]
    BY <1>2 DEF AddBranch
  <2> HIDE DEF b
  <2>4. DOMAIN tree' = DOMAIN tree /\ tree'.branches = Append(tree.branches, b)
        /\ tree'.budget = tree.budget
    BY <2>1, <2>3
  <2>5. tree'.branches \in Seq(Stored)
    BY <2>1, <2>2, <2>4
  <2>6. scores = NotYet /\ scores' = scores /\ settled' = settled
    BY <1>2 DEF AddBranch
  <2> QED  BY <2>1, <2>4, <2>5, <2>6 DEF TreeInv
<1>3. ASSUME EvaluateBLS  PROVE TreeInv'
  BY <1>3 DEF EvaluateBLS, TreeInv
<1>4. ASSUME NEW truth \in [DOMAIN tree.branches -> {"right", "wrong", "unknown"}],
             UpdateWithGroundTruth(truth)
      PROVE  TreeInv'
  <2>1. /\ scores # NotYet /\ tree' = tree /\ scores' = scores
        /\ settled'.truth = truth
        /\ settled'.faults = classifyFaults(tree, scores, truth)
        /\ settled'.bls = computeBLS(tree, scores)
        /\ settled'.slash = computeSlashing(Stake, classifyFaults(tree, scores, truth), tree, scores)
    BY <1>4 DEF UpdateWithGroundTruth
  <2> QED  BY <2>1 DEF TreeInv
<1>5. ASSUME NEW m \in Models, NEW r \in AnswersOf[m], Answer(m, r)  PROVE TreeInv'
  BY <1>1, <1>5 DEF Answer
<1>6. ASSUME Score  PROVE TreeInv'
  BY <1>1, <1>6 DEF Score
<1>7. CASE UNCHANGED evaluationVars
  BY <1>1, <1>7 DEF evaluationVars
<1> QED  BY <1>2, <1>3, <1>4, <1>5, <1>6, <1>7 DEF EvaluationNext

LEMMA TreesAreScored ==
  ASSUME TreeInv, scores # NotYet
  PROVE  TreeScored(tree, scores)
<1> DEFINE s == tree.branches
<1>1. Branches(s) /\ tree.budget \in Nat
  BY StoredBranches DEF TreeInv
<1>2. DOMAIN scores = DOMAIN s
      /\ \A i \in DOMAIN s : scores[i] = computeBranchLegitimacy(s[i], s)
  BY DEF TreeInv
<1> HIDE DEF s
<1>3. \A i \in DOMAIN s : IsScored(scores[i])
  <2> TAKE i \in DOMAIN s
  <2>1. DecisionBranch(s[i])
    BY <1>1 DEF Branches
  <2>2. IsScored(computeBranchLegitimacy(s[i], s))
    BY <1>1, <2>1, LegitimacyWithin
  <2> QED  BY <1>2, <2>2
<1> QED  BY <1>1, <1>2, <1>3 DEF TreeScored, s

LEMMA SlashFits == TreeInv => SlashFitsTheFaults
<1> SUFFICES ASSUME TreeInv, settled # NotYet
                PROVE FairSlash(settled.slash) /\ settled.bls \in TenThousandths
  BY DEF SlashFitsTheFaults
<1> DEFINE truth == settled.truth  F == settled.faults
           unbacked == checkHighConfidenceNoSupport(tree)
           spam == checkSpamRedundancy(tree, scores)
           legit == \A i \in DOMAIN scores : scores[i].legitimacy >= LegitThreshold
           r == SlashRate(F, tree, scores)
           slash == settled.slash
<1>1. TreeScored(tree, scores)
  BY TreesAreScored DEF TreeInv
<1>2. F = classifyFaults(tree, scores, truth) /\ slash = (Stake * r) \div 10000
      /\ settled.bls = computeBLS(tree, scores)
  BY DEF TreeInv, computeSlashing
<1>3. Permille(F.D) /\ (~ Contradicted => F.D = 0)
  <2>1. Permille(classifyFaults(tree, scores, truth).D)
        /\ ((\A i \in DOMAIN scores : truth[i] # "wrong") => classifyFaults(tree, scores, truth).D = 0)
    BY <1>1, DisagreementWithin
  <2> QED  BY <1>2, <2>1 DEF Contradicted
<1>4. Permille(F.U) /\ (legit => F.U = 0)
  <2>1. Permille(classifyFaults(tree, scores, truth).U)
        /\ (legit => classifyFaults(tree, scores, truth).U = 0)
    BY <1>1, SeverityWithin
  <2> QED  BY <1>2, <2>1
<1>5. HonestTree => legit /\ ~ unbacked /\ ~ spam
  BY DEF HonestTree
<1> HIDE DEF F, truth, legit, unbacked, spam
<1>6. Rate(r) /\ (~ unbacked /\ ~ spam => r = FaultRate(F.D, F.U)) /\ (unbacked => 5000 <= r)
  BY <1>3, <1>4, SlashRateFits DEF unbacked, spam
<1>7. /\ F.U = 0 => FaultRate(F.D, F.U) <= 1000
      /\ F.U = 0 /\ F.D = 0 => FaultRate(F.D, F.U) = 0
  BY <1>3, <1>4, FaultRateFits
<1> HIDE DEF r
<1>8. (HonestTree => r <= 1000) /\ (HonestTree /\ ~ Contradicted => r = 0)
  BY <1>3, <1>4, <1>5, <1>6, <1>7
<1>9. LET q == (Stake * r) \div 10000
      IN /\ q \in 0 .. Stake
         /\ r <= 1000 => 10 * q <= Stake
         /\ r = 0 => q = 0
         /\ 5000 <= r => q >= Stake \div 2
  BY <1>6, StakeAssumption, SlashOfRate
<1> HIDE DEF slash
<1>10. /\ slash \in 0 .. Stake
       /\ r <= 1000 => 10 * slash <= Stake
       /\ r = 0 => slash = 0
       /\ 5000 <= r => slash >= Stake \div 2
  BY <1>2, <1>9
<1>11. FairSlash(slash)
  BY <1>6, <1>8, <1>10 DEF FairSlash, unbacked
<1>12. settled.bls \in TenThousandths
  <2>1. Rate(computeBLS(tree, scores))
    BY <1>1, BlsWithin
  <2> QED  BY <1>2, <2>1 DEF Rate
<1> QED  BY <1>11, <1>12 DEF slash

\* For any evidence, branches, budgets and stakes: the slash is never more than
\* the stake; a tree of legitimate, supported and distinct branches loses
\* nothing unless the truth contradicts one and a tenth at most; a confident
\* branch without support costs half of the stake, rounded down (computeSlashing).
THEOREM SlashesFitTheFaults ==
  EvaluationInit /\ [][EvaluationNext]_evaluationVars => []SlashFitsTheFaults
BY TreeInit, TreeStep, SlashFits, PTL
================================================================================
