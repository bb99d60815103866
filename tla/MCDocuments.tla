----------------------------- MODULE MCDocuments -----------------------------
(***************************************************************************)
(* What the TypeScript packages compute and hand on, side by side: in each *)
(* behaviour evidence bundles are exchanged, or receipts, or answers are   *)
(* scored; `system` says which, and the others stay in their initial       *)
(* states.  They share nothing but the hashes in them.                     *)
(***************************************************************************)
EXTENDS EvidenceExchange, ReceiptExchange, Evaluation, TLC

CONSTANT Systems   \* "evidence", "receipts", "scoring"

VARIABLE system

-----------------------------------------------------------------------------
(* One node with four possible bundles and two readers.                    *)
-----------------------------------------------------------------------------
MCTexts == {"", "plain", "cr", "lf"}
MCLf == [t \in MCTexts |-> IF t = "cr" THEN "lf" ELSE t]
Response(p, t) == [provider |-> p, text |-> t, tokens |-> 1]
Request(task, version, texts, options) ==
  [version |-> version, task |-> task, prompt |-> Digest("prompt"), rubric |-> Digest("rubric"),
   responses |-> [i \in DOMAIN texts |-> Response("p", texts[i])],
   graph |-> [total_claims |-> 2, contradiction_count |-> task - 1],
   summaries |-> IF task = 1 THEN <<>>
                 ELSE <<[text |-> "plain", citations |-> <<"u1", "u1">>, contradicted |-> 1]>>,
   sentences |-> <<"plain", "lf">>, factual |-> 40, score |-> 81, explanation |-> "plain",
   options |-> options]
Replay(prompt) ==
  [prompt_hash |-> prompt, output_hash |-> Digest("plain"), messages |-> "cr",
   messages_hash |-> Digest("lf")]
MCRequests ==
  {Request(1, "0.1", <<"plain", "cr">>, Absent), Request(2, "0.2", <<"plain", "lf">>, Absent),
   Request(1, "0.3", <<"plain">>, Absent),
   Request(2, "0.3", <<"plain">>, [NoOptions EXCEPT !.replay = Replay(Digest("prompt")),
     !.reasoningTrace = generateReasoningTrace(TRUE, toModelRuns(<<Response("p", "plain")>>),
                          <<>>, [a |-> 0], 8100)])}
MCReaders == {"k1", "k2"}
MCRecipientSets == {{"k1"}, {"k1", "k2"}}

-----------------------------------------------------------------------------
(* Four assessments, one of an old layout and two that are refused; three  *)
(* portable receipts of two verifiers and one of an unknown one, each      *)
(* signed by any of the three; four GenAIL runs.                           *)
-----------------------------------------------------------------------------
World(id, differs) ==
  [id |-> id, interpretation |-> id, assumptions |-> <<1>>, differs |-> differs]
MCBuiltin ==
  [worlds |-> <<World(1, TRUE)>>, allowed_claim_types |-> <<"factual">>,
   allowed_verdicts |-> <<"Supported", "Contradicted">>, max_worlds |-> 4]
Space == [worlds |-> <<World(2, TRUE), World(1, TRUE)>>, claim_types |-> <<"factual">>]
BadSpace == [worlds |-> <<World(1, TRUE), World(1, FALSE)>>]

Base(task, score) ==
  [task_id |-> task, input_hash |-> HashOf("i"), output_hash |-> HashOf("o"), score_bps |-> score,
   bundle_hash |-> HashOf("b"), bundle_uri |-> "ipfs", llm_provider |-> "p",
   worthy_threshold_bps |-> 8000, models |-> <<"m">>, outliers |-> <<>>]
Full ==
  Base("t1", 9000) @@
  [possibility_space |-> Space,
   world_assessments |-> <<[world_id |-> 1, status |-> "supported"], [world_id |-> 2, status |-> "rejected"]>>,
   distinction_check |-> TRUE, stabilized_claims |-> <<[id |-> 2], [id |-> 1]>>,
   selected_world_ids |-> <<1>>, unresolved_world_ids |-> <<2>>]
Partial == Base("t1", 4000) @@ [possibility_space |-> Space, claims |-> <<[id |-> 1], [id |-> 2]>>]
Thinking ==
  Base("t2", 7000) @@
  [metacognitive_assessment |-> "m", possibility_space |-> Space, bft_quorum |-> FALSE]
Undeclared ==
  Base("t2", 9000) @@
  [verification_context |-> [verification_program_id |-> "p", evidence_scope |-> "e",
     policy_thresholds |-> <<>>, possibility_space |-> Space, interpretation |-> 3]]
MCParams == {Base("t3", 10001), Full, Partial, Thinking, Undeclared,
             Base("t2", 9000) @@ [program |-> [id |-> "p", possibility_space |-> BadSpace]]}

Old == buildReceipt(Base("t1", 9000), 1)
OldDoc == LET d == [f \in DOMAIN Old \ {"context_version"} |-> Old[f]]
          IN  [d EXCEPT !.receipt_hash = computeReceiptHash(d)]
MCOldReceipts == {[params |-> Base("t1", 9000), doc |-> OldDoc]}

Portable(v, output, score, verdict, version) ==
  [receipt_version |-> "1.0", created_at |-> 1, input_hash |-> hashArtifact("i"),
   output_hash |-> hashArtifact(output), claim_hash |-> hashArtifact("c"), verdict |-> verdict,
   score |-> score, program_id |-> "p", program_version |-> version,
   evidence_bundle_hash |-> hashArtifact("b"), evidence_uri |-> "ipfs", verifier_id |-> v]
MCFields == {Portable("va", "o", 9000, "supported", "1.0.0"),
             Portable("va", "o", 4000, "uncertain", "1.0.1"),
             Portable("vb", "o2", 9000, "supported", "1.0.0"),
             Portable("vc", "o", 9000, "supported", "1.0.0")}
MCVerifiers == [v \in {"va", "vb", "vc"} |-> "k" \o v]
MCKeys == [v \in {"va", "vb"} |-> MCVerifiers[v]]

Line(code, kind, name) == [code |-> code, kind |-> kind, name |-> name]
MCSource(model) ==
  <<Line("model " \o model, "model", model), Line("", "comment", ""), Line("generate", "generate", "")>>
Run(id, nested, scalar, answer, model, options) ==
  [execution_id |-> id, now |-> 1, program |-> parseGenAILProgram(MCSource(model)),
   inputs |-> [q |-> Object([text |-> nested, k |-> scalar]), k |-> Scalar(scalar)],
   outputs |-> [answer |-> Scalar(answer)], llm_calls |-> 1, total_tokens |-> 10,
   model_calls |-> <<[model |-> model, response |-> nested]>>, options |-> options]
Options(b) ==
  [include_source |-> b, include_summaries |-> b, include_reasoning_trace |-> ~b, sensitive |-> {"k"}]
\* x2 differs from x1 in what is nested, x3 in a scalar and the model, x4 in the output
MCContexts ==
  {Run("x1", "n1", "s1", "a1", "m1", Options(TRUE)), Run("x2", "n2", "s1", "a1", "m1", Options(FALSE)),
   Run("x3", "n1", "s2", "a1", "m2", Options(TRUE)), Run("x4", "n1", "s1", "a2", "m1", Options(TRUE))}

-----------------------------------------------------------------------------
(* Four models and their answers to one question, and a tree of branches.  *)
-----------------------------------------------------------------------------
\* Claims: two that agree but for a number, their negation, another, no words.
Sky(neg, nums) == [words |-> {"sky", "looks", "blue"}, neg |-> neg, nums |-> nums]
Sea == [words |-> {"sea", "green"}, neg |-> FALSE, nums |-> <<>>]
Dots == [words |-> {}, neg |-> FALSE, nums |-> <<>>]
MCClaimOrder == <<Dots, Sea, Sky(FALSE, <<>>), Sky(FALSE, <<"42">>),
                  Sky(FALSE, <<"43">>), Sky(TRUE, <<>>)>>
MCDigestOrder == Reverse(MCClaimOrder)

Gov == [id |-> "u1", domain |-> "nasa.gov"]
Gov2 == [id |-> "u2", domain |-> "nasa.gov"]
Short == [id |-> "u3", domain |-> "bit.ly"]
Seg(claim, cites) == [claim |-> claim, cites |-> cites]

Blue == <<Seg(Sky(FALSE, <<>>), <<Gov>>), Seg(NoClaim, <<Gov2>>)>>
NotBlue == <<Seg(NoClaim, <<Short>>), Seg(Sky(TRUE, <<>>), <<>>)>>
Blue42 == <<Seg(Sky(FALSE, <<"42">>), <<>>), Seg(Sea, <<Short>>)>>
Blue43 == <<Seg(Sky(FALSE, <<"43">>), <<>>)>>
Green == <<Seg(Sea, <<>>)>>
Mute == <<Seg(Dots, <<>>)>>

MCModelKey == [p |-> [x |-> "p:x", y |-> "p:y"], q |-> [x |-> "q:x"], r |-> [x |-> "r:x"]]
MCModelOrder == <<"p:x", "p:y", "q:x", "r:x">>
MCModels == {"p:x", "p:y", "q:x", "r:x"}

Saying(p, m, texts) ==
  {[provider |-> p, model |-> m, text |-> t, lead |-> t,
    policy |-> IF t = NotBlue THEN "non-compliant" ELSE IF t = Mute THEN "unclear"
               ELSE "compliant"] : t \in texts}
MCAnswersOf ==
  [m \in MCModels |->
     CASE m = "p:x" -> Saying("p", "x", {Blue, Mute})
       [] m = "p:y" -> Saying("p", "y", {Blue, Blue42})
       [] m = "q:x" -> Saying("q", "x", {Blue, NotBlue, Blue43, Mute})
       [] m = "r:x" -> Saying("r", "x", {Green})]
MCStandings ==
  {[m \in MCModels |-> 100],
   [m \in MCModels |-> IF m = "p:x" THEN 0 ELSE IF m = "q:x" THEN 100 ELSE 60],
   [m \in MCModels |-> IF m = "p:x" THEN 100 ELSE 30],
   [m \in MCModels |-> IF m = "r:x" THEN 300 ELSE 100]}

MCEvidence == [e1 |-> [authority |-> 90, relevance |-> 90, quotes |-> {"q"}],
               e2 |-> [authority |-> 0, relevance |-> 40, quotes |-> {}]]
Cond(words, form) == [words |-> words, form |-> form]
Branch(cond, parseable, confidence, supports, quotes) ==
  [id |-> 0, condition |-> cond, parseable |-> parseable, confidence |-> confidence,
   supports |-> supports, quotes |-> quotes]
MCBranchChoices ==
  {Branch(Cond({"x", "gt", "5"}, "formal"), TRUE, 80, <<"e1">>,
          <<[evidence_id |-> "e1", text |-> "q"]>>),
   Branch(Cond({"y", "lt", "2"}, "formal"), TRUE, 70, <<"e1", "e2">>, <<>>),
   Branch(Cond({"when", "asked"}, "prose"), FALSE, 90, <<>>, <<>>),
   Branch(Cond({"z", "gt", "1"}, "formal"), FALSE, 70, <<"e3", "e2">>,
          <<[evidence_id |-> "e2", text |-> "q"]>>),
   Branch(Cond({"probably"}, "vague"), FALSE, 60, <<"e2">>, <<>>)}

-----------------------------------------------------------------------------
\* The systems that do not move start in one of their initial states.
DocumentsInit ==
  /\ ExchangeInit /\ ReceiptInit /\ EvaluationInit
  /\ system \in Systems
  /\ system # "receipts" => format = "portable"
  /\ system # "scoring" => subject = "tree" /\ tree.covered /\ tree.budget = 1

DocumentsNext ==
  \/ system = "evidence" /\ ExchangeNext /\ UNCHANGED <<receiptVars, evaluationVars, system>>
  \/ system = "receipts" /\ ReceiptNext /\ UNCHANGED <<exchangeVars, evaluationVars, system>>
  \/ system = "scoring" /\ EvaluationNext /\ UNCHANGED <<exchangeVars, receiptVars, system>>

=============================================================================
