------------------------------ MODULE MCServices ------------------------------
(***************************************************************************)
(* The services around the verification pipeline, side by side: in each    *)
(* behaviour one of them runs, `system` says which, and the others stay in *)
(* their initial states.  They share nothing in the code.                  *)
(***************************************************************************)
EXTENDS ValidatorService, WebhookDelivery, RecordIndexer, MeteredRuntime,
        ProviderRouting, ReliableClient, ProgramRuns, DecisionGate, TLC

CONSTANTS v1, r1, r2, s1, t1, t2, e1, e2, x1, x2, m1, m2, c1, c2, c3, k1, k2, n1, q1,
          Systems   \* the services of this instance

VARIABLE system

MCValidators == {v1}
MCRequests == {r1, r2}
MCPlugin == [r \in MCRequests |-> IF r = r1 THEN "deterministic" ELSE "test-suite"]
MCExpected == [r \in MCRequests |-> IF r = r1 THEN 2 ELSE 0]
MCPolls == {1, 2}
MCOwner == [p \in MCPolls |-> v1]
MCSubscriptions == {s1}
MCTasks == {t1, t2}
MCEvaluators == {e1, e2}
MCFinalScore == [t \in MCTasks |-> IF t = t1 THEN 5000 ELSE 8500]
MCIndexers == {x1, x2}

MCModels == {m1, m2}
MCLists == {<<m1, m1, m2>>}
MCCallers == {c1, c2, c3}
MCKey == [c \in MCCallers |-> IF c = c3 THEN k2 ELSE k1]

\* Two builds of one version, another version, a program about values, one
\* with a possibility space as the shipped one and the fixture of the tests
\* have it, and a broken one.
MCReceiptFields ==
  {"task_id", "explain", "program_provenance", "claim_domain", "verification_status"}
ProgramPlugin(id, version, body, domain, space, valid) ==
  [manifest |-> [id |-> id, version |-> version, claim_domain |-> domain,
                 possibility_space |-> space, valid |-> valid],
   module |-> [id |-> id, version |-> version, body |-> body, fields |-> {"task_id", "explain"},
               output_schema |-> MCReceiptFields]]
Facts(version, body) == ProgramPlugin("facts", version, body, "empirical", FALSE, TRUE)
MCPlugins ==
  {Facts(1, "a"), Facts(1, "b"), Facts(2, "a"),
   ProgramPlugin("values", 1, "a", "normative", FALSE, TRUE),
   ProgramPlugin("facts", 3, "a", "empirical", TRUE, TRUE),
   ProgramPlugin("broken", 1, "a", "empirical", FALSE, FALSE)}
\* The fixture alone.
MCFixture == {ProgramPlugin("facts", 3, "a", "empirical", TRUE, TRUE)}

MCHashes ==
  <<"facts", 1>> :> computeProgramHash(Facts(1, "a").manifest, Facts(1, "a").module)
MCAllowed == {<<"facts", Unspecified>>, <<"values", 1>>}
MCDefault == <<"facts", 1>>
MCRunners == {n1}
MCProgramRequests == {q1}
MCDecision(w, pass, overall, list) ==
  [winner_index |-> w, pass |-> pass, overall_score |-> overall, scores |-> list]
MCInOrder == <<[index |-> 0, score |-> 80], [index |-> 1, score |-> 50]>>
MCScoreLists == {MCInOrder,
            <<[index |-> 1, score |-> 50], [index |-> 0, score |-> 80]>>,
            <<[index |-> 0, score |-> 80]>>}
MCDecisions ==
  {MCDecision(0, TRUE, 90, s) : s \in MCScoreLists}
    \cup {MCDecision(1, TRUE, 90, s) : s \in MCScoreLists}
    \cup {MCDecision(2, TRUE, 90, MCInOrder), MCDecision(0, FALSE, 90, MCInOrder),
          MCDecision(0, TRUE, 60, MCInOrder), MCDecision(0, TRUE, NoScore, MCInOrder)}
MCCandidateLists == {<<"a", "b">>, <<"a", "b", "c">>}

MCAllSystems ==
  {"validator", "webhooks", "records", "metering", "routing", "client", "programs", "gate"}

ServicesInit ==
  /\ ValidatorInit /\ WebhookInit /\ IndexerInit /\ MeteringInit
  /\ RoutingInit /\ ClientInit /\ GateInit
  /\ system \in Systems
  /\ ProgramInit
  /\ system # "programs" => disk = [d \in 1 .. DirCount |-> NoPlugin]

ServicesNext ==
  \/ /\ system = "validator" /\ ValidatorNext
     /\ UNCHANGED <<webhookVars, indexerVars, meteringVars, routingVars, clientVars, programVars, gateVars, system>>
  \/ /\ system = "webhooks" /\ WebhookNext
     /\ UNCHANGED <<validatorVars, indexerVars, meteringVars, routingVars, clientVars, programVars, gateVars, system>>
  \/ /\ system = "records" /\ IndexerNext
     /\ UNCHANGED <<validatorVars, webhookVars, meteringVars, routingVars, clientVars, programVars, gateVars, system>>
  \/ /\ system = "metering" /\ MeteringNext
     /\ UNCHANGED <<validatorVars, webhookVars, indexerVars, routingVars, clientVars, programVars, gateVars, system>>
  \/ /\ system = "routing" /\ RoutingNext
     /\ UNCHANGED <<validatorVars, webhookVars, indexerVars, meteringVars, clientVars, programVars, gateVars, system>>
  \/ /\ system = "client" /\ ClientNext
     /\ UNCHANGED <<validatorVars, webhookVars, indexerVars, meteringVars, routingVars, programVars, gateVars, system>>
  \/ /\ system = "programs" /\ ProgramNext
     /\ UNCHANGED <<validatorVars, webhookVars, indexerVars, meteringVars, routingVars, clientVars, gateVars, system>>
  \/ /\ system = "gate" /\ GateNext
     /\ UNCHANGED <<validatorVars, webhookVars, indexerVars, meteringVars, routingVars, clientVars, programVars, system>>

allVars == <<validatorVars, webhookVars, indexerVars, meteringVars, routingVars, clientVars,
             programVars, gateVars, system>>

ServicesSpec == ServicesInit /\ [][ServicesNext]_allVars

\* Evaluators, indexing requests and the two callers that share a key are interchangeable.
ServicesSymmetry ==
  Permutations(MCEvaluators) \union Permutations(MCIndexers) \union Permutations({c1, c2})
=============================================================================
