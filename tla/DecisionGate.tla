------------------------------ MODULE DecisionGate ------------------------------
(***************************************************************************)
(* The MAMV verifier and the decision gate in front of it:                 *)
(* api/src/services/mamvVerifier.ts, decisionGate.ts, mmvRateLimiter.ts,   *)
(* mmvAudit.ts, mmvAttestation.ts, mamvReceipt.ts, mamvConfig.ts and the   *)
(* two POST routes of api/src/routes/mamv.ts, as express runs them: many   *)
(* requests at a time, each suspended at its awaits.                       *)
(*                                                                         *)
(* Abstractions.  The model is a service that may answer anything in       *)
(* Decisions, or nothing.  Hashes are injective, so an output is its own   *)
(* hash.  The configuration is one environment for the whole run.  Prompts *)
(* and provenance are left out, and so is the audit log, which no code     *)
(* reads and whose failures are swallowed; the awaits on it are kept.      *)
(* Bounds: MaxGateTime, MaxAtOnce requests under way, and the requests     *)
(* Asks, which arrive in order.                                            *)
(***************************************************************************)
EXTENDS Integers, Sequences, FiniteSets

CONSTANTS
  Requesters,
  Asks,             \* requests that may arrive
  CandidateLists,   \* candidates a request may carry
  Decisions,        \* [winner_index, pass, overall_score, scores] the model may send
  NoScore,          \* a score JSON does not have; nothing attested
  NotCounted,       \* no entry in the rate limiter
  maxRollouts, minPassScore, minCandidateScore, rateLimitPerMinute,
  Minute, Hour,     \* in ticks of the clock
  SignerConfigured, \* the signing key and the chain id are set
  MaxGateTime, MaxAtOnce

ASSUME GateAssumption ==
  /\ rateLimitPerMinute \in Nat \ {0} /\ Minute \in Nat \ {0} /\ Hour \in Nat /\ Hour > Minute
  /\ maxRollouts \in Nat \ {0} /\ Asks \subseteq Nat /\ MaxGateTime \in Nat

ASSUME GateValues ==
  /\ NotCounted \notin [windowStart : Nat, count : Nat]
  /\ \A cs \in CandidateLists : cs \in Seq({cs[i] : i \in DOMAIN cs})
  /\ \A d \in Decisions : d.scores \in Seq({d.scores[i] : i \in DOMAIN d.scores})

VARIABLES
  clock,
  limiter,      \* state of mmvRateLimiter: requester -> [windowStart, count]
  asks,         \* per request: how far its handler is
  modelCalls,   \* the calls of the model: the requester and the time
  attested      \* the receipt a guarded request was answered with last

gateVars == <<clock, limiter, asks, modelCalls, attested>>

Fresh == [step |-> "new"]

GateInit ==
  /\ clock = 0
  /\ limiter = [q \in Requesters |-> NotCounted]
  /\ asks = [a \in Asks |-> Fresh]
  /\ modelCalls = <<>>
  /\ attested = NoScore

\* The requester may go on.
WithinLimit(entry) ==
  \/ entry = NotCounted
  \/ clock - entry.windowStart >= Minute
  \/ entry.count < rateLimitPerMinute

\* The entry assertWithinRateLimit leaves when it does not throw.
Counted(entry) ==
  IF entry = NotCounted \/ clock - entry.windowStart >= Minute
  THEN [windowStart |-> clock, count |-> 1]
  ELSE [entry EXCEPT !.count = @ + 1]

\* POST /verify or /guard, up to the await of callOpenAI: nothing is awaited
\* between the check of the limit and the call.
Ask(a, q, route, candidates) ==
  /\ asks[a] = Fresh /\ \A b \in Asks : b < a => asks[b] # Fresh
  /\ Cardinality({b \in Asks : asks[b].step \in {"called", "judged", "signing", "signed"}}) < MaxAtOnce
  /\ IF Len(candidates) <= maxRollouts /\ WithinLimit(limiter[q])
     THEN /\ limiter' = [limiter EXCEPT ![q] = Counted(@)]
          /\ modelCalls' = Append(modelCalls, [by |-> q, at |-> clock])
          /\ asks' = [asks EXCEPT ![a] = [step |-> "called", route |-> route,
                                          candidates |-> candidates]]
     ELSE /\ asks' = [asks EXCEPT ![a] = [step |-> "failed"]]
          /\ UNCHANGED <<limiter, modelCalls>>
  /\ UNCHANGED <<clock, attested>>

\* The overall score is not looked at, nor the index an entry of the scores
\* gives itself.
validateDecision(d, count) ==
  /\ d.winner_index \in 0..(count - 1)
  /\ Len(d.scores) = count
  /\ \A i \in DOMAIN d.scores : d.scores[i].score # NoScore

\* The call resolves; the handler goes on to the await of the audit record.
ModelAnswers(a, d) ==
  /\ asks[a].step = "called"
  /\ asks' = [asks EXCEPT ![a] =
       IF validateDecision(d, Len(@.candidates))
       THEN [step |-> "judged", route |-> @.route, candidates |-> @.candidates,
             decision |-> d]
       ELSE [step |-> "failed"]]
  /\ UNCHANGED <<clock, limiter, modelCalls, attested>>

\* A timeout, an HTTP error, or an answer that is not JSON.
ModelFails(a) ==
  /\ asks[a].step = "called"
  /\ asks' = [asks EXCEPT ![a] = [step |-> "failed"]]
  /\ UNCHANGED <<clock, limiter, modelCalls, attested>>

\* /verify answers with the result, whatever the decision was.
VerifyReturns(a) ==
  /\ asks[a].step = "judged" /\ asks[a].route = "verify"
  /\ asks' = [asks EXCEPT ![a] = [step |-> "answered"]]
  /\ UNCHANGED <<clock, limiter, modelCalls, attested>>

M_PassThresholdMet(d) ==
  /\ d.pass
  /\ d.overall_score # NoScore /\ d.overall_score >= minPassScore

\* A comparison with a score that is missing is false.  The score of the
\* winner is the one at its place in the list.
PassThresholdMet(d) ==
  /\ d.pass
  /\ d.overall_score # NoScore /\ d.overall_score >= minPassScore
  /\ d.scores[d.winner_index + 1].score >= minCandidateScore

\* What the gate signs; it is good for an hour.
MAMVAttestation(a, d) ==
  [output |-> asks[a].candidates[d.winner_index + 1], timestamp |-> clock,
   expiresAt |-> clock + Hour, score |-> d.overall_score, passed |-> d.pass]

\* runDecisionGate after verifyWithMAMV, up to the await of the signature.
GateDecides(a) ==
  LET d == asks[a].decision
  IN /\ asks[a].step = "judged" /\ asks[a].route = "guard"
     /\ asks' = [asks EXCEPT ![a] =
          IF PassThresholdMet(d) /\ SignerConfigured
          THEN [step |-> "signing", candidates |-> @.candidates, decision |-> d,
                attestation |-> MAMVAttestation(a, d)]
          ELSE [step |-> "failed"]]
     /\ UNCHANGED <<clock, limiter, modelCalls, attested>>

buildMAMVReceipt(ask) ==
  [candidates |-> ask.candidates, decision |-> ask.decision, attestation |-> ask.attestation]

\* The signature is made; the handler goes on to the await of the audit record.
GateSigns(a) ==
  /\ asks[a].step = "signing"
  /\ asks' = [asks EXCEPT ![a] = [step |-> "signed", receipt |-> buildMAMVReceipt(@)]]
  /\ UNCHANGED <<clock, limiter, modelCalls, attested>>

\* /guard answers with the attestation and the receipt.
GuardReturns(a) ==
  /\ asks[a].step = "signed"
  /\ attested' = asks[a].receipt
  /\ asks' = [asks EXCEPT ![a] = [step |-> "answered"]]
  /\ UNCHANGED <<clock, limiter, modelCalls>>

GateTick ==
  /\ clock < MaxGateTime
  /\ clock' = clock + 1
  /\ UNCHANGED <<limiter, asks, modelCalls, attested>>

GateNext ==
  \/ \E a \in Asks :
       \/ \E q \in Requesters, route \in {"verify", "guard"}, cs \in CandidateLists :
            Ask(a, q, route, cs)
       \/ \E d \in Decisions : ModelAnswers(a, d)
       \/ ModelFails(a)
       \/ VerifyReturns(a)
       \/ GateDecides(a)
       \/ GateSigns(a)
       \/ GuardReturns(a)
  \/ GateTick

-----------------------------------------------------------------------------
(* Properties.                                                             *)

\* The windows of assertWithinRateLimit start at a request and do not slide,
\* so in some minutes more calls than the limit go out; but never twice as
\* many, whatever the requests under way do.
RateIsBounded ==
  \A q \in Requesters, t \in 0..clock :
    Cardinality({i \in DOMAIN modelCalls : modelCalls[i].by = q /\ t <= modelCalls[i].at
                                        /\ modelCalls[i].at < t + Minute})
      < 2 * rateLimitPerMinute

\* An attestation of runDecisionGate is about a candidate of its own request
\* that the model chose and let pass; when the model lists the scores in the
\* order of the candidates, the candidate's own score is high enough too; and
\* it expires after it was made, however long signing takes.
AttestedOutputsCleared ==
  attested # NoScore =>
    LET r == attested
        d == r.decision
        place == d.winner_index + 1
        inOrder == \A i \in DOMAIN d.scores : d.scores[i].index = i - 1
        own == {i \in DOMAIN d.scores : d.scores[i].index = d.winner_index}
    IN /\ place \in DOMAIN r.candidates /\ r.attestation.output = r.candidates[place]
       /\ r.attestation.passed /\ r.attestation.score >= minPassScore
       /\ inOrder => \A i \in own : d.scores[i].score >= minCandidateScore
       /\ r.attestation.timestamp < r.attestation.expiresAt

\* What passes the gate was called for within the limit and is what the model passed.
OutputsAreGated == RateIsBounded /\ AttestedOutputsCleared
================================================================================
