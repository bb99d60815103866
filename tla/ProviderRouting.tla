--------------------------- MODULE ProviderRouting ---------------------------
(***************************************************************************)
(* How a verifier node asks its models: queryMultipleModels and queryModel *)
(* of verifier-node/src/llm-providers/modelRouter.ts, executeProviderCall  *)
(* of providers/providerControl.ts with the circuit breaker and the        *)
(* retries of shared/providers, and the penalties and slashes of           *)
(* providers/trust.ts.                                                     *)
(*                                                                         *)
(* A query starts its calls in one synchronous step and then waits for all *)
(* of them; the calls end in any order.  Between a breaker's record and    *)
(* the trust record of the same call no other code runs.                   *)
(*                                                                         *)
(* Times are counted down: Tick is the granularity of the windows of the   *)
(* breaker and of the correlation of failures, HalfLife a quiet period     *)
(* that ends every window and halves the penalties; within a tick the      *)
(* decay rounds away.  Penalties are hundredths.  A provider and its model *)
(* are one value, the key of the maps.  Bound: MaxQueries.                 *)
(***************************************************************************)
EXTENDS Integers, Sequences, FiniteSets

CONSTANTS
  Models,
  ModelLists,       \* lists of models clients ask for, duplicates included
  Threshold,        \* failure_threshold
  OpenTicks,        \* open_duration_ms
  MaxProbes,        \* half_open_max_calls
  MaxAttempts,      \* PROVIDER_MAX_ATTEMPTS
  RecoveryTicks,    \* SLASH_RECOVERY_MS
  MaxQueries

ASSUME RoutingAssumption ==
  /\ \A ms \in ModelLists : ms \in Seq(Models) /\ ms # <<>>
  /\ Threshold \in Nat \ {0} /\ MaxProbes \in Nat \ {0} /\ MaxAttempts \in Nat \ {0}
  /\ OpenTicks \in Nat /\ RecoveryTicks \in Nat \ {0} /\ MaxQueries \in Nat

VARIABLES
  breaker,     \* per model: state, failures in the window, time open, probes
  penalty,     \* per model, hundredths
  slash,       \* per model: ticks until recoveryAt, or NotSlashed
  failedNow,   \* models in recentFailureLog within the correlation window
  calls,       \* the calls of the query in flight, <<>> when there is none
  verdict,     \* outcome of the last query
  queries

routingVars == <<breaker, penalty, slash, failedNow, calls, verdict, queries>>

NotSlashed == -1

SLASH_THRESHOLD == 80

(***************************************************************************)
(* Circuit breaker                                                         *)
(***************************************************************************)
ClosedBreaker == [state |-> "CLOSED", fails |-> 0, open |-> 0, probes |-> 0]

OpenedBreaker(b) == [b EXCEPT !.state = "OPEN", !.open = OpenTicks + 1, !.probes = 0]

\* updateState: an open breaker whose time is over is half open.
UpdatedBreaker(b) ==
  IF b.state = "OPEN" /\ b.open = 0
  THEN [b EXCEPT !.state = "HALF_OPEN", !.probes = 0] ELSE b

\* canExecute, for a call that comes after `earlier` others to the same model
\* in the same synchronous step.
CanExecute(b, earlier) ==
  CASE b.state = "CLOSED" -> TRUE
    [] b.state = "OPEN" -> FALSE
    [] b.state = "HALF_OPEN" -> b.probes + earlier < MaxProbes

\* The calls a half-open breaker lets through are counted.
WithProbes(b, n) ==
  IF b.state = "HALF_OPEN"
  THEN [b EXCEPT !.probes = IF @ + n < MaxProbes THEN @ + n ELSE MaxProbes] ELSE b

M_SuccessRecorded(b) == b

SuccessRecorded(b) == IF b.state = "HALF_OPEN" THEN ClosedBreaker ELSE b

\* recordFailure does not look at the time: a call that fails late pushes the
\* failure, and opens an open breaker again.
FailureRecorded(b) ==
  LET fails == IF b.fails < Threshold THEN b.fails + 1 ELSE b.fails
      b1 == [b EXCEPT !.fails = fails] IN
  IF b.state = "HALF_OPEN" \/ fails >= Threshold THEN OpenedBreaker(b1) ELSE b1

(***************************************************************************)
(* Trust                                                                   *)
(***************************************************************************)
Lapsed(m) == slash[m] = 0

\* isSlashed clears a record whose time is over: probationary re-entry with
\* the penalty just below the threshold.
SlashAfterLook(m) == IF Lapsed(m) THEN NotSlashed ELSE slash[m]

PenaltyAfterLook(m) == IF Lapsed(m) THEN SLASH_THRESHOLD - 10 ELSE penalty[m]

\* 0.1 or 0.2 times the square root of one plus the number of other models
\* that failed lately, at most 0.5.
PenaltyDelta(severity, correlated) ==
  LET solo == <<10, 14, 17, 20>> coordinated == <<20, 28, 34, 40>>
      n == IF correlated < 4 THEN correlated + 1 ELSE 4 IN
  IF severity = "hard" THEN coordinated[n] ELSE solo[n]

\* recordProviderError: while slashed a failure only extends the recovery;
\* otherwise it adds to the penalty and slashes at the threshold.
recordProviderError(m, severity) ==
  IF SlashAfterLook(m) # NotSlashed
  THEN /\ slash' = [slash EXCEPT ![m] = RecoveryTicks]
       /\ UNCHANGED <<penalty, failedNow>>
  ELSE LET next == PenaltyAfterLook(m) + PenaltyDelta(severity, Cardinality(failedNow \ {m}))
           capped == IF next < 100 THEN next ELSE 100 IN
       /\ penalty' = [penalty EXCEPT ![m] = capped]
       /\ slash' = [slash EXCEPT ![m] = IF capped >= SLASH_THRESHOLD THEN RecoveryTicks ELSE NotSlashed]
       /\ failedNow' = failedNow \union {m}

\* recordProviderSuccess: no credit while slashed, otherwise 0.05.
recordProviderSuccess(m) ==
  /\ slash' = [slash EXCEPT ![m] = SlashAfterLook(m)]
  /\ penalty' = [penalty EXCEPT ![m] =
       IF SlashAfterLook(m) # NotSlashed THEN @
       ELSE IF PenaltyAfterLook(m) > 5 THEN PenaltyAfterLook(m) - 5 ELSE 0]
  /\ UNCHANGED failedNow

\* getEffectiveWeight, in hundredths of the base weight.
EffectiveWeight(m) ==
  IF slash[m] > 0 THEN 0
  ELSE LET p == PenaltyAfterLook(m) IN IF 100 - p > 10 THEN 100 - p ELSE 10

(***************************************************************************)
(* Queries                                                                 *)
(***************************************************************************)
\* ceil(n * QUORUM_FRACTION) with the default 0.6667, of the models asked for.
QuorumRequired(n) == (n * 6667 + 9999) \div 10000

Earlier(ms, i) == Cardinality({j \in 1 .. i - 1 : ms[j] = ms[i]})

Asked(ms, m) == Cardinality({i \in DOMAIN ms : ms[i] = m})

\* getSlashedProviders, then the filter of queryMultipleModels.
Skipped(ms, i) == SlashAfterLook(ms[i]) # NotSlashed

CallStatus(ms, i) ==
  IF Skipped(ms, i) THEN "skipped"
  ELSE IF CanExecute(UpdatedBreaker(breaker[ms[i]]), Earlier(ms, i)) THEN "calling"
  ELSE "circuit_open"

\* queryMultipleModels up to its first await: lapsed slashes are cleared, the
\* eligible models are called, each through its breaker.
queryMultipleModels(ms) ==
  /\ calls = <<>> /\ queries < MaxQueries /\ queries' = queries + 1
  /\ slash' = [m \in Models |-> SlashAfterLook(m)]
  /\ penalty' = [m \in Models |-> PenaltyAfterLook(m)]
  /\ calls' = [i \in DOMAIN ms |-> [model |-> ms[i], status |-> CallStatus(ms, i), attempt |-> 1]]
  /\ breaker' = [m \in Models |->
       IF Asked(ms, m) = 0 \/ SlashAfterLook(m) # NotSlashed THEN breaker[m]
       ELSE WithProbes(UpdatedBreaker(breaker[m]), Asked(ms, m))]
  /\ verdict' = "pending"
  /\ UNCHANGED failedNow

\* The number of attempts is reported as a statistic only; it is forgotten.
EndCall(i, status) == calls' = [calls EXCEPT ![i].status = status, ![i].attempt = 1]

\* executeWithRetry: a retryable error and attempts left.
retryCall(i) ==
  /\ i \in DOMAIN calls /\ calls[i].status = "calling" /\ calls[i].attempt < MaxAttempts
  /\ calls' = [calls EXCEPT ![i].attempt = @ + 1]
  /\ UNCHANGED <<breaker, penalty, slash, failedNow, verdict, queries>>

\* The call succeeds: breaker.recordSuccess, then recordProviderSuccess.
callSucceeds(i) ==
  /\ i \in DOMAIN calls /\ calls[i].status = "calling"
  /\ EndCall(i, "ok")
  /\ breaker' = [breaker EXCEPT ![calls[i].model] = SuccessRecorded(@)]
  /\ recordProviderSuccess(calls[i].model)
  /\ UNCHANGED <<verdict, queries>>

\* The call fails for good, with an error that is not retryable or after the
\* last attempt: breaker.recordFailure, then a soft error.
callFails(i) ==
  /\ i \in DOMAIN calls /\ calls[i].status = "calling"
  /\ EndCall(i, "error")
  /\ breaker' = [breaker EXCEPT ![calls[i].model] = FailureRecorded(@)]
  /\ recordProviderError(calls[i].model, "soft")
  /\ UNCHANGED <<verdict, queries>>

\* The breaker refused the call: a hard error, although nobody was asked.
callRefused(i) ==
  /\ i \in DOMAIN calls /\ calls[i].status = "circuit_open"
  /\ EndCall(i, "error")
  /\ recordProviderError(calls[i].model, "hard")
  /\ UNCHANGED <<breaker, verdict, queries>>

Successful == {i \in DOMAIN calls : calls[i].status = "ok"}

\* Promise.allSettled returned: the quorum is taken of the models asked for,
\* so skipping slashed ones does not lower it.
settleQuery ==
  /\ calls # <<>>
  /\ \A i \in DOMAIN calls : calls[i].status \in {"ok", "error", "skipped"}
  /\ verdict' = IF Successful # {} /\ Cardinality(Successful) >= QuorumRequired(Len(calls))
                THEN "answered" ELSE "failed"
  /\ calls' = <<>>
  /\ UNCHANGED <<breaker, penalty, slash, failedNow, queries>>

(***************************************************************************)
(* Time                                                                    *)
(***************************************************************************)
Down(n) == IF n > 0 THEN n - 1 ELSE n

Tick ==
  /\ breaker' = [m \in Models |-> [breaker[m] EXCEPT !.open = Down(@), !.fails = 0]]
  /\ slash' = [m \in Models |-> Down(slash[m])]
  /\ failedNow' = {}
  /\ UNCHANGED <<penalty, calls, verdict, queries>>

HalfLife ==
  /\ calls = <<>>
  /\ breaker' = [m \in Models |-> [breaker[m] EXCEPT !.open = 0, !.fails = 0]]
  /\ slash' = [m \in Models |-> IF slash[m] = NotSlashed THEN NotSlashed ELSE 0]
  /\ penalty' = [m \in Models |-> penalty[m] \div 2]
  /\ failedNow' = {}
  /\ UNCHANGED <<calls, verdict, queries>>

RoutingInit ==
  /\ breaker = [m \in Models |-> ClosedBreaker]
  /\ penalty = [m \in Models |-> 0] /\ slash = [m \in Models |-> NotSlashed]
  /\ failedNow = {} /\ calls = <<>> /\ verdict = "none" /\ queries = 0

CallStep(i) == retryCall(i) \/ callSucceeds(i) \/ callFails(i) \/ callRefused(i)

RoutingNext ==
  \/ \E ms \in ModelLists : queryMultipleModels(ms)
  \/ \E i \in DOMAIN calls : CallStep(i)
  \/ settleQuery
  \/ Tick \/ HalfLife

RoutingSpec == RoutingInit /\ [][RoutingNext]_routingVars

-----------------------------------------------------------------------------
(***************************************************************************)
(* Properties                                                              *)
(***************************************************************************)

\* The breaker never locks up: a half-open breaker that admits nothing more
\* has a probe in flight whose end will close or reopen it, whatever calls of
\* before it opened end meanwhile.
ProbesAreInFlight ==
  \A m \in Models : breaker[m].state = "HALF_OPEN" =>
    /\ breaker[m].probes <= MaxProbes
    /\ breaker[m].probes > 0 =>
         \E i \in DOMAIN calls : calls[i].model = m /\ calls[i].status = "calling"

\* A provider at the slash threshold is slashed, and one that is not slashed
\* keeps a weight: re-entry after the recovery time, late failures and decay
\* never leave a full penalty without a slash.
PenaltyMatchesSlash ==
  \A m \in Models :
    /\ slash[m] = NotSlashed => penalty[m] < SLASH_THRESHOLD
    /\ EffectiveWeight(m) = 0 <=> slash[m] > 0

\* A query is answered only by a two thirds majority of the models asked for:
\* slashed models and refused calls count against it.
AnswersHaveQuorum ==
  verdict' = "answered" /\ verdict # "answered" =>
    3 * Cardinality(Successful) >= 2 * Len(calls)

\* A provider is never called while it is slashed, and a slash is only
\* shortened by time: success does not buy it back.
SlashedStaySilent ==
  \A m \in Models :
    /\ calls = <<>> /\ slash[m] > 0 =>
         \A i \in DOMAIN calls' : calls'[i].model = m => calls'[i].status # "calling"
    /\ slash[m] > 0 => slash'[m] >= slash[m] - 1 \/ HalfLife

\* Breakers, penalties and slashes, each kept by its own module, act as one: no step
\* locks a provider out for good, leaves a full penalty unpunished, calls a slashed
\* provider or lets a minority answer.
RoutingIsSafe ==
  [][/\ ProbesAreInFlight'
     /\ PenaltyMatchesSlash'
     /\ AnswersHaveQuorum
     /\ SlashedStaySilent]_routingVars
=============================================================================
