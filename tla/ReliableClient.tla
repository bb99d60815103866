---------------------------- MODULE ReliableClient ----------------------------
(***************************************************************************)
(* ProviderReliability of verifier-node/src/providers/reliability.ts: one  *)
(* provider, concurrent calls of execute with idempotency keys, timeouts,  *)
(* retries and a circuit breaker that is only looked at when execute is    *)
(* entered.                                                                *)
(*                                                                         *)
(* Results are numbered; failures are counted per tick, in a window of two *)
(* ticks; of lastSuccess and lastError only their order and the age of the *)
(* error are kept (two of them in one millisecond are left out).  Costs    *)
(* and latencies are left out.  Bound: MaxTicks.                           *)
(***************************************************************************)
EXTENDS Integers, FiniteSets

CONSTANTS
  Callers,        \* invocations of execute
  Key,            \* the idempotency key of an invocation
  MaxRetries, CircuitThreshold, CircuitRecovery, MaxTicks

ASSUME ClientAssumption ==
  /\ MaxRetries \in Nat /\ CircuitThreshold \in Nat \ {0}
  /\ CircuitRecovery \in Nat /\ MaxTicks \in Nat

VARIABLES
  circuit,     \* state, errorCount, order and age of the last events
  recent,      \* failures of this tick and of the one before
  tally,       \* totalRequests and successfulRequests
  cache,       \* idempotencyCache: key -> number of the result, or NoResult
  caller,      \* per invocation: where it is, its attempt, its result
  late,        \* requests that timed out and are still running
  produced,    \* results so far, with the key they were produced for
  ticks

clientVars == <<circuit, recent, tally, cache, caller, late, produced, ticks>>

NoResult == 0

ClientKeys == {Key[c] : c \in Callers}

Failures == recent[1] + recent[2]

\* updateCircuitState, which execute calls once, before the first attempt.
UpdatedCircuit ==
  CASE circuit.state = "CLOSED" ->
         IF Failures >= CircuitThreshold THEN [circuit EXCEPT !.state = "OPEN"] ELSE circuit
    [] circuit.state = "OPEN" ->
         IF circuit.errorAge > CircuitRecovery
         THEN [circuit EXCEPT !.state = "HALF_OPEN"] ELSE circuit
    [] circuit.state = "HALF_OPEN" ->
         IF circuit.successLast
         THEN [circuit EXCEPT !.state = "CLOSED", !.errorCount = 0] ELSE circuit

M_execute(c) ==
  /\ caller[c].pc = "idle"
  /\ IF produced # {}
     THEN LET hit == CHOOSE p \in produced : TRUE IN
          /\ caller' = [caller EXCEPT ![c] = [pc |-> "cached", attempt |-> 0, result |-> hit[2]]]
          /\ UNCHANGED circuit
     ELSE /\ circuit' = UpdatedCircuit
          /\ caller' = [caller EXCEPT ![c].pc = IF circuit'.state = "OPEN" THEN "failed" ELSE "calling"]
  /\ UNCHANGED <<recent, tally, cache, late, produced, ticks>>

\* execute up to its first await: the cache, the breaker, the first attempt.
execute(c) ==
  /\ caller[c].pc = "idle"
  /\ IF cache[Key[c]] # NoResult
     THEN /\ caller' = [caller EXCEPT ![c] = [pc |-> "cached", attempt |-> 0,
                                              result |-> cache[Key[c]]]]
          /\ UNCHANGED circuit
     ELSE /\ circuit' = UpdatedCircuit
          /\ caller' = [caller EXCEPT ![c].pc =
               IF circuit'.state = "OPEN" THEN "failed" ELSE "calling"]
  /\ UNCHANGED <<recent, tally, cache, late, produced, ticks>>

SuccessOf(h) ==
  [h EXCEPT !.errorCount = IF @ > 0 THEN @ - 1 ELSE 0, !.successLast = TRUE]

\* recordSuccess, then the result is cached; the invocation of another caller
\* with the same key is not looked for.
attemptSucceeds(c) ==
  /\ caller[c].pc = "calling"
  /\ circuit' = SuccessOf(circuit)
  /\ tally' = [tally EXCEPT !.total = @ + 1, !.ok = @ + 1]
  /\ LET r == Cardinality(produced) + 1 IN
     /\ produced' = produced \union {<<Key[c], r>>}
     /\ cache' = [cache EXCEPT ![Key[c]] = r]
     /\ caller' = [caller EXCEPT ![c].pc = "done", ![c].result = r]
  /\ UNCHANGED <<recent, late, ticks>>

recordFailure ==
  /\ circuit' = [circuit EXCEPT !.errorCount = @ + 1, !.errorAge = 0, !.successLast = FALSE]
  /\ recent' = [recent EXCEPT ![1] = @ + 1]
  /\ tally' = [tally EXCEPT !.total = @ + 1]

\* An attempt fails: final after the last retry or when it is not retryable.
\* withTimeout gives up on the promise, not on the request behind it.
attemptFails(c) ==
  /\ caller[c].pc = "calling"
  /\ recordFailure
  /\ \/ caller' = [caller EXCEPT ![c].pc = "failed"] /\ UNCHANGED late
     \/ /\ late' \in {late, late \union {<<c, caller[c].attempt>>}}
        /\ caller' = [caller EXCEPT ![c].pc =
             IF caller[c].attempt < MaxRetries THEN "sleeping" ELSE "failed"]
  /\ UNCHANGED <<cache, produced, ticks>>

\* The backoff is over; the breaker is not asked again.
retryAttempt(c) ==
  /\ caller[c].pc = "sleeping"
  /\ caller' = [caller EXCEPT ![c].pc = "calling", ![c].attempt = @ + 1]
  /\ UNCHANGED <<circuit, recent, tally, cache, late, produced, ticks>>

\* A request that timed out ends; nobody waits for it.
lateRequestEnds ==
  /\ \E l \in late : late' = late \ {l}
  /\ UNCHANGED <<circuit, recent, tally, cache, caller, produced, ticks>>

\* resetCircuit leaves the recorded failures alone.
resetCircuit ==
  /\ circuit.state # "CLOSED"
  /\ circuit' = [circuit EXCEPT !.state = "CLOSED", !.errorCount = 0]
  /\ UNCHANGED <<recent, tally, cache, caller, late, produced, ticks>>

\* The hour of a cached result is over.
cacheExpires(k) ==
  /\ cache[k] # NoResult
  /\ cache' = [cache EXCEPT ![k] = NoResult]
  /\ UNCHANGED <<circuit, recent, tally, caller, late, produced, ticks>>

ClientTick ==
  /\ ticks < MaxTicks /\ ticks' = ticks + 1
  /\ recent' = <<0, recent[1]>>
  /\ circuit' = [circuit EXCEPT !.errorAge = IF @ > CircuitRecovery THEN @ ELSE @ + 1]
  /\ UNCHANGED <<tally, cache, caller, late, produced>>

ClientInit ==
  /\ circuit = [state |-> "CLOSED", errorCount |-> 0, errorAge |-> 0, successLast |-> FALSE]
  /\ recent = <<0, 0>> /\ tally = [total |-> 0, ok |-> 0]
  /\ cache = [k \in ClientKeys |-> NoResult]
  /\ caller = [c \in Callers |-> [pc |-> "idle", attempt |-> 0, result |-> NoResult]]
  /\ late = {} /\ produced = {} /\ ticks = 0

ClientNext ==
  \/ \E c \in Callers : execute(c) \/ attemptSucceeds(c) \/ attemptFails(c) \/ retryAttempt(c)
  \/ lateRequestEnds \/ resetCircuit \/ ClientTick
  \/ \E k \in ClientKeys : cacheExpires(k)

-----------------------------------------------------------------------------
(***************************************************************************)
(* Properties                                                              *)
(***************************************************************************)

\* A reply from the cache is a result that an invocation with the same key
\* produced, and a caller is told of success only with such a result, also
\* when two callers with one key race or a result expires between them.
RepliesAreResults ==
  \A c \in Callers :
    /\ caller[c].pc \in {"done", "cached"} => <<Key[c], caller[c].result>> \in produced
    /\ cache[Key[c]] # NoResult => <<Key[c], cache[Key[c]]>> \in produced

\* The statistics add up: every attempt that ended is counted once, successes
\* are the results, and the decaying error count never exceeds the failures.
StatisticsAddUp ==
  /\ tally.ok = Cardinality(produced)
  /\ circuit.errorCount <= tally.total - tally.ok
  /\ Failures <= tally.total - tally.ok

\* Callers that share keys, a cache and a breaker get results that were produced for
\* their key, and each attempt is counted once.
RepliesAddUp == RepliesAreResults /\ StatisticsAddUp
=============================================================================
