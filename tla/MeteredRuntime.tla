---------------------------- MODULE MeteredRuntime ----------------------------
(***************************************************************************)
(* One metered execution of a GenAIL program                               *)
(* (packages/genail-integration/src/metering.ts and runtime.ts): the hooks *)
(* around generate and tool calls, which may run concurrently, the limits  *)
(* they check, and what execute does when the program ends or throws.      *)
(*                                                                         *)
(* The GenAIL runtime that calls the hooks is external.  Times, hashes and *)
(* the warnings at 80 % are left out: the limit on execution time is the   *)
(* same check as the others.  Tokens are counted per call from a small     *)
(* set.  Bound: MaxCalls.                                                  *)
(***************************************************************************)
EXTENDS Integers, Sequences, FiniteSets

CONSTANTS
  max_llm_calls, max_total_tokens,
  max_retrieval_calls,     \* 0 means none is checked
  on_exceed,               \* "error" or "warn"
  TokenCounts,             \* tokens in and out of one call
  Slots,                   \* calls the program may have in flight
  MaxCalls

ASSUME MeteringAssumption ==
  /\ max_llm_calls \in Nat /\ max_total_tokens \in Nat /\ max_retrieval_calls \in Nat
  /\ TokenCounts \subseteq Nat /\ MaxCalls \in Nat /\ on_exceed \in {"error", "warn"}

ASSUME MeteringSlots == IsFiniteSet(Slots)

VARIABLES
  metering,      \* llm_calls, total_tokens, retrieval_calls
  call_log,      \* entries in order: type, tokens, success
  model_calls,   \* tokens of the provenance records, in order
  slot,          \* per slot: the call in flight
  execution      \* running, ended, failed

meteringVars == <<metering, call_log, model_calls, slot, execution>>

\* checkMeteringLimits: a limit is exceeded when it is passed, not reached.
within_limits(m) ==
  /\ m.llm_calls <= max_llm_calls
  /\ m.total_tokens <= max_total_tokens
  /\ max_retrieval_calls # 0 => m.retrieval_calls <= max_retrieval_calls

\* enforceMeteringLimits throws.
Throws(m) == ~within_limits(m) /\ on_exceed = "error"

\* beforeGenerate and beforeToolCall look at what is recorded, not at what is
\* in flight.
MayStart == ~Throws(metering)

beforeGenerate(i) ==
  /\ execution = "running" /\ slot[i] = "free" /\ Len(call_log) < MaxCalls
  /\ IF MayStart
     THEN slot' = [slot EXCEPT ![i] = "generate"] /\ UNCHANGED execution
     ELSE execution' = "throwing" /\ UNCHANGED slot
  /\ UNCHANGED <<metering, call_log, model_calls>>

\* A tool call is checked only when tool calls are limited.
beforeToolCall(i) ==
  /\ execution = "running" /\ slot[i] = "free" /\ Len(call_log) < MaxCalls
  /\ IF max_retrieval_calls = 0 \/ MayStart
     THEN slot' = [slot EXCEPT ![i] = "tool"] /\ UNCHANGED execution
     ELSE execution' = "throwing" /\ UNCHANGED slot
  /\ UNCHANGED <<metering, call_log, model_calls>>

M_recordLLMCall(tokens) ==
  [metering EXCEPT !.llm_calls = @ + 1, !.total_tokens = tokens]

recordLLMCall(tokens) ==
  [metering EXCEPT !.llm_calls = @ + 1, !.total_tokens = @ + tokens]

\* The provenance record of a call; only its tokens are told apart.
createModelCallRecord(tokens) == tokens

recordToolCall == [metering EXCEPT !.retrieval_calls = @ + 1]

\* After a hook threw, the program's other calls still end and are recorded.
ExecutionAfter(m) == IF execution = "running" /\ Throws(m) THEN "throwing" ELSE execution

\* afterGenerate: recorded, then kept for provenance, then the limits.
afterGenerate(i, tokens) ==
  /\ execution # "done" /\ slot[i] = "generate"
  /\ slot' = [slot EXCEPT ![i] = "free"]
  /\ metering' = recordLLMCall(tokens)
  /\ call_log' = Append(call_log, [call_type |-> "generate", tokens |-> tokens, success |-> TRUE])
  /\ model_calls' = Append(model_calls, createModelCallRecord(tokens))
  /\ execution' = ExecutionAfter(metering')

\* The model call itself throws: afterGenerate is not called, nothing is
\* recorded.
generateThrows(i) ==
  /\ execution # "done" /\ slot[i] = "generate"
  /\ slot' = [slot EXCEPT ![i] = "free"]
  /\ execution' = "throwing"
  /\ UNCHANGED <<metering, call_log, model_calls>>

afterToolCall(i, success) ==
  /\ execution # "done" /\ slot[i] = "tool"
  /\ slot' = [slot EXCEPT ![i] = "free"]
  /\ metering' = recordToolCall
  /\ call_log' = Append(call_log, [call_type |-> "tool", tokens |-> 0, success |-> success])
  /\ execution' = ExecutionAfter(metering')
  /\ UNCHANGED model_calls

\* onError blames the last logged call, whichever call threw.
onError ==
  /\ execution = "throwing"
  /\ execution' = "failing"
  /\ call_log' = IF call_log # <<>> /\ call_log[Len(call_log)].success
                 THEN [call_log EXCEPT ![Len(call_log)].success = FALSE] ELSE call_log
  /\ UNCHANGED <<metering, model_calls, slot>>

\* execute builds receipt and evidence, of a failed execution as well.
executeEnds ==
  /\ \/ execution = "running" /\ \A i \in Slots : slot[i] = "free"
     \/ execution = "failing"
  /\ execution' = "done"
  /\ UNCHANGED <<metering, call_log, model_calls, slot>>

createMeteringState == [llm_calls |-> 0, total_tokens |-> 0, retrieval_calls |-> 0]

MeteringInit ==
  /\ metering = createMeteringState
  /\ call_log = <<>> /\ model_calls = <<>>
  /\ slot = [i \in Slots |-> "free"] /\ execution = "running"

MeteringNext ==
  \/ \E i \in Slots :
       \/ beforeGenerate(i) \/ beforeToolCall(i) \/ generateThrows(i)
       \/ \E tokens \in TokenCounts : afterGenerate(i, tokens)
       \/ \E success \in BOOLEAN : afterToolCall(i, success)
  \/ onError \/ executeEnds

-----------------------------------------------------------------------------
(***************************************************************************)
(* Properties                                                              *)
(***************************************************************************)
Logged(type) == {i \in DOMAIN call_log : call_log[i].call_type = type}

UnitsOf(s) == UNION {{<<i, k>> : k \in 1 .. s[i]} : i \in DOMAIN s}

\* The totals, the call log and the provenance records tell the same story,
\* in whatever order concurrent calls end and whichever of them throws.
MeteringAddsUp ==
  /\ metering.llm_calls = Len(model_calls)
  /\ metering.llm_calls = Cardinality(Logged("generate"))
  /\ metering.retrieval_calls = Cardinality(Logged("tool"))
  /\ metering.total_tokens = Cardinality(UnitsOf(model_calls))

\* With on_exceed "error" the overrun is bounded: what is recorded never
\* passes the limit by more than the calls that were in flight together.
OverrunIsBounded ==
  on_exceed = "error" =>
    metering.llm_calls + Cardinality({i \in Slots : slot[i] = "generate"})
      <= max_llm_calls + Cardinality(Slots)

\* Metering is exact, and its limits hold up to the calls in flight.
MeteringHolds == MeteringAddsUp /\ OverrunIsBounded
=============================================================================
