--------------------------- MODULE ValidatorService ---------------------------
(***************************************************************************)
(* Validator-as-a-service: the API's in-memory store of validation         *)
(* requests and receipts (api/src/services/validationStore.ts, behind      *)
(* routes/validation.ts) and the validator services that poll it           *)
(* (services/validator/src).                                               *)
(*                                                                         *)
(* setInterval starts a poll whether or not the last one ended, so polls   *)
(* of one validator overlap; only their awaits interleave.  The database   *)
(* of a validator is a copy in memory, written to disk whole.  Receipts    *)
(* carry the millisecond of their making in their id.                      *)
(*                                                                         *)
(* What a command prints, a test suite answers or a proof contains is an   *)
(* outcome the plugin turns into a verdict.  Hashes and URIs are left out. *)
(* A torn write of the database file is not modelled.                      *)
(* Scores follow from the verdicts, except the partial ones.  Bound: MaxNow. *)
(***************************************************************************)
EXTENDS Integers, Sequences, FiniteSets

CONSTANTS
  Validators,
  Requests,       \* ids the API draws
  Plugin,         \* of a request: deterministic, test-suite or tee_or_zk
  Expected,       \* number of expected output hashes of a request
  Polls, Owner,   \* polls that may be under way, and whose they are
  Page,           \* limit of the list of pending requests
  MaxNow

ASSUME ValidatorAssumption ==
  /\ Plugin \in [Requests -> {"deterministic", "test-suite", "tee_or_zk"}]
  /\ Expected \in [Requests -> Nat] /\ Owner \in [Polls -> Validators]
  /\ Page \in Nat \ {0} /\ MaxNow \in Nat

VARIABLES
  created,     \* the keys of requestStore, in insertion order
  status,      \* requestStore: request -> status, or "none"
  history,     \* receiptHistory: request -> receipts in order of arrival
  summary,     \* validatorStats
  db,          \* per validator: the database in memory and on disk
  poll,        \* per poll: where pollOnce is
  now

validatorVars == <<created, status, history, summary, db, poll, now>>

Idle == [pc |-> "idle"]

EmptyDb == [processed |-> {}, receipts |-> {}]

NoSummary == [total |-> 0, PASS |-> 0, FAIL |-> 0, PARTIAL |-> 0]

(***************************************************************************)
(* Plugins                                                                 *)
(***************************************************************************)
Verdicts == {"PASS", "FAIL", "PARTIAL"}

\* scoreFromMatches
scoreFromMatches(total, matched) ==
  CASE matched = total -> "PASS" [] matched = 0 -> "FAIL" [] OTHER -> "PARTIAL"

\* runCommand: the command ends, or is killed at its limit of time or output;
\* then there is no exit code.
runCommand == {"exit 0", "exit 1", "timed out", "too much output"}

\* deriveOutputs: with more than one expected hash the output is split, and
\* every value that is expected counts, also when it comes twice.
Matched(r) == 0 .. (IF Expected[r] > 1 THEN Expected[r] + 1 ELSE Expected[r])

deterministicVerdicts(r) ==
  LET total == IF Expected[r] = 0 THEN 1 ELSE Expected[r] IN
  {IF run = "exit 0" THEN scoreFromMatches(total, n) ELSE "FAIL" : run \in runCommand, n \in Matched(r)}

\* hashArtifacts of what the tests left, compared with the expected hash.
hashArtifacts == {"same", "different"}

testSuiteVerdicts ==
  {IF run = "exit 0" /\ artifacts = "same" THEN "PASS" ELSE "FAIL" :
     run \in runCommand, artifacts \in hashArtifacts}

\* A proof with the right hash and key is a stub's PARTIAL, never a PASS.
teeOrZkVerdicts ==
  {IF hashMatches /\ keyMatches THEN "PARTIAL" ELSE "FAIL" : hashMatches, keyMatches \in BOOLEAN}

\* resolvePlugin and the verdicts its verify can return.
runVerification(r) ==
  CASE Plugin[r] = "deterministic" -> deterministicVerdicts(r)
    [] Plugin[r] = "test-suite" -> testSuiteVerdicts
    [] Plugin[r] = "tee_or_zk" -> teeOrZkVerdicts

(***************************************************************************)
(* The API                                                                 *)
(***************************************************************************)
createValidationRequest(r) ==
  /\ status[r] = "none"
  /\ status' = [status EXCEPT ![r] = "PENDING"] /\ created' = Append(created, r)
  /\ UNCHANGED <<history, summary, db, poll, now>>

\* listValidationRequests("PENDING", limit): the places of the oldest in `created`.
PendingRequests ==
  LET pending == {i \in DOMAIN created : status[created[i]] = "PENDING"} IN
  {i \in pending : Cardinality({j \in pending : j < i}) < Page}

\* recordValidationReceipt: every receipt is kept, the last one decides.
recordValidationReceipt(c) ==
  /\ history' = [history EXCEPT ![c.request] = Append(@, c)]
  /\ summary' = [summary EXCEPT ![c.validator].total = @ + 1, ![c.validator][c.verdict] = @ + 1]
  /\ status' = [status EXCEPT ![c.request] = IF c.verdict = "FAIL" THEN "FAILED" ELSE "COMPLETED"]

(***************************************************************************)
(* pollOnce                                                                *)
(***************************************************************************)
\* The timer fires and the fetch is answered.
fetchPendingRequests(p) ==
  /\ poll[p] = Idle
  /\ PendingRequests # {}
  /\ poll' = [poll EXCEPT ![p] = [pc |-> "loop", queue |-> PendingRequests]]
  /\ UNCHANGED <<created, status, history, summary, db, now>>

M_isProcessed(v, r) == FALSE

isProcessed(v, r) == r \in db[v].mem.processed

\* The request a poll has come to.
First(queue) == created[CHOOSE i \in queue : \A j \in queue : i <= j]

\* The next request that is not processed is handed to its plugin.
nextRequest(p) ==
  /\ poll[p].pc = "loop"
  /\ LET left == {i \in poll[p].queue : ~isProcessed(Owner[p], created[i])} IN
     poll' = [poll EXCEPT ![p] =
       IF left = {} THEN Idle ELSE [pc |-> "verifying", queue |-> left]]
  /\ UNCHANGED <<created, status, history, summary, db, now>>

M_Persisted(d, r, id) ==
  [d EXCEPT !.mem.receipts = {e \in @ : e[1] # id} \union {<<id, r>>},
            !.mem.processed = @ \union {r}]

\* storeReceipt, markProcessed and persistDb, with no await between them.
Persisted(d, r, id) ==
  LET mem == [processed |-> d.mem.processed \union {r},
              receipts |-> {e \in d.mem.receipts : e[1] # id} \union {<<id, r>>}] IN
  [mem |-> mem, disk |-> mem]

\* The plugin answers: the receipt is built, kept, and posted.
verificationEnds(p) ==
  /\ poll[p].pc = "verifying"
  /\ LET v == Owner[p]
         r == First(poll[p].queue)
         id == <<r, now>> IN
     \E verdict \in runVerification(r) :
       /\ db' = [db EXCEPT ![v] = Persisted(@, r, id)]
       /\ poll' = [poll EXCEPT ![p] =
            [pc |-> "posting", queue |-> {i \in @.queue : created[i] # r},
             receipt |-> [id |-> id, request |-> r, verdict |-> verdict, validator |-> v]]]
  /\ UNCHANGED <<created, status, history, summary, now>>

\* verify throws (clone or spawn failed, proof not loaded), or the post is
\* refused or lost: the rest of the batch waits for another poll.
pollFails(p) ==
  /\ poll[p].pc \in {"verifying", "posting"}
  /\ poll' = [poll EXCEPT ![p] = Idle]
  /\ UNCHANGED <<created, status, history, summary, db, now>>

\* The API records the receipt; the answer arrives or is lost.
postReceipt(p) ==
  /\ poll[p].pc = "posting"
  /\ recordValidationReceipt(poll[p].receipt)
  /\ \/ poll' = [poll EXCEPT ![p] = [pc |-> "loop", queue |-> @.queue]]
     \/ poll' = [poll EXCEPT ![p] = Idle]
  /\ UNCHANGED <<created, db, now>>

\* The service restarts: initializeDb reads the file.
restartValidator(v) ==
  /\ poll' = [p \in Polls |-> IF Owner[p] = v THEN Idle ELSE poll[p]]
  /\ db' = [db EXCEPT ![v].mem = db[v].disk]
  /\ UNCHANGED <<created, status, history, summary, now>>

millisecond ==
  /\ now < MaxNow /\ now' = now + 1
  /\ UNCHANGED <<created, status, history, summary, db, poll>>

ValidatorInit ==
  /\ created = <<>> /\ status = [r \in Requests |-> "none"]
  /\ history = [r \in Requests |-> <<>>]
  /\ summary = [v \in Validators |-> NoSummary]
  /\ db = [v \in Validators |-> [mem |-> EmptyDb, disk |-> EmptyDb]]
  /\ poll = [p \in Polls |-> Idle]
  /\ now = 0

PollStep(p) ==
  \/ fetchPendingRequests(p) \/ nextRequest(p) \/ verificationEnds(p)
  \/ pollFails(p) \/ postReceipt(p)

ValidatorNext ==
  \/ \E r \in Requests : createValidationRequest(r)
  \/ \E p \in Polls : PollStep(p)
  \/ \E v \in Validators : restartValidator(v)
  \/ millisecond

-----------------------------------------------------------------------------
(***************************************************************************)
(* Properties                                                              *)
(***************************************************************************)
Received(v, verdict) ==
  {x \in UNION {{r} \X DOMAIN history[r] : r \in Requests} :
     history[x[1]][x[2]].validator = v /\ history[x[1]][x[2]].verdict = verdict}

\* A receipt the API holds can be fetched from the validator that issued it,
\* also after a restart: the receipt URI is backed by the file before the
\* receipt leaves the service.
ReceiptsResolve ==
  \A r \in Requests : \A i \in DOMAIN history[r] :
    LET c == history[r][i] IN <<c.id, r>> \in db[c.validator].mem.receipts

\* The status of a request is the verdict of its last receipt, and the
\* summaries of the validators count every receipt once: late receipts of
\* overlapping polls and lost answers change neither.
SummariesAddUp ==
  /\ \A r \in Requests : history[r] # <<>> =>
       (status[r] = "FAILED" <=> history[r][Len(history[r])].verdict = "FAIL")
  /\ \A v \in Validators :
       /\ \A verdict \in Verdicts : summary[v][verdict] = Cardinality(Received(v, verdict))
       /\ summary[v].total = summary[v].PASS + summary[v].FAIL + summary[v].PARTIAL

\* A request that is on disk as processed is never handed to a plugin again
\* by that validator, whatever polls overlap and however often it restarts.
NeverReverified ==
  [][\A p \in Polls :
       poll'[p].pc = "verifying" /\ poll[p].pc # "verifying" =>
         First(poll'[p].queue) \notin db[Owner[p]].disk.processed]_validatorVars

\* What the service keeps of a request is what its validators did: neither overlapping
\* polls nor a restart between two writes loses, invents or miscounts a receipt.
HistoryIsKept == ReceiptsResolve /\ SummariesAddUp
=============================================================================
