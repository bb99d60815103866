------------------------ MODULE VerificationPipeline ------------------------
(***************************************************************************)
(* The path of a verification request through the services written in      *)
(* TypeScript: the API (api/src/routes/v1/verify.ts, routes/verify.ts,     *)
(* services/blockchain.ts, jobQueue.ts, idempotency.ts) creates the task   *)
(* on the chain and queues a job; the workers of the Bull queue, the       *)
(* verifier nodes (verifier-node/src/services/jobProcessor.ts) and the     *)
(* API process itself, take it; a node commits its evaluation and reveals  *)
(* it when a timer fires.                                                  *)
(*                                                                         *)
(* Every await is a place where another process runs, where the call fails *)
(* and where the process crashes, so a handler is one action per await.    *)
(* What survives what: the chain and the queue (Redis) survive a crash;    *)
(* the idempotency map, the requests in flight, the node's commitStore and *)
(* its timers do not; the evidence files of a node do.                     *)
(*                                                                         *)
(* Abstracted: prompts, models and scores (a run of the processor draws a  *)
(* fresh salt, so the number of the run stands for salt, score and bundle  *)
(* together), logs, metrics and traces.  Bounds: MaxTasks, MaxClock and    *)
(* MaxFaults, the number of crashes, lost confirmations, failed writes and *)
(* stalls.                                                                 *)
(***************************************************************************)
EXTENDS Integers, FiniteSets

CONSTANTS
  Requests,      \* HTTP requests that clients send
  Keys,          \* idempotency keys
  KeyOf,         \* the key of a request to /v1/verify, or NoKey
  NoKey,
  Nodes,         \* verifier nodes, each with a wallet of its own
  Api,           \* the API process, which is also a worker of the queue
  NoOne,
  CommitSpans,   \* commit windows a client may ask for
  RevealSpan,    \* length of the reveal window
  RevealDelay,   \* REVEAL_DELAY_MS
  Retention,     \* RETENTION_DAYS
  MaxEvals,      \* MAX_EVALS
  StoresEvidence, \* store_evidence, or not HASHED_ONLY_DEFAULT
  Attempts,      \* attempts of a Bull job
  MaxStalls,     \* maxStalledCount of a Bull queue
  MaxTasks, MaxClock, MaxFaults

ASSUME PipelineAssumption ==
  /\ KeyOf \in [Requests -> Keys \union {NoKey}]
  /\ NoKey \notin Keys
  /\ Api \notin Nodes /\ NoOne \notin Nodes \union {Api}
  /\ CommitSpans \subseteq Nat \ {0}
  /\ RevealSpan \in Nat \ {0} /\ RevealDelay \in Nat /\ Retention \in Nat
  /\ StoresEvidence \in BOOLEAN
  /\ MaxEvals \in Nat \ {0} /\ Attempts \in Nat \ {0} /\ MaxStalls \in Nat
  /\ MaxTasks \in Nat /\ MaxClock \in Nat /\ MaxFaults \in Nat

VARIABLES
  clock,
  faults,
  request,    \* per request: where its handler is, its task and its answer
  idem,       \* the idempotency map: key -> task of the stored response
  chain,      \* the tasks of the marketplace
  job,        \* the Bull job of each task
  work,       \* what the processor of each node is doing
  store,      \* commitStore of each node: task -> the run whose salt it holds
  timer,      \* pending reveal timers of each node: task -> due time
  evidence    \* evidence files of each node: <<task, run, stored_at>>

vars == <<clock, faults, request, idem, chain, job, work, store, timer, evidence>>

apiVars == <<request, idem>>

nodeVars == <<work, store, timer, evidence>>

Workers == Nodes \union {Api}

Tasks == 1 .. MaxTasks

NoTask == 0

Runs == 1 .. Attempts + MaxStalls

NoRun == 0

NoTimer == -1

Created == {t \in Tasks : chain[t].state # "absent"}

(***************************************************************************)
(* The API process                                                         *)
(***************************************************************************)

\* request.status is the HTTP code of the answer, 0 while there is none.
IdleRequest == [pc |-> "idle", route |-> "none", task |-> NoTask, status |-> 0]

Answer(r, code, t) ==
  request' = [request EXCEPT ![r] = [@ EXCEPT !.pc = "done", !.task = t, !.status = code]]

At(r, step) ==
  request[r].pc = step

Fault == faults < MaxFaults /\ faults' = faults + 1

\* getIdempotencyRecord: the lookup is by key alone, whatever the payload.
StoredResponse(r) == IF KeyOf[r] \in Keys THEN idem[KeyOf[r]] ELSE NoTask

Refused(r, path) ==
  request' = [request EXCEPT ![r] = [pc |-> "done", route |-> path, task |-> NoTask, status |-> 400]]

Admitted(r, path) ==
  request' = [request EXCEPT ![r].pc = "submitting", ![r].route = path]

\* POST /v1/verify up to its first await: validation, then the idempotency
\* map, then the required fields and the program.
postV1Verify(r) ==
  /\ At(r, "idle")
  /\ \/ Refused(r, "v1")
     \/ /\ StoredResponse(r) # NoTask
        /\ request' = [request EXCEPT ![r] = [pc |-> "done", route |-> "v1",
                                              task |-> StoredResponse(r), status |-> 200]]
     \/ StoredResponse(r) = NoTask /\ Admitted(r, "v1")
  /\ UNCHANGED <<clock, faults, idem, chain, job, nodeVars>>

\* POST /api/verify up to its first await; there is no idempotency key.
postVerify(r) ==
  /\ At(r, "idle")
  /\ Refused(r, "legacy") \/ Admitted(r, "legacy")
  /\ UNCHANGED <<clock, faults, idem, chain, job, nodeVars>>

\* createTask of the marketplace, as far as the pipeline can tell: nextTaskId
\* grows, and the deadlines are those that time.ts resolved.  createdAt is the
\* time of the block, which nothing in the code reads.
createTask(t, span) ==
  /\ t = Cardinality(Created) + 1 /\ t \in Tasks
  /\ chain' = [chain EXCEPT ![t] =
       [@ EXCEPT !.state = "open", !.createdAt = clock, !.commitDeadline = clock + span,
                 !.revealDeadline = clock + span + RevealSpan]]

\* submitVerificationJob: the transaction is mined and confirmed, or mined
\* and its confirmation lost, or never mined.  The last two throw: 500.
submitVerificationJob(r) ==
  /\ At(r, "submitting")
  /\ \/ \E t \in Tasks, span \in CommitSpans :
          /\ createTask(t, span)
          /\ \/ /\ request' = [request EXCEPT ![r].pc = "queueing", ![r].task = t]
                /\ UNCHANGED faults
             \/ Fault /\ Answer(r, 500, NoTask)
     \/ Fault /\ Answer(r, 500, NoTask) /\ UNCHANGED chain
  /\ UNCHANGED <<clock, idem, job, nodeVars>>

NewJob == [state |-> "waiting", worker |-> NoOne, attempts |-> 0, runs |-> 0,
           stalls |-> 0, result |-> "none"]

M_queueVerificationJob(r) ==
  /\ At(r, "queueing")
  /\ request' = [request EXCEPT ![r].pc = "tracing"]
  /\ \/ job' = [job EXCEPT ![request[r].task] = NewJob] /\ UNCHANGED faults
     \/ Fault /\ UNCHANGED job
  /\ UNCHANGED <<clock, idem, chain, nodeVars>>

\* queueVerificationJob: verificationQueue.add, then getWaitingCount, which
\* can throw when the job is already queued.
queueVerificationJob(r) ==
  /\ At(r, "queueing")
  /\ \/ /\ job' = [job EXCEPT ![request[r].task] = NewJob]
        /\ \/ request' = [request EXCEPT ![r].pc = "tracing"] /\ UNCHANGED faults
           \/ Fault /\ Answer(r, 500, NoTask)
     \/ Fault /\ Answer(r, 500, NoTask) /\ UNCHANGED job
  /\ UNCHANGED <<clock, idem, chain, nodeVars>>

\* The end of POST /v1/verify: storeDebugTrace, then the response is recorded
\* under the key and sent.  Recording does not ask whether another request
\* with the key was faster.
answerV1(r) ==
  /\ At(r, "tracing") /\ request[r].route = "v1"
  /\ \/ /\ Answer(r, 201, request[r].task)
        /\ idem' = IF KeyOf[r] \in Keys
                   THEN [idem EXCEPT ![KeyOf[r]] = request[r].task] ELSE idem
        /\ UNCHANGED faults
     \/ Fault /\ Answer(r, 500, NoTask) /\ UNCHANGED idem
  /\ UNCHANGED <<clock, chain, job, nodeVars>>

\* The end of POST /api/verify.
answerLegacy(r) ==
  /\ At(r, "tracing") /\ request[r].route = "legacy"
  /\ \/ Answer(r, 201, request[r].task) /\ UNCHANGED faults
     \/ Fault /\ Answer(r, 500, NoTask)
  /\ UNCHANGED <<clock, idem, chain, job, nodeVars>>

\* The API process dies: requests in flight get no answer (status 502 of the
\* proxy in front) and the idempotency map is lost.
ApiCrash ==
  /\ Fault
  /\ request' = [r \in Requests |->
       IF request[r].pc \in {"idle", "done"} THEN request[r]
       ELSE [request[r] EXCEPT !.pc = "done", !.task = NoTask, !.status = 502]]
  /\ idem' = [k \in Keys |-> NoTask]
  /\ UNCHANGED <<clock, chain, job, nodeVars>>

(***************************************************************************)
(* The Bull queue (a library: modelled from how the code uses it)          *)
(***************************************************************************)
TakenBy(t, w) ==
  [job[t] EXCEPT !.state = "active", !.worker = w, !.runs = @ + 1]

\* Only the worker that holds the lock of this run moves the job on; what a
\* worker that lost its lock returns or throws is dropped.
Holds(n, t) ==
  /\ n \in Nodes /\ job[t].state = "active" /\ job[t].worker = n
  /\ work[n].task = t /\ work[n].run = job[t].runs

CompletedAs(n, t, res) ==
  IF Holds(n, t)
  THEN [job EXCEPT ![t] = [@ EXCEPT !.state = "completed", !.worker = NoOne, !.result = res]]
  ELSE job

\* A handler that throws: attempts: 3 with a backoff, then the job fails.
FailedBy(n, t) ==
  IF Holds(n, t)
  THEN [job EXCEPT ![t] = [@ EXCEPT !.worker = NoOne, !.attempts = job[t].attempts + 1,
          !.state = IF job[t].attempts + 1 < Attempts THEN "delayed" ELSE "failed"]]
  ELSE job

M_BackoffEnds(t) ==
  /\ job[t].state \in {"delayed", "failed"}
  /\ job' = [job EXCEPT ![t].state = "waiting"]
  /\ UNCHANGED <<clock, faults, apiVars, chain, nodeVars>>

\* The backoff of a retry is over.
BackoffEnds(t) ==
  /\ job[t].state = "delayed"
  /\ job' = [job EXCEPT ![t].state = "waiting"]
  /\ UNCHANGED <<clock, faults, apiVars, chain, nodeVars>>

\* The lock of a job was not renewed, because its worker died or because its
\* event loop was busy: the job is given to another worker while the first
\* may still be running it.  A job that stalls too often fails.
Stall(t) ==
  /\ job[t].state = "active"
  /\ job' = [job EXCEPT ![t] = [@ EXCEPT !.worker = NoOne, !.stalls = job[t].stalls + 1,
       !.state = IF job[t].stalls < MaxStalls THEN "waiting" ELSE "failed"]]
  /\ UNCHANGED <<clock, apiVars, chain, nodeVars>>

M_StallFound(t) ==
  /\ job[t].worker \in Nodes /\ work[job[t].worker].task = t
  /\ ~Holds(job[t].worker, t) /\ Stall(t) /\ UNCHANGED faults

StallFound(t) ==
  ~Holds(job[t].worker, t) /\ Stall(t) /\ UNCHANGED faults

BusyTooLong(t) ==
  Holds(job[t].worker, t) /\ Stall(t) /\ Fault

\* verificationQueue.process in the API: a placeholder that completes the job
\* without evaluating anything.
apiProcess(t) ==
  /\ job[t].state = "waiting"
  /\ job' = [job EXCEPT ![t] = [TakenBy(t, NoOne) EXCEPT !.state = "completed",
                                                         !.result = "queued"]]
  /\ UNCHANGED <<clock, faults, apiVars, chain, nodeVars>>

(***************************************************************************)
(* A verifier node                                                         *)
(***************************************************************************)
Free == [pc |-> "free", task |-> NoTask, run |-> NoRun]

\* A process takes one job at a time (concurrency 1 of process).
takeJob(n, t) ==
  /\ work[n].pc = "free" /\ job[t].state = "waiting"
  /\ job' = [job EXCEPT ![t] = TakenBy(t, n)]
  /\ work' = [work EXCEPT ![n] = [pc |-> "evaluating", task |-> t, run |-> job[t].runs + 1]]
  /\ UNCHANGED <<clock, faults, apiVars, chain, store, timer, evidence>>

\* Querying the models and scoring: it goes on or throws (no quorum).
QueryStage == {"ok", "throw"}

\* Building, validating and storing the evidence: an invalid bundle, a
\* missing output hash or chain id ends the handler with a bare return;
\* failing to store it throws.
BundleStage == {"ok", "return", "throw"}

\* Running the program: its failure ends the handler with a bare return.
ProgramStage == {"ok", "return"}


\* The handler of 'verify' ends before committing: by throwing, or by a bare
\* return, which completes the job although nothing was evaluated.
Stop(n, outcome, kept) ==
  /\ job' = IF outcome = "throw" THEN FailedBy(n, work[n].task)
            ELSE CompletedAs(n, work[n].task, "skipped")
  /\ work' = [work EXCEPT ![n] = Free]
  /\ evidence' = [evidence EXCEPT ![n] = @ \union kept]
  /\ UNCHANGED store

\* storeEncryptedEvidenceBundle writes a file that carries its time.
EvidenceFile(n) ==
  IF StoresEvidence THEN {<<work[n].task, work[n].run, clock>>} ELSE {}

\* A new salt and commitment hash; commitStore.set overwrites what an earlier
\* run of this node left there.
prepareCommit(n) ==
  /\ work' = [work EXCEPT ![n].pc = "sealing"]
  /\ store' = [store EXCEPT ![n][work[n].task] = work[n].run]

\* The stages in order.  A missing output hash or chain id is noticed after
\* the evidence is stored, an invalid bundle before.
evaluate(n) ==
  /\ work[n].pc = "evaluating"
  /\ \/ \E q \in QueryStage \ {"ok"} : Stop(n, q, {})
     \/ \E b \in BundleStage \ {"ok"} : Stop(n, b, {})
     \/ \E p \in ProgramStage \ {"ok"} : Stop(n, p, EvidenceFile(n))
     \/ /\ prepareCommit(n)
        /\ evidence' = [evidence EXCEPT ![n] = @ \union EvidenceFile(n)]
        /\ UNCHANGED job
  /\ UNCHANGED <<clock, faults, apiVars, chain, timer>>

\* commitEvaluation of the marketplace accepts: the task is open, the commit
\* window too, there is room, and this wallet has not committed.
CommitAccepted(n, t) ==
  /\ chain[t].state = "open"
  /\ clock <= chain[t].commitDeadline
  /\ chain[t].seal[n] = NoRun
  /\ Cardinality({m \in Nodes : chain[t].seal[m] # NoRun}) < MaxEvals

Sealed(n, t) ==
  LET seal == [chain[t].seal EXCEPT ![n] = work[n].run] IN
  [chain EXCEPT ![t].seal = seal,
     ![t].state = IF Cardinality({m \in Nodes : seal[m] # NoRun}) = MaxEvals
                  THEN "reveal" ELSE @]

M_commitEvaluation(n) ==
  /\ work[n].pc = "sealing"
  /\ chain' = IF CommitAccepted(n, work[n].task) THEN Sealed(n, work[n].task) ELSE chain
  /\ work' = [work EXCEPT ![n].pc = "confirming"]
  /\ UNCHANGED <<clock, faults, apiVars, job, store, timer, evidence>>

\* commitEvaluation of the node sends the transaction; it is mined, or it
\* reverts (or is never mined) and the handler throws.
commitEvaluation(n) ==
  /\ work[n].pc = "sealing"
  /\ \/ /\ CommitAccepted(n, work[n].task)
        /\ chain' = Sealed(n, work[n].task)
        /\ work' = [work EXCEPT ![n].pc = "confirming"]
        /\ UNCHANGED <<job, faults>>
     \/ /\ \/ ~CommitAccepted(n, work[n].task) /\ UNCHANGED faults
           \/ CommitAccepted(n, work[n].task) /\ Fault
        /\ job' = FailedBy(n, work[n].task)
        /\ work' = [work EXCEPT ![n] = Free]
        /\ UNCHANGED chain
  /\ UNCHANGED <<clock, apiVars, store, timer, evidence>>

\* tx.wait() returns: the reveal is scheduled a fixed delay from now and the
\* job completes.  When it throws although the commitment is mined, the job
\* fails and nothing is scheduled.
scheduleReveal(n) ==
  /\ work[n].pc = "confirming"
  /\ \/ /\ job' = CompletedAs(n, work[n].task, "sealed")
        /\ timer' = [timer EXCEPT ![n][work[n].task] = clock + RevealDelay]
        /\ UNCHANGED faults
     \/ /\ Fault
        /\ job' = FailedBy(n, work[n].task)
        /\ UNCHANGED timer
  /\ work' = [work EXCEPT ![n] = Free]
  /\ UNCHANGED <<clock, apiVars, chain, store, evidence>>

\* revealEvaluation of the marketplace accepts.
RevealAccepted(n, t) ==
  /\ chain[t].state = "reveal"
  /\ clock <= chain[t].revealDeadline
  /\ chain[t].seal[n] # NoRun /\ n \notin chain[t].opened
  /\ chain[t].seal[n] = store[n][t]

\* The timer fires, once.  A reveal that is rejected, or sent too early, is
\* logged and never sent again; commitStore keeps its entry then.
revealEvaluationForJob(n, t) ==
  /\ timer[n][t] # NoTimer /\ clock >= timer[n][t]
  /\ timer' = [timer EXCEPT ![n][t] = NoTimer]
  /\ \/ /\ store[n][t] # NoRun /\ RevealAccepted(n, t)
        /\ chain' = [chain EXCEPT ![t].opened = @ \union {n}]
        /\ \/ store' = [store EXCEPT ![n][t] = NoRun] /\ UNCHANGED faults
           \/ Fault /\ UNCHANGED store
     \/ /\ store[n][t] = NoRun \/ ~RevealAccepted(n, t)
        /\ UNCHANGED <<chain, store, faults>>
  /\ UNCHANGED <<clock, apiVars, job, work, evidence>>

M_purgeEncryptedEvidence(n) ==
  /\ \E f \in evidence[n] : clock - f[3] > 0
  /\ evidence' = [evidence EXCEPT ![n] = {}]
  /\ UNCHANGED <<clock, faults, apiVars, chain, job, work, store, timer>>

\* The retention job of index.ts: it looks at the age of a file only.
purgeEncryptedEvidence(n) ==
  /\ \E f \in evidence[n] : clock - f[3] > Retention
  /\ evidence' = [evidence EXCEPT ![n] = {f \in @ : clock - f[3] <= Retention}]
  /\ UNCHANGED <<clock, faults, apiVars, chain, job, work, store, timer>>

\* The node dies and is started again by main().
NodeCrash(n) ==
  /\ Fault
  /\ work' = [work EXCEPT ![n] = Free]
  /\ store' = [store EXCEPT ![n] = [t \in Tasks |-> NoRun]]
  /\ timer' = [timer EXCEPT ![n] = [t \in Tasks |-> NoTimer]]
  /\ UNCHANGED <<clock, apiVars, chain, job, evidence>>

(***************************************************************************)
(* The rest of the world                                                   *)
(***************************************************************************)

\* openReveal of the marketplace: anyone may call it; no service does.
openReveal(t) ==
  /\ chain[t].state = "open" /\ clock > chain[t].commitDeadline
  /\ chain' = [chain EXCEPT ![t].state = "reveal"]
  /\ UNCHANGED <<clock, faults, apiVars, job, nodeVars>>

Tick ==
  /\ clock < MaxClock /\ clock' = clock + 1
  /\ UNCHANGED <<faults, apiVars, chain, job, nodeVars>>

PipelineInit ==
  /\ clock = 0 /\ faults = 0
  /\ request = [r \in Requests |-> IdleRequest]
  /\ idem = [k \in Keys |-> NoTask]
  /\ chain = [t \in Tasks |-> [state |-> "absent", createdAt |-> 0, commitDeadline |-> 0,
       revealDeadline |-> 0, seal |-> [n \in Nodes |-> NoRun], opened |-> {}]]
  /\ job = [t \in Tasks |-> [NewJob EXCEPT !.state = "absent"]]
  /\ work = [n \in Nodes |-> Free]
  /\ store = [n \in Nodes |-> [t \in Tasks |-> NoRun]]
  /\ timer = [n \in Nodes |-> [t \in Tasks |-> NoTimer]]
  /\ evidence = [n \in Nodes |-> {}]

ApiStep(r) ==
  \/ submitVerificationJob(r) \/ queueVerificationJob(r)
  \/ answerV1(r) \/ answerLegacy(r)

NodeStep(n) ==
  evaluate(n) \/ commitEvaluation(n) \/ scheduleReveal(n)

QueueStep(t) ==
  BackoffEnds(t) \/ StallFound(t) \/ BusyTooLong(t)

PipelineNext ==
  \/ \E r \in Requests : postV1Verify(r) \/ postVerify(r) \/ ApiStep(r)
  \/ ApiCrash
  \/ \E t \in Tasks : QueueStep(t) \/ apiProcess(t) \/ openReveal(t)
  \/ \E n \in Nodes, t \in Tasks : takeJob(n, t) \/ revealEvaluationForJob(n, t)
  \/ \E n \in Nodes : NodeStep(n) \/ NodeCrash(n) \/ purgeEncryptedEvidence(n)
  \/ Tick

PipelineSpec == PipelineInit /\ [][PipelineNext]_vars

\* The processes are scheduled and the transactions of the chain are mined;
\* BackoffEnds and the stall check are timers of Bull.  Crashes are not fair,
\* and neither is the clock: nothing here waits for a deadline.
PipelineFairness ==
  /\ \A r \in Requests : WF_vars(ApiStep(r))
  /\ \A n \in Nodes : WF_vars(NodeStep(n))
  /\ \A t \in Tasks : WF_vars(BackoffEnds(t)) /\ WF_vars(apiProcess(t))
  /\ \A t \in Tasks : WF_vars(StallFound(t))

PipelineFairSpec == PipelineSpec /\ PipelineFairness

-----------------------------------------------------------------------------
(***************************************************************************)
(* Properties                                                              *)
(***************************************************************************)

PipelineTypeOK ==
  /\ clock \in 0 .. MaxClock /\ faults \in 0 .. MaxFaults
  /\ request \in [Requests -> [pc : {"idle", "submitting", "queueing", "tracing", "done"},
       route : {"none", "v1", "legacy"}, task : Tasks \union {NoTask}, status : {0, 200, 201, 400, 500, 502}]]
  /\ idem \in [Keys -> Tasks \union {NoTask}]
  /\ chain \in [Tasks -> [state : {"absent", "open", "reveal"}, createdAt : Nat, commitDeadline : Nat,
       revealDeadline : Nat, seal : [Nodes -> Runs \union {NoRun}], opened : SUBSET Nodes]]
  /\ job \in [Tasks -> [state : {"absent", "waiting", "active", "delayed", "completed", "failed"},
       worker : Nodes \union {NoOne}, attempts : 0 .. Attempts, runs : Runs \union {NoRun},
       stalls : 0 .. MaxStalls + 1, result : {"none", "queued", "skipped", "sealed"}]]
  /\ work \in [Nodes -> [pc : {"free", "evaluating", "sealing", "confirming"},
       task : Tasks \union {NoTask}, run : Runs \union {NoRun}]]
  /\ store \in [Nodes -> [Tasks -> Runs \union {NoRun}]]
  /\ timer \in [Nodes -> [Tasks -> Nat \union {NoTimer}]]
  /\ evidence \in [Nodes -> SUBSET (Tasks \X Runs \X (0 .. MaxClock))]

\* A request that was answered with a task has the task on the chain and its
\* job in the queue, whatever failed for other requests with the same key.
AnswersAreQueued ==
  \A r \in Requests : request[r].status \in {200, 201} =>
    /\ request[r].task \in Created
    /\ job[request[r].task].state # "absent"

\* A replayed answer (200), and every stored response, repeats an answer that
\* was given to a request with the same key: the map is written together with
\* the answer, so a key never leads to the task of somebody else.
ReplaysRepeatAnAnswer ==
  \A k \in Keys, t \in Tasks :
    \/ idem[k] = t
    \/ \E r \in Requests : KeyOf[r] = k /\ request[r].status = 200 /\ request[r].task = t
    => \E r \in Requests : KeyOf[r] = k /\ request[r].status = 201 /\ request[r].task = t

\* An answer once given stays true, and is the one a retry gets.
AnswersAreKept == PipelineTypeOK /\ AnswersAreQueued /\ ReplaysRepeatAnAnswer

\* A job that completed as sealed left a commitment on the chain, and a reveal
\* is pending only for a commitment that is mined and not yet opened: the
\* handler schedules the reveal after the confirmation.
SealedJobsAreOnChain ==
  /\ \A t \in Tasks : job[t].result = "sealed" => \E n \in Nodes : chain[t].seal[n] # NoRun
  /\ \A n \in Nodes, t \in Tasks : timer[n][t] # NoTimer =>
       chain[t].seal[n] # NoRun /\ n \notin chain[t].opened

\* The evidence behind a commitment on the chain is retained for RETENTION_DAYS
\* from the creation of its task on, whichever run of a job that was retried,
\* stalled or restarted it is of, and whatever windows the client chose.  It is
\* there up to the last reveal when the windows are no longer than that, and
\* nothing keeps it longer when they are, or when there is a dispute.
EvidenceIsRetained ==
  StoresEvidence => \A t \in Tasks, n \in Nodes :
    chain[t].seal[n] # NoRun /\ clock <= chain[t].createdAt + Retention =>
      \E f \in evidence[n] : f[1] = t /\ f[2] = chain[t].seal[n]

\* Requests that share keys create at most one task per key: what docs/api.md
\* says of retrying with an Idempotency-Key.
OneTaskPerKey ==
  (\A r \in Requests : KeyOf[r] \in Keys /\ request[r].route # "legacy") =>
    Cardinality(Created) <= Cardinality({KeyOf[r] : r \in Requests})

\* Every queued job is completed or failed in the end: attempts and stalls are
\* bounded, and neither a crash nor a bare return leaves a job active.
JobsSettle ==
  \A t \in Tasks : job[t].state = "waiting" ~> job[t].state \in {"completed", "failed"}

(***************************************************************************)
(* Refinement: the pipeline implements TaskLifecycle                       *)
(***************************************************************************)
StageOf(t) ==
  CASE chain[t].state = "absent" -> "absent"
    [] chain[t].state # "absent" /\ job[t].state = "absent" -> "created"
    [] job[t].state \in {"waiting", "active", "delayed"} -> "queued"
    [] job[t].state \in {"completed", "failed"} -> "settled"

Lifecycle == INSTANCE TaskLifecycle WITH
  stage <- [t \in Tasks |-> StageOf(t)],
  sealed <- [t \in Tasks |-> {n \in Nodes : chain[t].seal[n] # NoRun}],
  closed <- {t \in Tasks : chain[t].state = "reveal"},
  opened <- [t \in Tasks |-> chain[t].opened]

\* Seen through the mapping, every step of the pipeline is a step of the
\* lifecycle or none: a stalled job that two workers run, a retry after a lost
\* confirmation or a crash never reopens, repeats or skips a stage.
ImplementsLifecycle == Lifecycle!LifecycleSpec
=============================================================================
